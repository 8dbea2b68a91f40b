----------------------------- MODULE GenericLogic -----------------------------
(***************************************************************************)
(* The position of a user: what the tokens of every reserve say the user    *)
(* holds and owes, the user's configuration bits, and what                  *)
(* libraries/logic/GenericLogic.sol computes from them at the oracle's       *)
(* prices. Every operation of the pool that may put a position at risk asks   *)
(* these definitions.                                                        *)
(*                                                                         *)
(* A reserve is seen through its two normalized indices: what one scaled     *)
(* aToken and one scaled variable debt token are worth at the current block.  *)
(* How the indices grow is not this module's business.                        *)
(***************************************************************************)
EXTENDS ProtocolMath, FiniteSetsExt

CONSTANTS
    Users,          \* the accounts that call the pool
    Reserves,       \* the assets that are listed
    Unit,           \* Unit[r] = 10 ** decimals of r, one whole token
    MaxUint         \* type(uint256).max, above every amount of the instance

ASSUME UsersAssumption == IsFiniteSet(Users)
\* The pool lists at most _maxNumberOfReserves (128) assets.
ASSUME ReservesAssumption == IsFiniteSet(Reserves)
ASSUME UnitAssumption == Unit \in [Reserves -> Nat \ {0}]
ASSUME MaxUintAssumption == MaxUint \in Nat /\ MaxUint >= WAD

VARIABLES
    price,              \* the oracle's price of one whole token, in the base currency
    config,             \* ReserveData.configuration, unpacked
    income,             \* getReserveNormalizedIncome, in rays
    debtIndex,          \* getReserveNormalizedVariableDebt, in rays
    aBal,               \* scaled aToken balances
    vBal,               \* scaled variable debt balances
    sBal,               \* stable debt, interest included
    usingAsCollateral,  \* the collateral bits of the user configurations
    borrowing           \* the borrowing bits of the user configurations

Configuration ==
    [ltv : 0 .. PERCENTAGE_FACTOR, liquidationThreshold : 0 .. PERCENTAGE_FACTOR,
     liquidationBonus : Nat, active : BOOLEAN, frozen : BOOLEAN,
     borrowingEnabled : BOOLEAN, stableEnabled : BOOLEAN]

\* AToken.balanceOf, VariableDebtToken.balanceOf, StableDebtToken.balanceOf.
BalanceOf(u, r) == RayMul(aBal[u][r], income[r])
VariableDebt(u, r) == RayMul(vBal[u][r], debtIndex[r])
StableDebt(u, r) == sBal[u][r]
TotalDebt(u, r) == StableDebt(u, r) + VariableDebt(u, r)

\* The value of an amount of r, rounded down.
InETH(r, amount) == (price[r] * amount) \div Unit[r]

-----------------------------------------------------------------------------
HealthFactor(collateral, debt, threshold) ==
    IF debt = 0
    THEN MaxUint
    ELSE WadDiv(PercentMul(collateral, threshold), debt)

\* The reserves that count as collateral of u: enabled by u, and not listed with a
\* threshold of zero.
CollateralOf(u) ==
    {r \in usingAsCollateral[u] : config[r].liquidationThreshold # 0}

\* calculateUserAccountData for the scaled aToken balances `scaled` of u: inside a
\* transfer they are already the new ones while every other part is still the old one.
\* Only the reserves flagged in the user configuration are looked at.
AccountData(u, scaled) ==
    LET value   == [r \in Reserves |-> InETH(r, RayMul(scaled[r], income[r]))]
        owed    == [r \in Reserves |-> InETH(r, TotalDebt(u, r))]
        total   == SumFunctionOnSet(value, CollateralOf(u))
        Avg(f)  == IF total > 0
                   THEN SumFunctionOnSet([r \in Reserves |-> value[r] * f[r]], CollateralOf(u))
                            \div total
                   ELSE 0
        debt    == SumFunctionOnSet(owed, borrowing[u])
        average == Avg([r \in Reserves |-> config[r].liquidationThreshold])
    IN  [collateral |-> total,
         debt       |-> debt,
         ltv        |-> Avg([r \in Reserves |-> config[r].ltv]),
         threshold  |-> average,
         hf         |-> HealthFactor(total, debt, average)]

Account(u) == AccountData(u, aBal[u])

\* Whether u may give up `amount` of r as collateral. The subtractions are SafeMath's:
\* a negative result reverts, which is a refusal too.
BalanceDecreaseAllowed(u, r, amount) ==
    LET d         == Account(u)
        threshold == config[r].liquidationThreshold
        decrease  == InETH(r, amount)
        left      == d.collateral - decrease
        weighted  == d.collateral * d.threshold - decrease * threshold
    IN  \/ borrowing[u] = {}
        \/ r \notin usingAsCollateral[u]
        \/ threshold = 0
        \/ d.debt = 0
        \/ /\ left > 0
           /\ weighted >= 0
           /\ HealthFactor(left, d.debt, weighted \div left) >= WAD
==============================================================================
