-------------------------------- MODULE Reserve --------------------------------
(***************************************************************************)
(* One reserve with its interest: ReserveLogic.sol, the stable debt token and *)
(* the interest rate strategy under the operations of LendingPool.sol and       *)
(* LendingPoolCollateralManager.sol that move its liquidity or its debt.         *)
(*                                                                         *)
(* LendingPool.tla says who may do what to whose position, over several         *)
(* reserves whose interest is arbitrary. Here it is the other way round: the      *)
(* interest is computed as the code computes it, and who may act is left to        *)
(* LendingPool.tla. The reserve is active, not frozen and not paused, its           *)
(* deposits are one pot whoever owns them, and the users have collateral             *)
(* elsewhere.                                                                        *)
(*                                                                         *)
(* A flash loan is the one transaction that is not a single step: between the   *)
(* payout and the repayment the receiver calls the pool as it likes, so it is a   *)
(* step that begins and a step that ends, and time stands still in between.        *)
(***************************************************************************)
EXTENDS StableDebtToken, FiniteSetsExt, Functions

CONSTANTS
    Amounts,            \* the amounts callers pass
    MaxUint,            \* type(uint256).max, above every debt of the instance
    Delays,             \* the seconds that may pass at once
    ReserveFactors,     \* the reserve factors the configurator may set
    PaidOut,            \* whether a liquidation may pay out collateral of this reserve, FALSE
                        \* or either
    LiquidationBonus,   \* the reserve's, in basis points
    DepositCap,         \* bound: tokens deposited at the same time
    MaxTime,            \* bound: the latest time
    MaxSteps,           \* bound: the number of transactions
    MAX_STABLE_RATE_BORROW_SIZE_PERCENT,    \* 2500 in the code
    REBALANCE_UP_USAGE_RATIO_THRESHOLD,     \* 95%, in rays
    REBALANCE_UP_LIQUIDITY_RATE_THRESHOLD   \* 4000 in the code

ASSUME UsersAssumption == IsFiniteSet(Users)
ASSUME AmountsAssumption ==
    Amounts \subseteq Nat \ {0} /\ MaxUint \in Nat /\ Delays \subseteq Nat \ {0}
ASSUME LiquidationAssumption ==
    PaidOut \subseteq BOOLEAN /\ LiquidationBonus \in Nat /\ LiquidationBonus > PERCENTAGE_FACTOR
ASSUME ReserveFactorsAssumption ==
    ReserveFactors \subseteq 0 .. PERCENTAGE_FACTOR /\ ReserveFactors # {}

VARIABLES
    now,                    \* block.timestamp
    cash,                   \* underlying held by the aToken
    aSupply,                \* scaled supply of the aToken
    vBal,                   \* scaled variable debt of each user
    token,                  \* the stable debt token, see StableDebtToken
    liquidityIndex,
    variableBorrowIndex,
    rates,                  \* the current liquidity, stable and variable borrow rates
    lastUpdate,             \* lastUpdateTimestamp
    reserveFactor,
    flash,                  \* the amount of the flash loan in progress, or 0
    ratedFactor,            \* history: the reserve factor of the current rates
    steps                   \* history: how many steps were taken

indexVars == <<liquidityIndex, variableBorrowIndex, rates, lastUpdate>>
vars == <<now, cash, aSupply, vBal, token, indexVars, reserveFactor, flash,
          ratedFactor, steps>>

Modes == {"stable", "variable"}
LIQUIDATION_CLOSE_FACTOR_PERCENT == 5000

Elapsed == now - lastUpdate
VSupply == SumFunction(vBal)

NormalizedIncome == RayMul(LinearInterest(rates.liquidity, Elapsed), liquidityIndex)
NormalizedDebt   == RayMul(CompoundedInterest(rates.variable, Elapsed), variableBorrowIndex)

StableDebt(u)   == StableBalanceOf(token, u, now)
VariableDebt(u) == RayMul(vBal[u], NormalizedDebt)
DebtOf(u, mode) == IF mode = "stable" THEN StableDebt(u) ELSE VariableDebt(u)

-----------------------------------------------------------------------------
(***************************************************************************)
(* ReserveLogic.updateState: the indices first, then the treasury's share of  *)
(* the interest that was accrued since the last update.                       *)
(***************************************************************************)
NewLiquidityIndex == IF rates.liquidity > 0 THEN NormalizedIncome ELSE liquidityIndex

\* A slip: the interest that is stored is not the one that is read.
VariableBorrowIndexLinear ==
    IF rates.liquidity > 0 /\ VSupply # 0
    THEN RayMul(LinearInterest(rates.variable, Elapsed), variableBorrowIndex)
    ELSE variableBorrowIndex

NewVariableBorrowIndex ==
    IF rates.liquidity > 0 /\ VSupply # 0 THEN NormalizedDebt ELSE variableBorrowIndex

DebtAccrued ==
    RayMul(VSupply, NewVariableBorrowIndex) + StableSupply(token, now)
      - RayMul(VSupply, variableBorrowIndex) - StableSupply(token, lastUpdate)

\* In aTokens, at the new index.
TreasuryShare == RayDiv(PercentMul(DebtAccrued, reserveFactor), NewLiquidityIndex)

\* A slip: the debt moves before the indices are brought up to date.
UpdateStateSkipped == UNCHANGED <<liquidityIndex, variableBorrowIndex, lastUpdate>>

UpdateState ==
    /\ liquidityIndex' = NewLiquidityIndex
    /\ variableBorrowIndex' = NewVariableBorrowIndex
    /\ lastUpdate' = now

(***************************************************************************)
(* ReserveLogic.updateInterestRates, from the debt as it has become and the    *)
(* liquidity the caller announces: what the aToken holds, plus what will be      *)
(* paid in and less what will be paid out in the rest of the transaction.         *)
(***************************************************************************)
UpdateInterestRates(liquidity) ==
    /\ rates' = CalculateInterestRates(liquidity, StableSupply(token, now)',
                                       RayMul(VSupply, variableBorrowIndex)',
                                       token'.average, reserveFactor)
    /\ ratedFactor' = reserveFactor

\* The variable debt of u by an amount, at the index of this block.
MintVariable(u, amount) ==
    LET scaled == RayDiv(amount, NewVariableBorrowIndex)
    IN  scaled # 0 /\ vBal' = [vBal EXCEPT ![u] = @ + scaled]

BurnVariable(u, amount) ==
    LET scaled == RayDiv(amount, NewVariableBorrowIndex)
    IN  scaled # 0 /\ scaled <= vBal[u] /\ vBal' = [vBal EXCEPT ![u] = @ - scaled]

MintDebt(u, amount, mode) ==
    \/ /\ mode = "stable"
       /\ token' = StableMint(token, u, amount, rates.stable, now)
       /\ UNCHANGED vBal
    \/ /\ mode = "variable"
       /\ MintVariable(u, amount)
       /\ UNCHANGED token

BurnDebt(u, amount, mode) ==
    \/ /\ mode = "stable"
       /\ token' = StableBurn(token, u, amount, now)
       /\ UNCHANGED vBal
    \/ /\ mode = "variable"
       /\ BurnVariable(u, amount)
       /\ UNCHANGED token

Transaction ==
    /\ steps < MaxSteps
    /\ steps' = steps + 1
    /\ UNCHANGED <<now, reserveFactor>>

-----------------------------------------------------------------------------
Deposit(amount) ==
    LET scaled == RayDiv(amount, NewLiquidityIndex)
    IN  /\ Transaction
        /\ RayMul(aSupply, NormalizedIncome) + amount <= DepositCap
        /\ scaled # 0
        /\ UpdateState
        /\ aSupply' = aSupply + TreasuryShare + scaled
        /\ cash' = cash + amount
        /\ UNCHANGED <<vBal, token, flash>>
        /\ UpdateInterestRates(cash + amount)

\* What withdraw and the payout of a liquidation in underlying do to the reserve.
Withdraw(amount) ==
    LET scaled == RayDiv(amount, NewLiquidityIndex)
    IN  /\ Transaction
        /\ amount <= cash
        /\ scaled # 0
        /\ scaled <= aSupply
        /\ UpdateState
        /\ aSupply' = aSupply + TreasuryShare - scaled
        /\ cash' = cash - amount
        /\ UNCHANGED <<vBal, token, flash>>
        /\ UpdateInterestRates(cash - amount)

\* validateBorrow limits a stable loan to a part of the liquidity.
ValidateBorrow(amount, mode) ==
    mode = "stable" => amount <= PercentMul(cash, MAX_STABLE_RATE_BORROW_SIZE_PERCENT)

\* _executeBorrow with the underlying released.
Borrow(u, amount, mode) ==
    /\ Transaction
    /\ ValidateBorrow(amount, mode)
    /\ amount <= cash
    /\ UpdateState
    /\ MintDebt(u, amount, mode)
    /\ aSupply' = aSupply + TreasuryShare
    /\ UpdateInterestRates(cash - amount)
    /\ cash' = cash - amount
    /\ UNCHANGED flash

\* A slip: what the caller sends is burned, whatever is owed.
AllSent(owed, amount) == amount

\* At most what is owed in the mode is paid.
PaybackAmount(owed, amount) == IF owed < amount THEN owed ELSE amount

Repay(u, amount, mode) ==
    LET owed == DebtOf(u, mode)
        paid == PaybackAmount(owed, amount)
    IN  /\ Transaction
        /\ owed > 0
        /\ UpdateState
        /\ BurnDebt(u, paid, mode)
        /\ aSupply' = aSupply + TreasuryShare
        /\ UpdateInterestRates(cash + paid)
        /\ cash' = cash + paid
        /\ UNCHANGED flash

-----------------------------------------------------------------------------
\* The debt of u in `mode` becomes a debt in the other mode, at the current rate.
SwapBorrowRateMode(u, mode) ==
    /\ Transaction
    /\ DebtOf(u, mode) > 0
    /\ UpdateState
    /\ \/ /\ mode = "stable"
          /\ token' = StableBurn(token, u, StableDebt(u), now)
          /\ MintVariable(u, StableDebt(u))
       \/ /\ mode = "variable"
          /\ token' = StableMint(token, u, VariableDebt(u), rates.stable, now)
          /\ BurnVariable(u, VariableDebt(u))
    /\ aSupply' = aSupply + TreasuryShare
    /\ UpdateInterestRates(cash)
    /\ UNCHANGED <<cash, flash>>

\* validateRebalanceStableBorrowRate: the reserve is almost empty and its depositors
\* earn little, because too much was lent at low stable rates.
ValidateRebalance ==
    /\ UtilizationRate(WadToRay(cash), WadToRay(StableSupply(token, now)
                                                  + RayMul(VSupply, NormalizedDebt)))
          >= REBALANCE_UP_USAGE_RATIO_THRESHOLD
    /\ rates.liquidity <= PercentMul(MaxVariableBorrowRate,
                                     REBALANCE_UP_LIQUIDITY_RATE_THRESHOLD)

RebalanceStableBorrowRate(u) ==
    LET debt == StableDebt(u)
    IN  /\ Transaction
        /\ ValidateRebalance
        /\ debt > 0
        /\ UpdateState
        /\ token' = StableMint(StableBurn(token, u, debt, now), u, debt, rates.stable, now)
        /\ aSupply' = aSupply + TreasuryShare
        /\ UNCHANGED <<cash, vBal, flash>>
        /\ UpdateInterestRates(cash)

-----------------------------------------------------------------------------
(***************************************************************************)
(* liquidationCall where this is the debt's reserve: at most half of u's debt, *)
(* the variable debt first. With `paidOut` the collateral is of this reserve too    *)
(* and leaves it as underlying, with the bonus: the rates are then computed a        *)
(* second time, while the repayment has not come in yet.                              *)
(***************************************************************************)
LiquidationCall(u, cover, paidOut) ==
    LET variable == VariableDebt(u)
        most     == PercentMul(StableDebt(u) + variable, LIQUIDATION_CLOSE_FACTOR_PERCENT)
        repaid   == IF cover > most THEN most ELSE cover
        seized   == IF paidOut
                    THEN (repaid * LiquidationBonus) \div PERCENTAGE_FACTOR
                    ELSE 0
        scaled   == RayDiv(seized, NewLiquidityIndex)
        left     == IF paidOut THEN cash - seized ELSE cash
    IN  /\ Transaction
        /\ seized <= cash
        /\ UpdateState
        /\ \/ /\ variable >= repaid
              /\ BurnVariable(u, repaid)
              /\ UNCHANGED token
           \/ /\ variable < repaid
              /\ \/ variable > 0 /\ BurnVariable(u, variable)
                 \/ variable = 0 /\ UNCHANGED vBal
              /\ token' = StableBurn(token, u, repaid - variable, now)
        /\ UpdateInterestRates(IF paidOut THEN left ELSE left + repaid)
        /\ paidOut => scaled # 0
        /\ scaled <= aSupply
        /\ aSupply' = aSupply + TreasuryShare - scaled
        /\ cash' = left + repaid
        /\ UNCHANGED flash

-----------------------------------------------------------------------------
\* flashLoan: transferUnderlyingTo, before the receiver is called.
FlashLoanPaid(amount) ==
    /\ Transaction
    /\ flash = 0
    /\ amount <= cash
    /\ cash' = cash - amount
    /\ flash' = amount
    /\ UNCHANGED <<aSupply, vBal, token, indexVars, ratedFactor>>

\* A slip: the rates do not see the loan come back.
FlashLiquidityLeftOut == cash

\* The liquidity announced to updateInterestRates before the loan is paid back.
FlashLiquidity == cash + flash

\* After the receiver returns, with mode NONE. The premium is the treasury's own.
FlashLoanReturned ==
    /\ Transaction
    /\ flash > 0
    /\ UpdateState
    /\ aSupply' = aSupply + TreasuryShare
    /\ cash' = cash + flash
    /\ flash' = 0
    /\ UNCHANGED <<vBal, token>>
    /\ UpdateInterestRates(FlashLiquidity)

\* Or the loan stays as a debt of u: _executeBorrow with nothing left to release.
FlashLoanBorrowed(u, mode) ==
    /\ Transaction
    /\ flash > 0
    /\ ValidateBorrow(flash, mode)
    /\ UpdateState
    /\ MintDebt(u, flash, mode)
    /\ UpdateInterestRates(cash)
    /\ aSupply' = aSupply + TreasuryShare
    /\ flash' = 0
    /\ UNCHANGED cash

-----------------------------------------------------------------------------
\* Blocks go by. A flash loan is over within its block.
Tick(delay) ==
    /\ flash = 0
    /\ now + delay <= MaxTime
    /\ now' = now + delay
    /\ UNCHANGED <<cash, aSupply, vBal, token, indexVars, reserveFactor, flash,
                   ratedFactor, steps>>

\* The configurator changes the factor without touching the reserve.
SetReserveFactor(factor) ==
    /\ steps < MaxSteps
    /\ steps' = steps + 1
    /\ flash = 0
    /\ factor # reserveFactor
    /\ reserveFactor' = factor
    /\ UNCHANGED <<now, cash, aSupply, vBal, token, indexVars, flash, ratedFactor>>

Init ==
    /\ now = 1
    /\ cash = 0
    /\ aSupply = 0
    /\ vBal = [u \in Users |-> 0]
    /\ token = NoStableDebt
    /\ liquidityIndex = RAY
    /\ variableBorrowIndex = RAY
    /\ rates = [liquidity |-> 0, stable |-> 0, variable |-> 0]
    /\ lastUpdate = 0
    /\ reserveFactor \in ReserveFactors
    /\ flash = 0
    /\ ratedFactor = reserveFactor
    /\ steps = 0

UserStep(u) ==
    \/ \E amount \in Amounts, mode \in Modes : Borrow(u, amount, mode)
    \/ \E amount \in Amounts \cup {MaxUint}, mode \in Modes : Repay(u, amount, mode)
    \/ \E mode \in Modes : SwapBorrowRateMode(u, mode)
    \/ RebalanceStableBorrowRate(u)
    \/ \E cover \in Amounts, paidOut \in PaidOut : LiquidationCall(u, cover, paidOut)
    \/ \E mode \in Modes : FlashLoanBorrowed(u, mode)

Next ==
    \/ \E amount \in Amounts : Deposit(amount) \/ Withdraw(amount) \/ FlashLoanPaid(amount)
    \/ \E u \in Users : UserStep(u)
    \/ FlashLoanReturned
    \/ \E delay \in Delays : Tick(delay)
    \/ \E factor \in ReserveFactors : SetReserveFactor(factor)

Spec == Init /\ [][Next]_vars

-----------------------------------------------------------------------------
\* Every variable has its type: no subtraction of the code went below zero.
TokenStorage ==
    [principal : [Users -> Nat], rate : [Users -> Nat], stamp : [Users -> Nat],
     total : Nat, average : Nat, totalStamp : Nat]

TypeOK ==
    /\ now \in Nat /\ lastUpdate \in Nat
    /\ cash \in Nat /\ aSupply \in Nat /\ flash \in Nat
    /\ vBal \in [Users -> Nat]
    /\ token \in TokenStorage
    /\ liquidityIndex \in Nat /\ variableBorrowIndex \in Nat
    /\ liquidityIndex >= RAY /\ variableBorrowIndex >= RAY
    /\ rates \in [liquidity : Nat, stable : Nat, variable : Nat]
    /\ reserveFactor \in ReserveFactors /\ ratedFactor \in ReserveFactors
    /\ steps \in Nat

(***************************************************************************)
(* No timestamp is ahead of the reserve's last update, and that not of the    *)
(* block: every mint and burn of stable debt comes after an updateState of the  *)
(* same transaction. _mintToTreasury subtracts these timestamps with SafeMath,    *)
(* so one that was ahead would make every later operation of the reserve revert.    *)
(***************************************************************************)
StampsOrdered ==
    /\ \A u \in Users : token.stamp[u] <= token.totalStamp
    /\ token.totalStamp <= lastUpdate
    /\ lastUpdate <= now

(***************************************************************************)
(* The stable debt token never counts debt that nobody owes: its total supply *)
(* stays within what the users owe one by one, up to a unit for each step. The     *)
(* rates and the treasury's share are computed from the total.                      *)
(***************************************************************************)
StableTotalBacked ==
    StableSupply(token, now) <= MapThenSumSet(StableDebt, Users) + steps

(***************************************************************************)
(* What depositors and treasury are promised never grows faster than what the *)
(* reserve owns: linear interest for the deposits and the treasury's share come   *)
(* out of the compounded interest of the debts, each at its own rate, and no         *)
(* transaction shifts the balance between the two by more than rounding. Two effects  *)
(* of the code are allowed for, each at its size. A reserve factor is also taken of     *)
(* the interest accrued before it was set: the next update moves the promise by the       *)
(* difference on that interest. And the liquidity rate is that of the liquidity the        *)
(* code counts: where more is deposited (after a raised factor, or when the stable          *)
(* total has lost debt) the rest earns it as well.                                           *)
(***************************************************************************)
ShareAt(factor) == PercentMul(DebtAccrued, factor)

Promised == RayMul(aSupply, NormalizedIncome) + ShareAt(ratedFactor)

\* The variable debt with the interest the next update stores.
Owned ==
    cash + flash + RayMul(VSupply, NewVariableBorrowIndex) + MapThenSumSet(StableDebt, Users)

\* Deposits beyond the liquidity the current rates were computed from.
Unbacked ==
    Max({0, RayMul(aSupply, liquidityIndex)
              - (cash + StableSupply(token, lastUpdate) + RayMul(VSupply, variableBorrowIndex))})

InterestOnUnbacked == RayMul(Unbacked, LinearInterest(rates.liquidity, now' - now) - RAY)

Dust == (NormalizedIncome + NormalizedDebt) \div RAY

InterestCovered ==
    Promised' - Promised
        <= Owned' - Owned + Dust'
             + ShareAt(ratedFactor') - ShareAt(ratedFactor) + InterestOnUnbacked

InterestShared == [][InterestCovered]_vars

(***************************************************************************)
(* Between transactions the stored rates are those of the strategy for the    *)
(* liquidity and the debt the reserve was left with, whatever was nested in a      *)
(* flash loan, at the reserve factor of the last transaction: one that announced     *)
(* the wrong liquidity would leave everybody accruing at a wrong rate until the       *)
(* next one.                                                                           *)
(***************************************************************************)
RatesFresh ==
    flash = 0 /\ lastUpdate > 0 =>
        rates = CalculateInterestRates(cash, StableSupply(token, lastUpdate),
                                       RayMul(VSupply, variableBorrowIndex),
                                       token.average, ratedFactor)

(***************************************************************************)
(* What a user owes at the variable rate only shrinks by being burned, with    *)
(* one exception: where depositors earn nothing (a reserve factor of 100%, or a     *)
(* rate rounded to zero), an update stores no interest, and the debt falls back to   *)
(* what was stored of it, not below. Time alone never takes anything from it.          *)
(***************************************************************************)
InterestDropped == rates.liquidity = 0 /\ lastUpdate' # lastUpdate

StoredDebt(u) == RayMul(vBal[u], variableBorrowIndex)

VariableDebtKept ==
    [][\A u \in Users :
           vBal'[u] >= vBal[u] =>
               VariableDebt(u)' >= IF InterestDropped THEN StoredDebt(u)
                                                      ELSE VariableDebt(u)]_vars

\* A transaction takes more out of the stable debt token's total than out of the users'
\* debts.
LeavesDebtOut ==
    /\ now' = now
    /\ StableSupply(token, now) - StableSupply(token, now)'
           > MapThenSumSet(StableDebt, Users) - MapThenSumSet(StableDebt, Users)'

(***************************************************************************)
(* StableDebtToken.sol on burn: "the last borrower repaying might actually    *)
(* try to repay more than the available debt supply. In this case we simply set    *)
(* the total supply and the avg stable rate to 0". The total is written off with       *)
(* the last debt, so it never loses debt that others still owe.                         *)
(***************************************************************************)
TotalKeepsDebt == [][~LeavesDebtOut]_vars
==============================================================================
