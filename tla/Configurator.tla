------------------------------ MODULE Configurator ------------------------------
(***************************************************************************)
(* How reserves come to be and how their configuration changes:             *)
(* LendingPoolConfigurator.sol with the parts of LendingPool.sol that only it   *)
(* may call, over reserves whose liquidity moves in between.                     *)
(*                                                                         *)
(* LendingPool.tla lets the configuration of a reserve be anything; here it is *)
(* what the administrator can make it. Of the positions only the sums are kept,    *)
(* without interest: the configurator looks at a reserve's cash and liquidity       *)
(* rate alone. A configuration may be written before its reserve exists, as in       *)
(* the code. A batch of reserves is its members one after another.                    *)
(***************************************************************************)
EXTENDS InterestRates, FiniteSets, Sequences

CONSTANTS
    Assets,
    MAX_NUMBER_RESERVES,    \* 128 in the code: two bits of a word for each reserve
    Percentages,            \* the LTVs, thresholds and bonuses the administrator may ask for
    ReserveFactors,         \* and the reserve factors
    Amounts,                \* the amounts callers pass
    Loans,                  \* the loans tried against every configuration, see LoansCoverBonus
    MaxSteps                \* bound: the number of transactions

ASSUME MaxReservesAssumption == MAX_NUMBER_RESERVES \in 1 .. 128
ASSUME RequestsAssumption ==
    /\ Percentages \subseteq Nat /\ ReserveFactors \subseteq Nat
    /\ Amounts \subseteq Nat \ {0}
    /\ Loans \subseteq Nat

VARIABLES
    initialized,    \* the assets with an aToken
    reservesList,   \* _reservesList, from zero up to _reservesCount
    id,             \* ReserveData.id, zero where nothing was assigned
    config,         \* ReserveData.configuration, unpacked
    cash,           \* underlying held by the aToken of each reserve
    deposits,       \* what the depositors of each reserve own
    debt,           \* what its borrowers owe, at the variable rate
    liquidityRate,  \* currentLiquidityRate
    steps           \* history: how many steps were taken

listVars == <<initialized, reservesList, id>>
liquidityVars == <<cash, deposits, debt, liquidityRate>>
vars == <<listVars, config, liquidityVars, steps>>

\* The width of a 16 bit field of the configuration word.
MAX_VALID == 65535

\* A slip: one more than the field has bits for.
FitsOff(value) == value <= MAX_VALID + 1

Fits(value) == value <= MAX_VALID

Unconfigured ==
    [ltv |-> 0, liquidationThreshold |-> 0, liquidationBonus |-> 0, active |-> FALSE,
     frozen |-> FALSE, borrowingEnabled |-> FALSE, stableEnabled |-> FALSE,
     reserveFactor |-> 0]

Transaction == steps < MaxSteps /\ steps' = steps + 1

-----------------------------------------------------------------------------
\* A slip: the index the next reserve will have.
NextIdAfter == Len(reservesList) + 1

\* The index of a new reserve, narrowed to uint8.
NextId == Len(reservesList) % 256

AlreadyAdded(a) == id[a] # 0 \/ (reservesList # <<>> /\ reservesList[1] = a)

AddReserveToList(a) ==
    /\ Len(reservesList) < MAX_NUMBER_RESERVES
    /\ IF AlreadyAdded(a)
       THEN UNCHANGED <<id, reservesList>>
       ELSE /\ id' = [id EXCEPT ![a] = NextId]
            /\ reservesList' = Append(reservesList, a)

InitReserve(a) ==
    /\ Transaction
    /\ a \notin initialized
    /\ initialized' = initialized \cup {a}
    /\ AddReserveToList(a)
    /\ config' = [config EXCEPT ![a].active = TRUE, ![a].frozen = FALSE]
    /\ UNCHANGED liquidityVars

-----------------------------------------------------------------------------
\* A slip: only what could be withdrawn at once is looked at.
CheckNoCash(a) == cash[a] = 0

CheckNoLiquidity(a) == cash[a] = 0 /\ liquidityRate[a] = 0

\* setConfiguration with one reserve's new configuration.
SetConfiguration(a, c) ==
    /\ Transaction
    /\ config' = [config EXCEPT ![a] = c]
    /\ UNCHANGED <<listVars, liquidityVars>>

EnableBorrowingOnReserve(a, stable) ==
    SetConfiguration(a, [config[a] EXCEPT !.borrowingEnabled = TRUE, !.stableEnabled = stable])

DisableBorrowingOnReserve(a) ==
    SetConfiguration(a, [config[a] EXCEPT !.borrowingEnabled = FALSE])

\* A slip: threshold and bonus are only checked one by one.
ValidCollateralApart(ltv, threshold, bonus) ==
    /\ ltv <= threshold
    /\ threshold <= PERCENTAGE_FACTOR
    /\ bonus > PERCENTAGE_FACTOR

ValidCollateral(ltv, threshold, bonus) ==
    /\ ltv <= threshold
    /\ bonus > PERCENTAGE_FACTOR
    /\ PercentMul(threshold, bonus) <= PERCENTAGE_FACTOR

ConfigureReserveAsCollateral(a, ltv, threshold, bonus) ==
    /\ \/ threshold # 0 /\ ValidCollateral(ltv, threshold, bonus)
       \/ threshold = 0 /\ ltv = 0 /\ bonus = 0 /\ CheckNoLiquidity(a)
    /\ Fits(ltv) /\ Fits(threshold) /\ Fits(bonus)
    /\ SetConfiguration(a, [config[a] EXCEPT !.ltv = ltv, !.liquidationThreshold = threshold,
                                             !.liquidationBonus = bonus])

\* enableReserveStableRate and disableReserveStableRate.
SetStableRate(a, enabled) == SetConfiguration(a, [config[a] EXCEPT !.stableEnabled = enabled])

ActivateReserve(a) == SetConfiguration(a, [config[a] EXCEPT !.active = TRUE])

DeactivateReserve(a) ==
    CheckNoLiquidity(a) /\ SetConfiguration(a, [config[a] EXCEPT !.active = FALSE])

\* freezeReserve and unfreezeReserve.
SetFrozen(a, frozen) == SetConfiguration(a, [config[a] EXCEPT !.frozen = frozen])

SetReserveFactor(a, factor) ==
    Fits(factor) /\ SetConfiguration(a, [config[a] EXCEPT !.reserveFactor = factor])

-----------------------------------------------------------------------------
(***************************************************************************)
(* The users' side: every operation of a reserve ends by storing the rates.   *)
(* With a reserve factor above 100% the strategy reverts, and with it the         *)
(* operation.                                                                      *)
(***************************************************************************)
Moved(a) ==
    /\ Transaction
    /\ a \in initialized
    /\ config[a].active
    /\ config[a].reserveFactor <= PERCENTAGE_FACTOR
    /\ liquidityRate' = [liquidityRate EXCEPT ![a] =
           CalculateInterestRates(cash'[a], 0, debt'[a], 0, config[a].reserveFactor).liquidity]
    /\ UNCHANGED <<listVars, config>>

Deposit(a, amount) ==
    /\ ~config[a].frozen
    /\ cash' = [cash EXCEPT ![a] = @ + amount]
    /\ deposits' = [deposits EXCEPT ![a] = @ + amount]
    /\ UNCHANGED debt
    /\ Moved(a)

Withdraw(a, amount) ==
    /\ amount <= cash[a]
    /\ amount <= deposits[a]
    /\ cash' = [cash EXCEPT ![a] = @ - amount]
    /\ deposits' = [deposits EXCEPT ![a] = @ - amount]
    /\ UNCHANGED debt
    /\ Moved(a)

Borrow(a, amount) ==
    /\ ~config[a].frozen
    /\ config[a].borrowingEnabled
    /\ amount <= cash[a]
    /\ cash' = [cash EXCEPT ![a] = @ - amount]
    /\ debt' = [debt EXCEPT ![a] = @ + amount]
    /\ UNCHANGED deposits
    /\ Moved(a)

\* A repayment is cut to what is owed.
Repay(a, amount) ==
    /\ amount <= debt[a]
    /\ cash' = [cash EXCEPT ![a] = @ + amount]
    /\ debt' = [debt EXCEPT ![a] = @ - amount]
    /\ UNCHANGED deposits
    /\ Moved(a)

Init ==
    /\ initialized = {}
    /\ reservesList = <<>>
    /\ id = [a \in Assets |-> 0]
    /\ config = [a \in Assets |-> Unconfigured]
    /\ cash = [a \in Assets |-> 0]
    /\ deposits = [a \in Assets |-> 0]
    /\ debt = [a \in Assets |-> 0]
    /\ liquidityRate = [a \in Assets |-> 0]
    /\ steps = 0

Administration(a) ==
    \/ InitReserve(a)
    \/ \E enabled \in BOOLEAN : EnableBorrowingOnReserve(a, enabled)
    \/ DisableBorrowingOnReserve(a)
    \/ \E ltv, threshold, bonus \in Percentages :
           ConfigureReserveAsCollateral(a, ltv, threshold, bonus)
    \/ \E enabled \in BOOLEAN : SetStableRate(a, enabled)
    \/ ActivateReserve(a)
    \/ DeactivateReserve(a)
    \/ \E frozen \in BOOLEAN : SetFrozen(a, frozen)
    \/ \E factor \in ReserveFactors : SetReserveFactor(a, factor)

Use(a) ==
    \E amount \in Amounts :
        Deposit(a, amount) \/ Withdraw(a, amount) \/ Borrow(a, amount) \/ Repay(a, amount)

Next == \E a \in Assets : Administration(a) \/ Use(a)

Spec == Init /\ [][Next]_vars

-----------------------------------------------------------------------------
\* Every variable has its type: every field of the configuration fits its bits, and no
\* reserve is repaid or emptied below zero.
Field == 0 .. MAX_VALID

Configuration ==
    [ltv : Field, liquidationThreshold : Field, liquidationBonus : Field, active : BOOLEAN,
     frozen : BOOLEAN, borrowingEnabled : BOOLEAN, stableEnabled : BOOLEAN,
     reserveFactor : Field]

TypeOK ==
    /\ initialized \subseteq Assets
    /\ reservesList \in Seq(Assets)
    /\ id \in [Assets -> Nat]
    /\ config \in [Assets -> Configuration]
    /\ cash \in [Assets -> Nat] /\ deposits \in [Assets -> Nat] /\ debt \in [Assets -> Nat]
    /\ liquidityRate \in [Assets -> Nat]
    /\ steps \in Nat

(***************************************************************************)
(* The list of reserves and their ids are inverse to each other: every        *)
(* initialized asset is found at its id, every entry is initialized, and no id       *)
(* exceeds what a user's word has bits for. Two reserves that shared an id would       *)
(* share the bits of every user.                                                         *)
(***************************************************************************)
ListsAgree ==
    /\ Len(reservesList) <= MAX_NUMBER_RESERVES
    /\ \A a \in initialized : id[a] < Len(reservesList) /\ reservesList[id[a] + 1] = a
    /\ \A i \in 1 .. Len(reservesList) : reservesList[i] \in initialized

(***************************************************************************)
(* configureReserveAsCollateral: "it's guaranteed that at the moment a loan   *)
(* is taken there is enough collateral available to cover the liquidation            *)
(* bonus". With percentMul's rounding the configurations it lets pass give that up     *)
(* to one part in 20000. PercentDiv(loan, ltv) is the least collateral validateBorrow      *)
(* asks for.                                                                                *)
(***************************************************************************)
LoansCoverBonus ==
    \A a \in Assets, loan \in Loans :
        config[a].ltv > 0 =>
            LET least == PercentDiv(loan, config[a].ltv)
            IN  PercentMul(loan, config[a].liquidationBonus)
                    <= least + 1 + least \div (2 * PERCENTAGE_FACTOR)

(***************************************************************************)
(* configureReserveAsCollateral: "the reserve is being disabled as            *)
(* collateral. To do so, we need to ensure no liquidity is deposited", and                *)
(* deactivateReserve, after which not even a repayment is possible, asks for the same.     *)
(* A reserve that is switched off has neither deposits nor debts, although only its         *)
(* cash and its rate are looked at.                                                         *)
(***************************************************************************)
SwitchedOff(a) ==
    \/ config[a].active /\ ~config'[a].active
    \/ config[a].liquidationThreshold # 0 /\ config'[a].liquidationThreshold = 0

OffWhenEmpty == [][\A a \in Assets : SwitchedOff(a) => deposits[a] = 0 /\ debt[a] = 0]_vars
==============================================================================
