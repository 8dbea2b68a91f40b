---------------------------- MODULE MCLendingPool ----------------------------
(***************************************************************************)
(* Small instances of the pool: a reserve "coll" deposited as collateral,   *)
(* a reserve "debt" that is lent, and two users, one of them the treasury.  *)
(***************************************************************************)
EXTENDS LendingPool

MCUsers == {"alice", "bob"}
MCReserves == {"coll", "debt"}
MCUnit == [r \in MCReserves |-> IF r = "coll" THEN 2 ELSE 1]
MCPrices == [r \in MCReserves |-> IF r = "coll" THEN {2, 3, 4} ELSE {1}]
MCDepositCap == [r \in MCReserves |-> 300]

Setting(ltv, threshold, bonus, borrow, stable) ==
    [ltv |-> ltv, liquidationThreshold |-> threshold, liquidationBonus |-> bonus,
     active |-> TRUE, frozen |-> FALSE, borrowingEnabled |-> borrow, stableEnabled |-> stable]

Collateral == Setting(5000, 6600, 12500, FALSE, FALSE)
Loan == Setting(4000, 5000, 11000, TRUE, TRUE)
LoanVariableOnly == [Loan EXCEPT !.stableEnabled = FALSE]

\* One configuration each, the loans at a variable rate only.
VariableConfigs == [r \in MCReserves |-> IF r = "coll" THEN {Collateral} ELSE {LoanVariableOnly}]
\* Loans in both modes.
BothModesConfigs == [r \in MCReserves |-> IF r = "coll" THEN {Collateral} ELSE {Loan}]
\* Collateral that may be borrowed against up to its liquidation threshold, the most the
\* configurator accepts: any rounding shows. The loans' reserve can also be frozen.
TightCollateral == Setting(5000, 5000, 12500, FALSE, FALSE)
FreezingConfigs ==
    [r \in MCReserves |-> IF r = "coll" THEN {TightCollateral}
                          ELSE {Loan, [Loan EXCEPT !.frozen = TRUE]}]

NoAccruals == {}
MCAccruals == {[income |-> 1, debt |-> 3, stable |-> 2, fee |-> 3],
               [income |-> 0, debt |-> 5, stable |-> 0, fee |-> 1]}

(***************************************************************************)
(* A market in use: bob has lent 200 "debt", alice has deposited 200 "coll"  *)
(* at the highest price and borrowed `variable` and `stable` of it. Init         *)
(* leads here in three or four steps.                                             *)
(***************************************************************************)
FundedState(variable, stable) ==
    /\ price = [r \in Reserves |-> IF r = "coll" THEN 4 ELSE 1]
    /\ config = [r \in Reserves |-> InitialConfig(r)]
    /\ income = [r \in Reserves |-> RAY]
    /\ debtIndex = [r \in Reserves |-> RAY]
    /\ aBal = [u \in Users |-> [r \in Reserves |->
                   IF <<u, r>> \in {<<"alice", "coll">>, <<"bob", "debt">>} THEN 200 ELSE 0]]
    /\ vBal = [u \in Users |-> [r \in Reserves |->
                   IF <<u, r>> = <<"alice", "debt">> THEN variable ELSE 0]]
    /\ sBal = [u \in Users |-> [r \in Reserves |->
                   IF <<u, r>> = <<"alice", "debt">> THEN stable ELSE 0]]
    /\ usingAsCollateral = [u \in Users |-> IF u = "alice" THEN {"coll"} ELSE {"debt"}]
    /\ borrowing = [u \in Users |-> IF u = "alice" THEN {"debt"} ELSE {}]
    /\ cash = [r \in Reserves |-> IF r = "coll" THEN 200 ELSE 200 - variable - stable]
    /\ toTreasury = [r \in Reserves |-> 0]
    /\ allowance = [r \in Reserves |-> [u \in Users |-> [v \in Users |-> 0]]]
    /\ borrowAllowance = [r \in Reserves |-> [mode \in Modes |->
                             [u \in Users |-> [v \in Users |-> 0]]]]
    /\ paused = FALSE
    /\ sender = Environment
    /\ steps = 0

\* From nothing, or with the whole deposit borrowed: the price alone can make alice unhealthy.
LentOutSpec == (Init \/ FundedState(200, 0)) /\ [][Next]_vars
\* Debt of both kinds, with liquidity left.
BothModesSpec == FundedState(60, 35) /\ [][Next]_vars

\* The state without the history variable: no guard reads it.
View == <<marketVars, indexVars, debtVars, flagVars, approvalVars, aBal, cash, toTreasury>>
==============================================================================
