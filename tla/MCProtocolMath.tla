---------------------------- MODULE MCProtocolMath ----------------------------
(***************************************************************************)
(* The arithmetic checked against what its callers rely on. A state is one *)
(* choice of the arguments; the steps walk through all of them.            *)
(***************************************************************************)
EXTENDS ProtocolMath

CONSTANTS
    MaxAmount,      \* largest scaled balance, amount or debt tried
    MaxIndex,       \* largest liquidity or borrow index tried (RAY is the least)
    Percentages     \* the percentages tried, in basis points

VARIABLES
    amount,         \* a scaled balance, an amount of tokens or a value
    index,          \* a liquidity index or a variable borrow index
    percentage      \* an LTV or a liquidation threshold

vars == <<amount, index, percentage>>

Init == amount = 0 /\ index = RAY /\ percentage \in Percentages

NextAmount ==
    /\ amount < MaxAmount
    /\ amount' = amount + 1
    /\ UNCHANGED <<index, percentage>>

NextIndex ==
    /\ index < MaxIndex
    /\ index' = index + 1
    /\ UNCHANGED <<amount, percentage>>

Next == NextAmount \/ NextIndex

Spec == Init /\ [][Next]_vars

Distance(x, y) == IF x >= y THEN x - y ELSE y - x

(***************************************************************************)
(* Closing a position takes out exactly what is recorded: the scaled       *)
(* amount computed from the balance a user sees is the scaled balance the   *)
(* token stores. LendingPool.repay, withdraw and liquidationCall burn        *)
(* rayDiv(balanceOf(user), index): one more reverts, one less leaves debt   *)
(* behind after the borrowing flag is cleared.                              *)
(***************************************************************************)
RoundTripExact == RayDiv(RayMul(amount, index), index) = amount

(***************************************************************************)
(* An amount that is scaled and read back is off by at most half of a       *)
(* scaled unit and half of a token unit: what a deposit or a loan can gain   *)
(* or lose by rounding, whatever its size.                                   *)
(***************************************************************************)
ScalingErrorBound ==
    2 * RAY * Distance(RayMul(RayDiv(amount, index), index), amount) <= index + RAY

(***************************************************************************)
(* A loan accepted by ValidationLogic.validateBorrow (its value divided by  *)
(* the LTV fits in the collateral) is covered by the collateral at any       *)
(* liquidation threshold from the LTV up: two roundings half up, one of a     *)
(* division and one of a product, never let a fresh loan start below it.     *)
(***************************************************************************)
BorrowPowerCovered ==
    \A collateral \in 0 .. 2 * MaxAmount, threshold \in Percentages :
        /\ PercentDiv(amount, percentage) <= collateral
        /\ percentage <= threshold
        => amount <= PercentMul(collateral, threshold)
==============================================================================
