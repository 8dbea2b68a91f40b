-------------------------- MODULE MCProtocolMathProofs --------------------------
(***************************************************************************)
(* The arithmetic's guarantees, checked over a range of arguments in          *)
(* MCProtocolMath, hold for every range: every precision, every amount and        *)
(* index, and every set of percentages up to 100%.                                  *)
(***************************************************************************)
EXTENDS MCProtocolMath, ProtocolMathProofs

\* The arguments the walk comes by.
ArgumentTypes ==
    /\ amount \in Nat
    /\ index \in Nat /\ index >= RAY
    /\ percentage \in Percentages

LEMMA ArgumentsTyped == Spec => []ArgumentTypes
<1>1. Init => ArgumentTypes
  BY PrecisionAssumption DEF Init, ArgumentTypes
<1>2. ArgumentTypes /\ [Next]_vars => ArgumentTypes'
  BY PrecisionAssumption DEF ArgumentTypes, Next, NextAmount, NextIndex, vars
<1> QED
  BY <1>1, <1>2, PTL DEF Spec

(***************************************************************************)
(* Burning rayDiv(balanceOf(user), index) takes out exactly the scaled        *)
(* balance that is recorded, whatever the precision, the balance and the index.  *)
(***************************************************************************)
THEOREM ClosingIsExact == Spec => []RoundTripExact
<1>1. ArgumentTypes => RoundTripExact
  BY RayRoundTrip DEF ArgumentTypes, RoundTripExact
<1> QED
  BY <1>1, ArgumentsTyped, PTL

(***************************************************************************)
(* An amount that is scaled and read back is off by at most half a scaled     *)
(* unit and half a token unit, on either side.                                    *)
(***************************************************************************)
THEOREM ScalingAlwaysClose == Spec => []ScalingErrorBound
<1> DEFINE back == RayMul(RayDiv(amount, index), index)
<1>1. ASSUME ArgumentTypes PROVE ScalingErrorBound
  <2>1. amount \in Nat /\ index \in Nat \ {0} /\ RAY \in Nat \ {0}
    BY <1>1, PrecisionAssumption DEF ArgumentTypes
  <2>2. back \in Nat
    BY <2>1, RayDivType, RayMulType
  <2>3. /\ 2 * RAY * back <= 2 * RAY * amount + index + RAY
        /\ 2 * RAY * amount <= 2 * RAY * back + index + RAY
    BY <2>1, ScalingError
  <2> HIDE DEF back
  <2>4. 2 * RAY * Distance(back, amount) <= index + RAY
    <3>1. CASE back >= amount
      <4>1. 2 * RAY * (back - amount) = 2 * RAY * back - 2 * RAY * amount
        BY <2>1, <2>2
      <4> QED
        BY <2>1, <2>2, <2>3, <3>1, <4>1 DEF Distance
    <3>2. CASE ~(back >= amount)
      <4>1. 2 * RAY * (amount - back) = 2 * RAY * amount - 2 * RAY * back
        BY <2>1, <2>2
      <4> QED
        BY <2>1, <2>2, <2>3, <3>2, <4>1 DEF Distance
    <3> QED
      BY <3>1, <3>2
  <2> QED
    BY <2>4 DEF ScalingErrorBound, back
<1> QED
  BY <1>1, ArgumentsTyped, PTL

(***************************************************************************)
(* A loan validateBorrow accepts at one percentage is covered at every one    *)
(* from there up, for every set of percentages a configuration may hold: none      *)
(* is zero, as validateBorrow refuses collateral without an LTV, and none is above   *)
(* 100%.                                                                              *)
(***************************************************************************)
THEOREM LoansStartCovered ==
    ASSUME MaxAmount \in Nat, Percentages \subseteq 1 .. PERCENTAGE_FACTOR
    PROVE  Spec => []BorrowPowerCovered
<1>1. ArgumentTypes => BorrowPowerCovered
  <2> SUFFICES ASSUME ArgumentTypes,
                      NEW collateral \in 0 .. 2 * MaxAmount, NEW threshold \in Percentages,
                      PercentDiv(amount, percentage) <= collateral, percentage <= threshold
               PROVE  amount <= PercentMul(collateral, threshold)
    BY DEF BorrowPowerCovered
  <2>1. 2 * MaxAmount \in Nat
    OBVIOUS
  <2>2. amount \in Nat /\ collateral \in Nat
    BY <2>1 DEF ArgumentTypes
  <2>3. percentage \in 1 .. PERCENTAGE_FACTOR /\ threshold \in 1 .. PERCENTAGE_FACTOR
    BY DEF ArgumentTypes
  <2>4. threshold \in Nat
    BY <2>3 DEF PERCENTAGE_FACTOR
  <2> QED
    BY <2>2, <2>3, <2>4, BorrowPower
<1> QED
  BY <1>1, ArgumentsTyped, PTL
==============================================================================
