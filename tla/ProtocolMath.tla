----------------------------- MODULE ProtocolMath -----------------------------
(***************************************************************************)
(* The fixed point arithmetic every contract of the protocol computes with:*)
(* libraries/math/WadRayMath.sol and libraries/math/PercentageMath.sol.     *)
(* Solidity integers are unsigned; every operation of the libraries that    *)
(* would overflow reverts the transaction, so the results below are those   *)
(* of the transactions that do not revert, over the naturals.               *)
(*                                                                         *)
(* RAY is 1e27 and WAD 1e18 in the code. They are parameters here, because *)
(* the model checker works on small ones and the proofs need no more than   *)
(* that they are positive.                                                 *)
(***************************************************************************)
EXTENDS Integers

CONSTANTS RAY, WAD

ASSUME PrecisionAssumption == RAY \in Nat \ {0} /\ WAD \in Nat \ {0}

PERCENTAGE_FACTOR == 10000

(***************************************************************************)
(* The rounding all six operations share: the quotient rounded half up,    *)
(* which is how the code writes it, (n + d/2) / d.                         *)
(***************************************************************************)
RoundHalfUp(n, d) == (n + (d \div 2)) \div d

WadMul(a, b) == RoundHalfUp(a * b, WAD)
WadDiv(a, b) == RoundHalfUp(a * WAD, b)      \* reverts on b = 0
RayMul(a, b) == RoundHalfUp(a * b, RAY)

\* A slip of RayDiv: the half is not added, the quotient is truncated.
RayDivDown(a, b) == (a * RAY) \div b

RayDiv(a, b) == RoundHalfUp(a * RAY, b)      \* reverts on b = 0

PercentMul(value, percentage) == RoundHalfUp(value * percentage, PERCENTAGE_FACTOR)

\* A slip of PercentDiv: the half is not added, the quotient is truncated.
PercentDivDown(value, percentage) == (value * PERCENTAGE_FACTOR) \div percentage

PercentDiv(value, percentage) == RoundHalfUp(value * PERCENTAGE_FACTOR, percentage)
==============================================================================
