----------------------------- MODULE MCExperiments -----------------------------
(***************************************************************************)
(* Two anchors: one with the rates of the market the committed results are *)
(* anchored to, one with a steeper curve and a larger fee whose SY has    *)
(* lost a fiftieth of its value.  Prices are in units of a ten-thousandth, *)
(* times in days.                                                          *)
(***************************************************************************)
EXTENDS Experiments

Live(pt, sy, rate, scalar, fee, expiry, syIndex) ==
  [totalPt |-> pt, totalSy |-> sy, index |-> 10941, scalarRoot |-> scalar,
   lnFeeRateRoot |-> fee, lastLnImpliedRate |-> rate, expiry |-> expiry,
   syIndex |-> syIndex, pyIndex |-> 10941]

MCAnchors ==
  {[market |-> Live(30000, 48000, 1025, 358000, 76, 140, 10941), lltv |-> 9150, answer |-> 9600,
    twapDuration |-> 900],
   [market |-> Live(20000, 40000, 1300, 60000, 300, 400, 10722), lltv |-> 8600, answer |-> 9400,
    twapDuration |-> 0]}

(* The program ends after its last sweep and nowhere else: with the stutter *)
(* that stands for its end, a search or a loop left without a step, such as *)
(* a purchase executeTrade throws on, is a deadlock.                        *)
Ended == phase = 8 /\ todo = {} /\ Idle /\ UNCHANGED vars

MCSpec == Init /\ [][Next \/ Ended]_vars /\ WF_vars(Next)
===============================================================================
