----------------------------- MODULE MorphoMarket -----------------------------
(***************************************************************************)
(* The lending market of models/morpho-market.js: what a position may      *)
(* borrow, and what its liquidation leaves behind.  Units are those of     *)
(* module PendleAmm; lltv is a fraction of ONE.                            *)
(***************************************************************************)
EXTENDS PtValuation

CONSTANTS LIQUIDATION_CURSOR,                   \* 0.3
          MAX_LIQUIDATION_INCENTIVE_FACTOR      \* 1.15

ASSUME IncentiveAssumption ==
  /\ LIQUIDATION_CURSOR \in 0 .. ONE - 1
  /\ MAX_LIQUIDATION_INCENTIVE_FACTOR \in Nat /\ MAX_LIQUIDATION_INCENTIVE_FACTOR >= ONE

(* A slip: the LLTV is left out.                                           *)
MaxBorrowAtFullValue(collateral, price, lltv) == Times(collateral, price)

MaxBorrow(collateral, price, lltv) == Times(Times(collateral, price), lltv)

IsHealthy(collateral, price, lltv, borrowed) == MaxBorrow(collateral, price, lltv) >= borrowed

LiquidationIncentiveFactor(lltv) ==
  Smaller(MAX_LIQUIDATION_INCENTIVE_FACTOR,
          Ratio(ONE, ONE - Times(LIQUIDATION_CURSOR, ONE - lltv)))

RepaidForSeized(seizedAssets, price, lltv) ==
  (seizedAssets * price) \div LiquidationIncentiveFactor(lltv)

(* Rounded up, and none for nothing repaid.                                *)
SeizedForRepaid(repaid, price, lltv) ==
  (repaid * LiquidationIncentiveFactor(lltv) + price - 1) \div price

CollateralToClearDebt(debt, price, lltv) == SeizedForRepaid(debt, price, lltv)

(* The seizure is rounded up, so what it repays is no less than the debt   *)
(* it is sized for, and the residue the code drops, a billionth of the     *)
(* debt, does not arise.                                                   *)
LiquidationOutcome(collateral, debt, oraclePrice, realizablePrice, lltv) ==
  LET profitable == realizablePrice > Ratio(oraclePrice, LiquidationIncentiveFactor(lltv))
      seized     == IF profitable
                    THEN Smaller(collateral, CollateralToClearDebt(debt, oraclePrice, lltv))
                    ELSE 0
      repaid     == RepaidForSeized(seized, oraclePrice, lltv)
  IN  [liquidationProfitable |-> profitable, seized |-> seized, repaid |-> repaid,
       debtRemaining |-> Larger(0, debt - repaid),
       collateralRemaining |-> collateral - seized]

InsolvencyDisplacementThreshold(lltv) == Ratio(ONE, lltv) - ONE

DisplacementInsolvencyReachable(truePrice, lltv, maxPrice) ==
  Ratio(maxPrice, truePrice) - ONE > InsolvencyDisplacementThreshold(lltv)
===============================================================================
