----------------------------- MODULE LeverageLoop -----------------------------
(***************************************************************************)
(* runLoop of models/pt-recursive-leverage.js: borrow against PT, buy PT   *)
(* with the loan, supply it, borrow again.  How much PT a loan buys is     *)
(* solvePtForAsset, a search of its own: it doubles until the cost passes  *)
(* the budget and bisects, or falls back on the largest purchase the pool  *)
(* takes.  One trial trade is one step.                                    *)
(***************************************************************************)
EXTENDS DisplacementSearch

CONSTANTS BORROW_UTILISATION,       \* 0.98
          MaxIter                   \* rounds of the fallback, 120 in the code

ASSUME UtilisationAssumption == BORROW_UTILISATION \in 0 .. ONE
ASSUME RoundsAssumption == MaxIter \in Nat

VARIABLES loop,         \* the position and the pool
          buy           \* the purchase being sized

BuyIdle == [budget |-> 0, lo |-> 0, hi |-> 0, rounds |-> 0]

RunLoop(initialPt, market, oraclePrice, lltv, depth) ==
  /\ loop' = [status |-> "borrow", market |-> market, opening |-> market,
              initialPt |-> initialPt, oraclePrice |-> oraclePrice, lltv |-> lltv,
              depth |-> depth, achievedDepth |-> 0, collateralPt |-> initialPt, debt |-> 0,
              ammFeesPaid |-> 0, assetSpent |-> 0, fellBack |-> FALSE]
  /\ buy' = BuyIdle

(* A slip: the debt there is already is forgotten.                         *)
FullCapacity == MaxBorrow(loop.collateralPt, loop.oraclePrice, loop.lltv)

(* The headroom of the position.                                           *)
Headroom == MaxBorrow(loop.collateralPt, loop.oraclePrice, loop.lltv) - loop.debt

Borrow ==
  /\ loop.status = "borrow"
  /\ IF loop.achievedDepth = loop.depth \/ Headroom <= 0
     THEN /\ loop' = [loop EXCEPT !.status = "done"]
          /\ UNCHANGED buy
     ELSE LET borrow == Times(Headroom, BORROW_UTILISATION)
          IN  /\ buy' = [budget |-> borrow, lo |-> 0, hi |-> borrow, rounds |-> 0]
              /\ loop' = [loop EXCEPT !.status = "double"]

(* The asset cost of a purchase, where the pool takes it.                  *)
Feasible(pt) ==
  /\ Open(loop.market, BlockTime)
  /\ ~ RefusesTrade(loop.market, MarketPreCompute(loop.market, BlockTime), pt)

(* A slip: the fee is left out of the cost.                                *)
CostBeforeFee(pt) ==
  LET comp == MarketPreCompute(loop.market, BlockTime)
  IN  Ratio(pt, ExchangeRate(loop.market, comp, pt))

Cost(pt) ==
  - CalcTrade(loop.market, MarketPreCompute(loop.market, BlockTime), pt).netAssetToAccount

Short(pt) == Feasible(pt) => Cost(pt) < buy.budget

(* hi is doubled while it is short, and until it is past the reserve.      *)
Double ==
  /\ loop.status = "double"
  /\ \/ /\ ~ Short(buy.hi)
        /\ loop' = [loop EXCEPT !.status = "bisect"]
        /\ UNCHANGED buy
     \/ /\ Short(buy.hi)
        /\ buy' = [buy EXCEPT !.hi = 2 * @]
        /\ loop' = [loop EXCEPT !.status = IF 2 * buy.hi * 1000 <= loop.market.totalPt * 999
                                           THEN @
                                           ELSE IF Short(2 * buy.hi) THEN "fallback" ELSE "bisect"]

(* The probe, kept in hi, starts at half the reserve.                      *)
Probe == IF buy.rounds = 0 THEN loop.market.totalPt \div 2 ELSE buy.hi

Fallback ==
  /\ loop.status = "fallback" /\ buy.rounds < MaxIter
  /\ buy' = IF Feasible(Probe)
            THEN [buy EXCEPT !.lo = Probe, !.hi = (Probe + loop.market.totalPt) \div 2,
                             !.rounds = @ + 1]
            ELSE [buy EXCEPT !.hi = (buy.lo + Probe) \div 2, !.rounds = @ + 1]
  /\ loop' = [loop EXCEPT !.status = IF buy.rounds + 1 = MaxIter THEN "sized" ELSE @,
                          !.fellBack = TRUE]

Affordable(pt) == Feasible(pt) /\ Cost(pt) <= buy.budget

BisectBudget ==
  /\ loop.status = "bisect"
  /\ LET mid == (buy.lo + buy.hi) \div 2
         b   == IF Affordable(mid) THEN [buy EXCEPT !.lo = mid] ELSE [buy EXCEPT !.hi = mid]
     IN  /\ buy' = b
         /\ loop' = [loop EXCEPT !.status = IF b.hi - b.lo <= 1 THEN "sized" ELSE @]

(* A slip: the depth reached is not counted.                               *)
SameDepth == loop.achievedDepth

Deeper == loop.achievedDepth + 1

(* Nothing to buy ends the loop, else the purchase is supplied.  Its size  *)
(* was only priced so far: where the pool it leaves has no rate,           *)
(* executeTrade throws, and with it the program.                           *)
Buy ==
  /\ loop.status = "sized"
  /\ IF buy.lo = 0
     THEN loop' = [loop EXCEPT !.status = "done"]
     ELSE LET exec == ExecuteTrade(loop.market, buy.lo, BlockTime)
          IN  /\ Takes(loop.market, buy.lo, BlockTime)
              /\ loop' = [loop EXCEPT !.status = "borrow",
                                      !.market = exec.market,
                                      !.ammFeesPaid = @ + exec.trade.netAssetFee,
                                      !.assetSpent = @ - exec.trade.netAssetToAccount,
                                      !.collateralPt = @ + buy.lo,
                                      !.debt = @ + buy.budget,
                                      !.achievedDepth = Deeper]
  /\ buy' = BuyIdle

LoopStep == Borrow \/ Double \/ Fallback \/ BisectBudget \/ Buy

------------------------------------------------------------------------------
EffectiveLeverage == Ratio(loop.collateralPt, loop.initialPt)

(* The headroom a purchase leaves, as a part of what it was (q).           *)
HeadroomKept(lltv) == ONE - Times(BORROW_UTILISATION, ONE - lltv)

(* No haircut, no bound: Infinity.                                         *)
Unlimited(lltv) == HeadroomKept(lltv) >= ONE

(* The bound without fees and slippage, for a depth.  The first loan is    *)
(* utilisation * lltv = utilisation - (1 - q) of the price, rounded up.    *)
GeometricLeverageCeiling(lltv, depth) ==
  LET q == HeadroomKept(lltv)
      power[n \in Nat] == IF n = 0 THEN ONE ELSE Times(power[n - 1], q)
  IN  ONE + ((BORROW_UTILISATION - (ONE - q)) * (ONE - power[depth])) \div (ONE - q)

(* A slip: the displaced price stands for the one it reverts to.           *)
LiquidatedAtOracle(price, realizable) ==
  LiquidationOutcome(loop.collateralPt, loop.debt, loop.oraclePrice, realizable, loop.lltv)

(* What is left of the position when the oracle says price.                *)
LiquidatedAt(price, realizable) ==
  LiquidationOutcome(loop.collateralPt, loop.debt, price, realizable, loop.lltv)

(* settleLoop: the finished position under independent marks.              *)
Settle(referencePrice, initialPtCost) ==
  LET soldFor(perPt) == IF perPt = Unsellable THEN 0 ELSE perPt
      marked(perPt, realizable, reverted) ==
      [referenceValue |-> Times(loop.collateralPt, referencePrice),
       realizableValuePerPt |-> perPt,
       realizableValue |-> Times(loop.collateralPt, realizable),
       oracleValue |-> Times(loop.collateralPt, loop.oraclePrice),
       oraclePriceExceedsRedemptionCeiling |-> loop.oraclePrice > REDEMPTION_CEILING,
       solventUnderReferenceMark |-> Times(loop.collateralPt, referencePrice) >= loop.debt,
       solventUnderRealizableMark |-> Times(loop.collateralPt, realizable) >= loop.debt,
       liquidation |-> LiquidatedAt(loop.oraclePrice, realizable),
       liquidationAfterOracleReverts |-> reverted,
       protocolShortfall |-> reverted.debtRemaining,
       cashRetained |-> loop.debt - loop.assetSpent,
       attackerPnL |-> loop.debt - loop.assetSpent
                         + Times(reverted.collateralRemaining, realizable) - initialPtCost]
      settled(perPt, realizable) ==
        marked(perPt, realizable, LiquidatedAt(referencePrice, realizable))
      worth(perPt) == settled(perPt, soldFor(perPt))
  IN  worth(RealizableValuePerPt(loop.market, loop.collateralPt, BlockTime))
===============================================================================
