------------------------------ MODULE PtValuation ------------------------------
(***************************************************************************)
(* The four prices of one PT that models/pendle-pt-valuation.js keeps      *)
(* apart: what it redeems for, what its pool implies, what each oracle     *)
(* design reports, and what selling a position through the pool returns.   *)
(***************************************************************************)
EXTENDS PendleAmm, FiniteSetsExt

Unsellable == -1                \* null: the pool does not take the size
Overflows == -1                 \* the require of the linear-discount feed

REDEMPTION_CEILING == ONE

RedemptionValue(timeToMaturity, discountRate) ==
  PtToAssetRateFromLnImpliedRate(discountRate, timeToMaturity)

MarketImpliedValue(market, blockTime) ==
  PtToAssetRate(market.lastLnImpliedRate, market.expiry - blockTime,
                market.syIndex, market.pyIndex)

LinearDiscountOracleValue(timeToMaturity, baseDiscountPerYear) ==
  LET discount == (Larger(0, timeToMaturity) * baseDiscountPerYear) \div YEAR
  IN  IF discount > ONE THEN Overflows ELSE ONE - discount

TwapOracleValue(twapLnImpliedRate, timeToMaturity, syIndex, pyIndex) ==
  PtToAssetRate(twapLnImpliedRate, timeToMaturity, syIndex, pyIndex)

(* A slip: the largest leg for the smallest.                               *)
HighestLeg(legAnswers) == Max(legAnswers)

MinAggregatedOracleValue(legAnswers) == Min(legAnswers)

MetaOracleValue(primary, backup, isPrimary) == IF isPrimary THEN primary ELSE backup

RealizableValuePerPt(market, ptAmount, blockTime) ==
  IF ptAmount <= 0 THEN MarketImpliedValue(market, blockTime)
  ELSE IF ~ Takes(market, - ptAmount, blockTime) THEN Unsellable
  ELSE Ratio(ExecuteTrade(market, - ptAmount, blockTime).trade.netAssetToAccount, ptAmount)

(* One line of the comparison of the four, for the feed that reads the     *)
(* pool's rate and for linear-discount feeds.                              *)
OracleValue(market, blockTime, oracle) ==
  CASE oracle.kind = "PendleSparkLinearDiscountOracle" ->
         LinearDiscountOracleValue(market.expiry - blockTime, oracle.baseDiscountPerYear)
    [] oracle.kind = "PendleChainlinkOracle" ->
         TwapOracleValue(oracle.twapLnImpliedRate, market.expiry - blockTime,
                         market.syIndex, market.pyIndex)
    [] oracle.kind = "OjoPTFeed" -> MinAggregatedOracleValue(oracle.legAnswers)
    [] oracle.kind = "MetaOracleDeviationTimelock" ->
         MetaOracleValue(oracle.primary, oracle.backup, oracle.isPrimary)

ValuationSnapshot(market, blockTime, oracle, liquidationSize) ==
  LET compared(B, C, D) ==
        [redemptionValue |-> RedemptionValue(market.expiry - blockTime, 0),
         marketImpliedValue |-> B, oracleValue |-> C, realizableValue |-> D,
         oracleOvervaluationVsMarket |-> C - B,
         oracleOvervaluationVsRealizable |-> IF D = Unsellable THEN 0 ELSE C - D]
  IN  compared(MarketImpliedValue(market, blockTime), OracleValue(market, blockTime, oracle),
               RealizableValuePerPt(market, liquidationSize, blockTime))
================================================================================
