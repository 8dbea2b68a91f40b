----------------------------- MODULE MCMarketScan -----------------------------
(***************************************************************************)
(* Five markets on three chains, one chain with two endpoints, one with a  *)
(* single endpoint and one the endpoint list does not know.  The oracles   *)
(* cover every composition layer: an adapter over a meta-oracle over a     *)
(* minimum of a TWAP and a linear-discount feed, a capped feed, a wrapper, *)
(* and a wrapper of itself, which only the depth limit stops.  Two feeds   *)
(* read the same Pendle market with different windows, and one market has  *)
(* no oracle.                                                              *)
(***************************************************************************)
EXTENDS MarketScan, TLC

CONSTANTS m1, m2, m3, m4, m5,                                   \* markets
          adapter, meta, minFeed, twapLong, twapShort, twapLoan, linear, chainlink,
          loop, capped, external, zero

MCContracts == {adapter, meta, minFeed, twapLong, twapShort, twapLoan, linear,
                chainlink, loop, capped, external}

Feeds == {twapLong, twapShort, twapLoan, linear, chainlink, external}

MCChild ==
  adapter   :> ("BASE_FEED_1" :> meta @@ "BASE_FEED_2" :> external
                @@ "QUOTE_FEED_1" :> chainlink @@ "QUOTE_FEED_2" :> twapLoan)
  @@ meta   :> ("primaryOracle" :> twapLong @@ "backupOracle" :> minFeed)
  @@ minFeed :> ("FEED_1" :> twapShort @@ "FEED_2" :> linear)
  @@ capped :> ("basePriceFeed" :> twapShort)
  @@ loop   :> ("innerOracle" :> loop)
  @@ [c \in Feeds |-> << >>]

\* external answers one getter of a shape it is not.
MCGetters ==
  [c \in MCContracts |->
     DOMAIN MCChild[c] \cup
     CASE c = adapter   -> {"SCALE_FACTOR"}
       [] c \in {twapLong, twapShort, twapLoan} ->
            {"description", "twapDuration", "market", "latestRoundData"}
       [] c = linear    -> {"baseDiscountPerYear", "maturity", "latestRoundData"}
       [] c = chainlink -> {"description", "latestRoundData", "aggregator"}
       [] c = capped    -> {"annualYieldCap", "latestRoundData"}
       [] c = external  -> {"description", "maturity"}
       [] OTHER -> {}]

MCKindOf ==
  adapter :> "MorphoChainlinkOracleV2" @@ meta :> "MetaOracleDeviationTimelock"
  @@ minFeed :> "OjoPTFeed" @@ capped :> "OjoYieldRiskEngineV2"
  @@ loop :> "PendleLinearDiscountOracleWrapper" @@ external :> "UNKNOWN"
  @@ linear :> "PendleSparkLinearDiscountOracle" @@ chainlink :> "ChainlinkAggregator"
  @@ [c \in {twapLong, twapShort, twapLoan} |-> "PendleChainlinkOracle"]

MCMarket == [c \in {twapLong, twapShort} |-> "pendleMarket"] @@ twapLoan :> "loanMarket"
MCWindow == twapLong :> 900 @@ twapShort :> 0 @@ twapLoan :> 1800
MCMarkets == {m1, m2, m3, m4, m5}
MCListings == {<< m1, m1, m2 >>, << m5, m3, m3, m4, m2 >>}
MCChainOf == m1 :> "two" @@ m2 :> "two" @@ m3 :> "one" @@ m4 :> "none" @@ m5 :> "one"
MCAdapterOf == m1 :> adapter @@ m2 :> capped @@ m3 :> loop @@ m4 :> linear @@ m5 :> zero
MCEndpoints == "two" :> 2 @@ "one" :> 1
MCCollateral == m1 :> 30 @@ m2 :> 20 @@ m3 :> 10 @@ m4 :> 40 @@ m5 :> 0
===============================================================================
