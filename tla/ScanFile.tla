------------------------------- MODULE ScanFile -------------------------------
(***************************************************************************)
(* What is read off the records of a scan: the summaries the scan itself   *)
(* writes into its file, the scenarios models/phase5-scenarios.js builds   *)
(* from the file, and the tables of scripts/phase5/render-market-map.js.   *)
(*                                                                         *)
(* A record is [market, error, nodes, pendle, lost] as module MarketScan   *)
(* makes it.  A kind of mechanism is the set of the kinds joined in its    *)
(* name.  USD figures are the constant Collateral.                         *)
(***************************************************************************)
EXTENDS OracleProbe, FiniteSets

CONSTANT Collateral         \* collateralAssetsUsd of a market

UNKNOWN == {}
ERROR == {"ERROR"}

KindsOf(nodes) == {nodes[i].kind : i \in DOMAIN nodes}

Count(seq, Test(_)) == Cardinality({i \in DOMAIN seq : Test(seq[i])})

(* ptPriceMechanism, and the key it is counted under.                      *)
Mechanism(r) == IF r.error THEN ERROR ELSE KindsOf(Leaves(r.nodes))

MechanismDistribution(results) ==
  [k \in {Mechanism(results[i]) : i \in DOMAIN results} |->
     Count(results, LAMBDA r : Mechanism(r) = k)]

AppliesPtDiscount(r) == Leaves(r.nodes) # << >>

(* summariseDefences: one pass over the tree, every node under one heading *)
Defences(nodes) ==
  [twapWindows |-> LET timed == Select(TwapLeaves(nodes), LAMBDA n : Window[n.addr] # 0)
                   IN  [i \in DOMAIN timed |-> Window[timed[i].addr]],
   spotMarketReads |-> Count(TwapLeaves(nodes), LAMBDA n : Window[n.addr] = 0),
   marketIndependentFeeds |->
     Count(nodes, LAMBDA n : n.kind = "PendleSparkLinearDiscountOracle"),
   minAggregations |-> Count(nodes, LAMBDA n : n.kind = "OjoPTFeed"),
   yieldCaps |-> Count(nodes, LAMBDA n : n.kind = "OjoYieldRiskEngineV2"),
   deviationTimelocks |-> Count(nodes, LAMBDA n : n.kind = "MetaOracleDeviationTimelock")]

------------------------------------------------------------------------------
(* marketFromScan returns null for an entry without the fields it requires;*)
(* decimals that were not read count as 18 each.                           *)
Usable(entry) == entry.ok /\ entry.rate

NoWindow == 0

(* A slip: the first TWAP leaf, whatever it reads.                         *)
ReadsSomething(leaf, p) == TRUE

(* The window of the first TWAP leaf that reads the Pendle market: the     *)
(* leaf the scan made the entry for.                                       *)
Reads(leaf, p) == Market[leaf.addr] = p

TwapDuration(r, p) ==
  LET of == Select(TwapLeaves(r.nodes), LAMBDA n : Reads(n, p))
  IN  IF of = << >> THEN NoWindow ELSE Window[Head(of).addr]

LiveScenarios(results) ==
  UNION {{[market |-> results[i].market, pendleMarket |-> p,
           twapDuration |-> TwapDuration(results[i], p)] :
            p \in {q \in DOMAIN results[i].pendle : Usable(results[i].pendle[q])}} :
           i \in {j \in DOMAIN results : ~ results[j].error}}

(* Throws when there is none.                                              *)
Candidates(results) == {s \in LiveScenarios(results) : s.twapDuration # NoWindow}

LargestTwapScenario(results) ==
  CHOOSE s \in Candidates(results) :
    \A t \in Candidates(results) : Collateral[t.market] <= Collateral[s.market]

------------------------------------------------------------------------------
(* A slip: error records are shown too.                                    *)
ShownWithErrors(results) == results

(* The market map: error records are left out of every table.              *)
Shown(results) == Select(results, LAMBDA r : ~ r.error)

UnknownMarkets(results) ==
  Select(Shown(results), LAMBDA r : Mechanism(r) = UNKNOWN)

TwapDurations(results) ==
  UNION {Range(Defences(Shown(results)[i].nodes).twapWindows) : i \in DOMAIN Shown(results)}

(* One row for each Pendle market, from the first market that shows it.    *)
PendleRows(results) ==
  UNION {{p \in DOMAIN Shown(results)[i].pendle : Shown(results)[i].pendle[p].ok} :
           i \in DOMAIN Shown(results)}
===============================================================================
