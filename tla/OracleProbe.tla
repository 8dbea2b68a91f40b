----------------------------- MODULE OracleProbe -----------------------------
(***************************************************************************)
(* Which contract is behind an address: the shapes that                    *)
(* scripts/phase5/lib/oracle-probe.js tells apart, in the order it tries   *)
(* them, and the tree of a market's price path as it really is.            *)
(*                                                                         *)
(* A deployed contract is the set of getters it answers and the addresses  *)
(* its getters return.  Getters whose value decides nothing (decimals,     *)
(* PT, deviation thresholds, staleness, the last round's figures) are left *)
(* out of it.                                                              *)
(***************************************************************************)
EXTENDS Naturals, Sequences, SequencesExt

CONSTANTS Contracts,    \* deployed oracle contracts
          ZERO,         \* the zero address
          KindOf,       \* what each contract is
          Getters,      \* the getters each contract answers
          Child,        \* the address a contract's getter returns
          Market,       \* the Pendle market a TWAP feed reads
          Window,       \* its twapDuration
          MaxDepth      \* 5 in the code

ASSUME MaxDepthAssumption == MaxDepth \in Nat
ASSUME ContractsAssumption == ZERO \notin Contracts

(* The elements of a sequence at the positions in I, in their order, and   *)
(* those that pass a test: SelectSeq, by a recursive function.             *)
Picked(seq, I) ==
  LET upTo[i \in 0 .. Len(seq)] ==
        IF i = 0 THEN << >>
        ELSE IF i \in I THEN Append(upTo[i - 1], seq[i]) ELSE upTo[i - 1]
  IN  upTo[Len(seq)]

Select(seq, Test(_)) == Picked(seq, {i \in DOMAIN seq : Test(seq[i])})

(* The pairs of getters that are read together, one pair a shape.          *)
Probes ==
  << {"baseDiscountPerYear", "maturity"}, {"twapDuration", "market"},
     {"BASE_FEED_1", "SCALE_FACTOR"}, {"primaryOracle", "backupOracle"},
     {"basePriceFeed", "annualYieldCap"}, {"FEED_1", "FEED_2"},
     {"innerOracle"}, {"latestRoundData", "aggregator"} >>

Kinds ==
  << "PendleSparkLinearDiscountOracle", "PendleChainlinkOracle",
     "MorphoChainlinkOracleV2", "MetaOracleDeviationTimelock",
     "OjoYieldRiskEngineV2", "OjoPTFeed",
     "PendleLinearDiscountOracleWrapper", "ChainlinkAggregator", "UNKNOWN" >>

PT_LEAF_KINDS == {"PendleSparkLinearDiscountOracle", "PendleChainlinkOracle"}

(* The getters of a shape that lead on, in the order they are followed,    *)
(* and those of them that are read only once the shape is known.           *)
Legs(kind) ==
  CASE kind = "MorphoChainlinkOracleV2" ->
         << "BASE_FEED_1", "BASE_FEED_2", "QUOTE_FEED_1", "QUOTE_FEED_2" >>
    [] kind = "MetaOracleDeviationTimelock" -> << "primaryOracle", "backupOracle" >>
    [] kind = "OjoYieldRiskEngineV2" -> << "basePriceFeed" >>
    [] kind = "OjoPTFeed" -> << "FEED_1", "FEED_2" >>
    [] kind = "PendleLinearDiscountOracleWrapper" -> << "innerOracle" >>
    [] OTHER -> << >>

LateLegs == {"BASE_FEED_2", "QUOTE_FEED_1", "QUOTE_FEED_2"}

(* Does contract a pass for shape k, given the getters that answered?  The *)
(* description was read before the first pair.                             *)
Recognised(k, a, got) ==
  CASE Kinds[k] = "PendleLinearDiscountOracleWrapper" ->
         "innerOracle" \in got /\ Child[a]["innerOracle"] # ZERO
    [] Kinds[k] = "ChainlinkAggregator" ->
         "latestRoundData" \in got /\ got \cap {"aggregator", "description"} # {}
    [] OTHER -> Probes[k] \subseteq got

(* Contracts answer the getters of the shape they are of and pass for no   *)
(* other, except that any feed with an answer may pass for an aggregator,  *)
(* which is why that shape is tried last.                                  *)
ASSUME ShapesAssumption ==
  \A a \in Contracts :
    /\ \A k \in 1 .. 7 : Recognised(k, a, Getters[a]) <=> KindOf[a] = Kinds[k]
    /\ KindOf[a] \notin {Kinds[k] : k \in 1 .. 7} =>
         KindOf[a] = IF Recognised(8, a, Getters[a]) THEN "ChainlinkAggregator" ELSE "UNKNOWN"

ASSUME ChildAssumption ==
  \A a \in Contracts, k \in 1 .. 9 :
    \A leg \in Range(Legs(Kinds[k])) \cap Getters[a] : Child[a][leg] \in Contracts \cup {ZERO}

(* The nodes to classify under a node at depth d, from the getters read.   *)
Children(kind, a, d, got) ==
  LET followed == Select(Legs(kind), LAMBDA leg : leg \in got)
  IN  [i \in 1 .. Len(followed) |-> [addr |-> Child[a][followed[i]], depth |-> d + 1]]

(* A slip: no limit on the depth.                                          *)
IsNullAtAnyDepth(n) == n.addr = ZERO

(* if (!addr || addr === ZERO || depth > 5) return null                    *)
IsNull(n) == n.addr = ZERO \/ n.depth > MaxDepth

Node == [addr : Contracts, kind : {Kinds[k] : k \in 1 .. 9}, depth : 0 .. MaxDepth]

------------------------------------------------------------------------------
(* The path as it is deployed, in the order of the walk.                   *)
TrueTree[d \in 0 .. MaxDepth + 1] ==
  [a \in Contracts \cup {ZERO} |->
     IF a = ZERO \/ d > MaxDepth THEN << >>
     ELSE LET cs == Children(KindOf[a], a, d, Getters[a])
          IN  << [addr |-> a, kind |-> KindOf[a], depth |-> d] >>
              \o FlattenSeq([i \in 1 .. Len(cs) |-> TrueTree[d + 1][cs[i].addr]])]

TruePaths == [a \in Contracts \cup {ZERO} |-> TrueTree[0][a]]

TrueNodes(a) == TruePaths[a]

(* collectPtLeaves                                                         *)
Leaves(nodes) == Select(nodes, LAMBDA n : n.kind \in PT_LEAF_KINDS)
TwapLeaves(nodes) == Select(nodes, LAMBDA n : n.kind = "PendleChainlinkOracle")
=============================================================================
