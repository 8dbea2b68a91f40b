------------------------------ MODULE MarketScan ------------------------------
(***************************************************************************)
(* The scan of scripts/phase5/scan-morpho-pt-markets.js: the indexer lists *)
(* the markets, then one after the other is inspected by probing its       *)
(* oracle contracts, every read an awaited call that can be lost, and the  *)
(* records are written to one file at the end.                             *)
(*                                                                         *)
(* phase says which await the program is in; the calls awaited are in the  *)
(* variable of module Rpc.  The recursion of classifyOracleNode is a stack *)
(* of nodes still to classify and the nodes found so far, in preorder.     *)
(***************************************************************************)
EXTENDS ScanFile, Rpc

CONSTANTS Markets,        \* PT markets of the indexer
          Listings,       \* what the indexer may answer: rows of markets
          Top,            \* --top
          ChainOf,        \* the chain a market is on
          AdapterOf,      \* its oracle, or ZERO when it has none
          MaxTrouble      \* bound: requests that go wrong in one scan

ASSUME MarketsAssumption ==
  /\ \A rows \in Listings : rows \in Seq(Markets)
  /\ Top \in Nat
  /\ \A m \in Markets : AdapterOf[m] \in Contracts \cup {ZERO} /\ Collateral[m] \in Nat

VARIABLES phase,          \* the await the program is in, "done" or "failed"
          selected,       \* the markets to inspect
          results,        \* one record for each market inspected
          todo,           \* stack: nodes of the current path still to classify
          nodes,          \* nodes of the current path already classified
          stage,          \* the pair of getters the first node of todo is probed for
          got,            \* getters of that node that decide something and were read
          leaves,         \* TWAP feeds whose Pendle market is still to be looked up
          entry,          \* the state of the Pendle market being read
          pendleMarketCache,
          pendle,         \* rec.pendleMarkets of the current market
          chains,         \* chains whose head is still to be read
          trouble,        \* requests that went wrong
          lost            \* history: a read of the current market was lost

scanVars == <<phase, selected, results, todo, nodes, stage, got, leaves, entry,
              pendleMarketCache, pendle, chains, call, trouble, lost>>

Current == selected[Len(results) + 1]
Chain == ChainOf[Current]
AtNode == Head(todo)
AtChain == CHOOSE c \in chains : TRUE

(* The market's record; the kinds and leaves of the file are read off nodes. *)
Rec(m, error, ns, p, incomplete) ==
  [market |-> m, error |-> error, nodes |-> ns, pendle |-> p, lost |-> incomplete]

NoState == [ok |-> FALSE, rate |-> FALSE, decimals |-> FALSE, observed |-> 0]

Init ==
  /\ phase = "fetch" /\ selected = << >> /\ results = << >>
  /\ todo = << >> /\ nodes = << >> /\ stage = 0 /\ got = {}
  /\ leaves = << >> /\ entry = NoState
  /\ pendleMarketCache = << >> /\ pendle = << >>
  /\ chains = {} /\ call = << >> /\ trouble = 0 /\ lost = FALSE

------------------------------------------------------------------------------
(* A slip: duplicates are kept.                                            *)
AsListed(rows) == rows

(* The indexer answers; its rows collapse to distinct markets, of which    *)
(* the first Top are taken.                                                *)
Unique(rows) ==
  Picked(rows, {i \in DOMAIN rows : \A j \in 1 .. i - 1 : rows[j] # rows[i]})

Fetch ==
  /\ phase = "fetch"
  /\ \E rows \in Listings :
       LET unique == Unique(rows)
       IN  selected' = SubSeq(unique, 1, IF Len(unique) < Top THEN Len(unique) ELSE Top)
  /\ phase' = "next"
  /\ UNCHANGED <<results, todo, nodes, stage, got, leaves, entry, pendleMarketCache,
                 pendle, chains, call, trouble, lost>>

FetchFails ==
  /\ phase = "fetch" /\ trouble < MaxTrouble
  /\ phase' = "failed" /\ trouble' = trouble + 1
  /\ UNCHANGED <<selected, results, todo, nodes, stage, got, leaves, entry,
                 pendleMarketCache, pendle, chains, call, lost>>

(* inspectMarket, up to the first read. *)
StartMarket ==
  /\ phase = "next" /\ Len(results) < Len(selected)
  /\ nodes' = << >> /\ pendle' = << >> /\ lost' = FALSE
  /\ IF AdapterOf[Current] = ZERO
     THEN /\ results' = Append(results, Rec(Current, FALSE, << >>, << >>, FALSE))
          /\ UNCHANGED <<phase, todo>>
     ELSE /\ todo' = << [addr |-> AdapterOf[Current], depth |-> 0] >>
          /\ phase' = "node"
          /\ UNCHANGED results
  /\ UNCHANGED <<selected, stage, got, leaves, entry, pendleMarketCache, chains, call, trouble>>

(* classifyOracleNode: nothing to read for null, else the description. *)
SkipNull ==
  /\ phase = "node" /\ todo # << >> /\ IsNull(AtNode)
  /\ todo' = Tail(todo)
  /\ UNCHANGED <<phase, selected, results, nodes, stage, got, leaves, entry,
                 pendleMarketCache, pendle, chains, call, trouble, lost>>

EnterNode ==
  /\ phase = "node" /\ todo # << >> /\ ~ IsNull(AtNode)
  /\ phase' = "probe" /\ stage' = 0 /\ got' = {}
  /\ Issue(Chain, {"description"})
  /\ lost' = (lost \/ Endpoints(Chain) = 0)
  /\ UNCHANGED <<selected, results, todo, nodes, leaves, entry, pendleMarketCache,
                 pendle, chains, trouble>>

(* One request of the calls awaited.  A getter the contract does not have  *)
(* makes a node answer with an error or with nothing; what goes wrong      *)
(* beyond that is trouble, of which one scan has at most MaxTrouble.       *)
Has(c) == IF phase = "probe" THEN c \in Getters[AtNode.addr] ELSE TRUE

Usual(c, body) == IF Has(c) THEN body = "result" ELSE body \in {"error", "noResult"}

Request ==
  /\ phase \in {"probe", "pendle", "heads"} /\ ~ Rejected
  /\ \E c \in DOMAIN call :
       \/ \E body \in Bodies :
            /\ body = "result" => Has(c)
            /\ PostAnswers(c, body)
            /\ trouble' = trouble + (IF Usual(c, body) THEN 0 ELSE 1)
            /\ lost' = (lost \/ (Has(c) /\ body # "result"))
       \/ \E chain \in {IF phase = "heads" THEN AtChain ELSE Chain} :
            /\ PostFails(chain, c)
            /\ trouble' = trouble + 1
            /\ lost' = (lost \/ (Has(c) /\ call'[c].out = "unreachable"))
  /\ trouble' <= MaxTrouble
  /\ UNCHANGED <<phase, selected, results, todo, nodes, stage, got, leaves, entry,
                 pendleMarketCache, pendle, chains>>

(* A slip: the children wait until the node's siblings are classified.     *)
ClassifiedLevelByLevel(k, seen) ==
  /\ nodes' = Append(nodes, [addr |-> AtNode.addr, kind |-> Kinds[k], depth |-> AtNode.depth])
  /\ todo' = Tail(todo) \o Children(Kinds[k], AtNode.addr, AtNode.depth, seen)
  /\ phase' = "node" /\ got' = {} /\ stage' = 0 /\ call' = << >>

(* The reads of the stage are in: the node is of the shape they identify,  *)
(* and its children come next, or the next pair is tried.                  *)
Classified(k, seen) ==
  /\ nodes' = Append(nodes, [addr |-> AtNode.addr, kind |-> Kinds[k], depth |-> AtNode.depth])
  /\ todo' = Children(Kinds[k], AtNode.addr, AtNode.depth, seen) \o Tail(todo)
  /\ phase' = "node" /\ got' = {} /\ stage' = 0 /\ call' = << >>

Try(k, seen) ==
  /\ stage' = k /\ got' = seen
  /\ Issue(Chain, Probes[k])
  /\ UNCHANGED <<phase, nodes, todo>>

LegsStage == 9

Probed ==
  /\ phase = "probe" /\ Settled
  /\ LET seen == got \cup Read
     IN  \/ /\ stage = 0
            /\ Try(1, seen)
         \/ /\ stage \in 1 .. 8 /\ Recognised(stage, AtNode.addr, seen)
            /\ IF Kinds[stage] = "MorphoChainlinkOracleV2"
               THEN /\ stage' = LegsStage /\ got' = seen
                    /\ Issue(Chain, LateLegs)
                    /\ UNCHANGED <<phase, nodes, todo>>
               ELSE Classified(stage, seen)
         \/ /\ stage \in 1 .. 7 /\ ~ Recognised(stage, AtNode.addr, seen)
            /\ Try(stage + 1, seen \cap {"description"})
         \/ /\ stage = 8 /\ ~ Recognised(stage, AtNode.addr, seen)
            /\ Classified(9, seen)
         \/ /\ stage = LegsStage
            /\ Classified(3, seen)
  /\ UNCHANGED <<selected, results, leaves, entry, pendleMarketCache, pendle, chains,
                 trouble, lost>>

PathDone ==
  /\ phase = "node" /\ todo = << >>
  /\ phase' = "leaf"
  /\ leaves' = TwapLeaves(nodes)
  /\ UNCHANGED <<selected, results, todo, nodes, stage, got, entry, pendleMarketCache,
                 pendle, chains, call, trouble, lost>>

(* A throw anywhere below inspectMarket: the market gets an error record.  *)
MarketFails ==
  /\ phase \in {"probe", "pendle"} /\ Rejected
  /\ results' = Append(results, Rec(Current, TRUE, << >>, << >>, lost))
  /\ phase' = "next" /\ todo' = << >> /\ leaves' = << >> /\ call' = << >>
  /\ UNCHANGED <<selected, nodes, stage, got, entry, pendleMarketCache, pendle, chains,
                 trouble, lost>>

------------------------------------------------------------------------------
(* A slip: the cache is kept by feed.                                      *)
KeyOfFeed(leaf) == <<Chain, leaf.addr>>

(* The Pendle market behind each TWAP feed, from the cache if some market  *)
(* of this scan has read it before, its failure included.                  *)
Key(leaf) == <<Chain, Market[leaf.addr]>>

Extended(f, k, v) == [x \in DOMAIN f \cup {k} |-> IF x = k THEN v ELSE f[x]]

Cached ==
  /\ phase = "leaf" /\ leaves # << >>
  /\ Key(Head(leaves)) \in DOMAIN pendleMarketCache
  /\ pendle' = Extended(pendle, Market[Head(leaves).addr], pendleMarketCache[Key(Head(leaves))])
  /\ leaves' = Tail(leaves)
  /\ UNCHANGED <<phase, selected, results, todo, nodes, stage, got, entry,
                 pendleMarketCache, chains, call, trouble, lost>>

ReadPendleMarket ==
  /\ phase = "leaf" /\ leaves # << >>
  /\ Key(Head(leaves)) \notin DOMAIN pendleMarketCache
  /\ phase' = "pendle" /\ entry' = NoState
  /\ Issue(Chain, {"readState", "readTokens"})
  /\ UNCHANGED <<selected, results, todo, nodes, stage, got, leaves, pendleMarketCache,
                 pendle, chains, trouble, lost>>

(* readPendleMarket goes on to the SY's exchange rate if both reads worked, *)
(* readObservations follows for a window that is not zero, then the entry  *)
(* goes into the cache, complete or not.                                   *)
Kept(e) ==
  /\ pendleMarketCache' = Extended(pendleMarketCache, Key(Head(leaves)), e)
  /\ pendle' = Extended(pendle, Market[Head(leaves).addr], e)
  /\ leaves' = Tail(leaves)
  /\ phase' = "leaf" /\ entry' = NoState /\ call' = << >>

ThenObserve(e) ==
  IF Window[Head(leaves).addr] = 0 THEN Kept(e)
  ELSE /\ entry' = e
       /\ Issue(Chain, {"observe"})
       /\ UNCHANGED <<phase, leaves, pendle, pendleMarketCache>>

PendleRead ==
  /\ phase = "pendle" /\ Settled
  /\ \/ /\ "readState" \in DOMAIN call
        /\ LET e == [entry EXCEPT !.ok = "readState" \in Read]
           IN  IF {"readState", "readTokens"} \subseteq Read
               THEN /\ entry' = e
                    /\ Issue(Chain, {"exchangeRate", "decimals"})
                    /\ UNCHANGED <<phase, leaves, pendle, pendleMarketCache>>
               ELSE ThenObserve(e)
     \/ /\ "exchangeRate" \in DOMAIN call
        /\ ThenObserve([entry EXCEPT !.rate = "exchangeRate" \in Read,
                                      !.decimals = "decimals" \in Read])
     \/ /\ "observe" \in DOMAIN call
        /\ Kept([entry EXCEPT !.observed = IF "observe" \in Read
                                           THEN Window[Head(leaves).addr] ELSE 0])
  /\ UNCHANGED <<selected, results, todo, nodes, stage, got, chains, trouble, lost>>

MarketDone ==
  /\ phase = "leaf" /\ leaves = << >>
  /\ results' = Append(results, Rec(Current, FALSE, nodes, pendle, lost))
  /\ phase' = "next"
  /\ UNCHANGED <<selected, todo, nodes, stage, got, leaves, entry, pendleMarketCache,
                 pendle, chains, call, trouble, lost>>

------------------------------------------------------------------------------
(* The heads of the chains, outside every try: a null body throws, and so  *)
(* does BigInt of a result that is not there.  Only then is the file       *)
(* written.                                                                *)
AllInspected ==
  /\ phase = "next" /\ Len(results) = Len(selected)
  /\ chains' = {ChainOf[results[i].market] : i \in DOMAIN results}
  /\ phase' = "heads" /\ call' = << >>
  /\ UNCHANGED <<selected, results, todo, nodes, stage, got, leaves, entry,
                 pendleMarketCache, pendle, trouble, lost>>

BlockNumber ==
  /\ phase = "heads" /\ chains # {} /\ call = << >>
  /\ Issue(AtChain, {"eth_blockNumber"})
  /\ UNCHANGED <<phase, selected, results, todo, nodes, stage, got, leaves, entry,
                 pendleMarketCache, pendle, chains, trouble, lost>>

HeadRead ==
  /\ phase = "heads" /\ call # << >> /\ Settled
  /\ IF call["eth_blockNumber"].out = "empty"
     THEN phase' = "failed" /\ UNCHANGED chains
     ELSE chains' = chains \ {AtChain} /\ UNCHANGED phase
  /\ call' = << >>
  /\ UNCHANGED <<selected, results, todo, nodes, stage, got, leaves, entry,
                 pendleMarketCache, pendle, trouble, lost>>

HeadFails ==
  /\ phase = "heads" /\ Rejected
  /\ phase' = "failed" /\ call' = << >>
  /\ UNCHANGED <<selected, results, todo, nodes, stage, got, leaves, entry,
                 pendleMarketCache, pendle, chains, trouble, lost>>

WriteFile ==
  /\ phase = "heads" /\ chains = {}
  /\ phase' = "done"
  /\ UNCHANGED <<selected, results, todo, nodes, stage, got, leaves, entry,
                 pendleMarketCache, pendle, chains, call, trouble, lost>>

Next ==
  \/ Fetch \/ FetchFails \/ StartMarket \/ SkipNull \/ EnterNode \/ Request
  \/ Probed \/ PathDone \/ MarketFails \/ Cached \/ ReadPendleMarket \/ PendleRead
  \/ MarketDone \/ AllInspected \/ BlockNumber \/ HeadRead \/ HeadFails \/ WriteFile

(* Every await comes back: post gives up after 30 seconds, the indexer     *)
(* query after 60, and the program has nothing else to do meanwhile.       *)
Spec == Init /\ [][Next]_scanVars /\ WF_scanVars(Next)

------------------------------------------------------------------------------
(* Types, and the depth below which the recursion never descends.          *)
TypeOK ==
  /\ phase \in {"fetch", "next", "node", "probe", "leaf", "pendle", "heads", "done", "failed"}
  /\ selected \in Seq(Markets) /\ Len(results) <= Len(selected)
  /\ todo \in Seq([addr : Contracts \cup {ZERO}, depth : 0 .. MaxDepth + 1])
  /\ nodes \in Seq(Node)
  /\ stage \in 0 .. LegsStage
  /\ chains \subseteq {ChainOf[m] : m \in Markets}
  /\ \A c \in DOMAIN call : call[c].out \in Endings \cup {"pending"}
  /\ lost \in BOOLEAN

(* A record that lost no read holds the market's price path exactly as it  *)
(* is deployed: no shape is mistaken for another, no leg is skipped, none  *)
(* is visited out of order, whatever the nodes answered to the getters a   *)
(* contract does not have.                                                 *)
ExactUnlessLost ==
  \A i \in DOMAIN results :
    LET r == results[i]
    IN  ~ r.error /\ ~ r.lost => r.nodes = TrueNodes(AdapterOf[r.market])

(* rpc() reports a chain unreachable only after each of its endpoints has  *)
(* failed the request, and asks no endpoint again once one has answered.   *)
EveryEndpointTried ==
  \A c \in DOMAIN call :
    LET endpoints == Endpoints(IF phase = "heads" THEN AtChain ELSE Chain)
    IN  IF call[c].out = "unreachable" THEN call[c].tries = endpoints
                                       ELSE call[c].tries < endpoints

(* Two records on one chain that read the same Pendle market hold the same *)
(* state of it, so the tables of the market map may take the first.        *)
CacheAgrees ==
  \A i, j \in DOMAIN results :
    ChainOf[results[i].market] = ChainOf[results[j].market]
      => \A p \in DOMAIN results[i].pendle \cap DOMAIN results[j].pendle :
           results[i].pendle[p] = results[j].pendle[p]

(* A scenario of the sweeps is anchored in a feed the market really has:   *)
(* one that reads the scenario's Pendle market over the scenario's window, *)
(* reads lost or not.                                                      *)
ScenariosBacked ==
  phase = "done" => \A s \in LiveScenarios(results) :
    \E leaf \in Range(TwapLeaves(TrueNodes(AdapterOf[s.market]))) :
      /\ Market[leaf.addr] = s.pendleMarket
      /\ Window[leaf.addr] = s.twapDuration

(* The market map and the file's own distribution speak of the same        *)
(* markets: the rows and the errors make up all that were inspected, the   *)
(* UNKNOWN section is as long as its row of the distribution, the sweeps   *)
(* are anchored in Pendle markets and a window the map shows, and a market *)
(* has a mechanism exactly if its defences count a PT feed.                *)
MapAddsUp ==
  LET counted(k) == IF k \in DOMAIN MechanismDistribution(results)
                    THEN MechanismDistribution(results)[k] ELSE 0
  IN  phase = "done" =>
        /\ Len(Shown(results)) + counted(ERROR) = Len(selected)
        /\ Len(UnknownMarkets(results)) = counted(UNKNOWN)
        /\ \A s \in LiveScenarios(results) : s.pendleMarket \in PendleRows(results)
        /\ Candidates(results) # {} =>
             LargestTwapScenario(results).twapDuration \in TwapDurations(results)
        /\ \A r \in Range(Shown(results)) :
             LET d == Defences(r.nodes)
             IN  AppliesPtDiscount(r)
                   <=> Len(d.twapWindows) + d.spotMarketReads + d.marketIndependentFeeds > 0

(* The scan comes to an end whatever the oracle contracts look like and    *)
(* however the requests end, wrappers of themselves included.              *)
ScanEnds == <> (phase \in {"done", "failed"})

(* The scan is a survey: every market planned gets one record, in order,   *)
(* its feeds all real, and nothing short of all of them is published.      *)
Addresses(ns) == {n.addr : n \in Range(ns)}

PtFeeds == [m \in Markets |-> Addresses(Leaves(TrueNodes(AdapterOf[m])))]

Promise ==
  INSTANCE Survey WITH
    Feeds    <- PtFeeds,
    status   <- CASE phase = "done" -> "published"
                  [] phase = "failed" -> "abandoned"
                  [] OTHER -> "running",
    agenda   <- selected,
    recorded <- [i \in DOMAIN results |-> [market |-> results[i].market,
                                           feeds  |-> Addresses(Leaves(results[i].nodes))]]

KeepsPromise == Promise!Spec
=============================================================================
