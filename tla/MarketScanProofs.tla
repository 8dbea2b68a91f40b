---------------------------- MODULE MarketScanProofs ----------------------------
(***************************************************************************)
(* What holds of a scan for every set of markets, contracts and endpoints, *)
(* and whatever number of requests goes wrong.                             *)
(***************************************************************************)
EXTENDS MarketScan, FiniteSetTheorems, SequenceTheorems, WellFoundedInduction, TLAPS

LEMMA EndpointsNat == \A chain : Endpoints(chain) \in Nat
BY EndpointsAssumption DEF Endpoints

(***************************************************************************)
(* The calls under way, told of a chain with n endpoints.                  *)
(***************************************************************************)
TriedAgainst(f, n) ==
  \A c \in DOMAIN f :
    /\ f[c].tries \in Nat
    /\ f[c].out = "unreachable" => f[c].tries = n
    /\ f[c].out # "unreachable" => f[c].tries < n
    /\ f[c] = [tries |-> f[c].tries, out |-> f[c].out]

ChainAsked == IF phase = "heads" THEN AtChain ELSE Chain

(* Outside the three awaits no call is left over, so that the chain may    *)
(* change there.                                                           *)
CallInv ==
  /\ TriedAgainst(call, Endpoints(ChainAsked))
  /\ phase \notin {"probe", "pendle", "heads"} => call = << >>
  /\ phase = "heads" /\ chains = {} => call = << >>

LEMMA NothingAsked == \A n : TriedAgainst(<< >>, n)
BY DEF TriedAgainst

LEMMA IssueTried ==
  ASSUME NEW chain, NEW calls, Issue(chain, calls)
  PROVE  TriedAgainst(call', Endpoints(chain))
BY EndpointsNat, SMT DEF TriedAgainst, Issue, Fresh

(* One answer or failure.                                                  *)
LEMMA AnswerTried ==
  ASSUME NEW n, TriedAgainst(call, n), NEW c \in DOMAIN call, NEW body \in Bodies,
         PostAnswers(c, body)
  PROVE  TriedAgainst(call', n)
<1>1. Ending[body] # "unreachable" /\ call[c].out # "unreachable"
  BY SMT DEF Bodies, Ending, PostAnswers
<1> QED
  BY <1>1, SMT DEF TriedAgainst, PostAnswers

LEMMA FailureTried ==
  ASSUME NEW chain, TriedAgainst(call, Endpoints(chain)), NEW c \in DOMAIN call,
         PostFails(chain, c)
  PROVE  TriedAgainst(call', Endpoints(chain))
<1>1. Endpoints(chain) \in Nat
  BY EndpointsNat
<1>2. call[c].tries \in Nat /\ call[c].tries < Endpoints(chain)
  BY SMT DEF TriedAgainst, PostFails
<1>3. TriedAgainst([call EXCEPT ![c] = AfterFailure(chain, c)], Endpoints(chain))
  BY <1>1, <1>2, SMT DEF TriedAgainst, AfterFailure
<1> QED
  BY <1>3 DEF PostFails

LEMMA CallInit == Init => CallInv
BY NothingAsked DEF Init, CallInv

LEMMA CallStep == CallInv /\ [Next]_scanVars => CallInv'
<1> SUFFICES ASSUME CallInv, [Next]_scanVars PROVE CallInv'
  OBVIOUS
<1>1. ASSUME call' = << >> PROVE CallInv'
  BY <1>1, NothingAsked DEF CallInv
<1>2. ASSUME phase \notin {"probe", "pendle", "heads"}, UNCHANGED call PROVE CallInv'
  BY <1>1, <1>2 DEF CallInv
<1>3. ASSUME Issue(Chain, DOMAIN call'), phase' \in {"probe", "pendle"},
             UNCHANGED <<selected, results>>
      PROVE  CallInv'
  <2>1. ChainAsked' = Chain
    BY <1>3 DEF ChainAsked, Chain, Current
  <2> QED
    BY <1>3, <2>1, IssueTried DEF CallInv
<1>4. ASSUME NEW chain, NEW calls, Issue(chain, calls) PROVE Issue(chain, DOMAIN call')
  BY <1>4 DEF Issue
<1>5. CASE Fetch \/ FetchFails
  BY <1>2, <1>5 DEF Fetch, FetchFails
<1>6. CASE StartMarket
  BY <1>2, <1>6 DEF StartMarket
<1>7. CASE SkipNull \/ PathDone
  BY <1>2, <1>7 DEF SkipNull, PathDone
<1>8. CASE EnterNode
  BY <1>3, <1>4, <1>8 DEF EnterNode
<1>9. CASE Request
  <2>1. UNCHANGED <<phase, selected, results, chains>> /\ phase \in {"probe", "pendle", "heads"}
    BY <1>9 DEF Request
  <2>2. ChainAsked' = ChainAsked
    BY <2>1 DEF ChainAsked, Chain, Current, AtChain
  <2>3. PICK c \in DOMAIN call :
          (\E body \in Bodies : PostAnswers(c, body)) \/ PostFails(ChainAsked, c)
    BY <1>9 DEF Request, ChainAsked
  <2>4. TriedAgainst(call', Endpoints(ChainAsked))
    BY <2>3, AnswerTried, FailureTried DEF CallInv
  <2>5. call # << >>
    BY <2>3
  <2> QED
    BY <2>1, <2>2, <2>4, <2>5 DEF CallInv
<1>10. CASE Probed
  <2>1. phase = "probe" /\ UNCHANGED <<selected, results>>
    BY <1>10 DEF Probed
  <2>2. \/ \E k, seen : Try(k, seen) \/ Classified(k, seen)
        \/ Issue(Chain, LateLegs) /\ UNCHANGED phase
    BY <1>10 DEF Probed
  <2>3. ASSUME NEW k, NEW seen, Try(k, seen) PROVE CallInv'
    BY <1>3, <1>4, <2>1, <2>3 DEF Try
  <2>4. ASSUME NEW k, NEW seen, Classified(k, seen) PROVE CallInv'
    BY <1>1, <2>4 DEF Classified
  <2>5. CASE Issue(Chain, LateLegs) /\ UNCHANGED phase
    BY <1>3, <1>4, <2>1, <2>5
  <2> QED
    BY <2>2, <2>3, <2>4, <2>5
<1>11. CASE MarketFails
  BY <1>1, <1>11 DEF MarketFails
<1>12. CASE Cached \/ MarketDone
  BY <1>2, <1>12 DEF Cached, MarketDone
<1>13. CASE ReadPendleMarket
  BY <1>3, <1>4, <1>13 DEF ReadPendleMarket
<1>14. CASE PendleRead
  <2>1. phase = "pendle" /\ UNCHANGED <<selected, results>>
    BY <1>14 DEF PendleRead
  <2>2. \/ \E e : Kept(e)
        \/ \E calls : Issue(Chain, calls) /\ UNCHANGED phase
    BY <1>14 DEF PendleRead, ThenObserve
  <2>3. ASSUME NEW e, Kept(e) PROVE CallInv'
    BY <1>1, <2>3 DEF Kept
  <2>4. ASSUME NEW calls, Issue(Chain, calls), UNCHANGED phase PROVE CallInv'
    BY <1>3, <1>4, <2>1, <2>4
  <2> QED
    BY <2>2, <2>3, <2>4
<1>15. CASE AllInspected
  BY <1>1, <1>15 DEF AllInspected
<1>16. CASE BlockNumber
  <2>1. ChainAsked' = AtChain /\ chains' # {}
    BY <1>16 DEF BlockNumber, ChainAsked, AtChain
  <2>2. Issue(AtChain, {"eth_blockNumber"}) /\ phase' = "heads"
    BY <1>16 DEF BlockNumber
  <2> QED
    BY <2>1, <2>2, IssueTried DEF CallInv
<1>17. CASE HeadRead \/ HeadFails
  BY <1>1, <1>17 DEF HeadRead, HeadFails
<1>18. CASE WriteFile
  BY <1>1, <1>18 DEF WriteFile, CallInv
<1>19. CASE UNCHANGED scanVars
  BY <1>19 DEF scanVars, CallInv, ChainAsked, Chain, Current, AtChain
<1> QED
  BY <1>5, <1>6, <1>7, <1>8, <1>9, <1>10, <1>11, <1>12, <1>13, <1>14, <1>15, <1>16, <1>17,
     <1>18, <1>19 DEF Next

(* A call fails as unreachable only when each endpoint of its chain has    *)
(* failed it once, for any endpoint list and any failures.                 *)
THEOREM EndpointsAlwaysTried == Spec => []EveryEndpointTried
<1>1. CallInv => EveryEndpointTried
  BY EndpointsNat, SMT DEF CallInv, EveryEndpointTried, TriedAgainst, ChainAsked
<1> QED
  BY CallInit, CallStep, <1>1, PTL DEF Spec

------------------------------------------------------------------------------
(***************************************************************************)
(* The records of one chain share what was read of a Pendle market: each   *)
(* holds just what the cache holds, which is written once for each key.    *)
(***************************************************************************)
Sequential(seq) == Len(seq) \in Nat /\ seq = [i \in 1 .. Len(seq) |-> seq[i]]

AsCached(states, chain, cache) ==
  \A p \in DOMAIN states : <<chain, p>> \in DOMAIN cache /\ cache[<<chain, p>>] = states[p]

CacheInv ==
  /\ Sequential(results)
  /\ \A i \in DOMAIN results :
       AsCached(results[i].pendle, ChainOf[results[i].market], pendleMarketCache)
  /\ phase \in {"node", "probe", "leaf", "pendle"} => AsCached(pendle, Chain, pendleMarketCache)
  /\ phase = "pendle" => Key(Head(leaves)) \notin DOMAIN pendleMarketCache

LEMMA AppendedAt ==
  ASSUME NEW seq, Sequential(seq), NEW e
  PROVE  /\ DOMAIN seq = 1 .. Len(seq) /\ Len(seq) \in Nat
         /\ Sequential(Append(seq, e)) /\ Len(Append(seq, e)) = Len(seq) + 1
         /\ DOMAIN Append(seq, e) = 1 .. Len(seq) + 1
         /\ \A i \in 1 .. Len(seq) : Append(seq, e)[i] = seq[i]
         /\ Append(seq, e)[Len(seq) + 1] = e
<1> DEFINE S == {seq[i] : i \in 1 .. Len(seq)} \cup {e}
<1>1. seq \in Seq(S)
  <2>1. Len(seq) \in Nat /\ seq = [i \in 1 .. Len(seq) |-> seq[i]]
    BY DEF Sequential
  <2>2. seq \in [1 .. Len(seq) -> S]
    BY <2>1
  <2> QED
    BY <2>1, <2>2, SeqDef
<1>2. e \in S
  OBVIOUS
<1> HIDE DEF S
<1>3. /\ Append(seq, e) \in Seq(S) /\ Len(Append(seq, e)) = Len(seq) + 1
      /\ \A i \in 1 .. Len(seq) : Append(seq, e)[i] = seq[i]
      /\ Append(seq, e)[Len(seq) + 1] = e
  BY <1>1, <1>2, AppendProperties
<1>4. Sequential(Append(seq, e)) /\ DOMAIN Append(seq, e) = 1 .. Len(seq) + 1
  BY <1>3, LenProperties DEF Sequential
<1> QED
  BY <1>1, <1>3, <1>4, LenProperties

LEMMA Appended ==
  ASSUME NEW seq, Sequential(seq), NEW e
  PROVE  /\ Sequential(Append(seq, e))
         /\ \A i \in DOMAIN Append(seq, e) :
              \/ i \in DOMAIN seq /\ Append(seq, e)[i] = seq[i]
              \/ Append(seq, e)[i] = e
<1>1. Len(seq) \in Nat /\ \A i \in 1 .. Len(seq) + 1 : i \in 1 .. Len(seq) \/ i = Len(seq) + 1
  BY DEF Sequential
<1> QED
  BY <1>1, AppendedAt

LEMMA NoStates == \A chain, cache : AsCached(<< >>, chain, cache)
BY DEF AsCached

LEMMA CacheInit == Init => CacheInv
<1>1. Sequential(<< >>)
  BY DEF Sequential
<1>2. DOMAIN << >> = {}
  OBVIOUS
<1> QED
  BY <1>1, <1>2 DEF Init, CacheInv

(* A record with no Pendle markets, or with those of the market under      *)
(* inspection, joins the others.                                           *)
LEMMA RecordCached ==
  ASSUME CacheInv, NEW error, NEW ns, NEW p, NEW incomplete, AsCached(p, Chain, pendleMarketCache),
         results' = Append(results, Rec(Current, error, ns, p, incomplete)),
         UNCHANGED pendleMarketCache
  PROVE  /\ Sequential(results')
         /\ \A i \in DOMAIN results' :
              AsCached(results'[i].pendle, ChainOf[results'[i].market], pendleMarketCache')
<1> DEFINE r == Rec(Current, error, ns, p, incomplete)
<1>1. r.pendle = p /\ ChainOf[r.market] = Chain
  BY DEF Rec, Chain
<1> HIDE DEF r
<1>2. Sequential(results')
  BY Appended DEF CacheInv, r
<1>3. ASSUME NEW i \in DOMAIN results'
      PROVE  AsCached(results'[i].pendle, ChainOf[results'[i].market], pendleMarketCache)
  BY <1>1, <1>3, Appended DEF CacheInv, r
<1> QED
  BY <1>2, <1>3 DEF AsCached

(* A market whose key is new comes into the cache and into the record.     *)
LEMMA KeptCached ==
  ASSUME NEW p, NEW chain, NEW e, <<chain, p>> \notin DOMAIN pendleMarketCache,
         pendleMarketCache' = Extended(pendleMarketCache, <<chain, p>>, e)
  PROVE  /\ \A states, other :
              AsCached(states, other, pendleMarketCache) => AsCached(states, other, pendleMarketCache')
         /\ \A states :
              AsCached(states, chain, pendleMarketCache)
                => AsCached(Extended(states, p, e), chain, pendleMarketCache')
<1>1. /\ DOMAIN pendleMarketCache' = DOMAIN pendleMarketCache \cup {<<chain, p>>}
      /\ pendleMarketCache'[<<chain, p>>] = e
      /\ \A k \in DOMAIN pendleMarketCache : pendleMarketCache'[k] = pendleMarketCache[k]
  BY DEF Extended
<1>2. ASSUME NEW states, NEW other, AsCached(states, other, pendleMarketCache)
      PROVE  AsCached(states, other, pendleMarketCache')
  BY <1>1, <1>2 DEF AsCached
<1>3. ASSUME NEW states, AsCached(states, chain, pendleMarketCache)
      PROVE  AsCached(Extended(states, p, e), chain, pendleMarketCache')
  <2>1. /\ DOMAIN Extended(states, p, e) = DOMAIN states \cup {p}
        /\ Extended(states, p, e)[p] = e
        /\ \A q \in DOMAIN states \ {p} : Extended(states, p, e)[q] = states[q]
    BY DEF Extended
  <2>2. ASSUME NEW q \in DOMAIN Extended(states, p, e)
        PROVE  /\ <<chain, q>> \in DOMAIN pendleMarketCache'
               /\ pendleMarketCache'[<<chain, q>>] = Extended(states, p, e)[q]
    <3>1. CASE q = p
      BY <1>1, <2>1, <3>1
    <3>2. CASE q # p
      BY <1>1, <1>3, <2>1, <2>2, <3>2 DEF AsCached
    <3> QED
      BY <3>1, <3>2
  <2> QED
    BY <2>2 DEF AsCached
<1> QED
  BY <1>2, <1>3

LEMMA CacheStep == CacheInv /\ [Next]_scanVars => CacheInv'
<1> SUFFICES ASSUME CacheInv, [Next]_scanVars PROVE CacheInv'
  OBVIOUS
<1> DEFINE OldRecords == Sequential(results) /\
             \A i \in DOMAIN results :
               AsCached(results[i].pendle, ChainOf[results[i].market], pendleMarketCache)
<1>1. ASSUME UNCHANGED <<results, pendleMarketCache>> PROVE OldRecords'
  BY <1>1 DEF CacheInv, AsCached
<1>2. ASSUME UNCHANGED <<selected, results>> PROVE Chain' = Chain /\ Current' = Current
  BY <1>2 DEF Chain, Current
<1>3. ASSUME UNCHANGED <<results, pendleMarketCache>>,
             phase' \notin {"node", "probe", "leaf", "pendle"}
      PROVE  CacheInv'
  BY <1>1, <1>3 DEF CacheInv
<1>4. ASSUME UNCHANGED <<selected, results, pendle, pendleMarketCache>>,
             phase \in {"node", "probe", "leaf", "pendle"},
             phase' = "pendle" => Key(Head(leaves))' \notin DOMAIN pendleMarketCache
      PROVE  CacheInv'
  <2>1. AsCached(pendle', Chain', pendleMarketCache')
    BY <1>2, <1>4 DEF CacheInv, AsCached
  <2> QED
    BY <1>1, <1>4, <2>1 DEF CacheInv
<1>5. ASSUME OldRecords', phase' \notin {"node", "probe", "leaf", "pendle"} PROVE CacheInv'
  BY <1>5 DEF CacheInv
<1> HIDE DEF OldRecords
<1>6. CASE Fetch \/ FetchFails
  BY <1>3, <1>6 DEF Fetch, FetchFails
<1>7. CASE StartMarket
  <2>1. /\ AsCached(<< >>, Chain, pendleMarketCache)
        /\ phase = "next" /\ pendle' = << >> /\ UNCHANGED pendleMarketCache
    BY <1>7, NoStates DEF StartMarket
  <2>2. CASE AdapterOf[Current] = ZERO
    <3>1. results' = Append(results, Rec(Current, FALSE, << >>, << >>, FALSE)) /\ UNCHANGED phase
      BY <1>7, <2>2 DEF StartMarket
    <3>2. OldRecords'
      BY <2>1, <3>1, RecordCached DEF OldRecords
    <3> QED
      BY <1>5, <2>1, <3>1, <3>2
  <2>3. CASE AdapterOf[Current] # ZERO
    <3>1. UNCHANGED results /\ phase' = "node"
      BY <1>7, <2>3 DEF StartMarket
    <3>2. AsCached(<< >>, Chain', pendleMarketCache')
      BY DEF AsCached
    <3> QED
      BY <1>1, <2>1, <3>1, <3>2 DEF CacheInv, OldRecords
  <2> QED
    BY <2>2, <2>3
<1>8. CASE SkipNull \/ EnterNode \/ PathDone
  <2>1. /\ UNCHANGED <<selected, results, pendle, pendleMarketCache>>
        /\ phase = "node" /\ phase' # "pendle"
    BY <1>8 DEF SkipNull, EnterNode, PathDone
  <2> QED
    BY <1>4, <2>1
<1>9. CASE Request
  <2>1. /\ UNCHANGED <<phase, selected, results, leaves, pendle, pendleMarketCache>>
        /\ phase \in {"probe", "pendle", "heads"}
    BY <1>9 DEF Request
  <2>2. Key(Head(leaves))' = Key(Head(leaves))
    BY <1>2, <2>1 DEF Key
  <2>3. CASE phase = "heads"
    BY <1>3, <2>1, <2>3
  <2>4. CASE phase # "heads"
    BY <1>4, <2>1, <2>2, <2>4 DEF CacheInv
  <2> QED
    BY <2>3, <2>4
<1>10. CASE Probed
  <2>1. /\ UNCHANGED <<selected, results, pendle, pendleMarketCache>>
        /\ phase = "probe" /\ phase' \in {"probe", "node"}
    BY <1>10 DEF Probed, Try, Classified
  <2> QED
    BY <1>4, <2>1
<1>11. CASE MarketFails
  <2>1. OldRecords'
    BY <1>11, NoStates, RecordCached DEF MarketFails, OldRecords
  <2> QED
    BY <1>5, <1>11, <2>1 DEF MarketFails
<1>12. CASE Cached
  <2> DEFINE p == Market[Head(leaves).addr]
  <2>1. /\ phase = "leaf" /\ phase' = "leaf" /\ UNCHANGED <<selected, results, pendleMarketCache>>
        /\ <<Chain, p>> \in DOMAIN pendleMarketCache
        /\ pendle' = Extended(pendle, p, pendleMarketCache[<<Chain, p>>])
    BY <1>12 DEF Cached, Key
  <2> HIDE DEF p
  <2>2. AsCached(pendle', Chain, pendleMarketCache)
    BY <2>1 DEF CacheInv, AsCached, Extended
  <2>3. AsCached(pendle', Chain', pendleMarketCache')
    BY <1>2, <2>1, <2>2 DEF AsCached
  <2> QED
    BY <1>1, <2>1, <2>3 DEF CacheInv, OldRecords
<1>13. CASE ReadPendleMarket
  <2>1. Key(Head(leaves))' = Key(Head(leaves))
    BY <1>2, <1>13 DEF ReadPendleMarket, Key
  <2> QED
    BY <1>4, <1>13, <2>1 DEF ReadPendleMarket
<1>14. CASE PendleRead
  <2>1. phase = "pendle" /\ UNCHANGED <<selected, results>>
    BY <1>14 DEF PendleRead
  <2>2. \/ \E e : Kept(e)
        \/ UNCHANGED <<phase, leaves, pendle, pendleMarketCache>>
    BY <1>14 DEF PendleRead, ThenObserve
  <2>3. ASSUME NEW e, Kept(e) PROVE CacheInv'
    <3> DEFINE p == Market[Head(leaves).addr]
    <3>1. /\ pendleMarketCache' = Extended(pendleMarketCache, <<Chain, p>>, e)
          /\ pendle' = Extended(pendle, p, e) /\ phase' = "leaf"
      BY <2>3 DEF Kept, Key
    <3>2. <<Chain, p>> \notin DOMAIN pendleMarketCache /\ AsCached(pendle, Chain, pendleMarketCache)
      BY <2>1 DEF CacheInv, Key
    <3> HIDE DEF p
    <3>3. /\ \A states, other :
               AsCached(states, other, pendleMarketCache) => AsCached(states, other, pendleMarketCache')
          /\ \A states :
               AsCached(states, Chain, pendleMarketCache)
                 => AsCached(Extended(states, p, e), Chain, pendleMarketCache')
      BY <3>1, <3>2, KeptCached
    <3>4. AsCached(pendle', Chain', pendleMarketCache')
      BY <1>2, <2>1, <3>1, <3>2, <3>3 DEF AsCached
    <3>5. OldRecords'
      BY <2>1, <3>3 DEF OldRecords, CacheInv, AsCached
    <3> QED
      BY <3>1, <3>4, <3>5 DEF CacheInv, OldRecords
  <2>4. CASE UNCHANGED <<phase, leaves, pendle, pendleMarketCache>>
    <3>1. Key(Head(leaves))' = Key(Head(leaves))
      BY <1>2, <2>1, <2>4 DEF Key
    <3> QED
      BY <1>4, <2>1, <2>4, <3>1 DEF CacheInv
  <2> QED
    BY <2>2, <2>3, <2>4
<1>15. CASE MarketDone
  <2>1. AsCached(pendle, Chain, pendleMarketCache)
    BY <1>15 DEF MarketDone, CacheInv
  <2>2. OldRecords'
    BY <1>15, <2>1, RecordCached DEF MarketDone, OldRecords
  <2> QED
    BY <1>5, <1>15, <2>2 DEF MarketDone
<1>16. CASE AllInspected \/ BlockNumber \/ HeadRead \/ HeadFails \/ WriteFile
  BY <1>3, <1>16 DEF AllInspected, BlockNumber, HeadRead, HeadFails, WriteFile
<1>17. CASE UNCHANGED scanVars
  BY <1>17 DEF scanVars, CacheInv, AsCached, Chain, Current, Key
<1> QED
  BY <1>6, <1>7, <1>8, <1>9, <1>10, <1>11, <1>12, <1>13, <1>14, <1>15, <1>16, <1>17 DEF Next

(* Two records of one chain hold the same state of a Pendle market both    *)
(* read, whatever failed in between: the cache never answers differently.  *)
THEOREM CacheAlwaysAgrees == Spec => []CacheAgrees
<1>1. ASSUME CacheInv PROVE CacheAgrees
  <2>1. SUFFICES ASSUME NEW i \in DOMAIN results, NEW j \in DOMAIN results,
                        ChainOf[results[i].market] = ChainOf[results[j].market],
                        NEW p \in DOMAIN results[i].pendle \cap DOMAIN results[j].pendle
                 PROVE  results[i].pendle[p] = results[j].pendle[p]
    BY DEF CacheAgrees
  <2>2. /\ AsCached(results[i].pendle, ChainOf[results[i].market], pendleMarketCache)
        /\ AsCached(results[j].pendle, ChainOf[results[j].market], pendleMarketCache)
    BY <1>1 DEF CacheInv
  <2> QED
    BY <2>1, <2>2 DEF AsCached
<1> QED
  BY CacheInit, CacheStep, <1>1, PTL DEF Spec

------------------------------------------------------------------------------
(***************************************************************************)
(* Induction over an interval, and sequences defined by recursion over     *)
(* one.                                                                    *)
(***************************************************************************)
LEMMA LeastOf ==
  ASSUME NEW S \in SUBSET Nat, NEW n \in S
  PROVE  \E m \in S : \A k \in S : m <= k
<1> DEFINE upTo(k) == 0 .. k
           Starts  == {upTo(k) : k \in S}
<1>1. Starts \subseteq FiniteSubsetsOf(Nat) /\ Starts # {}
  <2>1. ASSUME NEW k \in S PROVE upTo(k) \in FiniteSubsetsOf(Nat)
    <3>1. IsFiniteSet(upTo(k))
      BY FS_Interval, SMT
    <3>2. upTo(k) \in SUBSET Nat
      BY SMT
    <3> HIDE DEF upTo
    <3> QED
      BY <3>1, <3>2 DEF FiniteSubsetsOf
  <2> QED
    BY <2>1
<1>2. PICK T \in Starts : \A U \in Starts : ~ (<<U, T>> \in StrictSubsetOrdering(Nat))
  BY <1>1, FS_StrictSubsetOrderingWellFounded, WFMin
<1>3. PICK m \in S : T = upTo(m)
  BY <1>2
<1>4. ASSUME NEW k \in S, k < m PROVE FALSE
  <2>1. upTo(k) \subseteq upTo(m) /\ upTo(k) # upTo(m)
    BY <1>4, SMT
  <2>2. upTo(k) \in SUBSET Nat /\ upTo(m) \in SUBSET Nat
    BY SMT
  <2> HIDE DEF upTo
  <2>3. <<upTo(k), upTo(m)>> \in StrictSubsetOrdering(Nat)
    BY <2>1, <2>2 DEF StrictSubsetOrdering
  <2> QED
    BY <1>2, <1>3, <2>3
<1> QED
  BY <1>4, SMT

LEMMA UpwardInduction ==
  ASSUME NEW n \in Nat, NEW G, 0 \in G, \A k \in Nat : k < n /\ k \in G => k + 1 \in G
  PROVE  \A k \in 0 .. n : k \in G
<1> DEFINE Bad == {k \in 0 .. n : k \notin G}
<1> SUFFICES ASSUME NEW z \in Bad PROVE FALSE
  OBVIOUS
<1>1. Bad \in SUBSET Nat
  BY SMT
<1>2. PICK m \in Bad : \A k \in Bad : m <= k
  <2> HIDE DEF Bad
  <2> QED
    BY <1>1, LeastOf
<1>3. m \in 0 .. n /\ m \notin G /\ m # 0
  BY <1>2
<1>4. m - 1 \in Nat /\ m - 1 < n /\ m - 1 \in 0 .. n /\ (m - 1) + 1 = m /\ ~ (m <= m - 1)
  BY <1>3, SMT
<1>5. m - 1 \in G
  BY <1>2, <1>4
<1> QED
  BY <1>3, <1>4, <1>5

(* A function given by its first value and by each from the one before.    *)
Runs(f, n, base, step) == f[0] = base /\ \A i \in 1 .. n : f[i] = step[i][f[i - 1]]

LEMMA Recursion ==
  ASSUME NEW n \in Nat, NEW T, NEW base \in T, NEW step \in [1 .. n -> [T -> T]]
  PROVE  \E f \in [0 .. n -> T] : Runs(f, n, base, step)
<1> DEFINE G == {k \in 0 .. n : \E f \in [0 .. k -> T] : Runs(f, k, base, step)}
<1>1. 0 \in G
  <2> DEFINE f == [i \in 0 .. 0 |-> base]
  <2>1. f \in [0 .. 0 -> T] /\ f[0] = base
    BY SMT
  <2> HIDE DEF f
  <2>2. Runs(f, 0, base, step)
    BY <2>1, SMT DEF Runs
  <2> QED
    BY <2>1, <2>2
<1>2. ASSUME NEW k \in Nat, k < n, k \in G PROVE k + 1 \in G
  <2>1. PICK f \in [0 .. k -> T] : Runs(f, k, base, step)
    BY <1>2
  <2>2. k + 1 \in 1 .. n /\ k + 1 \in 0 .. n /\ k \in 0 .. k /\ (k + 1) - 1 = k /\ k # k + 1
    BY <1>2, SMT
  <2> DEFINE v == step[k + 1][f[k]]
             g == [i \in 0 .. k + 1 |-> IF i = k + 1 THEN v ELSE f[i]]
  <2>3. v \in T
    <3>1. step[k + 1] \in [T -> T] /\ f[k] \in T
      BY <2>2
    <3> QED
      BY <3>1
  <2>4. \A i \in 0 .. k + 1 : i = k + 1 \/ i \in 0 .. k
    BY SMT
  <2>5. \A i \in 0 .. k : i \in 0 .. k + 1 /\ i # k + 1
    BY SMT
  <2> HIDE DEF v
  <2>6. g \in [0 .. k + 1 -> T]
    BY <2>3, <2>4
  <2>7. g[k + 1] = v
    BY <2>2, SMT
  <2>8. \A i \in 0 .. k : g[i] = f[i]
    BY <2>5
  <2> HIDE DEF g
  <2>9. g[0] = base
    BY <2>1, <2>8, SMT DEF Runs
  <2>10. ASSUME NEW i \in 1 .. k + 1 PROVE g[i] = step[i][g[i - 1]]
    <3>1. CASE i = k + 1
      BY <2>2, <2>7, <2>8, <3>1 DEF v
    <3>2. CASE i # k + 1
      <4>1. i \in 1 .. k /\ i \in 0 .. k /\ i - 1 \in 0 .. k
        BY <3>2, SMT
      <4> QED
        BY <2>1, <2>8, <4>1 DEF Runs
    <3> QED
      BY <3>1, <3>2
  <2>11. Runs(g, k + 1, base, step)
    BY <2>9, <2>10 DEF Runs
  <2> QED
    BY <2>2, <2>6, <2>11
<1>3. n \in G
  <2> HIDE DEF G
  <2>1. \A k \in 0 .. n : k \in G
    BY <1>1, <1>2, UpwardInduction
  <2> QED
    BY <2>1, SMT
<1> QED
  BY <1>3

(***************************************************************************)
(* Picked keeps just the elements at the given positions, in their order:  *)
(* b[j] is where the j-th of them stood.                                   *)
(***************************************************************************)
PickStep(f, seq, I, i) == IF i \in I THEN Append(f[i - 1], seq[i]) ELSE f[i - 1]

LEMMA PickedRuns ==
  ASSUME NEW S, NEW seq \in Seq(S), NEW I
  PROVE  \E f \in [0 .. Len(seq) -> Seq(S)] :
           /\ f[0] = << >>
           /\ \A i \in 1 .. Len(seq) : f[i] = PickStep(f, seq, I, i)
           /\ Picked(seq, I) = f[Len(seq)]
<1> DEFINE n == Len(seq)
           step == [i \in 1 .. n |-> [acc \in Seq(S) |->
                      IF i \in I THEN Append(acc, seq[i]) ELSE acc]]
           Body(f) == [i \in 0 .. Len(seq) |->
                         IF i = 0 THEN << >>
                         ELSE IF i \in I THEN Append(f[i - 1], seq[i]) ELSE f[i - 1]]
           upTo == CHOOSE f : f = Body(f)
<1>1. n \in Nat /\ \A i \in 1 .. n : seq[i] \in S
  BY LenProperties, ElementOfSeq
<1>2. step \in [1 .. n -> [Seq(S) -> Seq(S)]]
  <2>1. ASSUME NEW i \in 1 .. n, NEW acc \in Seq(S)
        PROVE  (IF i \in I THEN Append(acc, seq[i]) ELSE acc) \in Seq(S)
    BY <1>1, <2>1, AppendProperties
  <2> QED
    BY <2>1
<1>3. PICK f \in [0 .. n -> Seq(S)] : Runs(f, n, << >>, step)
  <2>1. << >> \in Seq(S)
    BY EmptySeq
  <2> HIDE DEF n, step
  <2> QED
    BY <1>1, <1>2, <2>1, Recursion
<1>4. \A i \in 1 .. n : f[i] = PickStep(f, seq, I, i)
  <2> TAKE i \in 1 .. n
  <2>1. i - 1 \in 0 .. n
    BY <1>1, SMT
  <2>2. f[i] = step[i][f[i - 1]] /\ f[i - 1] \in Seq(S)
    BY <1>3, <2>1 DEF Runs
  <2>3. step[i][f[i - 1]] = IF i \in I THEN Append(f[i - 1], seq[i]) ELSE f[i - 1]
    BY <2>2
  <2> QED
    BY <2>2, <2>3 DEF PickStep
<1>5. f = Body(f)
  <2>1. \A i \in 0 .. n : f[i] = Body(f)[i]
    <3> TAKE i \in 0 .. n
    <3>1. CASE i = 0
      BY <1>3, <3>1 DEF Runs
    <3>2. CASE i # 0
      <4>1. i \in 1 .. n
        BY <1>1, <3>2, SMT
      <4> QED
        BY <1>4, <3>2, <4>1 DEF PickStep
    <3> QED
      BY <3>1, <3>2
  <2>2. DOMAIN Body(f) = 0 .. n /\ DOMAIN f = 0 .. n
    OBVIOUS
  <2>3. Body(f) = [i \in 0 .. n |-> Body(f)[i]] /\ f = [i \in 0 .. n |-> f[i]]
    OBVIOUS
  <2> HIDE DEF Body
  <2> QED
    BY <2>1, <2>3
<1>6. upTo = Body(upTo)
  <2> HIDE DEF Body
  <2> QED
    BY <1>5
<1>7. \A i \in 0 .. n : upTo[i] = Body(upTo)[i]
  <2> HIDE DEF Body, upTo
  <2> QED
    BY <1>6
<1>8. upTo[0] = << >> /\ \A i \in 1 .. n : upTo[i] = PickStep(upTo, seq, I, i)
  <2>1. 0 \in 0 .. n /\ \A i \in 1 .. n : i \in 0 .. n /\ i # 0
    BY <1>1, SMT
  <2> HIDE DEF upTo
  <2> QED
    BY <1>7, <2>1 DEF PickStep
<1>9. upTo \in [0 .. n -> Seq(S)]
  <2> DEFINE G == {k \in 0 .. n : upTo[k] \in Seq(S)}
  <2> HIDE DEF upTo
  <2>1. 0 \in G
    <3>1. 0 \in 0 .. n /\ << >> \in Seq(S)
      BY <1>1, EmptySeq, SMT
    <3> QED
      BY <1>8, <3>1
  <2>2. ASSUME NEW k \in Nat, k < n, k \in G PROVE k + 1 \in G
    <3>1. k + 1 \in 1 .. n /\ k + 1 \in 0 .. n /\ (k + 1) - 1 = k
      BY <1>1, <2>2, SMT
    <3>2. upTo[k + 1] = IF k + 1 \in I THEN Append(upTo[k], seq[k + 1]) ELSE upTo[k]
      BY <1>8, <3>1 DEF PickStep
    <3>3. upTo[k] \in Seq(S) /\ seq[k + 1] \in S
      BY <1>1, <2>2, <3>1
    <3>4. upTo[k + 1] \in Seq(S)
      BY <3>2, <3>3, AppendProperties
    <3> QED
      BY <3>1, <3>4
  <2>3. \A k \in 0 .. n : k \in G
    <3> HIDE DEF G
    <3> QED
      BY <1>1, <2>1, <2>2, UpwardInduction
  <2>4. upTo = [i \in 0 .. n |-> upTo[i]]
    <3>1. Body(upTo) = [i \in 0 .. n |-> Body(upTo)[i]]
      OBVIOUS
    <3> HIDE DEF Body
    <3> QED
      BY <1>6, <3>1
  <2> QED
    BY <2>3, <2>4
<1>10. Picked(seq, I) = upTo[n]
  BY DEF Picked
<1> HIDE DEF upTo
<1> QED
  BY <1>8, <1>9, <1>10

Positions(b, p, seq, I) ==
  /\ b \in [1 .. Len(p) -> I]
  /\ \A i \in I : \E j \in 1 .. Len(p) : b[j] = i
  /\ \A j, k \in 1 .. Len(p) : j < k => b[j] < b[k]
  /\ \A j \in 1 .. Len(p) : p[j] = seq[b[j]]

LEMMA PickedPositions ==
  ASSUME NEW S, NEW seq \in Seq(S), NEW I \in SUBSET (1 .. Len(seq))
  PROVE  Picked(seq, I) \in Seq(S) /\ \E b : Positions(b, Picked(seq, I), seq, I)
<1> DEFINE n == Len(seq)
<1>1. n \in Nat /\ \A i \in 1 .. n : seq[i] \in S
  BY LenProperties, ElementOfSeq
<1>2. PICK f \in [0 .. n -> Seq(S)] :
        /\ f[0] = << >>
        /\ \A i \in 1 .. n : f[i] = PickStep(f, seq, I, i)
        /\ Picked(seq, I) = f[n]
  BY PickedRuns
<1>10. \A i \in I : i \in Nat /\ 1 <= i /\ i <= n
  BY SMT
<1> DEFINE below(k) == {i \in I : i <= k}
           G == {k \in 0 .. n : \E b : Positions(b, f[k], seq, below(k))}
<1>3. 0 \in G
  <2>1. below(0) = {}
    BY <1>10, SMT
  <2>2. Len(f[0]) = 0 /\ 1 .. 0 = {}
    BY <1>2, SMT
  <2> DEFINE b == [j \in 1 .. 0 |-> 0]
  <2>3. Positions(b, f[0], seq, {})
    BY <2>2, SMT DEF Positions
  <2>4. 0 \in 0 .. n
    BY <1>1, SMT
  <2>5. Positions(b, f[0], seq, below(0))
    BY <2>1, <2>3
  <2> HIDE DEF b, below
  <2> QED
    BY <2>4, <2>5
<1>4. ASSUME NEW k \in Nat, k < n, k \in G PROVE k + 1 \in G
  <2>1. k + 1 \in 1 .. n /\ k + 1 \in 0 .. n /\ k \in 0 .. n /\ (k + 1) - 1 = k
    BY <1>1, <1>4, SMT
  <2>2. PICK b : Positions(b, f[k], seq, below(k))
    BY <1>4
  <2>3. f[k + 1] = IF k + 1 \in I THEN Append(f[k], seq[k + 1]) ELSE f[k]
    BY <1>2, <2>1 DEF PickStep
  <2>4. CASE k + 1 \notin I
    <3>1. \A i \in I : i <= k + 1 <=> i <= k
      BY <1>10, <1>4, <2>4, SMT
    <3>2. below(k + 1) = below(k)
      BY <3>1
    <3> HIDE DEF below
    <3> QED
      BY <2>1, <2>2, <2>3, <2>4, <3>2
  <2>5. CASE k + 1 \in I
    <3> DEFINE m == Len(f[k])
               c == [j \in 1 .. m + 1 |-> IF j = m + 1 THEN k + 1 ELSE b[j]]
    <3>1. f[k] \in Seq(S) /\ seq[k + 1] \in S /\ m \in Nat
      BY <1>1, <1>2, <2>1, LenProperties
    <3>2. /\ f[k + 1] = Append(f[k], seq[k + 1])
          /\ Len(f[k + 1]) = m + 1 /\ f[k + 1][m + 1] = seq[k + 1]
          /\ \A j \in 1 .. m : f[k + 1][j] = f[k][j]
      BY <2>3, <2>5, <3>1, AppendProperties
    <3>3. m + 1 \in 1 .. m + 1 /\ \A j \in 1 .. m + 1 : j = m + 1 \/ (j \in 1 .. m /\ j < m + 1)
      BY <3>1, SMT
    <3>4. \A j \in 1 .. m : j \in 1 .. m + 1 /\ j # m + 1
      BY <3>1, SMT
    <3>5. /\ k + 1 \in below(k + 1)
          /\ \A i \in below(k) : i \in below(k + 1) /\ i < k + 1
          /\ \A i \in below(k + 1) : i = k + 1 \/ i \in below(k)
      BY <1>1, <2>5, SMT
    <3>6. /\ b \in [1 .. m -> below(k)]
          /\ \A i \in below(k) : \E j \in 1 .. m : b[j] = i
          /\ \A i, j \in 1 .. m : i < j => b[i] < b[j]
          /\ \A j \in 1 .. m : f[k][j] = seq[b[j]]
      BY <2>2 DEF Positions
    <3> HIDE DEF m, below
    <3>7. c[m + 1] = k + 1 /\ \A j \in 1 .. m : c[j] = b[j]
      BY <3>3, <3>4
    <3>8. c \in [1 .. m + 1 -> below(k + 1)]
      BY <3>3, <3>5, <3>6
    <3> HIDE DEF c
    <3>9. \A i \in below(k + 1) : \E j \in 1 .. m + 1 : c[j] = i
      BY <3>3, <3>4, <3>5, <3>6, <3>7
    <3>10. \A i, j \in 1 .. m + 1 : i < j => c[i] < c[j]
      <4> SUFFICES ASSUME NEW i \in 1 .. m + 1, NEW j \in 1 .. m + 1, i < j PROVE c[i] < c[j]
        OBVIOUS
      <4>1. i \in 1 .. m
        BY <3>1, SMT
      <4>2. b[i] \in below(k)
        BY <3>6, <4>1
      <4>3. CASE j = m + 1
        BY <3>5, <3>7, <4>1, <4>2, <4>3
      <4>4. CASE j # m + 1
        BY <3>3, <3>6, <3>7, <4>1, <4>4
      <4> QED
        BY <4>3, <4>4
    <3>11. \A j \in 1 .. m + 1 : f[k + 1][j] = seq[c[j]]
      BY <3>2, <3>3, <3>6, <3>7
    <3>12. Positions(c, f[k + 1], seq, below(k + 1))
      BY <3>2, <3>8, <3>9, <3>10, <3>11 DEF Positions
    <3> QED
      BY <2>1, <3>12
  <2> QED
    BY <2>4, <2>5
<1>5. n \in G
  <2> HIDE DEF G
  <2>1. \A k \in 0 .. n : k \in G
    BY <1>1, <1>3, <1>4, UpwardInduction
  <2> QED
    BY <1>1, <2>1, SMT
<1>6. below(n) = I
  BY <1>10
<1>7. f[n] \in Seq(S)
  BY <1>1, <1>2, SMT
<1> HIDE DEF below
<1> QED
  BY <1>2, <1>5, <1>6, <1>7

LEMMA PickedRange ==
  ASSUME NEW S, NEW seq \in Seq(S), NEW I \in SUBSET (1 .. Len(seq))
  PROVE  /\ Picked(seq, I) \in Seq(S)
         /\ Range(Picked(seq, I)) = {seq[i] : i \in I}
         /\ Len(Picked(seq, I)) = Cardinality(I)
<1> DEFINE p == Picked(seq, I)
<1>1. p \in Seq(S)
  BY PickedPositions
<1>2. PICK b : Positions(b, p, seq, I)
  BY PickedPositions
<1> HIDE DEF p
<1>3. DOMAIN p = 1 .. Len(p) /\ Len(p) \in Nat
  BY <1>1, LenProperties
<1>4. Range(p) = {seq[i] : i \in I}
  <2>1. Range(p) = {p[j] : j \in 1 .. Len(p)}
    BY <1>3 DEF Range
  <2>2. \A j \in 1 .. Len(p) : b[j] \in I /\ p[j] = seq[b[j]]
    BY <1>2 DEF Positions
  <2>3. \A i \in I : \E j \in 1 .. Len(p) : b[j] = i
    BY <1>2 DEF Positions
  <2>4. \A x \in Range(p) : \E i \in I : x = seq[i]
    BY <2>1, <2>2
  <2>5. \A i \in I : seq[i] \in Range(p)
    BY <2>1, <2>2, <2>3
  <2> QED
    BY <2>4, <2>5
<1>5. b \in Bijection(1 .. Len(p), I)
  <2>1. b \in [1 .. Len(p) -> I]
    BY <1>2 DEF Positions
  <2>2. \A i \in I : \E j \in 1 .. Len(p) : b[j] = i
    BY <1>2 DEF Positions
  <2>3. ASSUME NEW j \in 1 .. Len(p), NEW k \in 1 .. Len(p), b[j] = b[k] PROVE j = k
    <3>1. b[j] \in Nat /\ j \in Nat /\ k \in Nat
      <4>1. \A i \in I : i \in Nat
        BY SMT
      <4>2. b[j] \in I
        BY <2>1
      <4>3. j \in Nat /\ k \in Nat
        BY <1>3, SMT
      <4> QED
        BY <4>1, <4>2, <4>3
    <3>2. ~ (j < k) /\ ~ (k < j)
      BY <1>2, <2>3, <3>1, SMT DEF Positions
    <3> QED
      BY <3>1, <3>2, SMT
  <2> QED
    BY <2>1, <2>2, <2>3 DEF Bijection, Injection, Surjection, IsInjective
<1>6. Cardinality(I) = Len(p)
  <2>1. ExistsBijection(1 .. Len(p), I)
    BY <1>5 DEF ExistsBijection
  <2> QED
    BY <1>3, <2>1, FS_CountingElements
<1> QED
  BY <1>1, <1>4, <1>6 DEF p

LEMMA LeavesAre ==
  ASSUME NEW S, NEW ns \in Seq(S)
  PROVE  /\ Leaves(ns) \in Seq(S)
         /\ Range(Leaves(ns)) = {n \in Range(ns) : n.kind \in PT_LEAF_KINDS}
         /\ TwapLeaves(ns) \in Seq(S)
         /\ Range(TwapLeaves(ns)) = {n \in Range(ns) : n.kind = "PendleChainlinkOracle"}
<1> DEFINE I == {i \in DOMAIN ns : ns[i].kind \in PT_LEAF_KINDS}
           J == {i \in DOMAIN ns : ns[i].kind = "PendleChainlinkOracle"}
<1>1. DOMAIN ns = 1 .. Len(ns)
  BY LenProperties
<1>2. Leaves(ns) = Picked(ns, I) /\ TwapLeaves(ns) = Picked(ns, J)
  BY DEF Leaves, TwapLeaves, Select
<1>3. I \in SUBSET (1 .. Len(ns)) /\ J \in SUBSET (1 .. Len(ns))
  BY <1>1
<1>4. /\ {ns[i] : i \in I} = {n \in Range(ns) : n.kind \in PT_LEAF_KINDS}
      /\ {ns[i] : i \in J} = {n \in Range(ns) : n.kind = "PendleChainlinkOracle"}
  BY DEF Range
<1> HIDE DEF I, J
<1> QED
  BY <1>2, <1>3, <1>4, PickedRange

(***************************************************************************)
(* FlattenSeq joins sequences one after the other.                         *)
(***************************************************************************)
Joins(f, ss) ==
  f[0] = << >> /\ \A i \in 1 .. Len(ss) : f[i] = f[i - 1] \o ss[i]

LEMMA FlattenRuns ==
  ASSUME NEW S, NEW ss \in Seq(Seq(S))
  PROVE  \E f \in [0 .. Len(ss) -> Seq(S)] : Joins(f, ss) /\ FlattenSeq(ss) = f[Len(ss)]
<1> DEFINE n == Len(ss)
           step == [i \in 1 .. n |-> [acc \in Seq(S) |-> acc \o ss[i]]]
           Body(f) == [i \in 1 .. Len(ss) |-> IF i = 1 THEN ss[i] ELSE f[i - 1] \o ss[i]]
           flatten == CHOOSE f : f = Body(f)
<1>1. n \in Nat /\ \A i \in 1 .. n : ss[i] \in Seq(S)
  BY LenProperties, ElementOfSeq
<1>2. << >> \in Seq(S)
  BY EmptySeq
<1>3. step \in [1 .. n -> [Seq(S) -> Seq(S)]]
  <2>1. ASSUME NEW i \in 1 .. n, NEW acc \in Seq(S) PROVE acc \o ss[i] \in Seq(S)
    BY <1>1, ConcatProperties
  <2> QED
    BY <2>1
<1>4. PICK f \in [0 .. n -> Seq(S)] : Runs(f, n, << >>, step)
  <2> HIDE DEF n, step
  <2> QED
    BY <1>1, <1>2, <1>3, Recursion
<1>5. Joins(f, ss)
  <2>1. ASSUME NEW i \in 1 .. n PROVE f[i] = f[i - 1] \o ss[i]
    <3>1. i - 1 \in 0 .. n
      BY <1>1, SMT
    <3>2. f[i] = step[i][f[i - 1]] /\ f[i - 1] \in Seq(S)
      BY <1>4, <3>1 DEF Runs
    <3> QED
      BY <3>2
  <2>2. f[0] = << >>
    BY <1>4 DEF Runs
  <2> QED
    BY <2>1, <2>2 DEF Joins
<1> DEFINE g == [i \in 1 .. Len(ss) |-> f[i]]
<1>6. g = Body(g)
  <2>1. \A i \in 1 .. n : f[i] = IF i = 1 THEN ss[i] ELSE g[i - 1] \o ss[i]
    <3> TAKE i \in 1 .. n
    <3>1. f[i] = f[i - 1] \o ss[i]
      BY <1>5 DEF Joins
    <3>2. CASE i = 1
      <4>1. f[0] = << >> /\ << >> \o ss[i] = ss[i]
        BY <1>1, <1>5, ConcatEmptySeq DEF Joins
      <4>2. i - 1 = 0
        BY <3>2, SMT
      <4> HIDE DEF g
      <4> QED
        BY <3>1, <3>2, <4>1, <4>2
    <3>3. CASE i # 1
      <4>1. i - 1 \in 1 .. n
        BY <1>1, <3>3, SMT
      <4>2. g[i - 1] = f[i - 1]
        BY <4>1
      <4> HIDE DEF g
      <4> QED
        BY <3>1, <3>3, <4>2
    <3> QED
      BY <3>2, <3>3
  <2>2. [i \in 1 .. n |-> f[i]] = [i \in 1 .. n |-> IF i = 1 THEN ss[i] ELSE g[i - 1] \o ss[i]]
    <3> HIDE DEF g, n
    <3> QED
      BY <2>1
  <2>3. Body(g) = [i \in 1 .. n |-> IF i = 1 THEN ss[i] ELSE g[i - 1] \o ss[i]]
    <3> HIDE DEF g
    <3> QED
      OBVIOUS
  <2> QED
    BY <2>2, <2>3
<1>7. flatten = Body(flatten)
  <2> HIDE DEF Body, g
  <2> QED
    BY <1>6
<1>8. \A i \in 1 .. n : flatten[i] = Body(flatten)[i]
  <2> HIDE DEF Body, flatten
  <2> QED
    BY <1>7
<1>9. \A i \in 1 .. n : flatten[i] = IF i = 1 THEN ss[i] ELSE flatten[i - 1] \o ss[i]
  <2> HIDE DEF flatten
  <2> QED
    BY <1>8
<1>10. ASSUME n > 0 PROVE flatten[n] = f[n]
  <2> DEFINE G == {k \in 0 .. n : k = 0 \/ flatten[k] = f[k]}
  <2> HIDE DEF flatten
  <2>1. 0 \in G
    BY <1>1, SMT
  <2>2. ASSUME NEW k \in Nat, k < n, k \in G PROVE k + 1 \in G
    <3>1. k + 1 \in 1 .. n /\ k + 1 \in 0 .. n /\ (k + 1) - 1 = k
      BY <1>1, <2>2, SMT
    <3>2. flatten[k + 1] = IF k + 1 = 1 THEN ss[k + 1] ELSE flatten[k] \o ss[k + 1]
      BY <1>9, <3>1
    <3>3. f[k + 1] = f[k] \o ss[k + 1]
      BY <1>5, <3>1 DEF Joins
    <3>4. CASE k = 0
      <4>1. f[k] = << >> /\ << >> \o ss[k + 1] = ss[k + 1]
        BY <1>1, <1>5, <3>1, <3>4, ConcatEmptySeq DEF Joins
      <4>2. k + 1 = 1
        BY <3>4, SMT
      <4> QED
        BY <3>1, <3>2, <3>3, <4>1, <4>2
    <3>5. CASE k # 0
      <4>1. k + 1 # 1
        BY <3>5, SMT
      <4>2. flatten[k] = f[k]
        BY <2>2, <3>5
      <4> QED
        BY <3>1, <3>2, <3>3, <4>1, <4>2
    <3> QED
      BY <3>4, <3>5
  <2>3. \A k \in 0 .. n : k \in G
    <3> HIDE DEF G
    <3> QED
      BY <1>1, <2>1, <2>2, UpwardInduction
  <2>4. n \in 0 .. n /\ n # 0
    BY <1>1, <1>10, SMT
  <2> QED
    BY <2>3, <2>4
<1>11. CASE n = 0
  <2>1. ss = << >>
    BY <1>11, EmptySeq, SMT
  <2>2. FlattenSeq(ss) = << >>
    BY <1>11, <2>1 DEF FlattenSeq
  <2>3. f[n] = << >>
    BY <1>5, <1>11 DEF Joins
  <2> QED
    BY <1>5, <2>2, <2>3
<1>12. CASE n # 0
  <2>1. FlattenSeq(ss) = flatten[n]
    BY <1>12 DEF FlattenSeq
  <2>2. flatten[n] = f[n]
    <3>1. n > 0
      BY <1>1, <1>12, SMT
    <3> QED
      BY <1>10, <3>1
  <2> HIDE DEF flatten
  <2> QED
    BY <1>5, <2>1, <2>2
<1> QED
  BY <1>11, <1>12

LEMMA FlattenRange ==
  ASSUME NEW S, NEW ss \in Seq(Seq(S))
  PROVE  /\ FlattenSeq(ss) \in Seq(S)
         /\ \A i \in 1 .. Len(ss) : Range(ss[i]) \subseteq Range(FlattenSeq(ss))
<1> DEFINE n == Len(ss)
<1>1. n \in Nat /\ n \in 0 .. n /\ \A i \in 1 .. n : ss[i] \in Seq(S)
  BY LenProperties, ElementOfSeq
<1>2. PICK f \in [0 .. n -> Seq(S)] : Joins(f, ss) /\ FlattenSeq(ss) = f[n]
  BY FlattenRuns
<1> DEFINE G == {k \in 0 .. n : \A i \in 1 .. k : Range(ss[i]) \subseteq Range(f[k])}
<1>3. 0 \in G
  BY <1>1, SMT
<1>4. ASSUME NEW k \in Nat, k < n, k \in G PROVE k + 1 \in G
  <2>1. k + 1 \in 1 .. n /\ k + 1 \in 0 .. n /\ (k + 1) - 1 = k /\ k \in 0 .. n
    BY <1>1, <1>4, SMT
  <2>2. f[k + 1] = f[k] \o ss[k + 1]
    BY <1>2, <2>1 DEF Joins
  <2>3. Range(f[k + 1]) = Range(f[k]) \cup Range(ss[k + 1])
    <3> DEFINE x == f[k]
               y == ss[k + 1]
    <3>1. x \in Seq(S) /\ y \in Seq(S)
      BY <1>1, <1>2, <2>1
    <3> HIDE DEF x, y
    <3>2. Range(x \o y) = Range(x) \cup Range(y)
      BY <3>1, RangeConcatenation
    <3> QED
      BY <2>2, <3>2 DEF x, y
  <2>4. \A i \in 1 .. k + 1 : i \in 1 .. k \/ i = k + 1
    BY <1>4, SMT
  <2> QED
    BY <1>4, <2>1, <2>3, <2>4
<1>5. n \in G
  <2> HIDE DEF G
  <2> QED
    BY <1>1, <1>3, <1>4, UpwardInduction
<1> QED
  BY <1>1, <1>2, <1>5

LEMMA FlattenConcat ==
  ASSUME NEW S, NEW a \in Seq(Seq(S)), NEW b \in Seq(Seq(S))
  PROVE  FlattenSeq(a \o b) = FlattenSeq(a) \o FlattenSeq(b)
<1> DEFINE n == Len(a)
           m == Len(b)
<1>1. /\ n \in Nat /\ m \in Nat /\ n \in 0 .. n /\ m \in 0 .. m
      /\ \A i \in 1 .. n : a[i] \in Seq(S)
      /\ \A i \in 1 .. m : b[i] \in Seq(S)
  BY LenProperties, ElementOfSeq
<1>2. /\ a \o b \in Seq(Seq(S)) /\ Len(a \o b) = n + m
      /\ \A i \in 1 .. n + m : (a \o b)[i] = IF i <= n THEN a[i] ELSE b[i - n]
  BY ConcatProperties
<1>3. PICK f \in [0 .. n + m -> Seq(S)] : Joins(f, a \o b) /\ FlattenSeq(a \o b) = f[n + m]
  BY <1>2, FlattenRuns
<1>4. PICK g \in [0 .. n -> Seq(S)] : Joins(g, a) /\ FlattenSeq(a) = g[n]
  BY FlattenRuns
<1>5. PICK h \in [0 .. m -> Seq(S)] : Joins(h, b) /\ FlattenSeq(b) = h[m]
  BY FlattenRuns
<1>6. f[n] = g[n]
  <2> DEFINE G == {k \in 0 .. n : f[k] = g[k]}
  <2>1. 0 \in G
    <3>1. 0 \in 0 .. n
      BY <1>1, SMT
    <3> QED
      BY <1>3, <1>4, <3>1 DEF Joins
  <2>2. ASSUME NEW k \in Nat, k < n, k \in G PROVE k + 1 \in G
    <3>1. /\ k + 1 \in 1 .. n /\ k + 1 \in 1 .. n + m /\ k + 1 \in 0 .. n /\ (k + 1) - 1 = k
          /\ k + 1 <= n
      BY <1>1, <2>2, SMT
    <3>2. f[k + 1] = f[k] \o a[k + 1]
      BY <1>2, <1>3, <3>1 DEF Joins
    <3>3. g[k + 1] = g[k] \o a[k + 1]
      BY <1>4, <3>1 DEF Joins
    <3> QED
      BY <2>2, <3>1, <3>2, <3>3
  <2> HIDE DEF G
  <2>3. n \in G
    BY <1>1, <2>1, <2>2, UpwardInduction
  <2> QED
    BY <2>3 DEF G
<1>7. f[n + m] = g[n] \o h[m]
  <2> DEFINE G == {k \in 0 .. m : f[n + k] = g[n] \o h[k]}
  <2>1. 0 \in G
    <3>1. 0 \in 0 .. m /\ n + 0 = n
      BY <1>1, SMT
    <3>2. h[0] = << >> /\ g[n] \in Seq(S)
      BY <1>1, <1>4, <1>5 DEF Joins
    <3>3. g[n] \o << >> = g[n]
      BY <3>2, ConcatEmptySeq
    <3> QED
      BY <1>6, <3>1, <3>2, <3>3
  <2>2. ASSUME NEW k \in Nat, k < m, k \in G PROVE k + 1 \in G
    <3> DEFINE i == n + (k + 1)
    <3>1. /\ i \in 1 .. n + m /\ i - 1 = n + k /\ i - n = k + 1 /\ ~ (i <= n)
          /\ k + 1 \in 1 .. m /\ k + 1 \in 0 .. m /\ k \in 0 .. m /\ (k + 1) - 1 = k
      BY <1>1, <2>2, SMT
    <3>2. f[i] = f[n + k] \o b[k + 1]
      <4> HIDE DEF i
      <4> QED
        BY <1>2, <1>3, <3>1 DEF Joins
    <3>3. h[k + 1] = h[k] \o b[k + 1]
      BY <1>5, <3>1 DEF Joins
    <3>4. g[n] \in Seq(S) /\ h[k] \in Seq(S) /\ b[k + 1] \in Seq(S)
      BY <1>1, <1>4, <1>5, <3>1
    <3>5. (g[n] \o h[k]) \o b[k + 1] = g[n] \o (h[k] \o b[k + 1])
      <4> DEFINE x == g[n]
                 y == h[k]
                 z == b[k + 1]
      <4>1. x \in Seq(S) /\ y \in Seq(S) /\ z \in Seq(S)
        BY <3>4
      <4> HIDE DEF x, y, z
      <4>2. (x \o y) \o z = x \o (y \o z)
        BY <4>1, ConcatAssociative
      <4> QED
        BY <4>2 DEF x, y, z
    <3>6. f[n + k] = g[n] \o h[k]
      BY <2>2
    <3> QED
      BY <3>1, <3>2, <3>3, <3>5, <3>6
  <2> HIDE DEF G
  <2>3. m \in G
    BY <1>1, <2>1, <2>2, UpwardInduction
  <2> QED
    BY <2>3 DEF G
<1> QED
  BY <1>3, <1>4, <1>5, <1>7

LEMMA FlattenFirst ==
  ASSUME NEW S, NEW s \in Seq(S), NEW ss \in Seq(Seq(S))
  PROVE  FlattenSeq(<< s >> \o ss) = s \o FlattenSeq(ss)
<1>1. << s >> \in Seq(Seq(S)) /\ Len(<< s >>) = 1 /\ << s >>[1] = s
  OBVIOUS
<1>2. PICK f \in [0 .. 1 -> Seq(S)] : Joins(f, << s >>) /\ FlattenSeq(<< s >>) = f[1]
  BY <1>1, FlattenRuns
<1>3. f[1] = << >> \o s
  <2>1. 1 \in 1 .. 1 /\ 1 - 1 = 0
    BY SMT
  <2> QED
    BY <1>1, <1>2, <2>1 DEF Joins
<1>4. << >> \o s = s
  BY ConcatEmptySeq
<1> QED
  BY <1>1, <1>2, <1>3, <1>4, FlattenConcat

(***************************************************************************)
(* The nodes below a node: one for each leg of its shape that was read.    *)
(***************************************************************************)
LegNames ==
  {"BASE_FEED_1", "BASE_FEED_2", "QUOTE_FEED_1", "QUOTE_FEED_2", "primaryOracle",
   "backupOracle", "basePriceFeed", "FEED_1", "FEED_2", "innerOracle"}

LEMMA LegsSeq == \A kind : Legs(kind) \in Seq(LegNames)
<1> SUFFICES ASSUME NEW kind PROVE Legs(kind) \in Seq(LegNames)
  OBVIOUS
<1>1. CASE kind = "MorphoChainlinkOracleV2"
  <2>1. Legs(kind) = << "BASE_FEED_1", "BASE_FEED_2", "QUOTE_FEED_1", "QUOTE_FEED_2" >>
    BY <1>1 DEF Legs
  <2> QED
    BY <2>1 DEF LegNames
<1>2. CASE kind = "MetaOracleDeviationTimelock"
  <2>1. Legs(kind) = << "primaryOracle", "backupOracle" >>
    BY <1>2 DEF Legs
  <2> QED
    BY <2>1 DEF LegNames
<1>3. CASE kind = "OjoYieldRiskEngineV2"
  <2>1. Legs(kind) = << "basePriceFeed" >>
    BY <1>3 DEF Legs
  <2> QED
    BY <2>1 DEF LegNames
<1>4. CASE kind = "OjoPTFeed"
  <2>1. Legs(kind) = << "FEED_1", "FEED_2" >>
    BY <1>4 DEF Legs
  <2> QED
    BY <2>1 DEF LegNames
<1>5. CASE kind = "PendleLinearDiscountOracleWrapper"
  <2>1. Legs(kind) = << "innerOracle" >>
    BY <1>5 DEF Legs
  <2> QED
    BY <2>1 DEF LegNames
<1>6. CASE kind \notin {"MorphoChainlinkOracleV2", "MetaOracleDeviationTimelock",
                        "OjoYieldRiskEngineV2", "OjoPTFeed", "PendleLinearDiscountOracleWrapper"}
  <2>1. Legs(kind) = << >>
    BY <1>6 DEF Legs
  <2> QED
    BY <2>1, EmptySeq
<1> QED
  BY <1>1, <1>2, <1>3, <1>4, <1>5, <1>6

Followed(kind, seen) == Select(Legs(kind), LAMBDA leg : leg \in seen)

LEMMA FollowedAre ==
  ASSUME NEW kind, NEW seen
  PROVE  /\ Followed(kind, seen) \in Seq(LegNames)
         /\ Range(Followed(kind, seen)) = Range(Legs(kind)) \cap seen
<1> DEFINE L == Legs(kind)
           I == {i \in DOMAIN L : L[i] \in seen}
<1>1. L \in Seq(LegNames)
  BY LegsSeq
<1>2. Followed(kind, seen) = Picked(L, I)
  BY DEF Followed, Select
<1> HIDE DEF L
<1>3. DOMAIN L = 1 .. Len(L)
  BY <1>1, LenProperties
<1>4. I \in SUBSET (1 .. Len(L))
  BY <1>3
<1>5. {L[i] : i \in I} = Range(L) \cap seen
  BY DEF Range
<1> HIDE DEF I
<1> QED
  BY <1>1, <1>2, <1>4, <1>5, PickedRange DEF L

(* Only the legs of the shape matter.                                      *)
LEMMA FollowedSame ==
  ASSUME NEW kind, NEW seen, NEW other, Range(Legs(kind)) \cap seen = Range(Legs(kind)) \cap other
  PROVE  Followed(kind, seen) = Followed(kind, other)
<1> DEFINE L == Legs(kind)
<1>1. {i \in DOMAIN L : L[i] \in seen} = {i \in DOMAIN L : L[i] \in other}
  <2> HIDE DEF L
  <2>1. Range(L) \cap seen = Range(L) \cap other
    BY DEF L
  <2> QED
    BY <2>1 DEF Range
<1> QED
  BY <1>1 DEF Followed, Select

Below(cs, F, kind, a, d, seen) ==
  /\ Len(F) \in Nat /\ DOMAIN F = 1 .. Len(F)
  /\ cs = [i \in 1 .. Len(F) |-> [addr |-> Child[a][F[i]], depth |-> d + 1]]
  /\ Len(cs) = Len(F)
  /\ \A i \in 1 .. Len(F) : F[i] \in Range(Legs(kind)) \cap seen
  /\ \A leg \in Range(Legs(kind)) \cap seen : \E i \in 1 .. Len(F) : F[i] = leg

LEMMA ChildrenAre ==
  ASSUME NEW kind, NEW a, NEW d \in Nat, NEW seen
  PROVE  Below(Children(kind, a, d, seen), Followed(kind, seen), kind, a, d, seen)
<1> DEFINE F == Followed(kind, seen)
           cs == Children(kind, a, d, seen)
<1>1. F \in Seq(LegNames) /\ Range(F) = Range(Legs(kind)) \cap seen
  BY FollowedAre
<1>2. cs = [i \in 1 .. Len(F) |-> [addr |-> Child[a][F[i]], depth |-> d + 1]]
  BY DEF Children, Followed
<1> HIDE DEF F, cs
<1>3. Len(F) \in Nat /\ DOMAIN F = 1 .. Len(F)
  BY <1>1, LenProperties
<1>4. Len(cs) = Len(F)
  BY <1>2, <1>3
<1>5. \A i \in 1 .. Len(F) : F[i] \in Range(Legs(kind)) \cap seen
  BY <1>1, <1>3 DEF Range
<1>6. \A leg \in Range(Legs(kind)) \cap seen : \E i \in 1 .. Len(F) : F[i] = leg
  BY <1>1, <1>3 DEF Range
<1> QED
  BY <1>2, <1>3, <1>4, <1>5, <1>6 DEF F, cs, Below

LEMMA ChildrenTyped ==
  ASSUME NEW a \in Contracts, NEW k \in 1 .. 9, NEW d \in Nat, NEW seen \in SUBSET Getters[a]
  PROVE  /\ Children(Kinds[k], a, d, seen) \in Seq([addr : Contracts \cup {ZERO}, depth : {d + 1}])
         /\ \A i \in 1 .. Len(Children(Kinds[k], a, d, seen)) :
              /\ Children(Kinds[k], a, d, seen)[i].addr \in Contracts \cup {ZERO}
              /\ Children(Kinds[k], a, d, seen)[i].depth = d + 1
<1> DEFINE kind == Kinds[k]
           F == Followed(kind, seen)
           cs == Children(kind, a, d, seen)
           N == [addr : Contracts \cup {ZERO}, depth : {d + 1}]
<1>1. /\ Len(F) \in Nat /\ Len(cs) = Len(F)
      /\ cs = [i \in 1 .. Len(F) |-> [addr |-> Child[a][F[i]], depth |-> d + 1]]
      /\ \A i \in 1 .. Len(F) : F[i] \in Range(Legs(kind)) \cap seen
  <2> HIDE DEF kind
  <2>1. Below(cs, F, kind, a, d, seen)
    BY ChildrenAre
  <2> HIDE DEF F, cs
  <2> QED
    BY <2>1 DEF Below
<1> HIDE DEF F, cs
<1>2. \A i \in 1 .. Len(F) : Child[a][F[i]] \in Contracts \cup {ZERO}
  BY <1>1, ChildAssumption
<1>3. \A i \in 1 .. Len(F) : cs[i] = [addr |-> Child[a][F[i]], depth |-> d + 1]
  BY <1>1
<1>4. \A i \in 1 .. Len(F) : cs[i] \in N
  <2> SUFFICES ASSUME NEW i \in 1 .. Len(F) PROVE cs[i] \in N
    OBVIOUS
  <2> DEFINE x == Child[a][F[i]]
  <2>1. x \in Contracts \cup {ZERO} /\ cs[i] = [addr |-> x, depth |-> d + 1]
    BY <1>2, <1>3
  <2> HIDE DEF x
  <2> QED
    BY <2>1
<1>5. cs \in [1 .. Len(F) -> N]
  <2> HIDE DEF N
  <2> QED
    BY <1>1, <1>4
<1>6. cs \in Seq(N)
  <2> HIDE DEF N
  <2> QED
    BY <1>1, <1>5, SeqDef
<1> QED
  BY <1>1, <1>2, <1>3, <1>6 DEF cs

LEMMA KindKnown ==
  ASSUME NEW a \in Contracts
  PROVE  \E k \in 1 .. 9 : KindOf[a] = Kinds[k]
<1>1. CASE KindOf[a] \in {Kinds[k] : k \in 1 .. 7}
  BY <1>1, SMT
<1>2. CASE KindOf[a] \notin {Kinds[k] : k \in 1 .. 7}
  <2>1. KindOf[a] \in {"ChainlinkAggregator", "UNKNOWN"}
    BY <1>2, ShapesAssumption
  <2>2. Kinds[8] = "ChainlinkAggregator" /\ Kinds[9] = "UNKNOWN"
    BY DEF Kinds
  <2> QED
    BY <2>1, <2>2, SMT
<1> QED
  BY <1>1, <1>2

(***************************************************************************)
(* The deployed path, one layer from the layer below it.                   *)
(***************************************************************************)
Addrs == Contracts \cup {ZERO}
Kids(f, cs) == [i \in 1 .. Len(cs) |-> f[cs[i].addr]]
Truly(a, d) == [addr |-> a, kind |-> KindOf[a], depth |-> d]

Branch(f, d, a) ==
  IF a = ZERO \/ d > MaxDepth THEN << >>
  ELSE << Truly(a, d) >> \o FlattenSeq(Kids(f, Children(KindOf[a], a, d, Getters[a])))

TreeBody(f) == [d \in 0 .. MaxDepth + 1 |-> [a \in Addrs |-> Branch(f[d + 1], d, a)]]

LEMMA KidsTyped ==
  ASSUME NEW k \in 1 .. 9, NEW a \in Contracts, NEW d \in Nat, NEW seen \in SUBSET Getters[a],
         NEW f \in [Addrs -> Seq(Node)]
  PROVE  Kids(f, Children(Kinds[k], a, d, seen)) \in Seq(Seq(Node))
<1> DEFINE cs == Children(Kinds[k], a, d, seen)
           n == Len(cs)
<1>1. n \in Nat /\ \A i \in 1 .. n : cs[i].addr \in Addrs
  BY ChildrenTyped, LenProperties DEF Addrs
<1> HIDE DEF cs
<1>2. \A i \in 1 .. n : f[cs[i].addr] \in Seq(Node)
  <2> SUFFICES ASSUME NEW i \in 1 .. n PROVE f[cs[i].addr] \in Seq(Node)
    OBVIOUS
  <2> DEFINE x == cs[i].addr
  <2>1. x \in Addrs
    BY <1>1
  <2> HIDE DEF x
  <2>2. f[x] \in Seq(Node)
    BY <2>1
  <2> QED
    BY <2>2 DEF x
<1>3. Kids(f, cs) \in [1 .. n -> Seq(Node)]
  BY <1>2 DEF Kids
<1> HIDE DEF n
<1>4. Kids(f, cs) \in Seq(Seq(Node))
  BY <1>1, <1>3, SeqDef
<1> QED
  BY <1>4 DEF cs

LEMMA BranchTyped ==
  ASSUME NEW d \in Nat, NEW a \in Addrs, NEW f \in [Addrs -> Seq(Node)]
  PROVE  Branch(f, d, a) \in Seq(Node)
<1>1. CASE a = ZERO \/ d > MaxDepth
  BY <1>1, EmptySeq DEF Branch
<1>2. CASE ~ (a = ZERO \/ d > MaxDepth)
  <2>1. a \in Contracts /\ d \in 0 .. MaxDepth
    BY <1>2, MaxDepthAssumption, SMT DEF Addrs
  <2>2. PICK k \in 1 .. 9 : KindOf[a] = Kinds[k]
    BY <2>1, KindKnown
  <2>3. Truly(a, d) \in Node
    BY <2>1, <2>2 DEF Truly, Node
  <2> DEFINE ss == Kids(f, Children(Kinds[k], a, d, Getters[a]))
  <2>4. ss \in Seq(Seq(Node))
    BY <2>1, KidsTyped
  <2>5. Branch(f, d, a) = << Truly(a, d) >> \o FlattenSeq(ss)
    BY <1>2, <2>2 DEF Branch
  <2> HIDE DEF ss
  <2>6. FlattenSeq(ss) \in Seq(Node) /\ << Truly(a, d) >> \in Seq(Node)
    BY <2>3, <2>4, FlattenRange
  <2> QED
    BY <2>5, <2>6, ConcatProperties
<1> QED
  BY <1>1, <1>2

LEMMA TreeExists == \E g : g = TreeBody(g)
<1> DEFINE n == MaxDepth + 1
           T == [Addrs -> Seq(Node)]
           base == [a \in Addrs |-> << >>]
           step == [i \in 1 .. n |-> [acc \in T |-> [a \in Addrs |-> Branch(acc, n - i, a)]]]
<1>1. n \in Nat /\ base \in T
  BY MaxDepthAssumption, EmptySeq
<1>2. step \in [1 .. n -> [T -> T]]
  <2> HIDE DEF T
  <2>1. ASSUME NEW i \in 1 .. n, NEW acc \in T PROVE [a \in Addrs |-> Branch(acc, n - i, a)] \in T
    <3>1. n - i \in Nat
      BY <1>1, SMT
    <3> HIDE DEF n
    <3>2. \A a \in Addrs : Branch(acc, n - i, a) \in Seq(Node)
      BY <2>1, <3>1, BranchTyped DEF T
    <3> QED
      BY <3>2 DEF T
  <2> QED
    BY <2>1
<1>3. PICK f \in [0 .. n -> T] : Runs(f, n, base, step)
  <2> HIDE DEF n, T, base, step
  <2> QED
    BY <1>1, <1>2, Recursion
<1> HIDE DEF T
<1> DEFINE g == [d \in 0 .. n |-> f[n - d]]
<1>4. \A d \in 0 .. n : f[n - d] = [a \in Addrs |-> Branch(g[d + 1], d, a)]
  <2> SUFFICES ASSUME NEW d \in 0 .. n
               PROVE  f[n - d] = [a \in Addrs |-> Branch(g[d + 1], d, a)]
    OBVIOUS
  <2>1. CASE d = n
    <3>1. n - d = 0 /\ d > MaxDepth
      BY <1>1, <2>1, MaxDepthAssumption, SMT
    <3>2. f[0] = base
      BY <1>3 DEF Runs
    <3>3. \A a \in Addrs : Branch(g[d + 1], d, a) = << >>
      BY <3>1 DEF Branch
    <3> HIDE DEF g, n
    <3> QED
      BY <3>1, <3>2, <3>3
  <2>2. CASE d # n
    <3> DEFINE i == n - d
    <3>1. i \in 1 .. n /\ i - 1 \in 0 .. n /\ i - 1 = n - (d + 1) /\ d + 1 \in 0 .. n /\ n - i = d
      BY <1>1, <2>2, SMT
    <3>2. g[d + 1] = f[i - 1]
      BY <3>1
    <3>3. f[i] = step[i][f[i - 1]] /\ f[i - 1] \in T
      <4> HIDE DEF i, n, step, base
      <4> QED
        BY <1>3, <3>1 DEF Runs
    <3>4. step[i][f[i - 1]] = [a \in Addrs |-> Branch(f[i - 1], d, a)]
      <4> HIDE DEF i, n, g
      <4> QED
        BY <3>1, <3>3
    <3> HIDE DEF g
    <3> QED
      BY <3>2, <3>3, <3>4
  <2> QED
    BY <2>1, <2>2
<1>5. g = TreeBody(g)
  <2>1. TreeBody(g) = [d \in 0 .. n |-> [a \in Addrs |-> Branch(g[d + 1], d, a)]]
    BY DEF TreeBody
  <2>2. [d \in 0 .. n |-> f[n - d]] = [d \in 0 .. n |-> [a \in Addrs |-> Branch(g[d + 1], d, a)]]
    <3> HIDE DEF g, n
    <3> QED
      BY <1>4
  <2> QED
    BY <2>1, <2>2
<1> QED
  BY <1>5

LEMMA TreeUnfolds ==
  /\ \A d \in 0 .. MaxDepth + 1 : TrueTree[d] = [a \in Addrs |-> Branch(TrueTree[d + 1], d, a)]
  /\ \A d \in 0 .. MaxDepth + 1 : TrueTree[d] \in [Addrs -> Seq(Node)]
<1> DEFINE n == MaxDepth + 1
<1>1. n \in Nat
  BY MaxDepthAssumption
<1>2. TrueTree = TreeBody(TrueTree)
  BY TreeExists, Zenon DEF TrueTree, TreeBody, Branch, Kids, Truly, Addrs
<1>3. ASSUME NEW d \in 0 .. n
      PROVE  TrueTree[d] = [a \in Addrs |-> Branch(TrueTree[d + 1], d, a)]
  <2>1. TreeBody(TrueTree)[d] = [a \in Addrs |-> Branch(TrueTree[d + 1], d, a)]
    BY DEF TreeBody
  <2> QED
    BY <1>2, <2>1
<1> DEFINE G == {i \in 0 .. n : TrueTree[n - i] \in [Addrs -> Seq(Node)]}
<1>4. 0 \in G
  <2>1. n \in 0 .. n /\ 0 \in 0 .. n /\ n - 0 = n /\ n > MaxDepth
    BY <1>1, MaxDepthAssumption, SMT
  <2>2. \A a \in Addrs : Branch(TrueTree[n + 1], n, a) = << >>
    BY <2>1 DEF Branch
  <2>4. TrueTree[n] = [a \in Addrs |-> Branch(TrueTree[n + 1], n, a)]
    BY <1>3, <2>1
  <2> DEFINE h == TrueTree[n + 1]
  <2> HIDE DEF n
  <2>5. TrueTree[n] = [a \in Addrs |-> << >>]
    <3> HIDE DEF h
    <3>1. \A a \in Addrs : Branch(h, n, a) = << >>
      BY <2>2 DEF h
    <3>2. TrueTree[n] = [a \in Addrs |-> Branch(h, n, a)]
      BY <2>4 DEF h
    <3> QED
      BY <3>1, <3>2
  <2>6. << >> \in Seq(Node)
    BY EmptySeq
  <2>3. TrueTree[n] \in [Addrs -> Seq(Node)]
    BY <2>5, <2>6
  <2> QED
    BY <2>1, <2>3
<1>5. ASSUME NEW i \in Nat, i < n, i \in G PROVE i + 1 \in G
  <2> DEFINE d == n - (i + 1)
  <2>1. d \in Nat /\ d \in 0 .. n /\ d + 1 = n - i /\ i + 1 \in 0 .. n
    BY <1>1, <1>5, SMT
  <2>2. TrueTree[d + 1] \in [Addrs -> Seq(Node)]
    BY <1>5, <2>1
  <2> HIDE DEF d
  <2> DEFINE f == TrueTree[d + 1]
  <2>3. \A a \in Addrs : Branch(f, d, a) \in Seq(Node)
    <3> HIDE DEF f
    <3>1. f \in [Addrs -> Seq(Node)]
      BY <2>2 DEF f
    <3> QED
      BY <2>1, <3>1, BranchTyped
  <2>4. TrueTree[d] \in [Addrs -> Seq(Node)]
    BY <1>3, <2>1, <2>3
  <2> QED
    BY <2>1, <2>4 DEF d
<1>6. \A i \in 0 .. n : i \in G
  <2> HIDE DEF G, n
  <2> QED
    BY <1>1, <1>4, <1>5, UpwardInduction
<1>7. ASSUME NEW d \in 0 .. n PROVE TrueTree[d] \in [Addrs -> Seq(Node)]
  <2>1. n - d \in 0 .. n /\ n - (n - d) = d
    BY <1>1, SMT
  <2>2. n - d \in G
    BY <1>6, <2>1
  <2>3. TrueTree[n - (n - d)] \in [Addrs -> Seq(Node)]
    BY <2>2
  <2> QED
    BY <2>1, <2>3
<1> QED
  BY <1>3, <1>7
------------------------------------------------------------------------------
(***************************************************************************)
(* Types.  What a step appends depends on the market under inspection and  *)
(* on the node being probed, so these come along: a record for each market *)
(* of the plan so far, and getters read only if the contract has them.     *)
(***************************************************************************)
Inspecting == phase \in {"node", "probe", "leaf", "pendle"}

Planned ==
  /\ Sequential(results)
  /\ phase = "fetch" => results = << >> /\ selected = << >>
  /\ Inspecting => Len(results) < Len(selected)
  /\ phase \in {"heads", "done"} => Len(results) = Len(selected)
  /\ \A i \in DOMAIN results : results[i].market = selected[i]

Probing ==
  phase = "probe" =>
    /\ todo # << >> /\ ~ IsNull(AtNode)
    /\ got \subseteq Getters[AtNode.addr]
    /\ Read \subseteq Getters[AtNode.addr]

TypeInv == CallInv /\ TypeOK /\ Planned /\ Probing

(* Unique keeps each market once, and Fetch takes the first of them.       *)
LEMMA UniqueAre ==
  ASSUME NEW rows \in Seq(Markets)
  PROVE  /\ Unique(rows) \in Seq(Markets)
         /\ \A j, k \in 1 .. Len(Unique(rows)) : Unique(rows)[j] = Unique(rows)[k] => j = k
<1> DEFINE I == {i \in DOMAIN rows : \A j \in 1 .. i - 1 : rows[j] # rows[i]}
           u == Unique(rows)
<1>1. u = Picked(rows, I)
  BY DEF Unique
<1>2. DOMAIN rows = 1 .. Len(rows) /\ Len(rows) \in Nat
  BY LenProperties
<1>3. I \in SUBSET (1 .. Len(rows))
  BY <1>2
<1>4. \A i, j \in I : j < i => rows[j] # rows[i]
  <2> SUFFICES ASSUME NEW i \in I, NEW j \in I, j < i PROVE rows[j] # rows[i]
    OBVIOUS
  <2>1. j \in 1 .. i - 1
    BY <1>2, SMT
  <2> QED
    BY <2>1
<1> HIDE DEF I, u
<1>5. Picked(rows, I) \in Seq(Markets) /\ \E b : Positions(b, Picked(rows, I), rows, I)
  BY <1>3, PickedPositions
<1>6. PICK b : Positions(b, u, rows, I)
  BY <1>1, <1>5
<1>7. Len(u) \in Nat
  BY <1>1, <1>5, LenProperties
<1>8. ASSUME NEW j \in 1 .. Len(u), NEW k \in 1 .. Len(u), j < k PROVE u[j] # u[k]
  <2>1. b[j] \in I /\ b[k] \in I /\ b[j] < b[k] /\ u[j] = rows[b[j]] /\ u[k] = rows[b[k]]
    BY <1>6, <1>8 DEF Positions
  <2> QED
    BY <1>4, <2>1
<1>9. ASSUME NEW j \in 1 .. Len(u), NEW k \in 1 .. Len(u), u[j] = u[k] PROVE j = k
  <2>1. ~ (j < k) /\ ~ (k < j)
    BY <1>8, <1>9
  <2> QED
    BY <1>7, <2>1, SMT
<1> QED
  BY <1>1, <1>5, <1>9 DEF u

LEMMA SelectedAre ==
  ASSUME Fetch
  PROVE  /\ selected' \in Seq(Markets)
         /\ \A j, k \in DOMAIN selected' : selected'[j] = selected'[k] => j = k
<1>1. PICK rows \in Listings :
        selected' = SubSeq(Unique(rows), 1, IF Len(Unique(rows)) < Top THEN Len(Unique(rows)) ELSE Top)
  BY DEF Fetch
<1> DEFINE u == Unique(rows)
           m == IF Len(u) < Top THEN Len(u) ELSE Top
<1>2. u \in Seq(Markets) /\ \A j, k \in 1 .. Len(u) : u[j] = u[k] => j = k
  BY UniqueAre, MarketsAssumption
<1> HIDE DEF u
<1>3. DOMAIN u = 1 .. Len(u) /\ Len(u) \in Nat
  BY <1>2, LenProperties
<1>4. m \in 0 .. Len(u) /\ m \in Nat
  BY <1>3, MarketsAssumption
<1> HIDE DEF m
<1>5. \A i \in 1 .. m : i \in 1 .. Len(u) /\ u[i] \in Markets
  BY <1>2, <1>3, <1>4, ElementOfSeq
<1> DEFINE s == SubSeq(u, 1, m)
<1>6. s = [i \in 1 .. m |-> u[i]]
  BY <1>2, <1>4, SMT
<1> HIDE DEF s
<1>7. s \in Seq(Markets) /\ DOMAIN s = 1 .. m
  BY <1>4, <1>5, <1>6, SeqDef
<1>8. \A j, k \in 1 .. m : s[j] = s[k] => j = k
  BY <1>2, <1>5, <1>6
<1> QED
  BY <1>1, <1>7, <1>8 DEF s, m, u

LEMMA Here ==
  ASSUME TypeOK, Len(results) < Len(selected), Len(results) \in Nat
  PROVE  /\ Current \in Markets /\ AdapterOf[Current] \in Addrs
         /\ Len(results) + 1 \in 1 .. Len(selected) /\ Len(selected) \in Nat
<1>1. selected \in Seq(Markets) /\ Len(selected) \in Nat /\ DOMAIN selected = 1 .. Len(selected)
  BY LenProperties DEF TypeOK
<1>2. Len(results) + 1 \in 1 .. Len(selected)
  BY <1>1
<1>3. Current \in Markets
  BY <1>1, <1>2, ElementOfSeq DEF Current
<1> QED
  BY <1>1, <1>2, <1>3, MarketsAssumption DEF Addrs

CallTyped(f) == \A c \in DOMAIN f : f[c].out \in Endings \cup {"pending"}

LEMMA IssueAnswers ==
  ASSUME NEW chain, NEW calls, Issue(chain, calls)
  PROVE  CallTyped(call') /\ Read' = {} /\ DOMAIN call' = calls
BY DEF Issue, Fresh, CallTyped, Read, Endings

LEMMA RequestAnswers ==
  ASSUME CallInv, CallTyped(call), Request
  PROVE  /\ CallTyped(call')
         /\ \A c \in Read' : c \in Read \/ Has(c)
<1>1. PICK c \in DOMAIN call :
        \/ \E body \in Bodies : (body = "result" => Has(c)) /\ PostAnswers(c, body)
        \/ \E chain \in {IF phase = "heads" THEN AtChain ELSE Chain} : PostFails(chain, c)
  BY DEF Request
<1>2. \A d \in DOMAIN call : call[d] = [tries |-> call[d].tries, out |-> call[d].out]
  BY DEF CallInv, TriedAgainst
<1>3. ASSUME NEW body \in Bodies, body = "result" => Has(c), PostAnswers(c, body)
      PROVE  CallTyped(call') /\ \A d \in Read' : d \in Read \/ Has(d)
  <2>1. /\ DOMAIN call' = DOMAIN call
        /\ call'[c].out = Ending[body]
        /\ \A d \in DOMAIN call \ {c} : call'[d] = call[d]
    BY <1>2, <1>3 DEF PostAnswers
  <2>2. Ending[body] \in Endings /\ (Ending[body] = "value" => body = "result")
    BY DEF Bodies, Ending, Endings
  <2> QED
    BY <1>3, <2>1, <2>2 DEF CallTyped, Read
<1>4. ASSUME NEW chain, PostFails(chain, c)
      PROVE  CallTyped(call') /\ \A d \in Read' : d \in Read \/ Has(d)
  <2>1. /\ DOMAIN call' = DOMAIN call
        /\ call'[c] = AfterFailure(chain, c)
        /\ \A d \in DOMAIN call \ {c} : call'[d] = call[d]
    BY <1>4 DEF PostFails
  <2>2. AfterFailure(chain, c).out \in {"pending", "unreachable"}
    BY DEF AfterFailure
  <2> QED
    BY <2>1, <2>2 DEF CallTyped, Read, Endings
<1> QED
  BY <1>1, <1>3, <1>4

LEMMA PlannedSame ==
  ASSUME Planned, UNCHANGED <<selected, results>>, phase' # "fetch",
         Inspecting' => Inspecting \/ Len(results) < Len(selected),
         phase' \in {"heads", "done"} => phase \in {"heads", "done"} \/ Len(results) = Len(selected)
  PROVE  Planned'
BY DEF Planned, Sequential

LEMMA RecordPlanned ==
  ASSUME TypeOK, Planned, Len(results) < Len(selected), UNCHANGED selected,
         NEW error, NEW ns, NEW p, NEW incomplete,
         results' = Append(results, Rec(Current, error, ns, p, incomplete)), phase' = "next"
  PROVE  Planned' /\ Len(results') <= Len(selected')
<1> DEFINE r == Rec(Current, error, ns, p, incomplete)
<1>1. r.market = Current
  BY DEF Rec
<1> HIDE DEF r
<1>2. /\ DOMAIN results = 1 .. Len(results) /\ Len(results) \in Nat
      /\ Sequential(results') /\ Len(results') = Len(results) + 1
      /\ DOMAIN results' = 1 .. Len(results) + 1
      /\ \A i \in 1 .. Len(results) : results'[i] = results[i]
      /\ results'[Len(results) + 1] = r
  BY AppendedAt DEF Planned, r
<1>3. Len(results') <= Len(selected')
  BY <1>2, Here
<1>4. ASSUME NEW i \in DOMAIN results' PROVE results'[i].market = selected'[i]
  <2>1. CASE i \in 1 .. Len(results)
    BY <1>2, <2>1 DEF Planned
  <2>2. CASE i = Len(results) + 1
    BY <1>1, <1>2, <2>2 DEF Current
  <2> QED
    BY <1>2, <2>1, <2>2, SMT
<1> QED
  BY <1>2, <1>3, <1>4 DEF Planned, Inspecting

Pending == [addr : Addrs, depth : 0 .. MaxDepth + 1]

LEMMA AtNodeIs ==
  ASSUME TypeOK, todo # << >>
  PROVE  /\ AtNode.addr \in Addrs /\ AtNode.depth \in 0 .. MaxDepth + 1 /\ Tail(todo) \in Seq(Pending)
         /\ ~ IsNull(AtNode) => AtNode.addr \in Contracts /\ AtNode.depth \in 0 .. MaxDepth
<1>1. todo \in Seq(Pending)
  BY DEF TypeOK, Pending, Addrs
<1>2. AtNode \in Pending /\ Tail(todo) \in Seq(Pending)
  BY <1>1, HeadTailProperties DEF AtNode
<1>3. AtNode.addr \in Addrs /\ AtNode.depth \in 0 .. MaxDepth + 1
  BY <1>2 DEF Pending
<1> QED
  BY <1>2, <1>3, MaxDepthAssumption, SMT DEF IsNull, Addrs

LEMMA SeqWider == \A S, T, s : S \subseteq T /\ s \in Seq(S) => s \in Seq(T)
<1> SUFFICES ASSUME NEW S, NEW T, NEW s, S \subseteq T, s \in Seq(S) PROVE s \in Seq(T)
  OBVIOUS
<1>1. Len(s) \in Nat /\ s \in [1 .. Len(s) -> S]
  BY LenProperties
<1> QED
  BY <1>1, SeqDef

LEMMA ClassifiedTyped ==
  ASSUME TypeOK, todo # << >>, ~ IsNull(AtNode),
         NEW k \in 1 .. 9, NEW seen \in SUBSET Getters[AtNode.addr], Classified(k, seen)
  PROVE  nodes' \in Seq(Node) /\ todo' \in Seq(Pending)
<1> DEFINE a == AtNode.addr
           d == AtNode.depth
           cs == Children(Kinds[k], a, d, seen)
<1>1. a \in Contracts /\ d \in 0 .. MaxDepth /\ Tail(todo) \in Seq(Pending)
  BY AtNodeIs
<1>2. nodes' = Append(nodes, [addr |-> a, kind |-> Kinds[k], depth |-> d]) /\ todo' = cs \o Tail(todo)
  BY DEF Classified
<1>3. [addr |-> a, kind |-> Kinds[k], depth |-> d] \in Node
  <2> HIDE DEF a, d
  <2> QED
    BY <1>1 DEF Node
<1>4. cs \in Seq(Pending)
  <2> HIDE DEF a, d
  <2>1. d \in Nat /\ d + 1 \in 0 .. MaxDepth + 1
    BY <1>1, MaxDepthAssumption
  <2>2. seen \in SUBSET Getters[a]
    BY DEF a
  <2>3. cs \in Seq([addr : Contracts \cup {ZERO}, depth : {d + 1}])
    BY <1>1, <2>1, <2>2, ChildrenTyped
  <2>4. [addr : Contracts \cup {ZERO}, depth : {d + 1}] \subseteq Pending
    BY <2>1 DEF Pending, Addrs
  <2> HIDE DEF cs
  <2>5. \A S, T, s : S \subseteq T /\ s \in Seq(S) => s \in Seq(T)
    BY SeqWider
  <2> QED
    BY <2>3, <2>4, <2>5
<1> HIDE DEF a, d, cs
<1>5. nodes' \in Seq(Node)
  BY <1>2, <1>3, AppendProperties DEF TypeOK
<1>6. todo' \in Seq(Pending)
  BY <1>1, <1>2, <1>4, ConcatProperties
<1> QED
  BY <1>5, <1>6

(* A step of the probe asks further, or ends with the shape it found.      *)
LEMMA ProbedEither ==
  ASSUME stage \in 0 .. LegsStage, Probed
  PROVE  \/ /\ UNCHANGED <<phase, nodes, todo>> /\ stage' \in 0 .. LegsStage
            /\ got' \subseteq got \cup Read
            /\ \E calls : Issue(Chain, calls)
         \/ \E k \in 1 .. 9 : Classified(k, got \cup Read)
<1> DEFINE seen == got \cup Read
<1>1. CASE stage = 0 /\ Try(1, seen)
  BY <1>1 DEF Try, LegsStage
<1>2. CASE stage \in 1 .. 8 /\ stage' = LegsStage /\ got' = seen
           /\ Issue(Chain, LateLegs) /\ UNCHANGED <<phase, nodes, todo>>
  BY <1>2 DEF LegsStage
<1>3. CASE stage \in 1 .. 8 /\ Classified(stage, seen)
  BY <1>3
<1>4. CASE stage \in 1 .. 7 /\ Try(stage + 1, seen \cap {"description"})
  BY <1>4 DEF Try, LegsStage
<1>5. CASE Classified(9, seen)
  BY <1>5
<1>6. CASE Classified(3, seen)
  BY <1>6
<1> HIDE DEF seen
<1>7. \/ stage = 0 /\ Try(1, seen)
      \/ stage \in 1 .. 8 /\ stage' = LegsStage /\ got' = seen
           /\ Issue(Chain, LateLegs) /\ UNCHANGED <<phase, nodes, todo>>
      \/ stage \in 1 .. 8 /\ Classified(stage, seen)
      \/ stage \in 1 .. 7 /\ Try(stage + 1, seen \cap {"description"})
      \/ Classified(9, seen)
      \/ Classified(3, seen)
  BY DEF Probed, seen
<1> QED
  BY <1>1, <1>2, <1>3, <1>4, <1>5, <1>6, <1>7

LEMMA TypeInit == Init => TypeInv
<1> SUFFICES ASSUME Init PROVE TypeInv
  OBVIOUS
<1>1. << >> \in Seq(Markets) /\ << >> \in Seq(Node) /\ Len(<< >>) = 0
      /\ << >> \in Seq([addr : Contracts \cup {ZERO}, depth : 0 .. MaxDepth + 1])
  BY EmptySeq
<1>2. TypeOK
  <2>1. phase = "fetch" /\ selected = << >> /\ results = << >> /\ todo = << >> /\ nodes = << >>
        /\ stage = 0 /\ chains = {} /\ call = << >> /\ lost = FALSE
    BY DEF Init
  <2>2. \A c \in DOMAIN call : call[c].out \in Endings \cup {"pending"}
    BY <2>1
  <2>3. Len(results) <= Len(selected) /\ stage \in 0 .. LegsStage
    BY <1>1, <2>1 DEF LegsStage
  <2> QED
    BY <1>1, <2>1, <2>2, <2>3 DEF TypeOK
<1>3. Planned
  BY <1>1 DEF Init, Planned, Sequential, Inspecting
<1>4. Probing
  BY DEF Init, Probing
<1> QED
  BY <1>2, <1>3, <1>4, CallInit DEF TypeInv

LEMMA TypeStep == TypeInv /\ [Next]_scanVars => TypeInv'
<1> SUFFICES ASSUME TypeInv, [Next]_scanVars PROVE TypeOK' /\ Planned' /\ Probing'
  BY CallStep DEF TypeInv
<1> USE DEF TypeInv
<1>1. CallTyped(call) /\ TypeOK /\ Planned /\ Probing /\ CallInv
  BY DEF TypeOK, CallTyped
<1>2. Len(results) \in Nat
  BY DEF Planned, Sequential
<1>3. ASSUME UNCHANGED <<selected, results, todo, nodes, stage, chains>>, CallTyped(call'),
             phase' \in {"fetch", "next", "node", "probe", "leaf", "pendle", "heads", "done", "failed"},
             lost' \in BOOLEAN
      PROVE  TypeOK'
  BY <1>3 DEF TypeOK, CallTyped
<1>4. ASSUME phase' # "probe" PROVE Probing'
  BY <1>4 DEF Probing
<1>5. CASE Fetch
  <2>1. selected' \in Seq(Markets) /\ Len(selected') \in Nat
    BY <1>5, SelectedAre, LenProperties
  <2>2. results = << >> /\ results' = << >> /\ phase' = "next" /\ Len(<< >>) = 0
    BY <1>5 DEF Fetch, Planned
  <2>3. TypeOK'
    BY <1>5, <2>1, <2>2 DEF Fetch, TypeOK
  <2>4. Planned'
    BY <2>2 DEF Planned, Sequential, Inspecting
  <2> QED
    BY <1>4, <2>2, <2>3, <2>4
<1>6. CASE FetchFails
  <2>1. TypeOK'
    BY <1>1, <1>3, <1>6 DEF FetchFails, TypeOK, CallTyped
  <2>2. Planned'
    BY <1>6, PlannedSame DEF FetchFails, Inspecting
  <2> QED
    BY <1>4, <1>6, <2>1, <2>2 DEF FetchFails
<1>7. CASE StartMarket
  <2>1. Len(results) < Len(selected) /\ AdapterOf[Current] \in Addrs
    BY <1>2, <1>7, Here DEF StartMarket
  <2>2. << >> \in Seq(Node)
    BY EmptySeq
  <2>3. CASE AdapterOf[Current] = ZERO
    <3>1. results' = Append(results, Rec(Current, FALSE, << >>, << >>, FALSE)) /\ phase' = "next"
          /\ UNCHANGED <<selected, phase, todo>>
      BY <1>7, <2>3 DEF StartMarket
    <3>2. Planned' /\ Len(results') <= Len(selected')
      BY <2>1, <3>1, RecordPlanned
    <3>3. TypeOK'
      BY <1>7, <2>2, <3>1, <3>2 DEF StartMarket, TypeOK
    <3> QED
      BY <1>4, <3>1, <3>2, <3>3
  <2>4. CASE AdapterOf[Current] # ZERO
    <3>1. todo' = << [addr |-> AdapterOf[Current], depth |-> 0] >> /\ phase' = "node"
          /\ UNCHANGED <<selected, results>>
      BY <1>7, <2>4 DEF StartMarket
    <3>2. 0 \in 0 .. MaxDepth + 1
      BY MaxDepthAssumption
    <3>3. todo' \in Seq([addr : Contracts \cup {ZERO}, depth : 0 .. MaxDepth + 1])
      BY <2>1, <3>1, <3>2 DEF Addrs
    <3>4. TypeOK'
      BY <1>7, <2>2, <3>1, <3>3 DEF StartMarket, TypeOK
    <3>5. Planned'
      BY <2>1, <3>1, PlannedSame DEF Inspecting
    <3> QED
      BY <1>4, <3>1, <3>4, <3>5
  <2> QED
    BY <2>3, <2>4
<1>8. CASE SkipNull
  <2>1. Tail(todo) \in Seq(Pending) /\ todo' = Tail(todo)
    BY <1>8, AtNodeIs DEF SkipNull
  <2>2. TypeOK'
    BY <1>8, <2>1 DEF SkipNull, TypeOK, Pending, Addrs
  <2>3. Planned'
    BY <1>8, PlannedSame DEF SkipNull, Inspecting
  <2> QED
    BY <1>4, <1>8, <2>2, <2>3 DEF SkipNull
<1>9. CASE EnterNode
  <2>1. CallTyped(call') /\ Read' = {}
    BY <1>9, IssueAnswers DEF EnterNode
  <2>2. TypeOK'
    BY <1>9, <2>1 DEF EnterNode, TypeOK, CallTyped, LegsStage
  <2>3. Planned'
    BY <1>9, PlannedSame DEF EnterNode, Inspecting
  <2>4. Probing'
    BY <1>9, <2>1 DEF EnterNode, Probing, IsNull, AtNode
  <2> QED
    BY <2>2, <2>3, <2>4
<1>10. CASE Request
  <2>1. CallTyped(call') /\ \A c \in Read' : c \in Read \/ Has(c)
    BY <1>1, <1>10, RequestAnswers
  <2>2. UNCHANGED <<phase, selected, results, todo, nodes, stage, got, chains>>
    BY <1>10 DEF Request
  <2>3. lost' \in BOOLEAN
    BY <1>10 DEF Request
  <2>4. TypeOK'
    BY <1>3, <2>1, <2>2, <2>3 DEF TypeOK
  <2>5. Planned'
    BY <2>2 DEF Planned, Sequential, Inspecting
  <2>6. Probing'
    <3> SUFFICES ASSUME phase = "probe"
                 PROVE  /\ todo # << >> /\ ~ IsNull(AtNode)
                        /\ got \subseteq Getters[AtNode.addr] /\ Read' \subseteq Getters[AtNode.addr]
      BY <2>2 DEF Probing, AtNode, IsNull
    <3>1. \A c \in Read' : c \in Getters[AtNode.addr]
      BY <2>1 DEF Has, Probing
    <3> QED
      BY <3>1 DEF Probing
  <2> QED
    BY <2>4, <2>5, <2>6
<1>11. CASE Probed
  <2>1. /\ UNCHANGED <<selected, results, chains, lost>> /\ phase = "probe"
        /\ todo # << >> /\ ~ IsNull(AtNode)
        /\ got \cup Read \in SUBSET Getters[AtNode.addr]
    BY <1>11 DEF Probed, Probing
  <2>2. stage \in 0 .. LegsStage
    BY DEF TypeOK
  <2>3. CASE /\ UNCHANGED <<phase, nodes, todo>> /\ stage' \in 0 .. LegsStage
             /\ got' \subseteq got \cup Read
             /\ \E calls : Issue(Chain, calls)
    <3>1. CallTyped(call') /\ Read' = {}
      BY <2>3, IssueAnswers
    <3>2. TypeOK'
      BY <2>1, <2>3, <3>1 DEF TypeOK, CallTyped
    <3>3. Planned'
      BY <2>1, <2>3 DEF Planned, Sequential, Inspecting
    <3>4. Probing'
      BY <2>1, <2>3, <3>1 DEF Probing, AtNode, IsNull
    <3> QED
      BY <3>2, <3>3, <3>4
  <2>4. CASE \E k \in 1 .. 9 : Classified(k, got \cup Read)
    <3>1. PICK k \in 1 .. 9 : Classified(k, got \cup Read)
      BY <2>4
    <3>2. nodes' \in Seq(Node) /\ todo' \in Seq(Pending)
      BY <2>1, <3>1, ClassifiedTyped
    <3>3. phase' = "node" /\ stage' = 0 /\ call' = << >>
      BY <3>1 DEF Classified
    <3>4. TypeOK'
      BY <2>1, <3>2, <3>3 DEF TypeOK, LegsStage, Pending, Addrs
    <3>5. Planned'
      BY <2>1, <3>3, PlannedSame DEF Inspecting
    <3> QED
      BY <1>4, <3>3, <3>4, <3>5
  <2> QED
    BY <1>11, <2>2, <2>3, <2>4, ProbedEither
<1>12. CASE PathDone \/ Cached \/ ReadPendleMarket \/ PendleRead \/ BlockNumber
  <2>1. CallTyped(call')
    BY <1>1, <1>12, IssueAnswers
       DEF PathDone, Cached, ReadPendleMarket, PendleRead, ThenObserve, Kept, BlockNumber, CallTyped
  <2>2. UNCHANGED <<selected, results, todo, nodes, stage, chains, lost>>
    BY <1>12 DEF PathDone, Cached, ReadPendleMarket, PendleRead, BlockNumber
  <2>3. \/ phase \in {"node", "leaf", "pendle"} /\ phase' \in {"leaf", "pendle"}
        \/ phase = "heads" /\ phase' = "heads"
    BY <1>12 DEF PathDone, Cached, ReadPendleMarket, PendleRead, ThenObserve, Kept, BlockNumber
  <2>4. TypeOK'
    BY <1>3, <2>1, <2>2, <2>3 DEF TypeOK
  <2>5. Planned'
    BY <2>2, <2>3, PlannedSame DEF Inspecting
  <2> QED
    BY <1>4, <2>3, <2>4, <2>5
<1>13. CASE MarketFails \/ MarketDone
  <2>1. PICK error, ns, p, incomplete :
          results' = Append(results, Rec(Current, error, ns, p, incomplete))
    BY <1>13 DEF MarketFails, MarketDone
  <2>2. phase' = "next" /\ Inspecting /\ UNCHANGED <<selected, nodes, stage, chains, lost>>
    BY <1>13 DEF MarketFails, MarketDone, Inspecting
  <2>3. Planned' /\ Len(results') <= Len(selected')
    BY <2>1, <2>2, RecordPlanned DEF Planned
  <2>4. (todo' = << >> \/ todo' = todo) /\ (call' = << >> \/ call' = call)
    BY <1>13 DEF MarketFails, MarketDone
  <2>5. todo' \in Seq([addr : Contracts \cup {ZERO}, depth : 0 .. MaxDepth + 1])
    BY <2>4, EmptySeq DEF TypeOK
  <2>6. \A c \in DOMAIN call' : call'[c].out \in Endings \cup {"pending"}
    BY <2>4 DEF TypeOK
  <2>7. TypeOK'
    BY <2>2, <2>3, <2>5, <2>6 DEF TypeOK
  <2> QED
    BY <1>4, <2>2, <2>3, <2>7
<1>14. CASE AllInspected
  <2>1. /\ UNCHANGED <<selected, results, todo, nodes, stage, lost>> /\ phase' = "heads"
        /\ call' = << >> /\ Len(results) = Len(selected)
    BY <1>14 DEF AllInspected
  <2>2. chains' \subseteq {ChainOf[m] : m \in Markets}
    <3>1. DOMAIN results = 1 .. Len(selected)
      BY <2>1 DEF Planned, Sequential
    <3>2. \A i \in DOMAIN results : results[i].market \in Markets
      BY <3>1, ElementOfSeq DEF Planned, TypeOK
    <3> QED
      BY <1>14, <3>2 DEF AllInspected
  <2>3. TypeOK'
    BY <2>1, <2>2 DEF TypeOK
  <2>4. Planned'
    BY <2>1, PlannedSame DEF Inspecting
  <2> QED
    BY <1>4, <2>1, <2>3, <2>4
<1>15. CASE HeadRead \/ HeadFails \/ WriteFile
  <2>1. /\ UNCHANGED <<selected, results, todo, nodes, stage, lost>>
        /\ phase = "heads" /\ phase' \in {"heads", "failed", "done"}
        /\ chains' \subseteq chains /\ (call' = << >> \/ call' = call)
    BY <1>15 DEF HeadRead, HeadFails, WriteFile
  <2>2. TypeOK'
    BY <2>1 DEF TypeOK
  <2>3. Planned'
    BY <2>1, PlannedSame DEF Inspecting
  <2> QED
    BY <1>4, <2>1, <2>2, <2>3
<1>16. CASE UNCHANGED scanVars
  BY <1>16 DEF scanVars, TypeOK, Planned, Sequential, Inspecting, Probing, AtNode, IsNull, Read
<1> QED
  BY <1>5, <1>6, <1>7, <1>8, <1>9, <1>10, <1>11, <1>12, <1>13, <1>14, <1>15, <1>16 DEF Next

(* At every moment of every scan the variables hold what they are for, and *)
(* the walk of an oracle never gets below one level beyond MaxDepth,       *)
(* whatever the contracts refer to.                                        *)
THEOREM TypeCorrect == Spec => []TypeOK
<1>1. TypeInv => TypeOK
  BY DEF TypeInv
<1> QED
  BY <1>1, TypeInit, TypeStep, PTL DEF Spec
------------------------------------------------------------------------------
(***************************************************************************)
(* The walk stays on the path: what is still to be classified lies on the  *)
(* market's deployed path, and a node taken for a PT feed is one, at that  *)
(* depth, whichever reads were lost.                                       *)
(***************************************************************************)
Path(m) == Range(TrueNodes(AdapterOf[m]))

PtIn(ns, m) == \A n \in Range(ns) : n.kind \in PT_LEAF_KINDS => n \in Path(m)

Within(ns, m) == \A n \in Range(ns) : Range(TrueTree[n.depth][n.addr]) \subseteq Path(m)

OnPath ==
  /\ Inspecting => PtIn(nodes, Current) /\ Within(todo, Current)
  /\ phase = "probe" /\ stage = LegsStage => Probes[3] \subseteq got
  /\ \A i \in DOMAIN results :
       results[i].nodes \in Seq(Node) /\ PtIn(results[i].nodes, results[i].market)

LEMMA RangesAre ==
  /\ Range(<< >>) = {}
  /\ \A x : Range(<< x >>) = {x}
  /\ \A S : \A s, t \in Seq(S) : Range(s \o t) = Range(s) \cup Range(t)
  /\ \A S : \A s \in Seq(S), x \in S : Range(Append(s, x)) = Range(s) \cup {x}
  /\ \A S : \A s \in Seq(S) : s # << >> => Head(s) \in Range(s) /\ Range(Tail(s)) \subseteq Range(s)
<1>1. Range(<< >>) = {} /\ \A x : Range(<< x >>) = {x}
  BY DEF Range
<1>2. ASSUME NEW S, NEW s \in Seq(S), NEW t \in Seq(S) PROVE Range(s \o t) = Range(s) \cup Range(t)
  <2> DEFINE c == s \o t
  <2>1. /\ Len(s) \in Nat /\ Len(t) \in Nat /\ DOMAIN s = 1 .. Len(s) /\ DOMAIN t = 1 .. Len(t)
        /\ DOMAIN c = 1 .. Len(s) + Len(t)
        /\ \A i \in 1 .. Len(s) + Len(t) : c[i] = IF i <= Len(s) THEN s[i] ELSE t[i - Len(s)]
    BY ConcatProperties, LenProperties
  <2> HIDE DEF c
  <2>2. ASSUME NEW i \in 1 .. Len(s) + Len(t) PROVE c[i] \in Range(s) \cup Range(t)
    <3>1. CASE i <= Len(s)
      BY <2>1, <3>1 DEF Range
    <3>2. CASE ~ (i <= Len(s))
      <4>1. i - Len(s) \in 1 .. Len(t)
        BY <2>1, <3>2
      <4> QED
        BY <2>1, <3>2, <4>1 DEF Range
    <3> QED
      BY <3>1, <3>2
  <2>3. ASSUME NEW i \in 1 .. Len(s) PROVE s[i] \in Range(c)
    <3>1. i \in 1 .. Len(s) + Len(t) /\ i <= Len(s)
      BY <2>1
    <3> QED
      BY <2>1, <3>1 DEF Range
  <2>4. ASSUME NEW i \in 1 .. Len(t) PROVE t[i] \in Range(c)
    <3> DEFINE j == Len(s) + i
    <3>1. j \in 1 .. Len(s) + Len(t) /\ ~ (j <= Len(s)) /\ j - Len(s) = i
      BY <2>1
    <3> HIDE DEF j
    <3> QED
      BY <2>1, <3>1 DEF Range
  <2>5. Range(c) \subseteq Range(s) \cup Range(t)
    BY <2>1, <2>2 DEF Range
  <2>6. Range(s) \subseteq Range(c) /\ Range(t) \subseteq Range(c)
    BY <2>1, <2>3, <2>4 DEF Range
  <2> QED
    BY <2>5, <2>6 DEF c
<1>3. ASSUME NEW S, NEW s \in Seq(S), NEW x \in S PROVE Range(Append(s, x)) = Range(s) \cup {x}
  <2> DEFINE t == << x >>
  <2>1. t \in Seq(S)
    OBVIOUS
  <2>2. Append(s, x) = s \o t
    BY <1>3, AppendIsConcat
  <2>3. Range(t) = {x}
    BY <1>1
  <2> HIDE DEF t
  <2>4. Range(s \o t) = Range(s) \cup Range(t)
    BY <1>2, <2>1
  <2> QED
    BY <2>2, <2>3, <2>4
<1>4. ASSUME NEW S, NEW s \in Seq(S), s # << >>
      PROVE  Head(s) \in Range(s) /\ Range(Tail(s)) \subseteq Range(s)
  <2>1. /\ Len(s) \in Nat /\ Len(s) > 0 /\ DOMAIN s = 1 .. Len(s) /\ Head(s) = s[1]
        /\ Tail(s) \in Seq(S) /\ Len(Tail(s)) = Len(s) - 1
        /\ \A i \in 1 .. Len(Tail(s)) : Tail(s)[i] = s[i + 1]
    BY <1>4, HeadTailProperties, LenProperties, EmptySeq
  <2>2. DOMAIN Tail(s) = 1 .. Len(Tail(s))
    BY <2>1, LenProperties
  <2>3. 1 \in DOMAIN s /\ \A i \in 1 .. Len(Tail(s)) : i + 1 \in DOMAIN s
    BY <2>1
  <2> QED
    BY <2>1, <2>2, <2>3 DEF Range
<1> QED
  BY <1>1, <1>2, <1>3, <1>4

(* A contract that passes for a shape is of it, even if not every getter   *)
(* it has was read; only a feed that passes for nothing better is left.    *)
LEMMA RightShape ==
  ASSUME NEW a \in Contracts, NEW k \in 1 .. 7, NEW seen \in SUBSET Getters[a], Recognised(k, a, seen)
  PROVE  KindOf[a] = Kinds[k]
<1>1. Recognised(k, a, Getters[a])
  <2>1. CASE Kinds[k] = "PendleLinearDiscountOracleWrapper"
    BY <2>1, SMT DEF Recognised
  <2>2. CASE Kinds[k] = "ChainlinkAggregator"
    <3>1. FALSE
      BY <2>2, SMT DEF Kinds
    <3> QED
      BY <3>1
  <2>3. CASE Kinds[k] \notin {"PendleLinearDiscountOracleWrapper", "ChainlinkAggregator"}
    <3>1. Probes[k] \subseteq seen
      BY <2>3 DEF Recognised
    <3>2. Probes[k] \subseteq Getters[a]
      BY <3>1
    <3> QED
      BY <2>3, <3>2 DEF Recognised
  <2> QED
    BY <2>1, <2>2, <2>3
<1> QED
  BY <1>1, ShapesAssumption

LEMMA NoLegs == Range(Legs(Kinds[8])) = {} /\ Range(Legs(Kinds[9])) = {}
BY RangesAre DEF Legs, Kinds

(* The path below a contract: the contract, then the paths of its legs.    *)
LEMMA TreeAt ==
  ASSUME NEW a \in Contracts, NEW d \in 0 .. MaxDepth
  PROVE  LET ss == Kids(TrueTree[d + 1], Children(KindOf[a], a, d, Getters[a]))
         IN  /\ ss \in Seq(Seq(Node)) /\ Truly(a, d) \in Node
             /\ TrueTree[d][a] = << Truly(a, d) >> \o FlattenSeq(ss)
<1> DEFINE ss == Kids(TrueTree[d + 1], Children(KindOf[a], a, d, Getters[a]))
<1>1. d \in Nat /\ d \in 0 .. MaxDepth + 1 /\ d + 1 \in 0 .. MaxDepth + 1 /\ ~ (d > MaxDepth)
  BY MaxDepthAssumption
<1>2. a \in Addrs /\ a # ZERO
  BY ContractsAssumption DEF Addrs
<1>3. TrueTree[d][a] = << Truly(a, d) >> \o FlattenSeq(ss)
  <2>1. TrueTree[d] = [x \in Addrs |-> Branch(TrueTree[d + 1], d, x)]
    BY <1>1, TreeUnfolds
  <2>2. TrueTree[d][a] = Branch(TrueTree[d + 1], d, a)
    BY <1>2, <2>1
  <2> QED
    BY <1>1, <1>2, <2>2 DEF Branch
<1>4. PICK k \in 1 .. 9 : KindOf[a] = Kinds[k]
  BY KindKnown
<1>5. ss \in Seq(Seq(Node))
  <2> DEFINE f == TrueTree[d + 1]
  <2>1. f \in [Addrs -> Seq(Node)]
    BY <1>1, TreeUnfolds
  <2> HIDE DEF f
  <2>2. Kids(f, Children(Kinds[k], a, d, Getters[a])) \in Seq(Seq(Node))
    BY <1>1, <2>1, KidsTyped
  <2> QED
    BY <1>4, <2>2 DEF f
<1>6. Truly(a, d) \in Node
  BY <1>4 DEF Truly, Node
<1> QED
  BY <1>3, <1>5, <1>6

(* Whatever was read of a contract, its legs lead down the deployed path.  *)
LEMMA ChildrenOnPath ==
  ASSUME NEW a \in Contracts, NEW d \in 0 .. MaxDepth, NEW k \in 1 .. 9, NEW seen \in SUBSET Getters[a],
         k \in {8, 9} \/ KindOf[a] = Kinds[k]
  PROVE  \A n \in Range(Children(Kinds[k], a, d, seen)) :
           Range(TrueTree[n.depth][n.addr]) \subseteq Range(TrueTree[d][a])
<1> DEFINE kind == Kinds[k]
           cs == Children(kind, a, d, seen)
           F == Followed(kind, seen)
           every == Children(kind, a, d, Getters[a])
           E == Followed(kind, Getters[a])
<1>1. d \in Nat
  BY MaxDepthAssumption
<1>2. Below(cs, F, kind, a, d, seen)
  <2> HIDE DEF kind
  <2> QED
    BY <1>1, ChildrenAre
<1>3. Below(every, E, kind, a, d, Getters[a])
  <2> HIDE DEF kind
  <2> QED
    BY <1>1, ChildrenAre
<1>4. DOMAIN cs = 1 .. Len(F)
  <2> HIDE DEF cs, F, kind
  <2> QED
    BY <1>2 DEF Below
<1>5. CASE k \in {8, 9}
  <2>1. Range(Legs(kind)) = {}
    BY <1>5, NoLegs
  <2> HIDE DEF cs, F, kind
  <2>2. 1 .. Len(F) = {}
    BY <1>2, <2>1 DEF Below
  <2>3. Range(cs) = {}
    BY <1>4, <2>2 DEF Range
  <2> QED
    BY <2>3 DEF cs, kind
<1>6. CASE KindOf[a] = Kinds[k]
  <2> DEFINE ss == Kids(TrueTree[d + 1], every)
  <2>1. ss \in Seq(Seq(Node)) /\ Truly(a, d) \in Node /\ TrueTree[d][a] = << Truly(a, d) >> \o FlattenSeq(ss)
    BY <1>6, TreeAt
  <2>2. ss = [j \in 1 .. Len(every) |-> TrueTree[d + 1][every[j].addr]]
    BY DEF Kids
  <2> HIDE DEF cs, F, every, E, kind, ss
  <2>3. /\ FlattenSeq(ss) \in Seq(Node)
        /\ \A j \in 1 .. Len(ss) : Range(ss[j]) \subseteq Range(FlattenSeq(ss))
    BY <2>1, FlattenRange
  <2>4. Range(FlattenSeq(ss)) \subseteq Range(TrueTree[d][a])
    <3> DEFINE s == << Truly(a, d) >>
               t == FlattenSeq(ss)
    <3>1. s \in Seq(Node) /\ t \in Seq(Node) /\ TrueTree[d][a] = s \o t
      BY <2>1, <2>3
    <3> HIDE DEF s, t
    <3>2. Range(s \o t) = Range(s) \cup Range(t)
      BY <3>1, RangesAre
    <3> QED
      BY <3>1, <3>2 DEF t
  <2>5. Len(every) = Len(E) /\ Len(E) \in Nat
    BY <1>3 DEF Below
  <2>6. Len(ss) = Len(every)
    BY <2>2, <2>5
  <2>7. ASSUME NEW i \in 1 .. Len(F)
        PROVE  Range(TrueTree[cs[i].depth][cs[i].addr]) \subseteq Range(TrueTree[d][a])
    <3> DEFINE leg == F[i]
               x == Child[a][leg]
    <3>1. leg \in Range(Legs(kind)) \cap seen /\ cs[i] = [addr |-> x, depth |-> d + 1]
      BY <1>2, <2>7 DEF Below
    <3>2. leg \in Range(Legs(kind)) \cap Getters[a]
      BY <3>1
    <3> HIDE DEF leg
    <3>3. PICK j \in 1 .. Len(E) : E[j] = leg
      BY <1>3, <3>2 DEF Below
    <3>4. every[j] = [addr |-> x, depth |-> d + 1]
      BY <1>3, <3>3 DEF Below
    <3> HIDE DEF x
    <3>5. ss[j] = TrueTree[d + 1][x] /\ j \in 1 .. Len(ss)
      BY <2>2, <2>5, <2>6, <3>3, <3>4
    <3>6. Range(ss[j]) \subseteq Range(FlattenSeq(ss))
      BY <2>3, <3>5
    <3>7. cs[i].depth = d + 1 /\ cs[i].addr = x
      BY <3>1
    <3> QED
      BY <2>4, <3>5, <3>6, <3>7
  <2>8. \A n \in Range(cs) : Range(TrueTree[n.depth][n.addr]) \subseteq Range(TrueTree[d][a])
    BY <1>4, <2>7 DEF Range
  <2> QED
    BY <2>8 DEF cs, kind
<1> QED
  BY <1>5, <1>6

LEMMA ClassifiedOnPath ==
  ASSUME TypeInv, OnPath, phase = "probe",
         NEW k \in 1 .. 9, NEW seen \in SUBSET Getters[AtNode.addr],
         k \in {8, 9} \/ KindOf[AtNode.addr] = Kinds[k], Classified(k, seen)
  PROVE  PtIn(nodes', Current) /\ Within(todo', Current)
<1> DEFINE a == AtNode.addr
           d == AtNode.depth
           cs == Children(Kinds[k], a, d, seen)
           n == [addr |-> a, kind |-> Kinds[k], depth |-> d]
           rest == Tail(todo)
<1>1. todo # << >> /\ ~ IsNull(AtNode) /\ TypeOK
  BY DEF TypeInv, Probing
<1>2. a \in Contracts /\ d \in 0 .. MaxDepth /\ rest \in Seq(Pending)
  BY <1>1, AtNodeIs
<1>3. nodes' = Append(nodes, n) /\ todo' = cs \o rest
  BY DEF Classified
<1>4. PtIn(nodes, Current) /\ Within(todo, Current)
  BY DEF OnPath, Inspecting
<1>5. todo \in Seq(Pending) /\ nodes \in Seq(Node)
  BY <1>1 DEF TypeOK, Pending, Addrs
<1>6. AtNode \in Range(todo) /\ Range(rest) \subseteq Range(todo)
  BY <1>1, <1>5, RangesAre DEF AtNode
<1>7. Range(TrueTree[d][a]) \subseteq Path(Current)
  BY <1>4, <1>6 DEF Within
<1>8. seen \in SUBSET Getters[a] /\ (k \in {8, 9} \/ KindOf[a] = Kinds[k])
  OBVIOUS
<1>9. n \in Node /\ cs \in Seq(Pending)
  <2> HIDE DEF a, d
  <2>1. d \in Nat /\ d + 1 \in 0 .. MaxDepth + 1
    BY <1>2, MaxDepthAssumption
  <2>2. cs \in Seq([addr : Contracts \cup {ZERO}, depth : {d + 1}])
    BY <1>2, <1>8, <2>1, ChildrenTyped
  <2>3. [addr : Contracts \cup {ZERO}, depth : {d + 1}] \subseteq Pending
    BY <2>1 DEF Pending, Addrs
  <2> HIDE DEF cs
  <2>4. \A S, T, s : S \subseteq T /\ s \in Seq(S) => s \in Seq(T)
    BY SeqWider
  <2>5. cs \in Seq(Pending)
    BY <2>2, <2>3, <2>4
  <2> QED
    BY <1>2, <2>5 DEF Node
<1>10. \A m \in Range(cs) : Range(TrueTree[m.depth][m.addr]) \subseteq Range(TrueTree[d][a])
  <2> HIDE DEF a, d
  <2> QED
    BY <1>2, <1>8, ChildrenOnPath
<1>11. n.kind \in PT_LEAF_KINDS => n \in Range(TrueTree[d][a])
  <2> SUFFICES ASSUME Kinds[k] \in PT_LEAF_KINDS PROVE n \in Range(TrueTree[d][a])
    OBVIOUS
  <2>1. k \notin {8, 9}
    BY SMT DEF Kinds, PT_LEAF_KINDS
  <2>2. n = Truly(a, d)
    BY <1>8, <2>1 DEF Truly
  <2> HIDE DEF a, d, n
  <2> DEFINE ss == Kids(TrueTree[d + 1], Children(KindOf[a], a, d, Getters[a]))
             s == << Truly(a, d) >>
             t == FlattenSeq(ss)
  <2>3. ss \in Seq(Seq(Node)) /\ Truly(a, d) \in Node /\ TrueTree[d][a] = s \o t
    BY <1>2, TreeAt
  <2>4. t \in Seq(Node)
    <3> HIDE DEF ss
    <3> QED
      BY <2>3, FlattenRange
  <2>5. s \in Seq(Node) /\ Range(s) = {n}
    BY <2>2, <2>3, RangesAre
  <2> HIDE DEF s, t
  <2>6. Range(s \o t) = Range(s) \cup Range(t)
    BY <2>4, <2>5, RangesAre
  <2> QED
    BY <2>3, <2>5, <2>6
<1> HIDE DEF a, d, cs, n, rest
<1>12. Range(nodes') = Range(nodes) \cup {n}
  BY <1>3, <1>5, <1>9, RangesAre
<1>13. Range(todo') = Range(cs) \cup Range(rest)
  BY <1>2, <1>3, <1>9, RangesAre
<1>14. PtIn(nodes', Current)
  BY <1>4, <1>7, <1>11, <1>12 DEF PtIn
<1>15. Within(todo', Current)
  BY <1>4, <1>6, <1>7, <1>10, <1>13 DEF Within
<1> QED
  BY <1>14, <1>15

LEMMA RecordOnPath ==
  ASSUME TypeInv, OnPath, UNCHANGED selected, phase' = "next",
         NEW error, NEW ns \in Seq(Node), NEW p, NEW incomplete, PtIn(ns, Current),
         results' = Append(results, Rec(Current, error, ns, p, incomplete))
  PROVE  OnPath'
<1> DEFINE r == Rec(Current, error, ns, p, incomplete)
<1>1. r.nodes = ns /\ r.market = Current
  BY DEF Rec
<1> HIDE DEF r
<1>2. \A i \in DOMAIN results' : (i \in DOMAIN results /\ results'[i] = results[i]) \/ results'[i] = r
  BY Appended DEF TypeInv, Planned, r
<1>3. \A i \in DOMAIN results' :
        results'[i].nodes \in Seq(Node) /\ PtIn(results'[i].nodes, results'[i].market)
  BY <1>1, <1>2 DEF OnPath
<1> QED
  BY <1>3 DEF OnPath, Inspecting, PtIn, Path

LEMMA PathInit == Init => OnPath
<1> SUFFICES ASSUME Init PROVE OnPath
  OBVIOUS
<1>1. phase = "fetch" /\ results = << >> /\ DOMAIN << >> = {}
  BY DEF Init
<1> QED
  BY <1>1 DEF OnPath, Inspecting

LEMMA PathStep == TypeInv /\ OnPath /\ [Next]_scanVars => OnPath'
<1> SUFFICES ASSUME TypeInv, OnPath, [Next]_scanVars PROVE OnPath'
  OBVIOUS
<1>1. ASSUME UNCHANGED <<selected, results>>, ~ Inspecting' PROVE OnPath'
  BY <1>1 DEF OnPath, Inspecting, PtIn, Path
<1>2. ASSUME UNCHANGED <<selected, results>>, PtIn(nodes', Current), Within(todo', Current),
             phase' = "probe" => stage' # LegsStage \/ Probes[3] \subseteq got'
      PROVE  OnPath'
  <2>1. Current' = Current
    BY <1>2 DEF Current
  <2> QED
    BY <1>2, <2>1 DEF OnPath, PtIn, Path, Within
<1>3. ASSUME UNCHANGED <<selected, results, nodes>>, Inspecting, phase' # "probe",
             todo' = todo \/ Within(todo', Current)
      PROVE  OnPath'
  BY <1>2, <1>3 DEF OnPath, PtIn, Within
<1>4. CASE Fetch
  <2>1. results' = << >> /\ phase' = "next" /\ DOMAIN << >> = {}
    BY <1>4 DEF Fetch, TypeInv, Planned
  <2> QED
    BY <2>1 DEF OnPath, Inspecting
<1>5. CASE FetchFails \/ AllInspected \/ BlockNumber \/ HeadRead \/ HeadFails \/ WriteFile
  BY <1>1, <1>5 DEF FetchFails, AllInspected, BlockNumber, HeadRead, HeadFails, WriteFile, Inspecting
<1>6. CASE StartMarket
  <2>1. Len(results) \in Nat /\ Len(results) < Len(selected)
    BY <1>6 DEF StartMarket, TypeInv, Planned, Sequential
  <2>2. AdapterOf[Current] \in Addrs
    BY <2>1, Here DEF TypeInv
  <2>3. << >> \in Seq(Node) /\ PtIn(<< >>, Current)
    BY EmptySeq, RangesAre DEF PtIn
  <2>4. CASE AdapterOf[Current] = ZERO
    <3>1. results' = Append(results, Rec(Current, FALSE, << >>, << >>, FALSE)) /\ phase' = "next"
          /\ UNCHANGED selected
      BY <1>6, <2>4 DEF StartMarket
    <3> QED
      BY <2>3, <3>1, RecordOnPath
  <2>5. CASE AdapterOf[Current] # ZERO
    <3> DEFINE n == [addr |-> AdapterOf[Current], depth |-> 0]
    <3>1. /\ todo' = << n >> /\ nodes' = << >>
          /\ phase' = "node" /\ UNCHANGED <<selected, results>>
      BY <1>6, <2>5 DEF StartMarket
    <3>2. TrueTree[n.depth][n.addr] = TrueNodes(AdapterOf[Current])
      BY <2>2 DEF TrueNodes, TruePaths, Addrs
    <3>3. Range(todo') = {n}
      BY <3>1, RangesAre
    <3>4. Within(todo', Current)
      <4> HIDE DEF n
      <4> QED
        BY <3>2, <3>3 DEF Within, Path
    <3> QED
      BY <1>2, <2>3, <3>1, <3>4
  <2> QED
    BY <2>4, <2>5
<1>7. CASE SkipNull
  <2>1. todo \in Seq(Pending) /\ todo # << >> /\ todo' = Tail(todo)
    BY <1>7 DEF SkipNull, TypeInv, TypeOK, Pending, Addrs
  <2>2. Range(todo') \subseteq Range(todo)
    BY <2>1, RangesAre
  <2>3. Within(todo', Current)
    BY <1>7, <2>2 DEF SkipNull, OnPath, Inspecting, Within
  <2> QED
    BY <1>3, <1>7, <2>3 DEF SkipNull, Inspecting
<1>8. CASE EnterNode
  <2>1. UNCHANGED <<selected, results, nodes, todo>> /\ stage' # LegsStage /\ Inspecting
    BY <1>8 DEF EnterNode, LegsStage, Inspecting
  <2> QED
    BY <1>2, <2>1 DEF OnPath, PtIn, Within
<1>9. CASE Request
  <2>1. UNCHANGED <<selected, results, nodes, todo, phase, stage, got>>
    BY <1>9 DEF Request
  <2>2. CASE Inspecting
    BY <1>2, <2>1, <2>2 DEF OnPath, PtIn, Within
  <2>3. CASE ~ Inspecting
    BY <1>1, <2>1, <2>3 DEF Inspecting
  <2> QED
    BY <2>2, <2>3
<1>10. CASE Probed
  <2> DEFINE a == AtNode.addr
             seen == got \cup Read
  <2>1. /\ UNCHANGED <<selected, results>> /\ phase = "probe" /\ Inspecting
        /\ todo # << >> /\ ~ IsNull(AtNode) /\ seen \in SUBSET Getters[a] /\ TypeOK
    BY <1>10 DEF Probed, TypeInv, Probing, Inspecting
  <2>2. a \in Contracts
    BY <2>1, AtNodeIs
  <2>3. ASSUME UNCHANGED <<nodes, todo>>, stage' # LegsStage \/ Probes[3] \subseteq got' PROVE OnPath'
    BY <1>2, <2>1, <2>3 DEF OnPath, PtIn, Within
  <2>4. ASSUME NEW k \in 1 .. 9, Classified(k, seen), k \in {8, 9} \/ KindOf[a] = Kinds[k] PROVE OnPath'
    <3>1. PtIn(nodes', Current) /\ Within(todo', Current)
      BY <2>1, <2>4, ClassifiedOnPath
    <3>2. phase' = "node"
      BY <2>4 DEF Classified
    <3> QED
      BY <1>2, <2>1, <3>1, <3>2
  <2> HIDE DEF a
  <2>5. CASE stage = 0 /\ Try(1, seen)
    BY <2>3, <2>5 DEF Try, LegsStage
  <2>6. CASE /\ stage \in 1 .. 8 /\ Recognised(stage, a, seen)
             /\ Kinds[stage] = "MorphoChainlinkOracleV2" /\ stage' = LegsStage /\ got' = seen
             /\ UNCHANGED <<nodes, todo>>
    <3>1. stage = 3
      BY <2>6, SMT DEF Kinds
    <3>2. Probes[3] \subseteq seen
      BY <2>6, <3>1 DEF Recognised
    <3> QED
      BY <2>3, <2>6, <3>2
  <2>7. CASE stage \in 1 .. 8 /\ Recognised(stage, a, seen) /\ Classified(stage, seen)
    <3>1. stage \in 1 .. 9
      BY <2>7
    <3>2. stage = 8 \/ stage \in 1 .. 7
      BY <2>7
    <3>3. stage = 8 \/ KindOf[a] = Kinds[stage]
      BY <2>1, <2>2, <2>7, <3>2, RightShape
    <3> QED
      BY <2>4, <2>7, <3>1, <3>3
  <2>8. CASE stage \in 1 .. 7 /\ Try(stage + 1, seen \cap {"description"})
    BY <2>3, <2>8 DEF Try, LegsStage
  <2>9. CASE Classified(9, seen)
    BY <2>4, <2>9
  <2>10. CASE stage = LegsStage /\ Classified(3, seen)
    <3>1. Probes[3] \subseteq seen
      BY <2>1, <2>10 DEF OnPath
    <3>2. Kinds[3] = "MorphoChainlinkOracleV2"
      BY DEF Kinds
    <3>3. Recognised(3, a, seen)
      BY <3>1, <3>2 DEF Recognised
    <3>4. KindOf[a] = Kinds[3]
      BY <2>1, <2>2, <3>3, RightShape
    <3> QED
      BY <2>4, <2>10, <3>4
  <2> HIDE DEF seen
  <2> QED
    BY <1>10, <2>5, <2>6, <2>7, <2>8, <2>9, <2>10 DEF Probed, seen, a
<1>11. CASE PathDone \/ Cached \/ ReadPendleMarket \/ PendleRead
  <2>1. UNCHANGED <<selected, results, nodes, todo>> /\ Inspecting /\ phase' # "probe"
    BY <1>11 DEF PathDone, Cached, ReadPendleMarket, PendleRead, ThenObserve, Kept, Inspecting
  <2> QED
    BY <1>3, <2>1
<1>12. CASE MarketFails
  <2>1. << >> \in Seq(Node) /\ PtIn(<< >>, Current)
    BY EmptySeq, RangesAre DEF PtIn
  <2> QED
    BY <1>12, <2>1, RecordOnPath DEF MarketFails
<1>13. CASE MarketDone
  <2>1. nodes \in Seq(Node) /\ PtIn(nodes, Current)
    BY <1>13 DEF MarketDone, TypeInv, TypeOK, OnPath, Inspecting
  <2> QED
    BY <1>13, <2>1, RecordOnPath DEF MarketDone
<1>14. CASE UNCHANGED scanVars
  BY <1>14 DEF scanVars, OnPath, Inspecting, PtIn, Path, Within, Current
<1> QED
  BY <1>4, <1>5, <1>6, <1>7, <1>8, <1>9, <1>10, <1>11, <1>12, <1>13, <1>14 DEF Next
------------------------------------------------------------------------------
(***************************************************************************)
(* The scan implements the survey.  Status and Recorded are the state      *)
(* functions MarketScan puts for the variables of Survey.                  *)
(***************************************************************************)
Status == CASE phase = "done" -> "published"
            [] phase = "failed" -> "abandoned"
            [] OTHER -> "running"

Entry(r) == [market |-> r.market, feeds |-> Addresses(Leaves(r.nodes))]

Recorded == [i \in DOMAIN results |-> [market |-> results[i].market,
                                       feeds  |-> Addresses(Leaves(results[i].nodes))]]

LEMMA StatusIs ==
  /\ phase = "done" => Status = "published"
  /\ phase = "failed" => Status = "abandoned"
  /\ phase \notin {"done", "failed"} => Status = "running"
BY DEF Status

LEMMA SameSequence ==
  ASSUME NEW s, NEW t, Sequential(s), Sequential(t), Len(s) = Len(t),
         \A i \in 1 .. Len(s) : s[i] = t[i]
  PROVE  s = t
BY DEF Sequential

LEMMA TrueNodesSeq ==
  ASSUME NEW a \in Addrs
  PROVE  TrueNodes(a) \in Seq(Node)
<1>1. 0 \in 0 .. MaxDepth + 1
  BY MaxDepthAssumption
<1>2. TrueTree[0] \in [Addrs -> Seq(Node)]
  BY <1>1, TreeUnfolds
<1>3. TrueNodes(a) = TrueTree[0][a]
  BY DEF TrueNodes, TruePaths, Addrs
<1> QED
  BY <1>2, <1>3

(* The feeds of a record are feeds of its market.                          *)
LEMMA FeedsReal ==
  ASSUME NEW m \in Markets, NEW ns \in Seq(Node), PtIn(ns, m)
  PROVE  Addresses(Leaves(ns)) \in SUBSET PtFeeds[m]
<1> DEFINE a == AdapterOf[m]
           path == TrueNodes(a)
<1>1. a \in Addrs
  BY MarketsAssumption DEF Addrs
<1>2. path \in Seq(Node)
  BY <1>1, TrueNodesSeq
<1>3. PtFeeds[m] = Addresses(Leaves(path))
  BY DEF PtFeeds
<1> HIDE DEF a
<1>4. /\ Range(Leaves(ns)) = {n \in Range(ns) : n.kind \in PT_LEAF_KINDS}
      /\ Range(Leaves(path)) = {n \in Range(path) : n.kind \in PT_LEAF_KINDS}
  BY <1>2, LeavesAre
<1>5. Range(Leaves(ns)) \subseteq Range(Leaves(path))
  BY <1>4 DEF PtIn, Path, a
<1> HIDE DEF path
<1> QED
  BY <1>3, <1>5 DEF Addresses

LEMMA RecordedIs ==
  ASSUME Sequential(results)
  PROVE  Sequential(Recorded) /\ Len(Recorded) = Len(results)
<1>1. Len(results) \in Nat /\ DOMAIN results = 1 .. Len(results)
  BY DEF Sequential
<1>2. DOMAIN Recorded = 1 .. Len(results)
  BY <1>1 DEF Recorded
<1>3. Recorded = [i \in 1 .. Len(results) |-> Recorded[i]]
  BY <1>1 DEF Recorded
<1>4. Len(Recorded) = Len(results)
  BY <1>1, <1>3
<1> QED
  BY <1>1, <1>3, <1>4 DEF Sequential

LEMMA RecordingIsRecord ==
  ASSUME TypeInv, OnPath, UNCHANGED selected, Len(results) < Len(selected),
         phase \notin {"done", "failed"}, phase' \notin {"done", "failed"},
         NEW error, NEW ns \in Seq(Node), NEW p, NEW incomplete, PtIn(ns, Current),
         results' = Append(results, Rec(Current, error, ns, p, incomplete))
  PROVE  Promise!Record
<1> DEFINE r == Rec(Current, error, ns, p, incomplete)
           feeds == Addresses(Leaves(ns))
           e == [market |-> Current, feeds |-> feeds]
<1>1. r.market = Current /\ r.nodes = ns
  BY DEF Rec
<1> HIDE DEF r
<1>2. Sequential(results) /\ TypeOK /\ Len(results) \in Nat
  BY DEF TypeInv, Planned, Sequential
<1>3. /\ DOMAIN results = 1 .. Len(results)
      /\ Sequential(results') /\ Len(results') = Len(results) + 1
      /\ DOMAIN results' = 1 .. Len(results) + 1
      /\ \A i \in 1 .. Len(results) : results'[i] = results[i]
      /\ results'[Len(results) + 1] = r
  BY <1>2, AppendedAt DEF r
<1>4. Sequential(Recorded) /\ Len(Recorded) = Len(results)
  BY <1>2, RecordedIs
<1>5. Sequential(Recorded') /\ Len(Recorded') = Len(results) + 1
  <2> DEFINE f == [i \in DOMAIN results' |-> [market |-> results'[i].market,
                                              feeds  |-> Addresses(Leaves(results'[i].nodes))]]
  <2>1. Recorded' = f
    BY DEF Recorded, Addresses, Leaves, Select, Picked
  <2>2. DOMAIN f = 1 .. Len(results) + 1 /\ f = [i \in 1 .. Len(results) + 1 |-> f[i]]
    BY <1>3
  <2> HIDE DEF f
  <2>3. Len(f) = Len(results) + 1 /\ Len(results) + 1 \in Nat
    BY <1>2, <2>2
  <2> QED
    BY <2>1, <2>2, <2>3 DEF Sequential
<1>6. \A i \in 1 .. Len(results) : Recorded'[i] = Recorded[i]
  BY <1>2, <1>3, SMT DEF Recorded
<1>7. Recorded'[Len(results) + 1] = e
  <2>1. Len(results) + 1 \in 1 .. Len(results) + 1
    BY <1>2
  <2> QED
    BY <1>1, <1>3, <2>1 DEF Recorded
<1> HIDE DEF e
<1>8. Recorded' = Append(Recorded, e)
  <2>1. /\ Sequential(Append(Recorded, e)) /\ Len(Append(Recorded, e)) = Len(Recorded) + 1
        /\ \A i \in 1 .. Len(Recorded) : Append(Recorded, e)[i] = Recorded[i]
        /\ Append(Recorded, e)[Len(Recorded) + 1] = e
    BY <1>4, AppendedAt
  <2>2. ASSUME NEW i \in 1 .. Len(Recorded') PROVE Recorded'[i] = Append(Recorded, e)[i]
    <3>1. i \in 1 .. Len(results) \/ i = Len(results) + 1
      BY <1>2, <1>5
    <3> QED
      BY <1>4, <1>6, <1>7, <2>1, <3>1
  <2> QED
    BY <1>4, <1>5, <2>1, <2>2, SameSequence
<1>9. feeds \in SUBSET PtFeeds[Current]
  BY <1>2, Here, FeedsReal
<1>10. Status = "running" /\ Status' = "running"
  BY DEF Status
<1>11. Current = selected[Len(Recorded) + 1]
  BY <1>4 DEF Current
<1>12. \E fs \in SUBSET PtFeeds[selected[Len(Recorded) + 1]] :
          Recorded' = Append(Recorded, [market |-> selected[Len(Recorded) + 1], feeds |-> fs])
  BY <1>8, <1>9, <1>11 DEF e
<1> QED
  BY <1>4, <1>10, <1>12 DEF Promise!Record, Status, Recorded

LEMMA PromiseInit == Init => Promise!Init
<1> SUFFICES ASSUME Init PROVE Promise!Init
  OBVIOUS
<1>1. phase = "fetch" /\ selected = << >> /\ results = << >> /\ DOMAIN << >> = {}
  BY DEF Init
<1>2. Status = "running"
  BY <1>1 DEF Status
<1>3. Recorded = << >>
  BY <1>1 DEF Recorded
<1> QED
  BY <1>1, <1>2, <1>3 DEF Promise!Init, Status, Recorded

LEMMA PromiseStep ==
  TypeInv /\ OnPath /\ [Next]_scanVars => [Promise!Next]_(Promise!surveyVars)
<1> SUFFICES ASSUME TypeInv, OnPath, [Next]_scanVars
             PROVE  Promise!Next \/ UNCHANGED <<Status, selected, Recorded>>
  BY DEF Promise!surveyVars, Status, Recorded
<1>1. ASSUME UNCHANGED results PROVE UNCHANGED Recorded
  BY <1>1 DEF Recorded
<1>2. ASSUME phase \notin {"done", "failed"} PROVE Status = "running"
  BY <1>2 DEF Status
<1>3. ASSUME phase' \notin {"done", "failed"} PROVE Status' = "running"
  BY <1>3 DEF Status
<1>4. ASSUME phase' = "failed" PROVE Status' = "abandoned"
  BY <1>4 DEF Status
<1>5. ASSUME phase' = "done" PROVE Status' = "published"
  BY <1>5 DEF Status
<1>6. CASE Fetch
  <2>1. /\ phase = "fetch" /\ phase' = "next" /\ UNCHANGED results /\ selected = << >>
    BY <1>6 DEF Fetch, TypeInv, Planned
  <2>2. selected' \in {s \in Seq(Markets) : Promise!Distinct(s)}
    BY <1>6, SelectedAre DEF Promise!Distinct
  <2>3. Promise!Plan
    BY <1>1, <1>2, <1>3, <2>1, <2>2 DEF Promise!Plan, Status, Recorded
  <2> QED
    BY <2>3 DEF Promise!Next
<1>7. ASSUME UNCHANGED <<selected, results>>, phase \notin {"done", "failed"}, phase' = "failed"
      PROVE  Promise!Next
  BY <1>1, <1>2, <1>4, <1>7 DEF Promise!Next, Promise!Abandon, Status, Recorded
<1>8. ASSUME UNCHANGED <<selected, results>>,
             phase \notin {"done", "failed"}, phase' \notin {"done", "failed"}
      PROVE  UNCHANGED <<Status, selected, Recorded>>
  BY <1>1, <1>2, <1>3, <1>8
<1>9. ASSUME UNCHANGED selected, Len(results) < Len(selected),
             phase \notin {"done", "failed"}, phase' \notin {"done", "failed"},
             NEW error, NEW ns \in Seq(Node), NEW p, NEW incomplete, PtIn(ns, Current),
             results' = Append(results, Rec(Current, error, ns, p, incomplete))
      PROVE  Promise!Next
  BY <1>9, RecordingIsRecord DEF Promise!Next
<1>10. << >> \in Seq(Node) /\ PtIn(<< >>, Current)
  BY EmptySeq, RangesAre DEF PtIn
<1>11. CASE FetchFails \/ HeadFails
  BY <1>7, <1>11 DEF FetchFails, HeadFails
<1>12. CASE StartMarket
  <2>1. CASE AdapterOf[Current] = ZERO
    BY <1>9, <1>10, <1>12, <2>1 DEF StartMarket
  <2>2. CASE AdapterOf[Current] # ZERO
    BY <1>8, <1>12, <2>2 DEF StartMarket
  <2> QED
    BY <2>1, <2>2
<1>13. CASE SkipNull \/ EnterNode \/ PathDone \/ Cached \/ ReadPendleMarket \/ PendleRead
            \/ AllInspected \/ BlockNumber
  <2>1. UNCHANGED <<selected, results>> /\ phase \notin {"done", "failed"} /\ phase' \notin {"done", "failed"}
    BY <1>13 DEF SkipNull, EnterNode, PathDone, Cached, ReadPendleMarket, PendleRead, ThenObserve,
                 Kept, AllInspected, BlockNumber
  <2> QED
    BY <1>8, <2>1
<1>14. CASE Request
  BY <1>8, <1>14 DEF Request
<1>15. CASE Probed
  <2>1. UNCHANGED <<selected, results>> /\ phase = "probe" /\ stage \in 0 .. LegsStage
    BY <1>15 DEF Probed, TypeInv, TypeOK
  <2>2. phase' = "probe" \/ phase' = "node"
    BY <1>15, <2>1, ProbedEither DEF Classified
  <2> QED
    BY <1>8, <2>1, <2>2
<1>16. CASE MarketFails
  BY <1>9, <1>10, <1>16 DEF MarketFails, TypeInv, Planned, Inspecting
<1>17. CASE MarketDone
  <2>1. nodes \in Seq(Node) /\ PtIn(nodes, Current) /\ Len(results) < Len(selected)
    BY <1>17 DEF MarketDone, TypeInv, TypeOK, Planned, OnPath, Inspecting
  <2> QED
    BY <1>9, <1>17, <2>1 DEF MarketDone
<1>18. CASE HeadRead
  BY <1>7, <1>8, <1>18 DEF HeadRead
<1>19. CASE WriteFile
  <2>1. phase = "heads" /\ phase' = "done" /\ UNCHANGED <<selected, results>>
    BY <1>19 DEF WriteFile
  <2>2. Len(results) = Len(selected) /\ Sequential(results)
    BY <2>1 DEF TypeInv, Planned
  <2>3. Len(Recorded) = Len(selected)
    BY <2>2, RecordedIs
  <2>4. Promise!Publish
    BY <1>1, <1>2, <1>5, <2>1, <2>3 DEF Promise!Publish, Status, Recorded
  <2> QED
    BY <2>4 DEF Promise!Next
<1>20. CASE UNCHANGED scanVars
  <2>1. UNCHANGED <<phase, selected, results>>
    BY <1>20 DEF scanVars
  <2> QED
    BY <1>1, <2>1 DEF Status
<1> QED
  BY <1>6, <1>11, <1>12, <1>13, <1>14, <1>15, <1>16, <1>17, <1>18, <1>19, <1>20 DEF Next

(* Whatever happens to its requests, a scan records the distinct markets   *)
(* it planned one after the other, gives each only PT feeds that market    *)
(* really has, and publishes a file only when every market has its record. *)
THEOREM ScanKeepsPromise == Spec => KeepsPromise
<1>1. Spec => [](TypeInv /\ OnPath)
  BY TypeInit, TypeStep, PathInit, PathStep, PTL DEF Spec
<1> QED
  BY <1>1, PromiseInit, PromiseStep, PTL DEF Spec, KeepsPromise, Promise!Spec
------------------------------------------------------------------------------
(***************************************************************************)
(* Every Pendle market of a record was looked up for a TWAP feed of that   *)
(* record, so the window of a scenario is the window of such a feed.       *)
(***************************************************************************)
Twap(n) == n.kind = "PendleChainlinkOracle"

Anchored(states, ns) ==
  \A p \in DOMAIN states : \E n \in Range(ns) : Twap(n) /\ Market[n.addr] = p

Looked ==
  /\ phase \in {"leaf", "pendle"} =>
       leaves \in Seq(Node) /\ \A n \in Range(leaves) : Twap(n) /\ n \in Range(nodes)
  /\ phase = "pendle" => leaves # << >>
  /\ Inspecting => Anchored(pendle, nodes)
  /\ \A i \in DOMAIN results : Anchored(results[i].pendle, results[i].nodes)

LEMMA NothingAnchored == \A ns : Anchored(<< >>, ns)
BY DEF Anchored

LEMMA RecordLooked ==
  ASSUME TypeInv, Looked, phase' = "next",
         NEW error, NEW ns, NEW p, NEW incomplete, Anchored(p, ns),
         results' = Append(results, Rec(Current, error, ns, p, incomplete))
  PROVE  Looked'
<1> DEFINE r == Rec(Current, error, ns, p, incomplete)
<1>1. r.nodes = ns /\ r.pendle = p
  BY DEF Rec
<1> HIDE DEF r
<1>2. \A i \in DOMAIN results' : (i \in DOMAIN results /\ results'[i] = results[i]) \/ results'[i] = r
  BY Appended DEF TypeInv, Planned, r
<1>3. \A i \in DOMAIN results' : Anchored(results'[i].pendle, results'[i].nodes)
  BY <1>1, <1>2 DEF Looked
<1> QED
  BY <1>3 DEF Looked, Inspecting, Anchored, Twap

(* The first leaf is dealt with: its Pendle market is in the record.       *)
LEMMA LeafLooked ==
  ASSUME TypeInv, Looked, phase \in {"leaf", "pendle"}, leaves # << >>, UNCHANGED <<results, nodes>>,
         NEW e, pendle' = Extended(pendle, Market[Head(leaves).addr], e), leaves' = Tail(leaves),
         phase' = "leaf"
  PROVE  Looked'
<1> DEFINE l == Head(leaves)
<1>1. leaves \in Seq(Node) /\ Anchored(pendle, nodes)
  BY DEF Looked, Inspecting
<1>2. l \in Range(leaves) /\ Range(leaves') \subseteq Range(leaves) /\ leaves' \in Seq(Node)
  BY <1>1, RangesAre, HeadTailProperties
<1>3. Twap(l) /\ l \in Range(nodes)
  BY <1>2 DEF Looked
<1> HIDE DEF l
<1>4. DOMAIN pendle' = DOMAIN pendle \cup {Market[l.addr]}
  BY DEF Extended, l
<1>5. Anchored(pendle', nodes')
  BY <1>1, <1>3, <1>4 DEF Anchored
<1>6. \A n \in Range(leaves') : Twap(n) /\ n \in Range(nodes')
  BY <1>2 DEF Looked
<1> QED
  BY <1>2, <1>5, <1>6 DEF Looked, Inspecting, Anchored, Twap

LEMMA LookedInit == Init => Looked
<1> SUFFICES ASSUME Init PROVE Looked
  OBVIOUS
<1>1. phase = "fetch" /\ results = << >> /\ DOMAIN << >> = {}
  BY DEF Init
<1> QED
  BY <1>1 DEF Looked, Inspecting

LEMMA LookedStep == TypeInv /\ Looked /\ [Next]_scanVars => Looked'
<1> SUFFICES ASSUME TypeInv, Looked, [Next]_scanVars PROVE Looked'
  OBVIOUS
<1>1. ASSUME UNCHANGED results, ~ Inspecting' PROVE Looked'
  BY <1>1 DEF Looked, Inspecting, Anchored, Twap
<1>2. ASSUME UNCHANGED results, phase' \in {"node", "probe"}, Anchored(pendle', nodes') PROVE Looked'
  BY <1>2 DEF Looked, Inspecting, Anchored, Twap
<1>3. ASSUME UNCHANGED <<results, nodes, pendle, leaves>>,
             phase' \in {"leaf", "pendle"} => phase \in {"leaf", "pendle"} /\ leaves # << >>,
             Inspecting' => Inspecting
      PROVE  Looked'
  BY <1>3 DEF Looked, Inspecting, Anchored, Twap
<1>4. CASE Fetch
  <2>1. results' = << >> /\ phase' = "next" /\ DOMAIN << >> = {}
    BY <1>4 DEF Fetch, TypeInv, Planned
  <2> QED
    BY <2>1 DEF Looked, Inspecting
<1>5. CASE FetchFails \/ AllInspected \/ BlockNumber \/ HeadRead \/ HeadFails \/ WriteFile
  BY <1>1, <1>5 DEF FetchFails, AllInspected, BlockNumber, HeadRead, HeadFails, WriteFile, Inspecting
<1>6. CASE StartMarket
  <2>1. CASE AdapterOf[Current] = ZERO
    BY <1>6, <2>1, NothingAnchored, RecordLooked DEF StartMarket
  <2>2. CASE AdapterOf[Current] # ZERO
    BY <1>2, <1>6, <2>2, NothingAnchored DEF StartMarket
  <2> QED
    BY <2>1, <2>2
<1>7. CASE SkipNull \/ EnterNode
  BY <1>3, <1>7 DEF SkipNull, EnterNode, Inspecting
<1>8. CASE Request
  <2>1. UNCHANGED <<results, nodes, pendle, leaves, phase>> /\ phase \in {"probe", "pendle", "heads"}
    BY <1>8 DEF Request
  <2> QED
    BY <2>1 DEF Looked, Inspecting, Anchored, Twap
<1>9. CASE Probed
  <2>1. UNCHANGED <<results, pendle>> /\ phase = "probe" /\ Inspecting /\ TypeOK
        /\ todo # << >> /\ ~ IsNull(AtNode) /\ stage \in 0 .. LegsStage
        /\ got \cup Read \in SUBSET Getters[AtNode.addr]
    BY <1>9 DEF Probed, TypeInv, TypeOK, Probing, Inspecting
  <2>2. CASE UNCHANGED <<phase, nodes, todo>>
    BY <1>2, <2>1, <2>2 DEF Looked
  <2>3. CASE \E k \in 1 .. 9 : Classified(k, got \cup Read)
    <3>1. PICK k \in 1 .. 9 : Classified(k, got \cup Read)
      BY <2>3
    <3> DEFINE n == [addr |-> AtNode.addr, kind |-> Kinds[k], depth |-> AtNode.depth]
    <3>2. AtNode.addr \in Contracts /\ AtNode.depth \in 0 .. MaxDepth
      BY <2>1, AtNodeIs
    <3>3. n \in Node
      <4> DEFINE a == AtNode.addr
                 d == AtNode.depth
      <4> HIDE DEF a, d
      <4>1. [addr |-> a, kind |-> Kinds[k], depth |-> d] \in Node
        BY <3>2 DEF Node, a, d
      <4> QED
        BY <4>1 DEF a, d
    <3>4. nodes' = Append(nodes, n) /\ phase' = "node"
      BY <3>1 DEF Classified
    <3> HIDE DEF n
    <3>5. Range(nodes') = Range(nodes) \cup {n}
      BY <2>1, <3>3, <3>4, RangesAre DEF TypeOK
    <3>6. Anchored(pendle', nodes')
      BY <2>1, <3>5 DEF Looked, Anchored
    <3> QED
      BY <1>2, <2>1, <3>4, <3>6
  <2> QED
    BY <1>9, <2>1, <2>2, <2>3, ProbedEither
<1>10. CASE PathDone
  <2>1. UNCHANGED <<results, nodes, pendle>> /\ leaves' = TwapLeaves(nodes) /\ phase' = "leaf"
        /\ Inspecting
    BY <1>10 DEF PathDone, Inspecting
  <2>2. nodes \in Seq(Node)
    BY DEF TypeInv, TypeOK
  <2>3. /\ TwapLeaves(nodes) \in Seq(Node)
        /\ Range(TwapLeaves(nodes)) = {n \in Range(nodes) : n.kind = "PendleChainlinkOracle"}
    BY <2>2, LeavesAre
  <2> QED
    BY <2>1, <2>3 DEF Looked, Inspecting, Anchored, Twap
<1>11. CASE MarketFails
  BY <1>11, NothingAnchored, RecordLooked DEF MarketFails
<1>12. CASE Cached
  BY <1>12, LeafLooked DEF Cached
<1>13. CASE ReadPendleMarket
  BY <1>3, <1>13 DEF ReadPendleMarket, Inspecting
<1>14. CASE PendleRead
  <2>1. phase = "pendle" /\ leaves # << >> /\ UNCHANGED <<results, nodes>>
    BY <1>14 DEF PendleRead, Looked
  <2>2. ASSUME UNCHANGED <<phase, leaves, pendle>> PROVE Looked'
    BY <1>3, <2>1, <2>2 DEF Inspecting
  <2>3. ASSUME NEW e, Kept(e) PROVE Looked'
    BY <2>1, <2>3, LeafLooked DEF Kept
  <2>4. ASSUME NEW e, ThenObserve(e) PROVE Looked'
    BY <2>2, <2>3, <2>4 DEF ThenObserve
  <2> QED
    BY <1>14, <2>2, <2>3, <2>4 DEF PendleRead
<1>15. CASE MarketDone
  BY <1>15, RecordLooked DEF MarketDone, Looked, Inspecting
<1>16. CASE UNCHANGED scanVars
  BY <1>16 DEF scanVars, Looked, Inspecting, Anchored, Twap
<1> QED
  BY <1>4, <1>5, <1>6, <1>7, <1>8, <1>9, <1>10, <1>11, <1>12, <1>13, <1>14, <1>15, <1>16 DEF Next

(* The first of a record's feeds that read a Pendle market it has.         *)
LEMMA WindowOfFeed ==
  ASSUME NEW r, r.nodes \in Seq(Node), Anchored(r.pendle, r.nodes), NEW p \in DOMAIN r.pendle
  PROVE  \E n \in Range(r.nodes) :
           Twap(n) /\ Market[n.addr] = p /\ Window[n.addr] = TwapDuration(r, p)
<1> DEFINE t == TwapLeaves(r.nodes)
           I == {i \in DOMAIN t : Reads(t[i], p)}
           of == Select(t, LAMBDA n : Reads(n, p))
<1>1. t \in Seq(Node) /\ Range(t) = {n \in Range(r.nodes) : Twap(n)}
  BY LeavesAre DEF Twap
<1>2. TwapDuration(r, p) = IF of = << >> THEN NoWindow ELSE Window[Head(of).addr]
  BY DEF TwapDuration
<1>3. of = Picked(t, I)
  BY DEF Select
<1> HIDE DEF t, of
<1>4. DOMAIN t = 1 .. Len(t)
  BY <1>1, LenProperties
<1>5. /\ Picked(t, I) \in Seq(Node)
      /\ Range(Picked(t, I)) = {t[i] : i \in I}
  <2>1. I \in SUBSET (1 .. Len(t))
    BY <1>4
  <2> HIDE DEF I
  <2> QED
    BY <1>1, <2>1, PickedRange
<1>6. \E n \in Range(of) : TRUE
  <2>1. PICK n \in Range(r.nodes) : Twap(n) /\ Market[n.addr] = p
    BY DEF Anchored
  <2>2. PICK i \in DOMAIN t : t[i] = n
    BY <1>1, <2>1 DEF Range
  <2>3. i \in I
    BY <2>1, <2>2 DEF Reads
  <2> QED
    BY <1>3, <1>5, <2>3
<1>7. of # << >>
  BY <1>6, RangesAre
<1>8. Head(of) \in Range(of)
  BY <1>3, <1>5, <1>7, RangesAre
<1>9. PICK i \in I : Head(of) = t[i]
  BY <1>3, <1>5, <1>8
<1>10. Head(of) \in Range(t) /\ Market[Head(of).addr] = p
  BY <1>9 DEF Range, Reads
<1> QED
  BY <1>1, <1>2, <1>7, <1>10

(* Reads lost or not, each scenario of the sweeps takes its window from a  *)
(* TWAP feed that its market really has and that reads its Pendle market.  *)
THEOREM ScenariosAlwaysBacked == Spec => []ScenariosBacked
<1>1. TypeInv /\ OnPath /\ Looked => ScenariosBacked
  <2> SUFFICES ASSUME TypeInv, OnPath, Looked, NEW s \in LiveScenarios(results)
               PROVE  \E leaf \in Range(TwapLeaves(TrueNodes(AdapterOf[s.market]))) :
                        /\ Market[leaf.addr] = s.pendleMarket
                        /\ Window[leaf.addr] = s.twapDuration
    BY DEF ScenariosBacked
  <2>1. PICK i \in DOMAIN results : \E p \in DOMAIN results[i].pendle :
          s = [market |-> results[i].market, pendleMarket |-> p,
               twapDuration |-> TwapDuration(results[i], p)]
    BY DEF LiveScenarios
  <2> DEFINE r == results[i]
  <2>2. PICK p \in DOMAIN r.pendle :
          s.market = r.market /\ s.pendleMarket = p /\ s.twapDuration = TwapDuration(r, p)
    BY <2>1
  <2>3. r.nodes \in Seq(Node) /\ PtIn(r.nodes, r.market) /\ Anchored(r.pendle, r.nodes)
    BY DEF OnPath, Looked
  <2>4. r.market \in Markets
    <3>1. i \in 1 .. Len(selected) /\ r.market = selected[i]
      BY DEF TypeInv, TypeOK, Planned, Sequential
    <3> QED
      BY <3>1, ElementOfSeq DEF TypeInv, TypeOK
  <2> HIDE DEF r
  <2>5. PICK n \in Range(r.nodes) : Twap(n) /\ Market[n.addr] = p /\ Window[n.addr] = TwapDuration(r, p)
    BY <2>2, <2>3, WindowOfFeed
  <2>6. n \in Path(r.market)
    BY <2>3, <2>5 DEF PtIn, Twap, PT_LEAF_KINDS
  <2> DEFINE path == TrueNodes(AdapterOf[r.market])
  <2>7. path \in Seq(Node)
    <3> DEFINE a == AdapterOf[r.market]
    <3>1. a \in Addrs
      BY <2>4, MarketsAssumption DEF Addrs
    <3> HIDE DEF a
    <3>2. TrueNodes(a) \in Seq(Node)
      BY <3>1, TrueNodesSeq
    <3> QED
      BY <3>2 DEF a
  <2>8. n \in Range(path)
    BY <2>6 DEF Path
  <2> HIDE DEF path
  <2>9. n \in Range(TwapLeaves(path))
    BY <2>5, <2>7, <2>8, LeavesAre DEF Twap
  <2> QED
    BY <2>2, <2>5, <2>9 DEF path
<1>2. Spec => [](TypeInv /\ OnPath /\ Looked)
  BY TypeInit, TypeStep, PathInit, PathStep, LookedInit, LookedStep, PTL DEF Spec
<1> QED
  BY <1>1, <1>2, PTL
------------------------------------------------------------------------------
(***************************************************************************)
(* The walk is complete as long as no read is lost: what was classified,   *)
(* then what the nodes still on the stack lead to, is the deployed path.   *)
(***************************************************************************)
Walk(n) == TrueTree[n.depth][n.addr]
Walks(ns) == [i \in 1 .. Len(ns) |-> TrueTree[ns[i].depth][ns[i].addr]]
Ahead(ns) == FlattenSeq(Walks(ns))

LEMMA WalkTyped == \A n \in Pending : Walk(n) \in Seq(Node)
<1> SUFFICES ASSUME NEW n \in Pending PROVE Walk(n) \in Seq(Node)
  OBVIOUS
<1> DEFINE d == n.depth
           a == n.addr
<1>1. d \in 0 .. MaxDepth + 1 /\ a \in Addrs
  BY DEF Pending
<1> HIDE DEF d, a
<1>2. TrueTree[d] \in [Addrs -> Seq(Node)]
  BY <1>1, TreeUnfolds
<1>3. TrueTree[d][a] \in Seq(Node)
  BY <1>1, <1>2
<1> QED
  BY <1>3 DEF Walk, d, a

LEMMA WalksTyped ==
  ASSUME NEW ns \in Seq(Pending)
  PROVE  Walks(ns) \in Seq(Seq(Node)) /\ Len(Walks(ns)) = Len(ns) /\ Ahead(ns) \in Seq(Node)
<1>1. Len(ns) \in Nat /\ DOMAIN ns = 1 .. Len(ns)
  BY LenProperties
<1>2. \A i \in 1 .. Len(ns) : TrueTree[ns[i].depth][ns[i].addr] \in Seq(Node)
  <2>1. \A i \in 1 .. Len(ns) : ns[i] \in Pending
    BY <1>1, ElementOfSeq
  <2> QED
    BY <2>1, WalkTyped DEF Walk
<1>3. Walks(ns) \in [1 .. Len(ns) -> Seq(Node)]
  BY <1>2 DEF Walks
<1>4. Walks(ns) \in Seq(Seq(Node)) /\ Len(Walks(ns)) = Len(ns)
  <2> DEFINE w == Walks(ns)
             T == Seq(Node)
             m == Len(ns)
  <2>1. w \in [1 .. m -> T] /\ m \in Nat
    BY <1>1, <1>3
  <2> HIDE DEF w, T, m
  <2>2. w \in Seq(T) /\ Len(w) = m
    BY <2>1, SeqDef
  <2> QED
    BY <2>2 DEF w, T, m
<1> DEFINE w == Walks(ns)
<1> HIDE DEF w
<1>5. FlattenSeq(w) \in Seq(Node)
  BY <1>4, FlattenRange DEF w
<1> QED
  BY <1>4, <1>5 DEF Ahead, w

LEMMA AheadConcat ==
  ASSUME NEW s \in Seq(Pending), NEW t \in Seq(Pending)
  PROVE  Ahead(s \o t) = Ahead(s) \o Ahead(t)
<1> DEFINE c == s \o t
           T == Seq(Node)
<1>1. /\ c \in Seq(Pending) /\ Len(c) = Len(s) + Len(t) /\ Len(s) \in Nat /\ Len(t) \in Nat
      /\ \A i \in 1 .. Len(s) + Len(t) : c[i] = IF i <= Len(s) THEN s[i] ELSE t[i - Len(s)]
  BY ConcatProperties, LenProperties
<1> HIDE DEF c
<1>2. /\ Walks(c) \in Seq(T) /\ Len(Walks(c)) = Len(s) + Len(t)
      /\ Walks(s) \in Seq(T) /\ Len(Walks(s)) = Len(s)
      /\ Walks(t) \in Seq(T) /\ Len(Walks(t)) = Len(t)
  BY <1>1, WalksTyped
<1> DEFINE j == Walks(s) \o Walks(t)
<1> HIDE DEF T
<1>3. /\ j \in Seq(T) /\ Len(j) = Len(s) + Len(t)
      /\ \A i \in 1 .. Len(s) + Len(t) : j[i] = IF i <= Len(s) THEN Walks(s)[i] ELSE Walks(t)[i - Len(s)]
  <2> DEFINE x == Walks(s)
             y == Walks(t)
  <2>1. x \in Seq(T) /\ y \in Seq(T) /\ Len(x) = Len(s) /\ Len(y) = Len(t) /\ j = x \o y
    BY <1>2
  <2> HIDE DEF x, y, j
  <2>2. /\ j \in Seq(T) /\ Len(j) = Len(x) + Len(y)
        /\ \A i \in 1 .. Len(x) + Len(y) : j[i] = IF i <= Len(x) THEN x[i] ELSE y[i - Len(x)]
    <3>1. /\ x \o y \in Seq(T) /\ Len(x \o y) = Len(x) + Len(y)
          /\ \A i \in 1 .. Len(x) + Len(y) : (x \o y)[i] = IF i <= Len(x) THEN x[i] ELSE y[i - Len(x)]
      BY <2>1, ConcatProperties
    <3> QED
      BY <2>1, <3>1
  <2> QED
    BY <2>1, <2>2 DEF x, y
<1> HIDE DEF j
<1>4. ASSUME NEW i \in 1 .. Len(s) + Len(t) PROVE Walks(c)[i] = j[i]
  <2>1. Walks(c)[i] = TrueTree[c[i].depth][c[i].addr]
    BY <1>1 DEF Walks
  <2>2. CASE i <= Len(s)
    <3>1. i \in 1 .. Len(s)
      BY <1>1, <2>2
    <3>2. Walks(s)[i] = TrueTree[s[i].depth][s[i].addr]
      BY <3>1 DEF Walks
    <3> QED
      BY <1>1, <1>3, <2>1, <2>2, <3>2
  <2>3. CASE ~ (i <= Len(s))
    <3> DEFINE k == i - Len(s)
    <3>1. k \in 1 .. Len(t)
      BY <1>1, <2>3
    <3>2. c[i] = t[k] /\ j[i] = Walks(t)[k]
      BY <1>1, <1>3, <2>3
    <3> HIDE DEF k
    <3>3. Walks(t)[k] = TrueTree[t[k].depth][t[k].addr]
      BY <3>1 DEF Walks
    <3> QED
      BY <2>1, <3>2, <3>3
  <2> QED
    BY <2>2, <2>3
<1>5. Walks(c) = Walks(s) \o Walks(t)
  <2> DEFINE x == Walks(c)
  <2>1. x \in Seq(T) /\ Len(x) = Len(j) /\ \A i \in 1 .. Len(x) : x[i] = j[i]
    BY <1>2, <1>3, <1>4
  <2> HIDE DEF x
  <2>2. x = j
    BY <1>3, <2>1, SeqEqual
  <2> QED
    BY <2>2 DEF x, j
<1>6. FlattenSeq(Walks(s) \o Walks(t)) = FlattenSeq(Walks(s)) \o FlattenSeq(Walks(t))
  <2> DEFINE x == Walks(s)
             y == Walks(t)
  <2>1. x \in Seq(Seq(Node)) /\ y \in Seq(Seq(Node))
    BY <1>2 DEF T
  <2> HIDE DEF x, y
  <2>2. FlattenSeq(x \o y) = FlattenSeq(x) \o FlattenSeq(y)
    BY <2>1, FlattenConcat
  <2> QED
    BY <2>2 DEF x, y
<1> QED
  BY <1>5, <1>6 DEF Ahead, c

LEMMA AheadSmall ==
  /\ Ahead(<< >>) = << >>
  /\ \A n \in Pending : Ahead(<< n >>) = Walk(n)
<1>1. Ahead(<< >>) = << >>
  <2>1. Walks(<< >>) = << >>
    BY DEF Walks
  <2>2. FlattenSeq(<< >>) = << >>
    BY DEF FlattenSeq
  <2> QED
    BY <2>1, <2>2 DEF Ahead
<1>2. ASSUME NEW n \in Pending PROVE Ahead(<< n >>) = Walk(n)
  <2> DEFINE w == Walk(n)
             none == << >>
  <2>1. w \in Seq(Node) /\ none \in Seq(Seq(Node))
    BY WalkTyped, EmptySeq
  <2>2. Walks(<< n >>) = << w >>
    BY DEF Walks, Walk
  <2> HIDE DEF w
  <2>3. << w >> \o none = << w >>
    BY <2>1
  <2>4. w \o << >> = w
    BY <2>1
  <2>5. FlattenSeq(none) = << >>
    BY DEF FlattenSeq
  <2> HIDE DEF none
  <2>6. FlattenSeq(<< w >> \o none) = w \o FlattenSeq(none)
    BY <2>1, FlattenFirst
  <2> QED
    BY <2>2, <2>3, <2>4, <2>5, <2>6 DEF Ahead, w
<1> QED
  BY <1>1, <1>2

LEMMA AheadFirst ==
  ASSUME NEW ns \in Seq(Pending), ns # << >>
  PROVE  /\ Head(ns) \in Pending /\ Tail(ns) \in Seq(Pending)
         /\ Ahead(ns) = Walk(Head(ns)) \o Ahead(Tail(ns))
<1> DEFINE h == Head(ns)
           t == Tail(ns)
           s == << h >>
<1>1. h \in Pending /\ t \in Seq(Pending) /\ Len(t) = Len(ns) - 1 /\ Len(ns) \in Nat
      /\ ns[1] = h /\ \A i \in 1 .. Len(t) : t[i] = ns[i + 1]
  BY HeadTailProperties, LenProperties
<1>2. s \in Seq(Pending)
  BY <1>1
<1>3. ns = s \o t
  <2> DEFINE c == s \o t
  <2>1. Len(s) = 1 /\ s[1] = h
    OBVIOUS
  <2> HIDE DEF s, h, t
  <2>2. /\ c \in Seq(Pending) /\ Len(c) = Len(s) + Len(t) /\ Len(t) \in Nat
        /\ \A i \in 1 .. Len(s) + Len(t) : c[i] = IF i <= Len(s) THEN s[i] ELSE t[i - Len(s)]
    BY <1>1, <1>2, ConcatProperties, LenProperties
  <2> HIDE DEF c
  <2>3. ASSUME NEW i \in 1 .. Len(ns) PROVE c[i] = ns[i]
    <3>1. CASE i = 1
      BY <1>1, <2>1, <2>2, <3>1
    <3>2. CASE i # 1
      <4>1. i - 1 \in 1 .. Len(t) /\ ~ (i <= Len(s)) /\ i - Len(s) = i - 1 /\ (i - 1) + 1 = i
            /\ i \in 1 .. Len(s) + Len(t)
        BY <1>1, <2>1, <2>2, <3>2
      <4> QED
        BY <1>1, <2>2, <4>1
    <3> QED
      BY <3>1, <3>2
  <2>4. Len(c) = Len(ns)
    BY <1>1, <2>1, <2>2
  <2>5. c = ns
    BY <2>2, <2>3, <2>4, SeqEqual
  <2> QED
    BY <2>5 DEF c
<1> HIDE DEF t, h
<1>4. Ahead(s) = Walk(h)
  BY <1>1, AheadSmall
<1> HIDE DEF s
<1>5. Ahead(s \o t) = Ahead(s) \o Ahead(t)
  BY <1>1, <1>2, AheadConcat
<1> QED
  BY <1>1, <1>3, <1>4, <1>5 DEF h, t

StageReads(k) == IF k = 0 THEN {"description"} ELSE IF k = LegsStage THEN LateLegs ELSE Probes[k]

(* What a stage starts with, if nothing was lost.                          *)
Earlier(k) == IF k = 0 THEN {} ELSE {"description"} \cup (IF k = LegsStage THEN Probes[3] ELSE {})

Answered ==
  /\ Endpoints(Chain) # 0
  /\ DOMAIN call = StageReads(stage)
  /\ \A c \in DOMAIN call \cap Getters[AtNode.addr] : call[c].out \in {"pending", "value"}
  /\ got = Earlier(stage) \cap Getters[AtNode.addr]
  /\ stage # LegsStage => \A k \in 1 .. stage - 1 : ~ Recognised(k, AtNode.addr, Getters[AtNode.addr])
  /\ stage = LegsStage => Recognised(3, AtNode.addr, Getters[AtNode.addr])

Complete ==
  /\ Inspecting /\ ~ lost => nodes \o Ahead(todo) = TrueNodes(AdapterOf[Current])
  /\ phase \in {"leaf", "pendle"} => todo = << >>
  /\ phase = "probe" /\ ~ lost => Answered
  /\ ExactUnlessLost

(* The description and a shape's own getters tell of the shape all that    *)
(* the contract's getters do, and lead on to all that it refers to.        *)
LEMMA ShapeFound ==
  ASSUME NEW a, NEW k \in 1 .. 8
  PROVE  Recognised(k, a, ({"description"} \cup Probes[k]) \cap Getters[a])
           <=> Recognised(k, a, Getters[a])
<1> DEFINE seen == ({"description"} \cup Probes[k]) \cap Getters[a]
<1>1. CASE k = 7
  <2>1. Kinds[k] = "PendleLinearDiscountOracleWrapper" /\ Probes[k] = {"innerOracle"}
    BY <1>1 DEF Kinds, Probes
  <2> QED
    BY <2>1 DEF Recognised
<1>2. CASE k = 8
  <2>1. Kinds[k] = "ChainlinkAggregator" /\ Probes[k] = {"latestRoundData", "aggregator"}
    BY <1>2 DEF Kinds, Probes
  <2>2. "latestRoundData" \in seen <=> "latestRoundData" \in Getters[a]
    BY <2>1
  <2>3. seen \cap {"aggregator", "description"} = Getters[a] \cap {"aggregator", "description"}
    BY <2>1
  <2> HIDE DEF seen
  <2>4. Recognised(k, a, seen) <=> Recognised(k, a, Getters[a])
    BY <2>1, <2>2, <2>3 DEF Recognised
  <2> QED
    BY <2>4 DEF seen
<1>3. CASE k \in 1 .. 6
  <2>1. Kinds[k] \notin {"PendleLinearDiscountOracleWrapper", "ChainlinkAggregator"}
    BY <1>3, SMT DEF Kinds
  <2>2. Probes[k] \subseteq seen <=> Probes[k] \subseteq Getters[a]
    OBVIOUS
  <2> HIDE DEF seen
  <2>3. Recognised(k, a, seen) <=> Recognised(k, a, Getters[a])
    BY <2>1, <2>2 DEF Recognised
  <2> QED
    BY <2>3 DEF seen
<1> QED
  BY <1>1, <1>2, <1>3

LEMMA LegsRead ==
  /\ \A k \in 1 .. 8 : k # 3 => Range(Legs(Kinds[k])) \subseteq Probes[k]
  /\ Range(Legs(Kinds[9])) = {}
  /\ Range(Legs(Kinds[3])) \subseteq Probes[3] \cup LateLegs
<1>1. /\ \A x, y : Range(<< x, y >>) = {x, y}
      /\ \A x, y, z, w : Range(<< x, y, z, w >>) = {x, y, z, w}
  <2>1. ASSUME NEW x, NEW y PROVE Range(<< x, y >>) = {x, y}
    <3>1. DOMAIN << x, y >> = {1, 2}
      BY SMT
    <3> QED
      BY <3>1 DEF Range
  <2>2. ASSUME NEW x, NEW y, NEW z, NEW w PROVE Range(<< x, y, z, w >>) = {x, y, z, w}
    <3>1. DOMAIN << x, y, z, w >> = {1, 2, 3, 4}
      BY SMT
    <3> QED
      BY <3>1 DEF Range
  <2> QED
    BY <2>1, <2>2
<1>2. Range(Legs(Kinds[1])) = {} /\ Range(Legs(Kinds[2])) = {}
  BY RangesAre DEF Legs, Kinds
<1>3. Legs(Kinds[3]) = << "BASE_FEED_1", "BASE_FEED_2", "QUOTE_FEED_1", "QUOTE_FEED_2" >>
  BY DEF Legs, Kinds
<1>4. Legs(Kinds[4]) = << "primaryOracle", "backupOracle" >>
  BY DEF Legs, Kinds
<1>5. Legs(Kinds[5]) = << "basePriceFeed" >>
  BY DEF Legs, Kinds
<1>6. Legs(Kinds[6]) = << "FEED_1", "FEED_2" >>
  BY DEF Legs, Kinds
<1>7. Legs(Kinds[7]) = << "innerOracle" >>
  BY DEF Legs, Kinds
<1>8. Range(Legs(Kinds[3])) \subseteq Probes[3] \cup LateLegs
  BY <1>1, <1>3 DEF Probes, LateLegs
<1>9. Range(Legs(Kinds[4])) \subseteq Probes[4]
  BY <1>1, <1>4 DEF Probes
<1>10. Range(Legs(Kinds[5])) \subseteq Probes[5]
  BY <1>5, RangesAre DEF Probes
<1>11. Range(Legs(Kinds[6])) \subseteq Probes[6]
  BY <1>1, <1>6 DEF Probes
<1>12. Range(Legs(Kinds[7])) \subseteq Probes[7]
  BY <1>7, RangesAre DEF Probes
<1>13. \A k \in 1 .. 8 : k \in {1, 2, 3, 4, 5, 6, 7, 8}
  BY SMT
<1> QED
  BY <1>2, <1>8, <1>9, <1>10, <1>11, <1>12, <1>13, NoLegs

(* A node classified as what it is, with all its legs, leaves the rest of  *)
(* the path to its legs.                                                   *)
LEMMA ClassifiedComplete ==
  ASSUME TypeInv, phase = "probe",
         NEW k \in 1 .. 9, NEW seen \in SUBSET Getters[AtNode.addr],
         KindOf[AtNode.addr] = Kinds[k],
         Range(Legs(Kinds[k])) \cap Getters[AtNode.addr] \subseteq seen, Classified(k, seen)
  PROVE  nodes' \o Ahead(todo') = nodes \o Ahead(todo)
<1> DEFINE a == AtNode.addr
           d == AtNode.depth
           kind == Kinds[k]
           cs == Children(kind, a, d, seen)
           every == Children(KindOf[a], a, d, Getters[a])
           n == Truly(a, d)
           rest == Tail(todo)
<1>1. todo # << >> /\ ~ IsNull(AtNode) /\ TypeOK
  BY DEF TypeInv, Probing
<1>2. a \in Contracts /\ d \in 0 .. MaxDepth /\ rest \in Seq(Pending)
  BY <1>1, AtNodeIs
<1>3. d \in Nat /\ d + 1 \in 0 .. MaxDepth + 1
  BY <1>2, MaxDepthAssumption
<1>4. nodes' = Append(nodes, n) /\ todo' = cs \o rest
  BY DEF Classified, Truly
<1>5. cs = every
  <2>1. Range(Legs(kind)) \cap seen = Range(Legs(kind)) \cap Getters[a]
    OBVIOUS
  <2>2. KindOf[a] = kind
    OBVIOUS
  <2> HIDE DEF kind, a, d
  <2>3. Followed(kind, seen) = Followed(kind, Getters[a])
    BY <2>1, FollowedSame
  <2> QED
    BY <2>2, <2>3 DEF Children, Followed
<1>6. /\ cs \in Seq([addr : Contracts \cup {ZERO}, depth : {d + 1}])
      /\ \A i \in 1 .. Len(cs) : cs[i].depth = d + 1
  <2>1. seen \in SUBSET Getters[a]
    OBVIOUS
  <2> HIDE DEF a, d
  <2> QED
    BY <1>2, <1>3, <2>1, ChildrenTyped
<1> DEFINE ss == Kids(TrueTree[d + 1], every)
<1>7. ss \in Seq(Seq(Node)) /\ n \in Node /\ TrueTree[d][a] = << n >> \o FlattenSeq(ss)
  <2> HIDE DEF a, d
  <2> QED
    BY <1>2, TreeAt
<1> HIDE DEF every, cs, rest, n
<1>8. cs \in Seq(Pending)
  <2> HIDE DEF d
  <2>1. [addr : Contracts \cup {ZERO}, depth : {d + 1}] \subseteq Pending
    BY <1>3 DEF Pending, Addrs
  <2>2. \A S, T, s : S \subseteq T /\ s \in Seq(S) => s \in Seq(T)
    BY SeqWider
  <2> QED
    BY <1>6, <2>1, <2>2
<1>9. Walks(cs) = ss
  BY <1>5, <1>6 DEF Walks, Kids
<1>10. Ahead(cs) = FlattenSeq(ss) /\ Ahead(cs) \in Seq(Node)
  BY <1>8, <1>9, WalksTyped DEF Ahead
<1> HIDE DEF ss
<1>11. Walk(AtNode) = << n >> \o Ahead(cs)
  BY <1>7, <1>10 DEF Walk
<1>12. Ahead(todo) = Walk(AtNode) \o Ahead(rest)
  <2>1. todo \in Seq(Pending)
    BY <1>1 DEF TypeOK, Pending, Addrs
  <2> QED
    BY <1>1, <2>1, AheadFirst DEF AtNode, rest
<1>13. Ahead(todo') = Ahead(cs) \o Ahead(rest) /\ Ahead(rest) \in Seq(Node)
  BY <1>2, <1>4, <1>8, AheadConcat, WalksTyped
<1> DEFINE x == Ahead(cs)
           y == Ahead(rest)
           s == << n >>
<1>14. x \in Seq(Node) /\ y \in Seq(Node) /\ s \in Seq(Node) /\ nodes \in Seq(Node)
  BY <1>1, <1>7, <1>10, <1>13 DEF TypeOK
<1>15. nodes' = nodes \o s
  BY <1>4, <1>7, <1>14, AppendIsConcat
<1>16. Ahead(todo) = (s \o x) \o y /\ Ahead(todo') = x \o y
  BY <1>11, <1>12, <1>13
<1> HIDE DEF x, y, s
<1>17. (nodes \o s) \o (x \o y) = nodes \o ((s \o x) \o y)
  <2>1. x \o y \in Seq(Node)
    BY <1>14, ConcatProperties
  <2>2. (nodes \o s) \o (x \o y) = nodes \o (s \o (x \o y))
    BY <1>14, <2>1, ConcatAssociative
  <2>3. (s \o x) \o y = s \o (x \o y)
    BY <1>14, ConcatAssociative
  <2> QED
    BY <2>2, <2>3
<1> QED
  BY <1>15, <1>16, <1>17

LEMMA RecordComplete ==
  ASSUME TypeInv, Complete, phase' = "next",
         NEW error, NEW ns, NEW p, NEW incomplete,
         error \/ incomplete \/ ns = TrueNodes(AdapterOf[Current]),
         results' = Append(results, Rec(Current, error, ns, p, incomplete))
  PROVE  Complete'
<1> DEFINE r == Rec(Current, error, ns, p, incomplete)
<1>1. r.nodes = ns /\ r.market = Current /\ r.error = error /\ r.lost = incomplete
  BY DEF Rec
<1> HIDE DEF r
<1>2. \A i \in DOMAIN results' : (i \in DOMAIN results /\ results'[i] = results[i]) \/ results'[i] = r
  BY Appended DEF TypeInv, Planned, r
<1>3. ASSUME NEW i \in DOMAIN results', ~ results'[i].error, ~ results'[i].lost
      PROVE  results'[i].nodes = TrueNodes(AdapterOf[results'[i].market])
  BY <1>1, <1>2, <1>3 DEF Complete, ExactUnlessLost
<1>4. ExactUnlessLost'
  BY <1>3 DEF ExactUnlessLost
<1> QED
  BY <1>4 DEF Complete, Inspecting

(* Once all reads of a stage are in and none is lost, the getters the      *)
(* contract has are known as far as the stage asked.                       *)
LEMMA SeenExactly ==
  ASSUME TypeInv, phase = "probe", Answered, Settled
  PROVE  got \cup Read = (Earlier(stage) \cup StageReads(stage)) \cap Getters[AtNode.addr]
<1> DEFINE G == Getters[AtNode.addr]
<1>1. Read \subseteq G /\ Read \subseteq DOMAIN call
  BY DEF TypeInv, Probing, Read
<1>2. \A c \in DOMAIN call \cap G : call[c].out = "value"
  BY DEF Answered, Settled
<1>3. Read = DOMAIN call \cap G
  BY <1>1, <1>2 DEF Read
<1> QED
  BY <1>3 DEF Answered

LEMMA ProbedComplete ==
  ASSUME TypeInv, Complete, Probed
  PROVE  Complete'
<1> DEFINE a == AtNode.addr
           G == Getters[a]
           seen == got \cup Read
<1>1. /\ UNCHANGED <<selected, results, lost>> /\ phase = "probe" /\ Inspecting /\ Settled
      /\ todo # << >> /\ ~ IsNull(AtNode) /\ seen \in SUBSET G /\ TypeOK
      /\ stage \in 0 .. LegsStage
  BY DEF Probed, TypeInv, TypeOK, Probing, Inspecting
<1>2. a \in Contracts
  BY <1>1, AtNodeIs
<1>3. Current' = Current /\ Chain' = Chain
  BY <1>1 DEF Current, Chain
<1>4. ExactUnlessLost'
  BY <1>1 DEF Complete, ExactUnlessLost
<1>5. CASE lost
  <2>1. phase' \in {"probe", "node"}
    BY <1>1, ProbedEither DEF Classified
  <2> QED
    BY <1>1, <1>4, <1>5, <2>1 DEF Complete
<1>6. CASE ~ lost
  <2>1. /\ Answered /\ nodes \o Ahead(todo) = TrueNodes(AdapterOf[Current])
    BY <1>1, <1>6 DEF Complete
  <2>2. seen = (Earlier(stage) \cup StageReads(stage)) \cap G
    BY <1>1, <2>1, SeenExactly
  <2>3. ASSUME UNCHANGED <<nodes, todo, phase>>, Answered' PROVE Complete'
    BY <1>1, <1>3, <1>4, <2>1, <2>3 DEF Complete
  <2>4. ASSUME NEW k \in 1 .. 9, KindOf[a] = Kinds[k], Range(Legs(Kinds[k])) \cap G \subseteq seen,
               Classified(k, seen)
        PROVE  Complete'
    <3>1. nodes' \o Ahead(todo') = nodes \o Ahead(todo)
      BY <1>1, <2>4, ClassifiedComplete
    <3>2. phase' = "node"
      BY <2>4 DEF Classified
    <3> QED
      BY <1>3, <1>4, <2>1, <3>1, <3>2 DEF Complete
  <2>5. ASSUME NEW k \in 1 .. 9, Issue(Chain, StageReads(k)), UNCHANGED todo, stage' = k,
               got' = Earlier(k) \cap G,
               k # LegsStage => \A j \in 1 .. k - 1 : ~ Recognised(j, a, G),
               k = LegsStage => Recognised(3, a, G)
        PROVE  Answered'
    <3>1. DOMAIN call' = StageReads(k) /\ \A c \in DOMAIN call' : call'[c].out = "pending"
      BY <2>1, <2>5 DEF Issue, Fresh, Answered
    <3>2. AtNode' = AtNode
      BY <2>5 DEF AtNode
    <3> QED
      BY <1>3, <2>1, <2>5, <3>1, <3>2 DEF Answered
  <2>6. CASE stage = 0 /\ Try(1, seen)
    <3>1. seen = Earlier(1) \cap G
      BY <2>2, <2>6 DEF Earlier, StageReads, LegsStage
    <3>2. StageReads(1) = Probes[1] /\ 1 # LegsStage
      BY DEF StageReads, LegsStage
    <3>3. Answered'
      BY <2>5, <2>6, <3>1, <3>2 DEF Try
    <3> QED
      BY <2>3, <2>6, <3>3 DEF Try
  <2>7. ASSUME stage \in 1 .. 8
        PROVE  /\ seen = ({"description"} \cup Probes[stage]) \cap G
               /\ Recognised(stage, a, seen) <=> Recognised(stage, a, G)
               /\ \A j \in 1 .. stage - 1 : ~ Recognised(j, a, G)
    <3>1. stage # 0 /\ stage # LegsStage
      BY <2>7 DEF LegsStage
    <3>2. seen = ({"description"} \cup Probes[stage]) \cap G
      BY <2>2, <3>1 DEF Earlier, StageReads
    <3> HIDE DEF seen
    <3> QED
      BY <2>1, <2>7, <3>1, <3>2, ShapeFound DEF Answered
  <2>8. CASE /\ stage \in 1 .. 8 /\ Recognised(stage, a, seen)
             /\ Kinds[stage] = "MorphoChainlinkOracleV2" /\ stage' = LegsStage /\ got' = seen
             /\ Issue(Chain, LateLegs) /\ UNCHANGED <<phase, nodes, todo>>
    <3>1. stage = 3
      BY <2>8, SMT DEF Kinds
    <3>2. seen = Earlier(LegsStage) \cap G /\ StageReads(LegsStage) = LateLegs /\ LegsStage = 9
      BY <2>7, <3>1 DEF Earlier, StageReads, LegsStage
    <3>3. Recognised(3, a, G)
      BY <2>7, <2>8, <3>1
    <3>4. LegsStage \in 1 .. 9
      BY <3>2
    <3> HIDE DEF seen, a
    <3>5. Answered'
      BY <2>5, <2>8, <3>2, <3>3, <3>4
    <3> QED
      BY <2>3, <2>8, <3>5
  <2>9. CASE /\ stage \in 1 .. 8 /\ Recognised(stage, a, seen)
             /\ Kinds[stage] # "MorphoChainlinkOracleV2" /\ Classified(stage, seen)
    <3>1. Recognised(stage, a, G) /\ stage \in 1 .. 9 /\ stage # 3
      BY <2>7, <2>9, SMT DEF Kinds
    <3>2. KindOf[a] = Kinds[stage]
      <4>1. CASE stage \in 1 .. 7
        BY <1>2, <3>1, <4>1, ShapesAssumption
      <4>2. CASE stage = 8
        <5>1. \A j \in 1 .. 7 : KindOf[a] # Kinds[j]
          BY <1>2, <2>7, <4>2, ShapesAssumption
        <5>2. KindOf[a] \notin {Kinds[j] : j \in 1 .. 7}
          BY <5>1
        <5>3. KindOf[a] = "ChainlinkAggregator"
          BY <1>2, <3>1, <4>2, <5>2, ShapesAssumption
        <5> QED
          BY <4>2, <5>3 DEF Kinds
      <4> QED
        BY <2>9, <4>1, <4>2
    <3>3. Range(Legs(Kinds[stage])) \cap G \subseteq seen
      <4>1. Range(Legs(Kinds[stage])) \subseteq Probes[stage]
        BY <2>9, <3>1, LegsRead
      <4> QED
        BY <2>7, <2>9, <4>1
    <3> HIDE DEF seen, a
    <3> QED
      BY <2>4, <2>9, <3>1, <3>2, <3>3
  <2>10. CASE stage \in 1 .. 7 /\ ~ Recognised(stage, a, seen) /\ Try(stage + 1, seen \cap {"description"})
    <3>1. stage \in 1 .. 8 /\ stage + 1 \in 1 .. 9 /\ stage + 1 # LegsStage /\ stage + 1 # 0
      BY <2>10 DEF LegsStage
    <3>2. seen \cap {"description"} = Earlier(stage + 1) \cap G /\ StageReads(stage + 1) = Probes[stage + 1]
      BY <2>7, <3>1 DEF Earlier, StageReads
    <3>3. \A j \in 1 .. (stage + 1) - 1 : ~ Recognised(j, a, G)
      <4>1. \A j \in 1 .. (stage + 1) - 1 : j \in 1 .. stage - 1 \/ j = stage
        BY <3>1
      <4> QED
        BY <2>7, <2>10, <3>1, <4>1
    <3> DEFINE k == stage + 1
    <3>4. /\ k \in 1 .. 9 /\ k # LegsStage /\ stage' = k /\ got' = Earlier(k) \cap G
          /\ Issue(Chain, StageReads(k)) /\ UNCHANGED <<phase, nodes, todo>>
          /\ \A j \in 1 .. k - 1 : ~ Recognised(j, a, G)
      BY <2>10, <3>1, <3>2, <3>3 DEF Try
    <3> HIDE DEF k, seen, a
    <3>5. Answered'
      BY <2>5, <3>4
    <3> QED
      BY <2>3, <3>4, <3>5
  <2>11. CASE stage = 8 /\ ~ Recognised(stage, a, seen) /\ Classified(9, seen)
    <3>1. \A j \in 1 .. 7 : KindOf[a] # Kinds[j]
      BY <1>2, <2>7, <2>11, ShapesAssumption
    <3>2. KindOf[a] \notin {Kinds[j] : j \in 1 .. 7}
      BY <3>1
    <3>3. ~ Recognised(8, a, G)
      BY <2>7, <2>11
    <3>4. KindOf[a] = "UNKNOWN"
      BY <1>2, <3>2, <3>3, ShapesAssumption
    <3>5. KindOf[a] = Kinds[9]
      BY <3>4 DEF Kinds
    <3> HIDE DEF seen, a
    <3> QED
      BY <2>4, <2>11, <3>5, LegsRead
  <2>12. CASE stage = LegsStage /\ Classified(3, seen)
    <3>1. seen = ({"description"} \cup Probes[3] \cup LateLegs) \cap G
      BY <2>2, <2>12 DEF Earlier, StageReads, LegsStage
    <3>2. Recognised(3, a, G)
      BY <2>1, <2>12 DEF Answered
    <3>3. KindOf[a] = Kinds[3]
      BY <1>2, <3>2, ShapesAssumption
    <3>4. Range(Legs(Kinds[3])) \cap G \subseteq seen
      BY <3>1, LegsRead
    <3> HIDE DEF seen, a
    <3> QED
      BY <2>4, <2>12, <3>3, <3>4
  <2> HIDE DEF seen
  <2> QED
    BY <2>6, <2>8, <2>9, <2>10, <2>11, <2>12 DEF Probed, seen, a
<1> QED
  BY <1>5, <1>6

(* An answer or a failure of a getter the contract has leaves it awaited   *)
(* or read, or the market has lost a read.                                 *)
LEMMA RequestComplete ==
  ASSUME TypeInv, Complete, Request
  PROVE  Complete'
<1>1. UNCHANGED <<phase, selected, results, nodes, todo, stage, got>>
  BY DEF Request
<1>2. ExactUnlessLost'
  BY <1>1 DEF Complete, ExactUnlessLost
<1>3. Current' = Current /\ Chain' = Chain /\ AtNode' = AtNode
  BY <1>1 DEF Current, Chain, AtNode
<1>4. PICK c \in DOMAIN call :
        \/ \E body \in Bodies :
             /\ body = "result" => Has(c)
             /\ PostAnswers(c, body)
             /\ lost' = (lost \/ (Has(c) /\ body # "result"))
        \/ \E chain \in {IF phase = "heads" THEN AtChain ELSE Chain} :
             /\ PostFails(chain, c)
             /\ lost' = (lost \/ (Has(c) /\ call'[c].out = "unreachable"))
  BY DEF Request
<1>5. ~ lost' => ~ lost
  BY <1>4
<1>6. ASSUME phase = "probe", ~ lost' PROVE Answered'
  <2>1. Answered
    BY <1>5, <1>6 DEF Complete
  <2>2. \A e \in DOMAIN call : call[e] = [tries |-> call[e].tries, out |-> call[e].out]
    BY DEF TypeInv, CallInv, TriedAgainst
  <2>3. Has(c) <=> c \in Getters[AtNode.addr]
    BY <1>6 DEF Has
  <2>4. /\ DOMAIN call' = DOMAIN call
        /\ \A e \in DOMAIN call \ {c} : call'[e] = call[e]
        /\ c \in Getters[AtNode.addr] => call'[c].out \in {"pending", "value"}
    <3>1. ASSUME NEW body \in Bodies, PostAnswers(c, body), Has(c) => body = "result"
          PROVE  /\ DOMAIN call' = DOMAIN call
                 /\ \A e \in DOMAIN call \ {c} : call'[e] = call[e]
                 /\ Has(c) => call'[c].out = "value"
      <4>1. /\ DOMAIN call' = DOMAIN call
            /\ \A e \in DOMAIN call \ {c} : call'[e] = call[e]
            /\ call'[c].out = Ending[body]
        BY <2>2, <3>1 DEF PostAnswers
      <4> QED
        BY <3>1, <4>1 DEF Ending
    <3>2. ASSUME NEW chain, PostFails(chain, c), Has(c) => call'[c].out # "unreachable"
          PROVE  /\ DOMAIN call' = DOMAIN call
                 /\ \A e \in DOMAIN call \ {c} : call'[e] = call[e]
                 /\ Has(c) => call'[c].out = "pending"
      <4>1. /\ DOMAIN call' = DOMAIN call
            /\ \A e \in DOMAIN call \ {c} : call'[e] = call[e]
            /\ call'[c] = AfterFailure(chain, c)
        BY <3>2 DEF PostFails
      <4> QED
        BY <3>2, <4>1 DEF AfterFailure
    <3>3. \/ \E body \in Bodies : PostAnswers(c, body) /\ (Has(c) => body = "result")
          \/ \E chain : PostFails(chain, c) /\ (Has(c) => call'[c].out # "unreachable")
      BY <1>4, <1>6
    <3> QED
      BY <2>3, <3>1, <3>2, <3>3
  <2> QED
    BY <1>1, <1>3, <2>1, <2>4 DEF Answered
<1> QED
  BY <1>1, <1>2, <1>3, <1>5, <1>6 DEF Complete, Inspecting

LEMMA CompleteInit == Init => Complete
<1> SUFFICES ASSUME Init PROVE Complete
  OBVIOUS
<1>1. phase = "fetch" /\ results = << >> /\ DOMAIN << >> = {}
  BY DEF Init
<1> QED
  BY <1>1 DEF Complete, Inspecting, ExactUnlessLost

LEMMA CompleteStep == TypeInv /\ Complete /\ [Next]_scanVars => Complete'
<1> SUFFICES ASSUME TypeInv, Complete, [Next]_scanVars PROVE Complete'
  OBVIOUS
<1>1. ASSUME UNCHANGED results PROVE ExactUnlessLost'
  BY <1>1 DEF Complete, ExactUnlessLost
<1>2. ASSUME UNCHANGED results, ~ Inspecting' PROVE Complete'
  BY <1>1, <1>2 DEF Complete, Inspecting
<1>3. ASSUME UNCHANGED <<selected, results>> PROVE Current' = Current /\ Chain' = Chain
  BY <1>3 DEF Current, Chain
<1>4. ASSUME UNCHANGED <<selected, results, nodes, todo>>, phase' \in {"leaf", "pendle"}, Inspecting,
             todo = << >>, ~ lost' => ~ lost
      PROVE  Complete'
  BY <1>1, <1>3, <1>4 DEF Complete, Inspecting
<1>5. TypeOK /\ todo \in Seq(Pending) /\ nodes \in Seq(Node)
  BY DEF TypeInv, TypeOK, Pending, Addrs
<1>6. CASE Fetch
  <2>1. results' = << >> /\ phase' = "next" /\ DOMAIN << >> = {}
    BY <1>6 DEF Fetch, TypeInv, Planned
  <2> QED
    BY <2>1 DEF Complete, Inspecting, ExactUnlessLost
<1>7. CASE FetchFails \/ AllInspected \/ BlockNumber \/ HeadRead \/ HeadFails \/ WriteFile
  BY <1>2, <1>7 DEF FetchFails, AllInspected, BlockNumber, HeadRead, HeadFails, WriteFile, Inspecting
<1>8. CASE StartMarket
  <2> DEFINE a == AdapterOf[Current]
  <2>1. Len(results) \in Nat /\ Len(results) < Len(selected)
    BY <1>8 DEF StartMarket, TypeInv, Planned, Sequential
  <2>2. a \in Addrs
    BY <1>5, <2>1, Here
  <2>3. 0 \in 0 .. MaxDepth + 1 /\ TrueNodes(a) = TrueTree[0][a]
    BY <2>2, MaxDepthAssumption DEF TrueNodes, TruePaths, Addrs
  <2>4. CASE a = ZERO
    <3>1. TrueTree[0] = [x \in Addrs |-> Branch(TrueTree[0 + 1], 0, x)]
      BY <2>3, TreeUnfolds
    <3>2. TrueNodes(a) = << >>
      BY <2>2, <2>3, <2>4, <3>1 DEF Branch
    <3> QED
      BY <1>8, <2>4, <3>2, RecordComplete DEF StartMarket
  <2>5. CASE a # ZERO
    <3> DEFINE n == [addr |-> a, depth |-> 0]
    <3>1. /\ todo' = << n >> /\ nodes' = << >>
          /\ phase' = "node" /\ UNCHANGED <<selected, results>>
      BY <1>8, <2>5 DEF StartMarket
    <3>2. n \in Pending /\ Walk(n) = TrueNodes(a)
      BY <2>2, <2>3 DEF Pending, Walk
    <3> HIDE DEF n
    <3>3. Ahead(todo') = TrueNodes(a) /\ TrueNodes(a) \in Seq(Node)
      BY <3>1, <3>2, AheadSmall, WalkTyped
    <3>4. nodes' \o Ahead(todo') = TrueNodes(a)
      <4> DEFINE path == TrueNodes(a)
      <4>1. path \in Seq(Node) /\ nodes' \o Ahead(todo') = << >> \o path
        BY <3>1, <3>3
      <4> HIDE DEF path
      <4>2. << >> \o path = path
        BY <4>1, ConcatEmptySeq
      <4> QED
        BY <4>1, <4>2 DEF path
    <3> QED
      BY <1>1, <1>3, <3>1, <3>4 DEF Complete
  <2> QED
    BY <2>4, <2>5
<1>9. CASE SkipNull
  <2> DEFINE d == AtNode.depth
             a == AtNode.addr
  <2>1. /\ phase = "node" /\ todo # << >> /\ IsNull(AtNode) /\ todo' = Tail(todo)
        /\ UNCHANGED <<phase, selected, results, nodes, lost>> /\ Inspecting
    BY <1>9 DEF SkipNull, Inspecting
  <2>2. a \in Addrs /\ d \in 0 .. MaxDepth + 1 /\ (a = ZERO \/ d > MaxDepth)
    BY <1>5, <2>1, AtNodeIs DEF IsNull
  <2> HIDE DEF a, d
  <2>3. TrueTree[d] = [x \in Addrs |-> Branch(TrueTree[d + 1], d, x)]
    BY <2>2, TreeUnfolds
  <2>4. TrueTree[d][a] = << >>
    BY <2>2, <2>3 DEF Branch
  <2>5. Walk(AtNode) = << >>
    BY <2>4 DEF Walk, a, d
  <2>6. Ahead(todo) = << >> \o Ahead(Tail(todo)) /\ Tail(todo) \in Seq(Pending)
    BY <1>5, <2>1, <2>5, AheadFirst DEF AtNode
  <2>7. Ahead(todo') = Ahead(todo)
    <3> DEFINE y == Ahead(Tail(todo))
    <3>1. y \in Seq(Node)
      BY <2>6, WalksTyped
    <3> HIDE DEF y
    <3>2. << >> \o y = y
      BY <3>1, ConcatEmptySeq
    <3> QED
      BY <2>1, <2>6, <3>2 DEF y
  <2> QED
    BY <1>1, <1>3, <2>1, <2>7 DEF Complete
<1>10. CASE EnterNode
  <2>1. /\ phase = "node" /\ phase' = "probe" /\ stage' = 0 /\ got' = {}
        /\ Issue(Chain, {"description"}) /\ lost' = (lost \/ Endpoints(Chain) = 0)
        /\ UNCHANGED <<selected, results, nodes, todo>> /\ Inspecting
    BY <1>10 DEF EnterNode, Inspecting
  <2>2. ASSUME ~ lost' PROVE Answered'
    <3>1. DOMAIN call' = {"description"} /\ \A c \in DOMAIN call' : call'[c].out = "pending"
      BY <2>1, <2>2 DEF Issue, Fresh
    <3>2. StageReads(0) = {"description"} /\ Earlier(0) = {} /\ 0 # LegsStage /\ 1 .. 0 - 1 = {}
      BY DEF StageReads, Earlier, LegsStage
    <3> QED
      BY <1>3, <2>1, <2>2, <3>1, <3>2 DEF Answered
  <2> QED
    BY <1>1, <1>3, <2>1, <2>2 DEF Complete
<1>11. CASE Request
  BY <1>11, RequestComplete
<1>12. CASE Probed
  BY <1>12, ProbedComplete
<1>13. CASE PathDone \/ Cached \/ ReadPendleMarket \/ PendleRead
  <2>1. /\ UNCHANGED <<selected, results, nodes, todo, lost>>
        /\ Inspecting /\ phase' \in {"leaf", "pendle"}
        /\ (phase = "node" /\ todo = << >>) \/ phase \in {"leaf", "pendle"}
    BY <1>13 DEF PathDone, Cached, ReadPendleMarket, PendleRead, ThenObserve, Kept, Inspecting
  <2>2. todo = << >>
    BY <2>1 DEF Complete
  <2> QED
    BY <1>4, <2>1, <2>2
<1>14. CASE MarketFails
  BY <1>14, RecordComplete DEF MarketFails
<1>15. CASE MarketDone
  <2>1. todo = << >> /\ (~ lost => nodes \o Ahead(todo) = TrueNodes(AdapterOf[Current]))
    BY <1>15 DEF MarketDone, Complete, Inspecting
  <2>2. nodes \o << >> = nodes
    BY <1>5, ConcatEmptySeq
  <2>3. lost \/ nodes = TrueNodes(AdapterOf[Current])
    BY <2>1, <2>2, AheadSmall
  <2>4. /\ results' = Append(results, Rec(Current, FALSE, nodes, pendle, lost)) /\ phase' = "next"
        /\ lost \in BOOLEAN
    BY <1>5, <1>15 DEF MarketDone, TypeOK
  <2> QED
    BY <2>3, <2>4, RecordComplete
<1>16. CASE UNCHANGED scanVars
  BY <1>16 DEF scanVars, Complete, Inspecting, ExactUnlessLost, Current, Chain, AtNode, Answered
<1> QED
  BY <1>6, <1>7, <1>8, <1>9, <1>10, <1>11, <1>12, <1>13, <1>14, <1>15, <1>16 DEF Next

(* A market none of whose reads was lost is recorded with the price path   *)
(* it has on its chain, node for node and in the order of the walk.        *)
THEOREM RecordsExact == Spec => []ExactUnlessLost
<1>1. Complete => ExactUnlessLost
  BY DEF Complete
<1> QED
  BY <1>1, TypeInit, TypeStep, CompleteInit, CompleteStep, PTL DEF Spec
------------------------------------------------------------------------------
(***************************************************************************)
(* What is counted off the records twice comes to the same.                *)
(***************************************************************************)
LEMMA CountedAt ==
  ASSUME NEW n \in Nat, NEW I \in SUBSET (1 .. n)
  PROVE  IsFiniteSet(I) /\ Cardinality(I) \in Nat /\ (Cardinality(I) > 0 <=> I # {})
<1>1. IsFiniteSet(1 .. n)
  BY FS_Interval
<1>2. IsFiniteSet(I)
  BY <1>1, FS_Subset
<1>3. Cardinality(I) \in Nat /\ (Cardinality(I) = 0 <=> I = {})
  BY <1>2, FS_CardinalityType, FS_EmptySet
<1> DEFINE c == Cardinality(I)
<1> HIDE DEF c
<1>4. c \in Nat => (c > 0 <=> c # 0)
  BY SMT
<1> QED
  BY <1>2, <1>3, <1>4, Zenon DEF c

(* The defences of a path count the feeds of each heading.                 *)
Counts(d, ns) ==
  /\ Len(d.twapWindows) \in Nat /\ d.spotMarketReads \in Nat /\ d.marketIndependentFeeds \in Nat
  /\ Range(d.twapWindows) = {Window[n.addr] : n \in {m \in Range(ns) : Twap(m) /\ Window[m.addr] # 0}}
  /\ Len(d.twapWindows) > 0 <=> \E n \in Range(ns) : Twap(n) /\ Window[n.addr] # 0
  /\ d.spotMarketReads > 0 <=> \E n \in Range(ns) : Twap(n) /\ Window[n.addr] = 0
  /\ d.marketIndependentFeeds > 0 <=> \E n \in Range(ns) : n.kind = "PendleSparkLinearDiscountOracle"

LEMMA DefencesCount ==
  ASSUME NEW ns \in Seq(Node)
  PROVE  Counts(Defences(ns), ns)
<1> DEFINE t == TwapLeaves(ns)
           I == {i \in DOMAIN t : Window[t[i].addr] # 0}
           J == {i \in DOMAIN t : Window[t[i].addr] = 0}
           K == {i \in DOMAIN ns : ns[i].kind = "PendleSparkLinearDiscountOracle"}
           timed == Picked(t, I)
           w == [i \in DOMAIN timed |-> Window[timed[i].addr]]
<1>1. /\ Defences(ns).twapWindows = w
      /\ Defences(ns).spotMarketReads = Cardinality(J)
      /\ Defences(ns).marketIndependentFeeds = Cardinality(K)
  BY DEF Defences, Count, Select
<1>2. t \in Seq(Node) /\ Range(t) = {n \in Range(ns) : Twap(n)}
  BY LeavesAre DEF Twap
<1> HIDE DEF t
<1>3. /\ DOMAIN t = 1 .. Len(t) /\ Len(t) \in Nat
      /\ DOMAIN ns = 1 .. Len(ns) /\ Len(ns) \in Nat
  BY <1>2, LenProperties
<1>4. I \in SUBSET (1 .. Len(t)) /\ J \in SUBSET (1 .. Len(t)) /\ K \in SUBSET (1 .. Len(ns))
  BY <1>3
<1>5. /\ timed \in Seq(Node) /\ Range(timed) = {t[i] : i \in I} /\ Len(timed) = Cardinality(I)
  <2> HIDE DEF I
  <2> QED
    BY <1>2, <1>4, PickedRange
<1>6. {t[i] : i \in I} = {m \in Range(ns) : Twap(m) /\ Window[m.addr] # 0}
  BY <1>2 DEF Range
<1>7. J # {} <=> \E n \in Range(ns) : Twap(n) /\ Window[n.addr] = 0
  <2>1. J # {} <=> \E n \in Range(t) : Window[n.addr] = 0
    BY DEF Range
  <2> QED
    BY <1>2, <2>1
<1>8. K # {} <=> \E n \in Range(ns) : n.kind = "PendleSparkLinearDiscountOracle"
  BY DEF Range
<1>9. I # {} <=> \E n \in Range(ns) : Twap(n) /\ Window[n.addr] # 0
  <2>1. I # {} <=> \E n \in Range(t) : Window[n.addr] # 0
    BY DEF Range
  <2> QED
    BY <1>2, <2>1
<1> HIDE DEF I, J, K, timed
<1>10. /\ Cardinality(I) \in Nat /\ (Cardinality(I) > 0 <=> I # {})
       /\ Cardinality(J) \in Nat /\ (Cardinality(J) > 0 <=> J # {})
       /\ Cardinality(K) \in Nat /\ (Cardinality(K) > 0 <=> K # {})
  BY <1>3, <1>4, CountedAt
<1>11. DOMAIN timed = 1 .. Cardinality(I)
  BY <1>5, LenProperties
<1>12. Len(w) = Cardinality(I)
  BY <1>10, <1>11
<1>13. Range(w) = {Window[n.addr] : n \in Range(timed)}
  <2>1. Range(w) = {w[i] : i \in DOMAIN timed}
    BY DEF Range
  <2>2. Range(timed) = {timed[i] : i \in DOMAIN timed}
    BY DEF Range
  <2>3. \A i \in DOMAIN timed : w[i] = Window[timed[i].addr]
    OBVIOUS
  <2> HIDE DEF w
  <2> QED
    BY <2>1, <2>2, <2>3
<1> HIDE DEF w
<1> QED
  BY <1>1, <1>5, <1>6, <1>7, <1>8, <1>9, <1>10, <1>12, <1>13 DEF Counts

(* The largest scenario exists: a figure of finitely many records has one. *)
LEMMA LargestAmong ==
  ASSUME NEW n \in Nat, NEW v \in [1 .. n -> Nat], NEW S, S # {},
         NEW at \in [S -> 1 .. n]
  PROVE  \E s \in S : \A t \in S : v[at[t]] <= v[at[s]]
<1> DEFINE G == {k \in 0 .. n : \E b \in Nat : \A i \in 1 .. k : v[i] <= b}
<1>1. 0 \in G
  <2>1. 0 \in 0 .. n /\ 1 .. 0 = {} /\ 0 \in Nat
    BY SMT
  <2> QED
    BY <2>1
<1>2. ASSUME NEW k \in Nat, k < n, k \in G PROVE k + 1 \in G
  <2>1. PICK b \in Nat : \A i \in 1 .. k : v[i] <= b
    BY <1>2
  <2>2. k + 1 \in 1 .. n /\ k + 1 \in 0 .. n
    BY <1>2
  <2> DEFINE x == v[k + 1]
             c == b + x
  <2>3. x \in Nat
    BY <2>2
  <2>4. c \in Nat /\ b <= c /\ x <= c
    <3> HIDE DEF x
    <3> QED
      BY <2>1, <2>3
  <2> HIDE DEF c
  <2>5. ASSUME NEW i \in 1 .. k + 1 PROVE v[i] <= c
    <3>1. CASE i = k + 1
      BY <2>4, <3>1
    <3>2. CASE i # k + 1
      <4>1. i \in 1 .. k /\ i \in 1 .. n
        BY <1>2, <3>2
      <4>2. v[i] <= b /\ v[i] \in Nat
        BY <2>1, <4>1
      <4> QED
        BY <2>1, <2>4, <4>2
    <3> QED
      BY <3>1, <3>2
  <2> QED
    BY <2>2, <2>4, <2>5
<1>3. n \in G
  <2>1. n \in 0 .. n
    BY SMT
  <2> HIDE DEF G
  <2> QED
    BY <1>1, <1>2, <2>1, UpwardInduction
<1>4. PICK b \in Nat : \A i \in 1 .. n : v[i] <= b
  BY <1>3
<1> DEFINE B == {c \in Nat : \A s \in S : v[at[s]] <= c}
<1>5. \A s \in S : v[at[s]] \in Nat /\ v[at[s]] <= b
  BY <1>4
<1>6. b \in B
  BY <1>5
<1>7. PICK m \in B : \A c \in B : m <= c
  <2>1. B \in SUBSET Nat
    OBVIOUS
  <2> HIDE DEF B
  <2> QED
    BY <1>6, <2>1, LeastOf
<1>8. \E s \in S : v[at[s]] = m
  <2> SUFFICES ASSUME \A s \in S : v[at[s]] # m PROVE FALSE
    OBVIOUS
  <2>1. \A s \in S : v[at[s]] < m
    BY <1>5, <1>7
  <2>2. m - 1 \in Nat
    <3>1. PICK s \in S : TRUE
      OBVIOUS
    <3>2. v[at[s]] \in Nat /\ v[at[s]] < m /\ m \in Nat
      BY <1>5, <1>7, <2>1
    <3> DEFINE x == v[at[s]]
    <3> HIDE DEF x
    <3>3. x \in Nat /\ x < m /\ m \in Nat
      BY <3>2 DEF x
    <3> QED
      BY <3>3
  <2>3. ASSUME NEW s \in S PROVE v[at[s]] <= m - 1
    <3> DEFINE x == v[at[s]]
    <3>1. x \in Nat /\ x < m /\ m \in Nat
      BY <1>5, <1>7, <2>1
    <3> HIDE DEF x
    <3>2. x <= m - 1
      BY <3>1
    <3> QED
      BY <3>2 DEF x
  <2>4. m - 1 \in B
    BY <2>2, <2>3
  <2>5. m <= m - 1
    BY <1>7, <2>4
  <2> QED
    BY <2>2, <2>5
<1>9. \A t \in S : v[at[t]] <= m
  BY <1>7
<1> QED
  BY <1>8, <1>9

LEMMA MechanismIs ==
  ASSUME NEW r, r.nodes \in Seq(Node)
  PROVE  /\ Mechanism(r) = ERROR <=> r.error
         /\ Mechanism(r) = UNKNOWN => ~ r.error
<1>1. CASE r.error
  BY <1>1 DEF Mechanism, ERROR, UNKNOWN
<1>2. CASE ~ r.error
  <2> DEFINE ls == Leaves(r.nodes)
  <2>1. Mechanism(r) = KindsOf(ls)
    BY <1>2 DEF Mechanism
  <2>2. Range(ls) = {n \in Range(r.nodes) : n.kind \in PT_LEAF_KINDS}
    BY LeavesAre
  <2> HIDE DEF ls
  <2>3. \A i \in DOMAIN ls : ls[i].kind \in PT_LEAF_KINDS
    BY <2>2 DEF Range
  <2>4. "ERROR" \notin KindsOf(ls)
    BY <2>3 DEF KindsOf, PT_LEAF_KINDS
  <2> QED
    BY <1>2, <2>1, <2>4 DEF ERROR
<1> QED
  BY <1>1, <1>2

Kind(k) == {i \in DOMAIN results : Mechanism(results[i]) = k}
Fine == {i \in DOMAIN results : ~ results[i].error}

Counted(k) ==
  IF k \in DOMAIN MechanismDistribution(results) THEN MechanismDistribution(results)[k] ELSE 0

LEMMA CountedIs ==
  ASSUME NEW k, Sequential(results)
  PROVE  Counted(k) = Cardinality(Kind(k))
<1> DEFINE D == MechanismDistribution(results)
           all == {Mechanism(results[i]) : i \in DOMAIN results}
<1>1. D = [x \in all |-> Cardinality({i \in DOMAIN results : Mechanism(results[i]) = x})]
  BY DEF MechanismDistribution, Count
<1>2. CASE k \in all
  BY <1>1, <1>2 DEF Counted, Kind
<1>3. CASE k \notin all
  <2>1. Kind(k) = {}
    BY <1>3 DEF Kind
  <2>2. Counted(k) = 0
    BY <1>1, <1>3 DEF Counted
  <2> QED
    BY <2>1, <2>2, FS_EmptySet
<1> QED
  BY <1>2, <1>3

Records == {results[i] : i \in DOMAIN results}

LEMMA ShownAre ==
  ASSUME Sequential(results)
  PROVE  /\ results \in Seq(Records) /\ DOMAIN results = 1 .. Len(results) /\ Len(results) \in Nat
         /\ Shown(results) \in Seq(Records)
         /\ Range(Shown(results)) = {results[i] : i \in Fine}
         /\ Len(Shown(results)) = Cardinality(Fine)
         /\ \E b : Positions(b, Shown(results), results, Fine)
<1>1. DOMAIN results = 1 .. Len(results) /\ Len(results) \in Nat
  BY DEF Sequential
<1>2. results \in [1 .. Len(results) -> Records]
  <2>1. results = [i \in 1 .. Len(results) |-> results[i]]
    BY DEF Sequential
  <2>2. \A i \in 1 .. Len(results) : results[i] \in Records
    BY <1>1 DEF Records
  <2> QED
    BY <2>1, <2>2
<1>3. results \in Seq(Records)
  BY <1>1, <1>2, SeqDef
<1>4. Shown(results) = Picked(results, Fine)
  BY DEF Shown, Select, Fine
<1>5. Fine \in SUBSET (1 .. Len(results))
  BY <1>1 DEF Fine
<1> QED
  BY <1>1, <1>3, <1>4, <1>5, PickedRange, PickedPositions

(* No record is counted twice or left out.                                 *)
LEMMA ShownAndErrors ==
  ASSUME Sequential(results), \A i \in DOMAIN results : results[i].nodes \in Seq(Node)
  PROVE  Len(Shown(results)) + Counted(ERROR) = Len(results)
<1> DEFINE E == Kind(ERROR)
<1>1. DOMAIN results = 1 .. Len(results) /\ Len(results) \in Nat /\ Len(Shown(results)) = Cardinality(Fine)
  BY ShownAre
<1>2. Counted(ERROR) = Cardinality(E)
  BY CountedIs
<1>3. E = {i \in DOMAIN results : results[i].error}
  BY MechanismIs DEF Kind
<1>4. Fine \cup E = 1 .. Len(results) /\ Fine \cap E = {}
  BY <1>1, <1>3 DEF Fine
<1> HIDE DEF E
<1>5. Fine \in SUBSET (1 .. Len(results)) /\ E \in SUBSET (1 .. Len(results))
  BY <1>4
<1>6. /\ IsFiniteSet(Fine) /\ Cardinality(Fine) \in Nat
      /\ IsFiniteSet(E) /\ Cardinality(E) \in Nat
  BY <1>1, <1>5, CountedAt
<1>7. Cardinality(Fine \cup E) = Cardinality(Fine) + Cardinality(E) - Cardinality(Fine \cap E)
  BY <1>6, FS_Union
<1>8. Cardinality(Fine \cap E) = 0
  BY <1>4, FS_EmptySet
<1> DEFINE n == Len(results)
           x == Cardinality(Fine)
           y == Cardinality(E)
<1>9. n \in Nat /\ n \in Int /\ 1 \in Int
  BY <1>1
<1> HIDE DEF n
<1>10. Cardinality(1 .. n) = IF 1 > n THEN 0 ELSE n - 1 + 1
  BY <1>9, FS_Interval
<1>11. Cardinality(1 .. n) = n
  BY <1>9, <1>10
<1>12. x \in Nat /\ y \in Nat /\ x + y - 0 = n
  BY <1>4, <1>6, <1>7, <1>8, <1>11 DEF n
<1>13. Len(Shown(results)) = x /\ Counted(ERROR) = y
  BY <1>1, <1>2
<1> HIDE DEF x, y
<1>14. x + y = n
  BY <1>9, <1>12
<1> QED
  BY <1>13, <1>14 DEF n

LEMMA UnknownCounted ==
  ASSUME Sequential(results), \A i \in DOMAIN results : results[i].nodes \in Seq(Node)
  PROVE  Len(UnknownMarkets(results)) = Counted(UNKNOWN)
<1> DEFINE p == Shown(results)
           J == {j \in DOMAIN p : Mechanism(p[j]) = UNKNOWN}
           K == Kind(UNKNOWN)
<1>1. UnknownMarkets(results) = Picked(p, J)
  BY DEF UnknownMarkets, Select
<1>2. /\ p \in Seq(Records) /\ DOMAIN results = 1 .. Len(results) /\ Len(results) \in Nat
  BY ShownAre
<1>3. PICK b : Positions(b, p, results, Fine)
  BY ShownAre
<1> HIDE DEF p
<1>4. DOMAIN p = 1 .. Len(p) /\ Len(p) \in Nat
  BY <1>2, LenProperties
<1>5. J \in SUBSET (1 .. Len(p))
  BY <1>4
<1>6. Len(Picked(p, J)) = Cardinality(J)
  <2> HIDE DEF J
  <2> QED
    BY <1>2, <1>5, PickedRange
<1>7. K = {i \in Fine : Mechanism(results[i]) = UNKNOWN}
  BY MechanismIs DEF Kind, Fine
<1> DEFINE f == [j \in J |-> b[j]]
<1>8. \A j \in 1 .. Len(p) : b[j] \in Fine /\ p[j] = results[b[j]]
  BY <1>3 DEF Positions
<1>9. f \in [J -> K]
  BY <1>4, <1>7, <1>8
<1>10. \A i \in K : \E j \in J : f[j] = i
  <2> SUFFICES ASSUME NEW i \in K PROVE \E j \in J : b[j] = i
    OBVIOUS
  <2>1. i \in Fine /\ Mechanism(results[i]) = UNKNOWN
    BY <1>7
  <2>2. PICK j \in 1 .. Len(p) : b[j] = i
    BY <1>3, <2>1 DEF Positions
  <2> QED
    BY <1>4, <1>8, <2>1, <2>2
<1>11. \A j, k \in J : f[j] = f[k] => j = k
  <2> SUFFICES ASSUME NEW j \in J, NEW k \in J, b[j] = b[k] PROVE j = k
    OBVIOUS
  <2>1. j \in 1 .. Len(p) /\ k \in 1 .. Len(p) /\ j \in Nat /\ k \in Nat
    BY <1>4, <1>5, SMT
  <2>2. b[j] \in Nat /\ b[k] \in Nat
    BY <1>2, <1>8, <2>1 DEF Fine
  <2>3. j < k => b[j] < b[k]
    BY <1>3, <2>1 DEF Positions
  <2>4. k < j => b[k] < b[j]
    BY <1>3, <2>1 DEF Positions
  <2> DEFINE x == b[j]
  <2> HIDE DEF x, J, f
  <2>5. ~ (j < k) /\ ~ (k < j)
    BY <2>2, <2>3, <2>4 DEF x
  <2> QED
    BY <2>1, <2>5
<1> HIDE DEF f, J, K
<1>12. f \in Bijection(J, K)
  BY <1>9, <1>10, <1>11 DEF Bijection, Injection, Surjection, IsInjective
<1>13. ExistsBijection(J, K) /\ IsFiniteSet(J)
  BY <1>4, <1>5, <1>12, CountedAt DEF ExistsBijection
<1>14. Cardinality(K) = Cardinality(J)
  BY <1>13, FS_Bijection
<1> QED
  BY <1>1, <1>6, <1>14, CountedIs DEF p, K

LEMMA ScenarioOf ==
  ASSUME NEW s \in LiveScenarios(results)
  PROVE  \E i \in Fine : \E p \in DOMAIN results[i].pendle :
           /\ Usable(results[i].pendle[p])
           /\ s.market = results[i].market /\ s.pendleMarket = p
           /\ s.twapDuration = TwapDuration(results[i], p)
<1>1. PICK i \in Fine : s \in
        {[market |-> results[i].market, pendleMarket |-> p, twapDuration |-> TwapDuration(results[i], p)] :
           p \in {q \in DOMAIN results[i].pendle : Usable(results[i].pendle[q])}}
  BY DEF LiveScenarios, Fine
<1>2. PICK p \in {q \in DOMAIN results[i].pendle : Usable(results[i].pendle[q])} :
        s = [market |-> results[i].market, pendleMarket |-> p, twapDuration |-> TwapDuration(results[i], p)]
  BY <1>1
<1> QED
  BY <1>2

LEMMA ShownHere ==
  ASSUME Sequential(results), NEW i \in Fine
  PROVE  \E j \in DOMAIN Shown(results) : Shown(results)[j] = results[i]
<1>1. results[i] \in Range(Shown(results))
  BY ShownAre
<1> QED
  BY <1>1 DEF Range

(* A window is that of a TWAP feed on the path.                            *)
LEMMA WindowOfLeaf ==
  ASSUME NEW r, r.nodes \in Seq(Node), NEW p, TwapDuration(r, p) # NoWindow
  PROVE  \E n \in Range(r.nodes) : Twap(n) /\ Window[n.addr] = TwapDuration(r, p)
<1> DEFINE t == TwapLeaves(r.nodes)
           I == {i \in DOMAIN t : Reads(t[i], p)}
           of == Select(t, LAMBDA n : Reads(n, p))
<1>1. t \in Seq(Node) /\ Range(t) = {n \in Range(r.nodes) : Twap(n)}
  BY LeavesAre DEF Twap
<1>2. of # << >> /\ TwapDuration(r, p) = Window[Head(of).addr]
  BY DEF TwapDuration
<1>3. of = Picked(t, I)
  BY DEF Select
<1> HIDE DEF t, of
<1>4. I \in SUBSET (1 .. Len(t))
  BY <1>1, LenProperties
<1>5. Picked(t, I) \in Seq(Node) /\ Range(Picked(t, I)) = {t[i] : i \in I}
  <2> HIDE DEF I
  <2> QED
    BY <1>1, <1>4, PickedRange
<1>6. Head(of) \in Range(of)
  BY <1>2, <1>3, <1>5, RangesAre
<1>7. Head(of) \in Range(t)
  <2>1. PICK i \in I : Head(of) = t[i]
    BY <1>3, <1>5, <1>6
  <2> QED
    BY <2>1 DEF Range
<1> QED
  BY <1>1, <1>2, <1>7

LEMMA LargestIsCandidate ==
  ASSUME Sequential(results), \A i \in DOMAIN results : results[i].market \in Markets,
         Candidates(results) # {}
  PROVE  LargestTwapScenario(results) \in Candidates(results)
<1> DEFINE n == Len(results)
           S == Candidates(results)
           v == [i \in 1 .. n |-> Collateral[results[i].market]]
           at == [s \in S |-> CHOOSE i \in 1 .. n : results[i].market = s.market]
<1>1. n \in Nat /\ DOMAIN results = 1 .. n
  BY DEF Sequential
<1>2. v \in [1 .. n -> Nat]
  BY <1>1, MarketsAssumption
<1>3. \A s \in S : \E i \in 1 .. n : results[i].market = s.market
  <2> SUFFICES ASSUME NEW s \in S PROVE \E i \in 1 .. n : results[i].market = s.market
    OBVIOUS
  <2>1. s \in LiveScenarios(results)
    BY DEF Candidates
  <2>2. PICK i \in Fine : s.market = results[i].market
    BY <2>1, ScenarioOf
  <2> QED
    BY <1>1, <2>2 DEF Fine
<1>4. \A s \in S : at[s] \in 1 .. n /\ results[at[s]].market = s.market
  <2> SUFFICES ASSUME NEW s \in S PROVE at[s] \in 1 .. n /\ results[at[s]].market = s.market
    OBVIOUS
  <2> HIDE DEF n, S
  <2>1. at[s] = CHOOSE i \in 1 .. n : results[i].market = s.market
    OBVIOUS
  <2> HIDE DEF at
  <2> QED
    BY <1>3, <2>1
<1>5. at \in [S -> 1 .. n]
  BY <1>4
<1>6. \A s \in S : v[at[s]] = Collateral[s.market]
  BY <1>4
<1>7. S # {}
  OBVIOUS
<1>8. LargestTwapScenario(results) =
        CHOOSE s \in S : \A t \in S : Collateral[t.market] <= Collateral[s.market]
  BY DEF LargestTwapScenario
<1> HIDE DEF n, S, v, at
<1>9. \E s \in S : \A t \in S : v[at[t]] <= v[at[s]]
  BY <1>1, <1>2, <1>5, <1>7, LargestAmong
<1>10. \E s \in S : \A t \in S : Collateral[t.market] <= Collateral[s.market]
  BY <1>6, <1>9
<1> QED
  BY <1>8, <1>10, Zenon DEF S

(* The rows and the errors of the market map make up all the markets of    *)
(* the scan, its sections are as long as the distribution says, the sweeps *)
(* take Pendle markets and a window that the map shows, and a market has a *)
(* mechanism exactly if its defences count a PT feed.                      *)
THEOREM MapAlwaysAddsUp == Spec => []MapAddsUp
<1>1. TypeInv /\ OnPath => MapAddsUp
  <2> SUFFICES ASSUME TypeInv, OnPath, phase = "done" PROVE MapAddsUp
    BY DEF MapAddsUp
  <2>1. /\ Sequential(results) /\ Len(results) = Len(selected)
        /\ \A i \in DOMAIN results : results[i].nodes \in Seq(Node)
        /\ \A i \in DOMAIN results : results[i].market \in Markets
    <3>1. \A i \in DOMAIN results : i \in 1 .. Len(selected) /\ results[i].market = selected[i]
      BY DEF TypeInv, Planned, Sequential
    <3> QED
      BY <3>1, ElementOfSeq DEF TypeInv, TypeOK, Planned, OnPath
  <2>2. Len(Shown(results)) + Counted(ERROR) = Len(selected)
    BY <2>1, ShownAndErrors
  <2>3. Len(UnknownMarkets(results)) = Counted(UNKNOWN)
    BY <2>1, UnknownCounted
  <2>4. ASSUME NEW s \in LiveScenarios(results) PROVE s.pendleMarket \in PendleRows(results)
    <3>1. PICK i \in Fine : \E p \in DOMAIN results[i].pendle :
            Usable(results[i].pendle[p]) /\ s.pendleMarket = p
      BY ScenarioOf
    <3>2. PICK j \in DOMAIN Shown(results) : Shown(results)[j] = results[i]
      BY <2>1, ShownHere
    <3> QED
      BY <3>1, <3>2 DEF PendleRows, Usable
  <2>5. ASSUME Candidates(results) # {}
        PROVE  LargestTwapScenario(results).twapDuration \in TwapDurations(results)
    <3> DEFINE s == LargestTwapScenario(results)
    <3>1. s \in LiveScenarios(results) /\ s.twapDuration # NoWindow
      BY <2>1, <2>5, LargestIsCandidate DEF Candidates
    <3> HIDE DEF s
    <3>2. PICK i \in Fine : \E p \in DOMAIN results[i].pendle :
            s.twapDuration = TwapDuration(results[i], p)
      BY <3>1, ScenarioOf
    <3> DEFINE r == results[i]
    <3>3. r.nodes \in Seq(Node)
      BY <2>1 DEF Fine
    <3>4. PICK p : s.twapDuration = TwapDuration(r, p)
      BY <3>2
    <3>5. PICK j \in DOMAIN Shown(results) : Shown(results)[j] = r
      BY <2>1, ShownHere
    <3> HIDE DEF r
    <3>6. PICK n \in Range(r.nodes) : Twap(n) /\ Window[n.addr] = s.twapDuration
      BY <3>1, <3>3, <3>4, WindowOfLeaf
    <3> DEFINE ns == r.nodes
               d == Defences(ns)
    <3>7. Counts(d, ns)
      <4>1. ns \in Seq(Node)
        BY <3>3
      <4> HIDE DEF ns
      <4> QED
        BY <4>1, DefencesCount
    <3>8. s.twapDuration \in Range(d.twapWindows)
      <4> HIDE DEF d
      <4> QED
        BY <3>1, <3>6, <3>7 DEF Counts, NoWindow
    <3> QED
      BY <3>5, <3>8 DEF TwapDurations, s
  <2>6. ASSUME NEW r \in Range(Shown(results))
        PROVE  LET d == Defences(r.nodes)
               IN  AppliesPtDiscount(r)
                     <=> Len(d.twapWindows) + d.spotMarketReads + d.marketIndependentFeeds > 0
    <3> DEFINE ns == r.nodes
               d == Defences(ns)
               x == Len(d.twapWindows)
               y == d.spotMarketReads
               z == d.marketIndependentFeeds
    <3>1. ns \in Seq(Node)
      <4>1. r \in {results[i] : i \in Fine}
        BY <2>1, ShownAre
      <4> QED
        BY <2>1, <4>1 DEF Fine
    <3> HIDE DEF ns
    <3>2. Counts(d, ns)
      BY <3>1, DefencesCount
    <3>3. Leaves(ns) \in Seq(Node) /\ Range(Leaves(ns)) = {n \in Range(ns) : n.kind \in PT_LEAF_KINDS}
      BY <3>1, LeavesAre
    <3>4. AppliesPtDiscount(r) <=> \E n \in Range(ns) : n.kind \in PT_LEAF_KINDS
      <4> DEFINE l == Leaves(ns)
      <4>1. l \in Seq(Node) /\ (AppliesPtDiscount(r) <=> l # << >>)
        BY <3>3 DEF AppliesPtDiscount, ns
      <4> HIDE DEF l
      <4>2. l # << >> <=> \E n \in Range(l) : TRUE
        BY <4>1, RangesAre
      <4> QED
        BY <3>3, <4>1, <4>2 DEF l
    <3>5. (\E n \in Range(ns) : n.kind \in PT_LEAF_KINDS) <=> (x > 0 \/ y > 0 \/ z > 0)
      <4>1. x > 0 <=> \E n \in Range(ns) : Twap(n) /\ Window[n.addr] # 0
        BY <3>2 DEF Counts
      <4>2. y > 0 <=> \E n \in Range(ns) : Twap(n) /\ Window[n.addr] = 0
        BY <3>2 DEF Counts
      <4>3. z > 0 <=> \E n \in Range(ns) : n.kind = "PendleSparkLinearDiscountOracle"
        BY <3>2 DEF Counts
      <4> HIDE DEF x, y, z
      <4> QED
        BY <4>1, <4>2, <4>3 DEF Twap, PT_LEAF_KINDS
    <3>6. x \in Nat /\ y \in Nat /\ z \in Nat
      BY <3>2 DEF Counts
    <3> HIDE DEF x, y, z, d
    <3>7. x + y + z > 0 <=> (x > 0 \/ y > 0 \/ z > 0)
      BY <3>6
    <3> QED
      BY <3>4, <3>5, <3>7 DEF x, y, z, d, ns
  <2> QED
    BY <2>2, <2>3, <2>4, <2>5, <2>6 DEF MapAddsUp, Counted
<1> QED
  BY <1>1, TypeInit, TypeStep, PathInit, PathStep, PTL DEF Spec
=================================================================================
