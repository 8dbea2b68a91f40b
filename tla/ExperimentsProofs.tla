--------------------------- MODULE ExperimentsProofs ---------------------------
(***************************************************************************)
(* What holds of the searches, of the loop and of the rows for every pool, *)
(* price, depth and grid.  The first half uses of the curve only where it  *)
(* refuses a trade; the second, from the logarithm's series on, that its   *)
(* rounded price rises with what is bought.                                *)
(***************************************************************************)
EXTENDS Experiments, FiniteSetTheorems, WellFoundedInduction, TLAPS

LEMMA TimesNat ==
  ASSUME NEW a \in Nat, NEW b \in Nat
  PROVE  Times(a, b) \in Nat
<1>1. a * b \in Nat
  BY SMT
<1> QED
  BY <1>1, OneAssumption, SMT DEF Times

LEMMA DivMonotone ==
  ASSUME NEW a \in Nat, NEW b \in Nat, NEW d \in Nat \ {0}, a <= b
  PROVE  a \div d <= b \div d
<1> DEFINE q == a \div d
           r == b \div d
<1>1. q \in Nat /\ r \in Nat /\ d * q <= a /\ b < d * r + d
  BY SMT
<1> HIDE DEF q, r
<1>2. ASSUME r + 1 <= q PROVE FALSE
  <2>1. d * (r + 1) <= d * q
    BY <1>1, <1>2, SMT
  <2> QED
    BY <1>1, <2>1, SMT
<1>3. q <= r
  BY <1>1, <1>2, SMT
<1> QED
  BY <1>3 DEF q, r

LEMMA TimesMonotone ==
  ASSUME NEW a \in Nat, NEW b \in Nat, NEW c \in Nat, a <= b
  PROVE  Times(a, c) <= Times(b, c)
<1>1. a * c \in Nat /\ b * c \in Nat /\ a * c <= b * c
  BY SMT
<1> QED
  BY <1>1, OneAssumption, DivMonotone DEF Times

(* A fraction of an amount is not more than the amount.                    *)
LEMMA TimesFraction ==
  ASSUME NEW a \in Nat, NEW f \in 0 .. ONE
  PROVE  Times(a, f) <= a
<1>1. ONE \in Nat \ {0} /\ f \in Nat
  BY OneAssumption, SMT
<1>2. a * f \in Nat /\ a * ONE \in Nat /\ a * f <= a * ONE
  BY <1>1, SMT
<1>3. (a * f) \div ONE <= (a * ONE) \div ONE
  BY <1>1, <1>2, DivMonotone
<1>4. (a * ONE) \div ONE = a
  BY <1>1, SMT
<1> QED
  BY <1>3, <1>4 DEF Times

LEMMA ExpAboveOne ==
  ASSUME NEW x \in Nat
  PROVE  Exp(x) \in Nat /\ Exp(x) >= ONE
<1> DEFINE s == Times(x, x)
           c == Times(s, x)
           q == Times(s, s)
<1>1. s \in Nat /\ c \in Nat /\ q \in Nat
  BY TimesNat
<1>2. s \div 2 \in Nat /\ c \div 6 \in Nat /\ q \div 24 \in Nat
  <2> HIDE DEF s, c, q
  <2> QED
    BY <1>1, SMT
<1>3. Exp(x) = ONE + x + s \div 2 + c \div 6 + q \div 24
  BY DEF Exp
<1> HIDE DEF s, c, q
<1> QED
  BY <1>2, <1>3, OneAssumption, SMT

LEMMA ExpAtLeastOne ==
  ASSUME NEW x \in Nat
  PROVE  Exp(x) \in Nat \ {0}
BY ExpAboveOne, OneAssumption, SMT

(* The fields a price is read from, and the PT reserve.                    *)
Priced(m) ==
  /\ {"totalPt", "lastLnImpliedRate", "expiry", "syIndex", "pyIndex"} \subseteq DOMAIN m
  /\ m.totalPt \in Nat /\ m.lastLnImpliedRate \in Nat /\ m.expiry \in Nat
  /\ m.syIndex \in Nat /\ m.pyIndex \in Nat

LEMMA MarketPriced == \A m \in Market : Priced(m)
BY SMT DEF Market, Priced

(* A price read from a pool is never negative, whatever the SY lost.       *)
LEMMA PriceNat ==
  ASSUME NEW m, Priced(m)
  PROVE  MarketImpliedValue(m, BlockTime) \in Nat
<1> DEFINE left == m.expiry - BlockTime
           raw  == PtToAssetRateFromLnImpliedRate(m.lastLnImpliedRate, left)
<1>1. left \in Int /\ m.lastLnImpliedRate \in Nat /\ m.syIndex \in Nat /\ m.pyIndex \in Nat
  BY SearchAssumption, SMT DEF Priced
<1>2. raw \in Nat
  <2> HIDE DEF left
  <2>1. CASE left <= 0
    BY <2>1, OneAssumption DEF PtToAssetRateFromLnImpliedRate
  <2>2. CASE ~ (left <= 0)
    <3> DEFINE e == Exp((m.lastLnImpliedRate * left) \div YEAR)
    <3>1. left \in Nat
      BY <1>1, <2>2, SMT
    <3>2. m.lastLnImpliedRate * left \in Nat
      BY <1>1, <3>1, SMT
    <3>3. (m.lastLnImpliedRate * left) \div YEAR \in Nat
      BY <3>2, YearAssumption, SMT
    <3>4. e \in Nat \ {0}
      BY <3>3, ExpAtLeastOne
    <3>5. raw = (ONE * ONE) \div e
      BY <2>2 DEF PtToAssetRateFromLnImpliedRate, ExchangeRateFromImpliedRate, Ratio
    <3>6. ONE * ONE \in Nat
      BY OneAssumption, SMT
    <3> HIDE DEF e
    <3> QED
      BY <3>4, <3>5, <3>6, SMT
  <2> QED
    BY <2>1, <2>2
<1>3. MarketImpliedValue(m, BlockTime)
        = IF m.syIndex >= m.pyIndex THEN raw ELSE (raw * m.syIndex) \div m.pyIndex
  BY DEF MarketImpliedValue, PtToAssetRate
<1> HIDE DEF raw, left
<1>4. CASE m.syIndex >= m.pyIndex
  BY <1>2, <1>3, <1>4
<1>5. CASE ~ (m.syIndex >= m.pyIndex)
  <2>1. m.pyIndex \in Nat \ {0} /\ raw * m.syIndex \in Nat
    BY <1>1, <1>2, <1>5, SMT
  <2>2. (raw * m.syIndex) \div m.pyIndex \in Nat
    BY <2>1, SMT
  <2> QED
    BY <1>3, <1>5, <2>2
<1> QED
  BY <1>4, <1>5

------------------------------------------------------------------------------
(* The sweep and its combinations, and what a reshaped pool keeps.         *)
GridInv ==
  /\ anchor \in Anchors
  /\ todo \subseteq Combinations(Sweep)

LEMMA GridStep == GridInv /\ [Next]_vars => GridInv'
<1> SUFFICES ASSUME GridInv, [Next]_vars PROVE GridInv'
  OBVIOUS
<1>1. CASE NextSweep
  <2>1. phase' = phase + 1 /\ todo' = Combinations(PHASES[phase + 1]) /\ anchor' = anchor
    BY <1>1 DEF NextSweep
  <2>2. todo' = Combinations(Sweep')
    BY <2>1, Zenon DEF Sweep
  <2> QED
    BY <2>1, <2>2 DEF GridInv
<1>2. ASSUME UNCHANGED <<anchor, phase>>, todo' \subseteq todo PROVE GridInv'
  BY <1>2, Zenon DEF GridInv, Sweep
<1>3. ASSUME NEW made, NEW n, RowsMade(made, n) PROVE GridInv'
  BY <1>2, <1>3, Zenon DEF RowsMade
<1>4. CASE PortValidationRow \/ MaturityRow \/ DisplacementRow \/ TransmissionRow
           \/ PropagationRow \/ LeverageRow \/ StressRow
  BY <1>3, <1>4, Zenon DEF PortValidationRow, MaturityRow, DisplacementRow, TransmissionRow,
       PropagationRow, LeverageRow, StressRow
<1>5. CASE StartDisplacement \/ StartTransmission \/ StartLeverage \/ StartStress
           \/ StressSearch \/ Searching \/ Looping \/ UNCHANGED vars
  BY <1>2, <1>5, Zenon DEF StartDisplacement, StartTransmission, StartLeverage, StartStress,
       StressSearch, Searching, Looping, vars
<1> QED
  BY <1>1, <1>4, <1>5, Zenon DEF Next

LEMMA ReshapePriced ==
  ASSUME NEW m, Priced(m), NEW t \in HORIZONS, NEW scale \in LIQUIDITY_SCALES
  PROVE  Priced(Reshape(m, t, scale))
<1>1. t \in Nat /\ scale \in Nat /\ BlockTime \in Nat
  BY GridAssumption, SearchAssumption
<1>2. m.totalPt * scale \in Nat /\ BlockTime + t \in Nat
  BY <1>1, SMT DEF Priced
<1> QED
  BY <1>2, SMT DEF Priced, Reshape

------------------------------------------------------------------------------
(***************************************************************************)
(* The displacement search.                                                *)
(***************************************************************************)

(* Reaches for any market and fraction.                                    *)
ReachesIn(m, fraction, size) ==
  /\ Takes(m, size, BlockTime)
  /\ PriceAfter(m, size) >= Times(MarketImpliedValue(m, BlockTime), ONE + fraction)

LEMMA ReachesMeans ==
  \A size : Reaches(size) <=> ReachesIn(search.market, search.fraction, size)
BY Zenon DEF Reaches, ReachesIn, TargetPrice, BasePrice

(* The bracket: the lower end does not reach the price, the upper end does *)
(* once the doubling is over.                                              *)
Bracketed(s) ==
  /\ DOMAIN s = {"market", "fraction", "lo", "hi", "status"}
  /\ s.lo \in Nat /\ s.hi \in Nat /\ s.lo <= s.hi
  /\ s.status \in {"bracket", "aboveCeiling", "unreachable", "bisect", "found"}
  /\ s.status = "bracket" => s.lo = 0
  /\ s.lo > 0 => ~ ReachesIn(s.market, s.fraction, s.lo)
  /\ s.status \in {"bisect", "found"} => ReachesIn(s.market, s.fraction, s.hi)
  /\ s.status = "found" => s.hi - s.lo <= 1

SearchInv == search = SearchIdle \/ Bracketed(search)

LEMMA IdleNotBracketed == SearchIdle.status = "idle"
BY DEF SearchIdle

LEMMA SolveBracketed ==
  ASSUME NEW m, m.totalPt \in Nat, NEW fraction, Solve(m, fraction)
  PROVE  SearchInv'
<1> DEFINE st == IF fraction > MaxUpwardDisplacement(MarketImpliedValue(m, BlockTime))
                 THEN "aboveCeiling" ELSE "bracket"
           h  == m.totalPt \div FIRST_SIZE
<1>1. h \in Nat
  BY SearchAssumption, SMT
<1>2. st \in {"aboveCeiling", "bracket"}
  OBVIOUS
<1>3. search' = [market |-> m, fraction |-> fraction, lo |-> 0, hi |-> h, status |-> st]
  BY DEF Solve
<1> HIDE DEF st, h
<1>4. Bracketed(search')
  BY <1>1, <1>2, <1>3, SMT DEF Bracketed
<1> QED
  BY <1>4 DEF SearchInv

LEMMA SearchStepBracketed == Bracketed(search) /\ SearchStep => Bracketed(search')
<1> SUFFICES ASSUME Bracketed(search), SearchStep PROVE Bracketed(search')
  OBVIOUS
<1> DEFINE m == search.market
           f == search.fraction
<1>1. CASE Bracket
  <2>1. CASE search' = [search EXCEPT !.status = "unreachable"]
    BY <2>1, SMT DEF Bracketed
  <2>2. CASE /\ Reaches(search.hi)
             /\ search' = [search EXCEPT !.status = "bisect"]
    <3>1. ReachesIn(m, f, search.hi)
      BY <2>2, ReachesMeans
    <3>2. search.lo = 0
      BY <1>1, SMT DEF Bracket, Bracketed
    <3> QED
      BY <2>2, <3>1, <3>2, SMT DEF Bracketed
  <2>3. CASE \E st \in {"bracket", "unreachable"} :
               search' = [search EXCEPT !.hi = 2 * @, !.status = st]
    <3>1. search.lo = 0
      BY <1>1, SMT DEF Bracket, Bracketed
    <3> QED
      BY <2>3, <3>1, SMT DEF Bracketed
  <2>4. search.status = "bracket"
    BY <1>1 DEF Bracket
  <2>5. CASE ~ Takes(search.market, search.hi, BlockTime)
    BY <1>1, <2>1, <2>5, Zenon DEF Bracket
  <2>6. CASE Takes(search.market, search.hi, BlockTime)
    <3>1. CASE PriceAfter(search.market, search.hi) >= TargetPrice
      BY <1>1, <2>2, <2>6, <3>1, Zenon DEF Bracket, Reaches
    <3>2. CASE ~ (PriceAfter(search.market, search.hi) >= TargetPrice)
      <4>1. search' = [search EXCEPT !.hi = 2 * @,
                                     !.status = IF TooLarge(2 * search.hi)
                                                THEN "unreachable" ELSE @]
        BY <1>1, <2>6, <3>2, Zenon DEF Bracket
      <4>2. CASE TooLarge(2 * search.hi)
        BY <2>3, <4>1, <4>2
      <4>3. CASE ~ TooLarge(2 * search.hi)
        BY <2>3, <2>4, <4>1, <4>3
      <4> QED
        BY <4>2, <4>3
    <3> QED
      BY <3>1, <3>2
  <2> QED
    BY <2>5, <2>6
<1>2. CASE Bisect
  <2> DEFINE mid == (search.lo + search.hi) \div 2
  <2>1. mid \in Nat /\ search.lo <= mid /\ mid <= search.hi
    BY SMT DEF Bracketed
  <2>2. LET half == Half(mid)
        IN  search' = [search EXCEPT !.lo = half[1], !.hi = half[2],
                                     !.status = IF half[2] - half[1] <= 1 THEN "found" ELSE @]
    BY <1>2, Zenon DEF Bisect
  <2>3. search.status = "bisect"
    BY <1>2 DEF Bisect
  <2> HIDE DEF mid
  <2>4. CASE Reaches(mid)
    <3>1. Half(mid) = <<search.lo, mid>> /\ ReachesIn(m, f, mid)
      BY <2>4, ReachesMeans DEF Half
    <3>2. search' = [search EXCEPT !.lo = search.lo, !.hi = mid,
                       !.status = IF mid - search.lo <= 1 THEN "found" ELSE @]
      BY <2>2, <3>1
    <3> QED
      BY <2>1, <2>3, <3>1, <3>2, SMT DEF Bracketed
  <2>5. CASE ~ Reaches(mid)
    <3>1. Half(mid) = <<mid, search.hi>> /\ ~ ReachesIn(m, f, mid)
      BY <2>5, ReachesMeans DEF Half
    <3>2. search' = [search EXCEPT !.lo = mid, !.hi = search.hi,
                       !.status = IF search.hi - mid <= 1 THEN "found" ELSE @]
      BY <2>2, <3>1
    <3> QED
      BY <2>1, <2>3, <3>1, <3>2, SMT DEF Bracketed
  <2> QED
    BY <2>4, <2>5
<1> QED
  BY <1>1, <1>2 DEF SearchStep

------------------------------------------------------------------------------
(***************************************************************************)
(* The leverage loop.                                                      *)
(***************************************************************************)

(* Feasible for any pool, of which only this matters: a purchase leaves PT.*)
FeasibleIn(m, pt) ==
  /\ Open(m, BlockTime)
  /\ ~ RefusesTrade(m, MarketPreCompute(m, BlockTime), pt)

LEMMA FeasibleMeans == \A pt : Feasible(pt) <=> FeasibleIn(loop.market, pt)
BY Zenon DEF Feasible, FeasibleIn

LEMMA PurchaseLeavesPt ==
  ASSUME NEW m, m.totalPt \in Nat, NEW pt \in Nat, FeasibleIn(m, pt)
  PROVE  m.totalPt - pt \in Nat
<1> DEFINE part == m.totalPt - pt
           comp == MarketPreCompute(m, BlockTime)
<1>1. ~ (part <= 0)
  <2>1. ~ OffCurve(comp, part, m.totalPt + comp.totalAsset)
    BY Zenon DEF FeasibleIn, RefusesTrade
  <2> HIDE DEF part, comp
  <2> QED
    BY <2>1, Zenon DEF OffCurve
<1> HIDE DEF comp
<1> QED
  BY <1>1, SMT

LEMMA TradeMovesPt ==
  ASSUME NEW m, "totalPt" \in DOMAIN m, NEW pt
  PROVE  LET next == ExecuteTrade(m, pt, BlockTime).market
         IN  next.totalPt = m.totalPt - pt /\ "totalPt" \in DOMAIN next
<1> DEFINE comp  == MarketPreCompute(m, BlockTime)
           trade == CalcTrade(m, comp, pt)
           after == After(m, trade, pt)
           rate  == LnImpliedRateAt(after.totalPt, SyToAsset(after.index, after.totalSy), comp)
           next  == [after EXCEPT !.lastLnImpliedRate = rate]
<1>1. ExecuteTrade(m, pt, BlockTime).market = next
  BY DEF ExecuteTrade
<1>2. after.totalPt = m.totalPt - pt /\ "totalPt" \in DOMAIN after
  <2> HIDE DEF trade
  <2> QED
    BY SMT DEF After
<1> HIDE DEF after, rate
<1>3. next.totalPt = after.totalPt /\ "totalPt" \in DOMAIN next
  BY <1>2, SMT
<1> HIDE DEF next
<1> QED
  BY <1>1, <1>2, <1>3

LEMMA BorrowNat ==
  ASSUME NEW c \in Nat, NEW p \in Nat, NEW lltv \in Nat
  PROVE  MaxBorrow(c, p, lltv) \in Nat
BY TimesNat DEF MaxBorrow

LEMMA BorrowMonotone ==
  ASSUME NEW a \in Nat, NEW b \in Nat, NEW p \in Nat, NEW lltv \in Nat, a <= b
  PROVE  MaxBorrow(a, p, lltv) <= MaxBorrow(b, p, lltv)
<1>1. Times(a, p) \in Nat /\ Times(b, p) \in Nat /\ Times(a, p) <= Times(b, p)
  BY TimesNat, TimesMonotone
<1> QED
  BY <1>1, TimesMonotone DEF MaxBorrow

(* The position and its pool.                                              *)
Backed(l) ==
  /\ {"status", "market", "opening", "initialPt", "oraclePrice", "lltv", "depth",
      "achievedDepth", "collateralPt", "debt", "ammFeesPaid", "assetSpent", "fellBack"}
       = DOMAIN l
  /\ l.status \in {"borrow", "double", "fallback", "bisect", "sized", "done"}
  /\ l.initialPt \in Nat /\ l.oraclePrice \in Nat /\ l.lltv \in Nat
  /\ l.collateralPt \in Nat /\ l.debt \in Nat
  /\ l.opening.totalPt \in Nat
  /\ "totalPt" \in DOMAIN l.market /\ l.market.totalPt \in Nat
  /\ l.market.totalPt + l.collateralPt = l.opening.totalPt + l.initialPt
  /\ l.debt <= MaxBorrow(l.collateralPt, l.oraclePrice, l.lltv)

(* The purchase being sized: the loan that pays for it is within the limit *)
(* with the collateral there is, and the pool takes the size kept.         *)
Sizing(l, b) ==
  /\ {"budget", "lo", "hi", "rounds"} = DOMAIN b
  /\ b.budget \in Nat /\ b.lo \in Nat /\ b.hi \in Nat
  /\ l.debt + b.budget <= MaxBorrow(l.collateralPt, l.oraclePrice, l.lltv)
  /\ b.lo = 0 \/ FeasibleIn(l.market, b.lo)

LoopInv ==
  \/ loop = LoopIdle
  \/ /\ Backed(loop)
     /\ loop.status \in {"double", "fallback", "bisect", "sized"} => Sizing(loop, buy)

LEMMA RunBacked ==
  ASSUME NEW m, Priced(m), NEW pt \in Nat, NEW price \in Nat, NEW lltv \in Nat, NEW depth,
         RunLoop(pt, m, price, lltv, depth)
  PROVE  LoopInv'
<1>1. 0 <= MaxBorrow(pt, price, lltv)
  BY BorrowNat, SMT
<1>2. Backed(loop')
  BY <1>1, SMT DEF RunLoop, Backed, Priced
<1>3. loop'.status = "borrow"
  BY SMT DEF RunLoop
<1> QED
  BY <1>2, <1>3, SMT DEF LoopInv

(* A step that only changes where the loop stands keeps the position.      *)
LEMMA StatusBacked ==
  ASSUME NEW l, Backed(l), NEW st \in {"borrow", "double", "fallback", "bisect", "sized", "done"},
         NEW fb
  PROVE  /\ Backed([l EXCEPT !.status = st])
         /\ Backed([l EXCEPT !.status = st, !.fellBack = fb])
         /\ \A b : Sizing(l, b) => /\ Sizing([l EXCEPT !.status = st], b)
                                   /\ Sizing([l EXCEPT !.status = st, !.fellBack = fb], b)
<1>1. Backed([l EXCEPT !.status = st])
  BY SMT DEF Backed
<1>2. Backed([l EXCEPT !.status = st, !.fellBack = fb])
  BY SMT DEF Backed
<1>3. ASSUME NEW b, Sizing(l, b) PROVE Sizing([l EXCEPT !.status = st], b)
  BY <1>3, SMT DEF Backed, Sizing
<1>4. ASSUME NEW b, Sizing(l, b) PROVE Sizing([l EXCEPT !.status = st, !.fellBack = fb], b)
  BY <1>4, SMT DEF Backed, Sizing
<1> QED
  BY <1>1, <1>2, <1>3, <1>4

LEMMA LoopStepBacked ==
  ASSUME Backed(loop),
         loop.status \in {"double", "fallback", "bisect", "sized"} => Sizing(loop, buy),
         LoopStep
  PROVE  LoopInv'
<1> DEFINE statuses == {"borrow", "double", "fallback", "bisect", "sized", "done"}
           sizes    == {"double", "fallback", "bisect", "sized"}
<1>1. ASSUME NEW st \in statuses, loop' = [loop EXCEPT !.status = st],
             st \in sizes => Sizing(loop, buy')
      PROVE  LoopInv'
  <2> DEFINE next == [loop EXCEPT !.status = st]
  <2>1. Backed(next) /\ (\A b : Sizing(loop, b) => Sizing(next, b))
    BY StatusBacked
  <2>2. next.status = st
    BY SMT DEF Backed
  <2>3. loop' = next
    BY <1>1
  <2> HIDE DEF next
  <2> QED
    BY <1>1, <2>1, <2>2, <2>3 DEF LoopInv
<1>f. ASSUME NEW st \in statuses, loop' = [loop EXCEPT !.status = st, !.fellBack = TRUE],
             st \in sizes => Sizing(loop, buy')
      PROVE  LoopInv'
  <2> DEFINE next == [loop EXCEPT !.status = st, !.fellBack = TRUE]
  <2>1. Backed(next) /\ (\A b : Sizing(loop, b) => Sizing(next, b))
    BY StatusBacked
  <2>2. next.status = st
    BY SMT DEF Backed
  <2>3. loop' = next
    BY <1>f
  <2> HIDE DEF next
  <2> QED
    BY <1>f, <2>1, <2>2, <2>3 DEF LoopInv
<1>2. CASE Borrow
  <2>1. CASE loop.achievedDepth = loop.depth \/ Headroom <= 0
    <3>1. loop' = [loop EXCEPT !.status = "done"]
      BY <1>2, <2>1 DEF Borrow
    <3> QED
      BY <1>1, <3>1, Zenon
  <2>2. CASE ~ (loop.achievedDepth = loop.depth \/ Headroom <= 0)
    <3> DEFINE cap    == MaxBorrow(loop.collateralPt, loop.oraclePrice, loop.lltv)
               budget == Times(cap - loop.debt, BORROW_UTILISATION)
    <3>1. cap \in Nat /\ loop.debt \in Nat /\ loop.debt <= cap
      BY BorrowNat DEF Backed
    <3>2. budget \in Nat /\ budget <= cap - loop.debt
      <4> HIDE DEF cap
      <4>1. cap - loop.debt \in Nat
        BY <3>1, SMT
      <4>2. BORROW_UTILISATION \in Nat
        BY UtilisationAssumption, OneAssumption, SMT
      <4> QED
        BY <4>1, <4>2, TimesNat, TimesFraction, UtilisationAssumption
    <3>3. loop' = [loop EXCEPT !.status = "double"]
      BY <1>2, <2>2 DEF Borrow
    <3>4. buy' = [budget |-> budget, lo |-> 0, hi |-> budget, rounds |-> 0]
      BY <1>2, <2>2 DEF Borrow, Headroom
    <3>5. loop.debt + budget <= cap
      <4> HIDE DEF cap, budget
      <4> QED
        BY <3>1, <3>2, SMT
    <3>6. Sizing(loop, buy')
      <4> HIDE DEF budget
      <4> QED
        BY <3>2, <3>4, <3>5, SMT DEF Sizing
    <3> QED
      BY <1>1, <3>3, <3>6, Zenon
  <2> QED
    BY <2>1, <2>2
<1>3. CASE Double
  <2>1. loop.status = "double" /\ Sizing(loop, buy)
    BY <1>3 DEF Double
  <2>2. CASE ~ Short(buy.hi)
    <3>1. loop' = [loop EXCEPT !.status = "bisect"] /\ buy' = buy
      BY <1>3, <2>2 DEF Double
    <3> QED
      BY <1>1, <2>1, <3>1, Zenon
  <2>3. CASE Short(buy.hi)
    <3>1. buy' = [buy EXCEPT !.hi = 2 * @]
      BY <1>3, <2>3 DEF Double
    <3>2. Sizing(loop, buy')
      BY <2>1, <3>1, SMT DEF Sizing
    <3>3. PICK st \in sizes : loop' = [loop EXCEPT !.status = st]
      BY <1>3, <2>1, <2>3 DEF Double
    <3> QED
      BY <1>1, <3>2, <3>3, Zenon
  <2> QED
    BY <2>2, <2>3
<1>4. CASE Fallback
  <2>1. loop.status = "fallback" /\ Sizing(loop, buy)
    BY <1>4 DEF Fallback
  <2>2. Probe \in Nat /\ loop.market.totalPt \in Nat
    <3>1. loop.market.totalPt \in Nat /\ buy.hi \in Nat
      BY <2>1 DEF Backed, Sizing
    <3> QED
      BY <3>1, SMT DEF Probe
  <2>3. Sizing(loop, buy')
    <3>1. CASE Feasible(Probe)
      <4>1. buy' = [buy EXCEPT !.lo = Probe, !.hi = (Probe + loop.market.totalPt) \div 2,
                               !.rounds = @ + 1]
        BY <1>4, <3>1, Zenon DEF Fallback
      <4>2. (Probe + loop.market.totalPt) \div 2 \in Nat
        BY <2>2, SMT
      <4>3. FeasibleIn(loop.market, Probe)
        BY <3>1, FeasibleMeans
      <4> QED
        BY <2>1, <2>2, <4>1, <4>2, <4>3, SMT DEF Sizing
    <3>2. CASE ~ Feasible(Probe)
      <4>1. buy' = [buy EXCEPT !.hi = (buy.lo + Probe) \div 2, !.rounds = @ + 1]
        BY <1>4, <3>2, Zenon DEF Fallback
      <4>2. (buy.lo + Probe) \div 2 \in Nat
        BY <2>1, <2>2, SMT DEF Sizing
      <4> QED
        BY <2>1, <4>1, <4>2, SMT DEF Sizing
    <3> QED
      BY <3>1, <3>2
  <2>4. loop' = [loop EXCEPT !.status = IF buy.rounds + 1 = MaxIter THEN "sized" ELSE @,
                             !.fellBack = TRUE]
    BY <1>4 DEF Fallback
  <2>5. PICK st \in sizes : loop' = [loop EXCEPT !.status = st, !.fellBack = TRUE]
    <3>1. CASE buy.rounds + 1 = MaxIter
      BY <2>4, <3>1
    <3>2. CASE buy.rounds + 1 # MaxIter
      BY <2>1, <2>4, <3>2
    <3> QED
      BY <3>1, <3>2
  <2> QED
    BY <1>f, <2>3, <2>5
<1>5. CASE BisectBudget
  <2>1. loop.status = "bisect" /\ Sizing(loop, buy)
    BY <1>5 DEF BisectBudget
  <2> DEFINE mid == (buy.lo + buy.hi) \div 2
             b   == IF Affordable(mid) THEN [buy EXCEPT !.lo = mid] ELSE [buy EXCEPT !.hi = mid]
  <2>2. mid \in Nat
    BY <2>1, SMT DEF Sizing
  <2>3. buy' = b /\ loop' = [loop EXCEPT !.status = IF b.hi - b.lo <= 1 THEN "sized" ELSE @]
    BY <1>5 DEF BisectBudget
  <2> HIDE DEF mid
  <2>4. Sizing(loop, b)
    <3>1. CASE Affordable(mid)
      <4>1. FeasibleIn(loop.market, mid)
        BY <3>1, FeasibleMeans DEF Affordable
      <4> QED
        BY <2>1, <2>2, <3>1, <4>1, SMT DEF Sizing
    <3>2. CASE ~ Affordable(mid)
      BY <2>1, <2>2, <3>2, SMT DEF Sizing
    <3> QED
      BY <3>1, <3>2
  <2> HIDE DEF b
  <2>5. PICK st \in sizes : loop' = [loop EXCEPT !.status = st]
    BY <2>1, <2>3
  <2> QED
    BY <1>1, <2>3, <2>4, <2>5, Zenon
<1>6. CASE Buy
  <2>1. loop.status = "sized" /\ Sizing(loop, buy)
    BY <1>6 DEF Buy
  <2>2. CASE buy.lo = 0
    <3>1. loop' = [loop EXCEPT !.status = "done"]
      BY <1>6, <2>2 DEF Buy
    <3> QED
      BY <1>1, <3>1, Zenon
  <2>3. CASE buy.lo # 0
    <3> DEFINE exec == ExecuteTrade(loop.market, buy.lo, BlockTime)
               fees == loop.ammFeesPaid + exec.trade.netAssetFee
               next == exec.market
               paid == loop.assetSpent - exec.trade.netAssetToAccount
               more == loop.collateralPt + buy.lo
               owed == loop.debt + buy.budget
               deep == Deeper
    <3>1. loop' = [loop EXCEPT !.status = "borrow", !.market = next, !.ammFeesPaid = fees,
                               !.assetSpent = paid, !.collateralPt = more, !.debt = owed,
                               !.achievedDepth = deep]
      BY <1>6, <2>3 DEF Buy
    <3>2. /\ buy.lo \in Nat /\ buy.budget \in Nat /\ FeasibleIn(loop.market, buy.lo)
          /\ owed <= MaxBorrow(loop.collateralPt, loop.oraclePrice, loop.lltv)
      BY <2>1, <2>3 DEF Sizing
    <3>3. /\ loop.collateralPt \in Nat /\ loop.debt \in Nat /\ loop.market.totalPt \in Nat
          /\ "totalPt" \in DOMAIN loop.market /\ loop.oraclePrice \in Nat /\ loop.lltv \in Nat
          /\ loop.market.totalPt + loop.collateralPt = loop.opening.totalPt + loop.initialPt
      BY DEF Backed
    <3>4. next.totalPt = loop.market.totalPt - buy.lo /\ "totalPt" \in DOMAIN next
      BY <3>3, TradeMovesPt
    <3>5. next.totalPt \in Nat
      BY <3>2, <3>3, <3>4, PurchaseLeavesPt
    <3> HIDE DEF next
    <3>6. next.totalPt + more = loop.opening.totalPt + loop.initialPt
      BY <3>2, <3>3, <3>4, SMT
    <3>7. more \in Nat /\ owed \in Nat
      BY <3>2, <3>3, SMT
    <3>8. owed <= MaxBorrow(more, loop.oraclePrice, loop.lltv)
      <4>1. loop.collateralPt <= more
        BY <3>2, <3>3, SMT
      <4>2. MaxBorrow(loop.collateralPt, loop.oraclePrice, loop.lltv)
              <= MaxBorrow(more, loop.oraclePrice, loop.lltv)
        BY <3>3, <3>7, <4>1, BorrowMonotone
      <4>3. /\ MaxBorrow(loop.collateralPt, loop.oraclePrice, loop.lltv) \in Nat
            /\ MaxBorrow(more, loop.oraclePrice, loop.lltv) \in Nat
        BY <3>3, <3>7, BorrowNat
      <4> HIDE DEF owed, more
      <4> QED
        BY <3>2, <3>7, <4>2, <4>3, SMT
    <3> HIDE DEF fees, paid, more, owed, deep
    <3>9. loop'.status = "borrow"
      BY <3>1, SMT DEF Backed
    <3>10. Backed(loop')
      BY <3>1, <3>4, <3>5, <3>6, <3>7, <3>8, SMT DEF Backed
    <3> QED
      BY <3>9, <3>10, SMT DEF LoopInv
  <2> QED
    BY <2>2, <2>3
<1> QED
  BY <1>2, <1>3, <1>4, <1>5, <1>6 DEF LoopStep

------------------------------------------------------------------------------
(***************************************************************************)
(* The whole program.                                                      *)
(***************************************************************************)
Inv == GridInv /\ SearchInv /\ LoopInv

LEMMA OpeningStarts ==
  ASSUME GridInv, todo # {}
  PROVE  /\ Sweep \in {"displacement", "stress"} =>
              /\ Combination[1] \in HORIZONS /\ Combination[2] \in LIQUIDITY_SCALES
         /\ Sweep = "leverage" =>
              /\ Combination[1] \in DISPLACEMENTS /\ Combination[3] \in OWN_SHARES
         /\ Sweep = "stress" =>
              /\ Combination[3] \in LLTVS /\ Combination[5] \in DISPLACEMENTS
<1>1. Combination \in Combinations(Sweep)
  BY Zenon DEF GridInv, Combination
<1>2. CASE Sweep = "displacement"
  <2>1. Combination \in HORIZONS \X LIQUIDITY_SCALES \X TARGETS
    BY <1>1, <1>2, SMT DEF Combinations
  <2> QED
    BY <1>2, <2>1, SMT
<1>3. CASE Sweep = "leverage"
  <2>1. Combination \in DISPLACEMENTS \X LOOP_DEPTHS \X OWN_SHARES
    BY <1>1, <1>3, SMT DEF Combinations
  <2> QED
    BY <1>3, <2>1, SMT
<1>4. CASE Sweep = "stress"
  <2>1. Combination \in HORIZONS \X LIQUIDITY_SCALES \X LLTVS \X LOOP_DEPTHS \X DISPLACEMENTS
    BY <1>1, <1>4, SMT DEF Combinations
  <2> QED
    BY <1>4, <2>1, SMT
<1> QED
  BY <1>2, <1>3, <1>4, Zenon

LEMMA AnchorPriced == GridInv => Priced(anchor.market) /\ anchor.lltv \in Nat
BY GridAssumption, MarketPriced DEF GridInv

(* A loop starts with a share of the pool, at a displaced price.           *)
LEMMA StartBacked ==
  ASSUME NEW m, Priced(m), NEW share \in OWN_SHARES \cup {1}, NEW dP \in DISPLACEMENTS,
         NEW lltv \in Nat, NEW depth, RunLoop(OwnPt(m, share), m, Displaced(m, dP), lltv, depth)
  PROVE  LoopInv'
<1>1. share \in Nat /\ dP \in Nat /\ m.totalPt \in Nat
  BY GridAssumption DEF Priced
<1>2. OwnPt(m, share) \in Nat
  <2>1. m.totalPt * share \in Nat
    BY <1>1, SMT
  <2> QED
    BY <2>1, SMT DEF OwnPt
<1>3. Displaced(m, dP) \in Nat
  <2>1. ONE + dP \in Nat
    BY <1>1, OneAssumption, SMT
  <2> QED
    BY <2>1, PriceNat, TimesNat DEF Displaced
<1> QED
  BY <1>2, <1>3, RunBacked

LEMMA InvInit == Init => Inv
<1> SUFFICES ASSUME Init PROVE Inv
  OBVIOUS
<1>1. GridInv
  <2>1. anchor \in Anchors /\ phase = 1 /\ todo = Combinations(PHASES[1])
    BY DEF Init
  <2> QED
    BY <2>1, Zenon DEF GridInv, Sweep
<1>2. SearchInv /\ LoopInv
  BY DEF Init, SearchInv, LoopInv
<1> QED
  BY <1>1, <1>2 DEF Inv

LEMMA InvStep == Inv /\ [Next]_vars => Inv'
<1> SUFFICES ASSUME Inv, [Next]_vars PROVE Inv'
  OBVIOUS
<1>0. GridInv /\ SearchInv /\ LoopInv
  BY DEF Inv
<1>g. GridInv'
  BY <1>0, GridStep
<1> SUFFICES SearchInv' /\ LoopInv'
  BY <1>g DEF Inv
<1>s. ASSUME UNCHANGED search PROVE SearchInv'
  BY <1>0, <1>s DEF SearchInv
<1>l. ASSUME UNCHANGED <<loop, buy>> PROVE LoopInv'
  BY <1>0, <1>l DEF LoopInv
<1>r. ASSUME NEW made, NEW n, RowsMade(made, n) PROVE SearchInv' /\ LoopInv'
  BY <1>r DEF RowsMade, SearchInv, LoopInv
<1>1. CASE NextSweep \/ UNCHANGED vars
  BY <1>1, <1>s, <1>l, Zenon DEF NextSweep, vars
<1>2. CASE PortValidationRow \/ MaturityRow \/ DisplacementRow \/ TransmissionRow
           \/ PropagationRow \/ LeverageRow \/ StressRow
  BY <1>2, <1>r, Zenon DEF PortValidationRow, MaturityRow, DisplacementRow, TransmissionRow,
       PropagationRow, LeverageRow, StressRow
<1>3. CASE StartDisplacement
  <2> DEFINE m == Reshape(anchor.market, Combination[1], Combination[2])
  <2>1. todo # {} /\ Sweep = "displacement" /\ Solve(m, Combination[3]) /\ UNCHANGED <<loop, buy>>
    BY <1>3 DEF StartDisplacement
  <2>2. Priced(m)
    BY <1>0, <2>1, OpeningStarts, AnchorPriced, ReshapePriced
  <2>3. m.totalPt \in Nat
    BY <2>2, Zenon DEF Priced
  <2> HIDE DEF m
  <2> QED
    BY <1>l, <2>1, <2>3, SolveBracketed
<1>4. CASE StartTransmission
  <2>1. Solve(anchor.market, Combination) /\ UNCHANGED <<loop, buy>>
    BY <1>4 DEF StartTransmission
  <2>2. anchor.market.totalPt \in Nat
    BY <1>0, AnchorPriced, Zenon DEF Priced
  <2> QED
    BY <1>l, <2>1, <2>2, SolveBracketed
<1>5. CASE StartLeverage
  <2>1. /\ todo # {} /\ Sweep = "leverage" /\ UNCHANGED search
        /\ RunLoop(OwnPt(anchor.market, Combination[3]), anchor.market,
                   Displaced(anchor.market, Combination[1]), anchor.lltv, Combination[2])
    BY <1>5 DEF StartLeverage
  <2>2. Combination[1] \in DISPLACEMENTS /\ Combination[3] \in OWN_SHARES
    BY <1>0, <2>1, OpeningStarts
  <2> QED
    BY <1>0, <1>s, <2>1, <2>2, AnchorPriced, StartBacked
<1>6. CASE StartStress
  <2> DEFINE m == Reshape(anchor.market, Combination[1], Combination[2])
  <2>1. /\ todo # {} /\ Sweep = "stress" /\ UNCHANGED search
        /\ RunLoop(OwnPt(m, 1), m, Displaced(m, Combination[5]), Combination[3], Combination[4])
    BY <1>6 DEF StartStress
  <2>2. Priced(m)
    BY <1>0, <2>1, OpeningStarts, AnchorPriced, ReshapePriced
  <2>3. Combination[3] \in Nat /\ Combination[5] \in DISPLACEMENTS
    <3>1. Combination[3] \in LLTVS /\ Combination[5] \in DISPLACEMENTS
      BY <1>0, <2>1, OpeningStarts
    <3>2. \A l \in LLTVS : l \in Nat
      BY GridAssumption, SMT
    <3> QED
      BY <3>1, <3>2
  <2> HIDE DEF m
  <2> QED
    BY <1>s, <2>1, <2>2, <2>3, StartBacked
<1>7. CASE StressSearch
  <2>1. loop.status = "done" /\ Solve(loop.opening, Combination[5]) /\ UNCHANGED <<loop, buy>>
    BY <1>7 DEF StressSearch
  <2>2. Backed(loop)
    BY <1>0, <2>1 DEF LoopInv, LoopIdle
  <2>3. loop.opening.totalPt \in Nat
    BY <2>2 DEF Backed
  <2> QED
    BY <1>l, <2>1, <2>3, SolveBracketed
<1>8. CASE Searching
  <2>1. SearchStep /\ UNCHANGED <<loop, buy>>
    BY <1>8 DEF Searching
  <2>2. search.status \in {"bracket", "bisect"}
    BY <2>1 DEF SearchStep, Bracket, Bisect
  <2>3. Bracketed(search)
    BY <1>0, <2>2 DEF SearchInv, SearchIdle
  <2> QED
    BY <1>l, <2>1, <2>3, SearchStepBracketed DEF SearchInv
<1>9. CASE Looping
  <2>1. LoopStep /\ UNCHANGED search
    BY <1>9 DEF Looping
  <2>2. loop.status # "idle"
    BY <2>1 DEF LoopStep, Borrow, Double, Fallback, BisectBudget, Buy
  <2>3. loop # LoopIdle
    BY <2>2 DEF LoopIdle
  <2>4. Backed(loop)
    BY <1>0, <2>3 DEF LoopInv
  <2>5. loop.status \in {"double", "fallback", "bisect", "sized"} => Sizing(loop, buy)
    BY <1>0, <2>3 DEF LoopInv
  <2>6. LoopInv'
    BY <2>1, <2>4, <2>5, LoopStepBacked
  <2> QED
    BY <1>s, <2>1, <2>6
<1> QED
  BY <1>1, <1>2, <1>3, <1>4, <1>5, <1>6, <1>7, <1>8, <1>9, Zenon DEF Next

LEMMA InvAlways == Spec => []Inv
BY InvInit, InvStep, PTL DEF Spec

(* The ends of the bracket are the edge.                                   *)
LEMMA EdgeWhenFound == Inv => EdgeFound
<1> SUFFICES ASSUME Inv, search.status = "found"
             PROVE  Reaches(search.hi) /\ (search.hi > 1 => ~ Reaches(search.hi - 1))
  BY DEF EdgeFound
<1>1. Bracketed(search)
  BY DEF Inv, SearchInv, SearchIdle
<1>2. ReachesIn(search.market, search.fraction, search.hi)
  BY <1>1 DEF Bracketed
<1>3. ASSUME search.hi > 1 PROVE ~ ReachesIn(search.market, search.fraction, search.hi - 1)
  <2>1. search.lo > 0
    BY <1>1, <1>3, SMT DEF Bracketed
  <2>2. ~ ReachesIn(search.market, search.fraction, search.lo)
    BY <1>1, <2>1 DEF Bracketed
  <2>3. search.lo = search.hi \/ search.lo = search.hi - 1
    BY <1>1, SMT DEF Bracketed
  <2> QED
    BY <1>2, <2>2, <2>3
<1> QED
  BY <1>2, <1>3, ReachesMeans

(* solveDisplacement never answers with a size that misses the price, nor  *)
(* with one whose neighbour would do as well: for every pool, target and   *)
(* first size, and whatever the curve looks like.                          *)
THEOREM FoundAtTheEdge == Spec => []EdgeFound
BY EdgeWhenFound, InvAlways, PTL

LEMMA InvCovered == Inv => LoopCovered
<1> SUFFICES ASSUME Inv, loop.status # "idle"
             PROVE  /\ IsHealthy(loop.collateralPt, loop.oraclePrice, loop.lltv, loop.debt)
                    /\ loop.market.totalPt + loop.collateralPt
                         = loop.opening.totalPt + loop.initialPt
  BY DEF LoopCovered
<1>1. Backed(loop)
  BY DEF Inv, LoopInv, LoopIdle
<1>2. MaxBorrow(loop.collateralPt, loop.oraclePrice, loop.lltv) \in Nat
  BY <1>1, BorrowNat DEF Backed
<1> QED
  BY <1>1, <1>2, SMT DEF Backed, IsHealthy

(* runLoop: the debt of a position is within what the market lends on its  *)
(* collateral at every step, and its collateral is what it started with    *)
(* and what left the pool, for every pool, price, LLTV and depth.          *)
THEOREM LoopAlwaysCovered == Spec => []LoopCovered
BY InvAlways, InvCovered, PTL

------------------------------------------------------------------------------
(***************************************************************************)
(* What liquidations leave behind, and what the haircut of the LLTV        *)
(* covers.                                                                 *)
(***************************************************************************)

(* A quotient rounded down, multiplied back.                               *)
LEMMA DivBounds ==
  ASSUME NEW a \in Nat, NEW d \in Nat \ {0}
  PROVE  a \div d \in Nat /\ d * (a \div d) <= a /\ a < d * (a \div d) + d
BY SMT

LEMMA DivOfProduct ==
  ASSUME NEW a \in Nat, NEW d \in Nat \ {0}
  PROVE  (a * d) \div d = a
<1> DEFINE q == (a * d) \div d
<1>1. a * d \in Nat
  BY SMT
<1>2. q \in Nat /\ d * q <= a * d /\ a * d < d * q + d
  BY <1>1, DivBounds
<1> HIDE DEF q
<1>3. ASSUME q < a PROVE FALSE
  <2>1. d * (q + 1) <= d * a
    BY <1>2, <1>3, SMT
  <2> QED
    BY <1>2, <2>1, SMT
<1>4. ASSUME q > a PROVE FALSE
  <2>1. d * (a + 1) <= d * q
    BY <1>2, <1>4, SMT
  <2> QED
    BY <1>2, <2>1, SMT
<1>5. q = a
  BY <1>2, <1>3, <1>4, SMT
<1> QED
  BY <1>5 DEF q

(* A liquidator is never asked to repay more than the collateral is worth. *)
LEMMA IncentiveAtLeastOne ==
  ASSUME NEW lltv \in 1 .. ONE
  PROVE  /\ LiquidationIncentiveFactor(lltv) \in Nat
         /\ LiquidationIncentiveFactor(lltv) >= ONE
<1> DEFINE cut == Times(LIQUIDATION_CURSOR, ONE - lltv)
           top == Ratio(ONE, ONE - cut)
<1>1. /\ ONE \in Nat \ {0} /\ LIQUIDATION_CURSOR \in Nat /\ LIQUIDATION_CURSOR < ONE
      /\ ONE - lltv \in 0 .. ONE /\ ONE - lltv \in Nat
  BY OneAssumption, IncentiveAssumption, SMT
<1>2. cut \in Nat /\ cut <= LIQUIDATION_CURSOR
  BY <1>1, TimesNat, TimesFraction
<1> HIDE DEF cut
<1>3. ONE - cut \in Nat \ {0} /\ ONE - cut <= ONE
  BY <1>1, <1>2, SMT
<1>4. ONE * (ONE - cut) \in Nat /\ ONE * ONE \in Nat /\ ONE * (ONE - cut) <= ONE * ONE
  BY <1>1, <1>3, SMT
<1>5. (ONE * (ONE - cut)) \div (ONE - cut) <= (ONE * ONE) \div (ONE - cut)
  BY <1>3, <1>4, DivMonotone
<1>6. (ONE * (ONE - cut)) \div (ONE - cut) = ONE
  BY <1>1, <1>3, DivOfProduct
<1>7. top \in Nat /\ ONE <= top
  <2>1. (ONE * ONE) \div (ONE - cut) \in Nat
    BY <1>3, <1>4, DivBounds
  <2> QED
    BY <1>5, <1>6, <2>1 DEF Ratio
<1>8. LiquidationIncentiveFactor(lltv) = Smaller(MAX_LIQUIDATION_INCENTIVE_FACTOR, top)
  BY DEF LiquidationIncentiveFactor, cut
<1> HIDE DEF top
<1> QED
  BY <1>1, <1>7, <1>8, IncentiveAssumption, SMT DEF Smaller

(* collateralToClearDebt and repaidForSeized undo each other, up to what   *)
(* rounding up the seizure covers.                                         *)
LEMMA SeizureClears ==
  ASSUME NEW debt \in Nat, NEW price \in Nat \ {0}, NEW lltv \in 1 .. ONE
  PROVE  /\ CollateralToClearDebt(debt, price, lltv) \in Nat
         /\ RepaidForSeized(CollateralToClearDebt(debt, price, lltv), price, lltv) >= debt
<1> DEFINE f == LiquidationIncentiveFactor(lltv)
           q == (debt * f + price - 1) \div price
<1>1. f \in Nat \ {0}
  BY IncentiveAtLeastOne, OneAssumption, SMT
<1>2. CollateralToClearDebt(debt, price, lltv) = q
  BY DEF CollateralToClearDebt, SeizedForRepaid
<1>3. RepaidForSeized(q, price, lltv) = (q * price) \div f
  BY DEF RepaidForSeized
<1> HIDE DEF f
<1>4. debt * f \in Nat /\ debt * f + price - 1 \in Nat
  <2>1. debt * f \in Nat
    BY <1>1, SMT
  <2> QED
    BY <2>1, SMT
<1>5. q \in Nat /\ debt * f + price - 1 < price * q + price
  BY <1>4, DivBounds
<1> HIDE DEF q
<1>6. q * price \in Nat /\ debt * f <= q * price
  <2>1. price * q \in Nat /\ price * q = q * price
    BY <1>5, SMT
  <2> QED
    BY <1>4, <1>5, <2>1, SMT
<1>7. (debt * f) \div f <= (q * price) \div f
  BY <1>1, <1>4, <1>6, DivMonotone
<1>8. (debt * f) \div f = debt
  BY <1>1, DivOfProduct
<1> QED
  BY <1>2, <1>3, <1>5, <1>7, <1>8

(* What more collateral repays is no less.                                 *)
LEMMA RepaidMonotone ==
  ASSUME NEW a \in Nat, NEW b \in Nat, a <= b, NEW price \in Nat, NEW lltv \in 1 .. ONE
  PROVE  /\ RepaidForSeized(a, price, lltv) \in Nat /\ RepaidForSeized(b, price, lltv) \in Nat
         /\ RepaidForSeized(a, price, lltv) <= RepaidForSeized(b, price, lltv)
<1> DEFINE f == LiquidationIncentiveFactor(lltv)
<1>1. f \in Nat \ {0}
  BY IncentiveAtLeastOne, OneAssumption, SMT
<1> HIDE DEF f
<1>2. a * price \in Nat /\ b * price \in Nat /\ a * price <= b * price
  BY SMT
<1>3. /\ (a * price) \div f \in Nat /\ (b * price) \div f \in Nat
      /\ (a * price) \div f <= (b * price) \div f
  BY <1>1, <1>2, DivMonotone, DivBounds
<1> QED
  BY <1>3 DEF RepaidForSeized, f

(* Where liquidating pays, the collateral repays no more than it sells for.*)
LEMMA RepaidBelowWorth ==
  ASSUME NEW c \in Nat, NEW price \in Nat, NEW worth \in Int, NEW lltv \in 1 .. ONE,
         worth > Ratio(price, LiquidationIncentiveFactor(lltv))
  PROVE  RepaidForSeized(c, price, lltv) <= Times(c, worth)
<1> DEFINE f == LiquidationIncentiveFactor(lltv)
           k == (price * ONE) \div f
           r == (c * price) \div f
<1>1. f \in Nat \ {0} /\ ONE \in Nat \ {0}
  BY IncentiveAtLeastOne, OneAssumption, SMT
<1>2. worth > k /\ RepaidForSeized(c, price, lltv) = r
  BY DEF Ratio, RepaidForSeized
<1> HIDE DEF f
<1>3. price * ONE \in Nat /\ c * price \in Nat
  BY <1>1, SMT
<1>4. k \in Nat /\ price * ONE < f * k + f
  BY <1>1, <1>3, DivBounds
<1>5. r \in Nat /\ f * r <= c * price
  BY <1>1, <1>3, DivBounds
<1> HIDE DEF k, r
<1>6. worth \in Nat /\ k + 1 <= worth
  BY <1>2, <1>4, SMT
<1>7. price * ONE <= f * worth
  <2>1. f * (k + 1) <= f * worth /\ f * (k + 1) = f * k + f
    BY <1>1, <1>4, <1>6, SMT
  <2>2. f * worth \in Nat /\ f * k \in Nat
    BY <1>1, <1>4, <1>6, SMT
  <2> QED
    BY <1>1, <1>3, <1>4, <2>1, <2>2, SMT
<1>8. r * ONE <= c * worth
  <2> DEFINE x == r * ONE
             y == c * worth
  <2>1. x \in Nat /\ y \in Nat
    BY <1>1, <1>5, <1>6, SMT
  <2>2. f * x <= f * y
    <3>1. (f * r) * ONE <= (c * price) * ONE
      <4> DEFINE u == f * r
                 v == c * price
      <4>1. u \in Nat /\ v \in Nat /\ u <= v
        BY <1>1, <1>3, <1>5, SMT
      <4> HIDE DEF u, v
      <4>2. u * ONE <= v * ONE
        BY <1>1, <4>1, SMT
      <4> QED
        BY <4>2 DEF u, v
    <3>2. c * (price * ONE) <= c * (f * worth)
      <4> DEFINE u == price * ONE
                 v == f * worth
      <4>1. u \in Nat /\ v \in Nat /\ u <= v
        BY <1>1, <1>3, <1>6, <1>7, SMT
      <4> HIDE DEF u, v
      <4>2. c * u <= c * v
        BY <4>1, SMT
      <4> QED
        BY <4>2 DEF u, v
    <3>3. f * x = (f * r) * ONE /\ (c * price) * ONE = c * (price * ONE)
          /\ f * y = c * (f * worth)
      BY <1>1, <1>5, <1>6, SMT
    <3>4. /\ (f * r) * ONE \in Nat /\ c * (price * ONE) \in Nat /\ c * (f * worth) \in Nat
      BY <1>1, <1>3, <1>5, <1>6, SMT
    <3> HIDE DEF x, y
    <3> QED
      BY <3>1, <3>2, <3>3, <3>4, SMT
  <2> HIDE DEF x, y
  <2>3. x <= y
    BY <1>1, <2>1, <2>2, SMT
  <2> QED
    BY <2>3 DEF x, y
<1>9. r * ONE \in Nat /\ c * worth \in Nat
  BY <1>1, <1>5, <1>6, SMT
<1>10. (r * ONE) \div ONE <= (c * worth) \div ONE
  BY <1>1, <1>8, <1>9, DivMonotone
<1>11. (r * ONE) \div ONE = r
  BY <1>1, <1>5, DivOfProduct
<1> QED
  BY <1>2, <1>10, <1>11 DEF Times

(* What ShortfallIsReal says of one liquidation at a price, where the      *)
(* collateral sells for worth.                                             *)
Real(l, collateral, debt, price, worth, lltv) ==
  /\ l.liquidationProfitable = (worth > Ratio(price, LiquidationIncentiveFactor(lltv)))
  /\ l.seized + l.collateralRemaining = collateral
  /\ l.debtRemaining = IF worth > Ratio(price, LiquidationIncentiveFactor(lltv))
                       THEN Larger(0, debt - RepaidForSeized(collateral, price, lltv))
                       ELSE debt
  /\ Times(collateral, worth) < debt /\ debt > 0 => l.debtRemaining > 0

LEMMA OutcomeReal ==
  ASSUME NEW collateral \in Nat, NEW debt \in Nat, NEW price \in Nat \ {0}, NEW worth \in Int,
         NEW lltv \in 1 .. ONE
  PROVE  Real(LiquidationOutcome(collateral, debt, price, worth, lltv), collateral, debt,
              price, worth, lltv)
<1> DEFINE takes  == worth > Ratio(price, LiquidationIncentiveFactor(lltv))
           needed == CollateralToClearDebt(debt, price, lltv)
           seized == IF takes THEN Smaller(collateral, needed) ELSE 0
           repaid == RepaidForSeized(seized, price, lltv)
           most   == RepaidForSeized(collateral, price, lltv)
           left   == IF takes THEN Larger(0, debt - most) ELSE debt
           l      == LiquidationOutcome(collateral, debt, price, worth, lltv)
<1>1. /\ l.liquidationProfitable = takes /\ l.seized = seized
      /\ l.debtRemaining = Larger(0, debt - repaid) /\ l.collateralRemaining = collateral - seized
  BY DEF LiquidationOutcome
<1>2. needed \in Nat /\ RepaidForSeized(needed, price, lltv) >= debt
  BY SeizureClears
<1>3. seized \in Nat /\ (takes => seized = collateral \/ (seized = needed /\ needed <= collateral))
  <2> HIDE DEF needed, takes
  <2> QED
    BY <1>2, SMT DEF Smaller
<1>4. Larger(0, debt - repaid) = left
  <2>1. CASE ~ takes
    <3>1. repaid = RepaidForSeized(0, price, lltv) /\ left = debt
      BY <2>1
    <3>2. RepaidForSeized(0, price, lltv) = 0
      <4> DEFINE f == LiquidationIncentiveFactor(lltv)
      <4>1. f \in Nat \ {0}
        BY IncentiveAtLeastOne, OneAssumption, SMT
      <4> HIDE DEF f
      <4>2. (0 * price) \div f = 0
        BY <4>1, SMT
      <4> QED
        BY <4>2 DEF RepaidForSeized, f
    <3> HIDE DEF repaid, left, takes
    <3> QED
      BY <3>1, <3>2, SMT DEF Larger
  <2>2. CASE takes /\ seized = collateral
    BY <2>2
  <2>3. CASE takes /\ seized = needed /\ needed <= collateral
    <3>1. repaid >= debt /\ repaid \in Nat /\ most \in Nat /\ repaid <= most
      <4>1. /\ RepaidForSeized(needed, price, lltv) <= most
            /\ RepaidForSeized(needed, price, lltv) \in Nat /\ most \in Nat
        <5> HIDE DEF needed
        <5> QED
          BY <1>2, <2>3, RepaidMonotone
      <4>2. repaid = RepaidForSeized(needed, price, lltv)
        BY <2>3
      <4> QED
        BY <1>2, <4>1, <4>2
    <3>2. left = Larger(0, debt - most)
      BY <2>3
    <3> HIDE DEF repaid, left, takes, most
    <3> QED
      BY <3>1, <3>2, SMT DEF Larger
  <2> QED
    BY <1>3, <2>1, <2>2, <2>3
<1>5. Times(collateral, worth) < debt /\ debt > 0 => left > 0
  <2> SUFFICES ASSUME Times(collateral, worth) < debt, debt > 0 PROVE left > 0
    OBVIOUS
  <2>1. CASE ~ takes
    BY <2>1
  <2>2. CASE takes
    <3>1. most <= Times(collateral, worth) /\ most \in Nat
      <4>1. worth > Ratio(price, LiquidationIncentiveFactor(lltv))
        BY <2>2
      <4>2. RepaidForSeized(collateral, price, lltv) <= Times(collateral, worth)
        <5> HIDE DEF takes, needed, seized, repaid, most, left, l
        <5> QED
          BY <4>1, RepaidBelowWorth
      <4>3. RepaidForSeized(collateral, price, lltv) \in Nat
        <5>1. collateral <= collateral
          BY SMT
        <5> HIDE DEF takes, needed, seized, repaid, most, left, l
        <5> QED
          BY <5>1, RepaidMonotone
      <4> QED
        BY <4>2, <4>3
    <3>2. Times(collateral, worth) \in Int
      <4>1. collateral * worth \in Int
        BY SMT
      <4> QED
        BY <4>1, OneAssumption, SMT DEF Times
    <3>3. left = Larger(0, debt - most)
      BY <2>2
    <3> HIDE DEF most, left, takes
    <3> QED
      BY <3>1, <3>2, <3>3, SMT DEF Larger
  <2> QED
    BY <2>1, <2>2
<1> HIDE DEF l, takes, needed, repaid, most
<1>6. seized + (collateral - seized) = collateral
  <2> HIDE DEF seized
  <2> QED
    BY <1>3, SMT
<1> HIDE DEF seized, left
<1>7. /\ l.liquidationProfitable = takes /\ l.seized + l.collateralRemaining = collateral
      /\ l.debtRemaining = left
      /\ Times(collateral, worth) < debt /\ debt > 0 => l.debtRemaining > 0
  BY <1>1, <1>4, <1>5, <1>6
<1> QED
  BY <1>7 DEF Real, l, takes, left, most

(* A price displaced by no more than the threshold lends no more than what *)
(* the collateral is worth at the price it was displaced from.             *)
LEMMA DeductibleCovers ==
  ASSUME NEW c \in Nat, NEW price \in Nat, NEW lltv \in 1 .. ONE, NEW d \in Nat,
         d <= InsolvencyDisplacementThreshold(lltv)
  PROVE  MaxBorrow(c, Times(price, ONE + d), lltv) <= Times(c, price)
<1> DEFINE top == (ONE * ONE) \div lltv
           p   == Times(price, ONE + d)
           u   == Times(c, p)
           w   == Times(u, lltv)
<1>1. ONE \in Nat \ {0} /\ lltv \in Nat \ {0} /\ ONE * ONE \in Nat /\ ONE + d \in Nat
  BY OneAssumption, SMT
<1>2. (ONE + d) * lltv <= ONE * ONE
  <2>1. top \in Nat /\ lltv * top <= ONE * ONE
    BY <1>1, DivBounds
  <2>2. d <= top - ONE
    BY DEF InsolvencyDisplacementThreshold, Ratio
  <2> HIDE DEF top
  <2>3. ONE + d <= top
    BY <1>1, <2>1, <2>2, SMT
  <2>4. (ONE + d) * lltv <= top * lltv
    BY <1>1, <2>1, <2>3, SMT
  <2> QED
    BY <1>1, <2>1, <2>4, SMT
<1>3. p \in Nat /\ ONE * p <= price * (ONE + d)
  <2>1. price * (ONE + d) \in Nat
    BY <1>1, SMT
  <2> QED
    BY <1>1, <2>1, DivBounds DEF Times
<1> HIDE DEF p
<1>4. u \in Nat /\ ONE * u <= c * p
  <2>1. c * p \in Nat
    BY <1>3, SMT
  <2> QED
    BY <1>1, <2>1, DivBounds DEF Times
<1> HIDE DEF u
<1>5. w \in Nat /\ ONE * w <= u * lltv
  <2>1. u * lltv \in Nat
    BY <1>1, <1>4, SMT
  <2> QED
    BY <1>1, <2>1, DivBounds DEF Times
<1>6. p * lltv <= price * ONE
  <2>1. (ONE * p) * lltv <= (price * (ONE + d)) * lltv
    BY <1>1, <1>3, SMT
  <2>2. price * ((ONE + d) * lltv) <= price * (ONE * ONE)
    BY <1>1, <1>2, SMT
  <2>3. ONE * (p * lltv) <= ONE * (price * ONE)
    BY <1>1, <1>3, <2>1, <2>2, SMT
  <2> QED
    BY <1>1, <1>3, <2>3, SMT
<1>7. ONE * w <= c * price
  <2>1. (ONE * u) * lltv <= (c * p) * lltv
    BY <1>1, <1>3, <1>4, SMT
  <2>2. c * (p * lltv) <= c * (price * ONE)
    BY <1>1, <1>3, <1>6, SMT
  <2> HIDE DEF w
  <2>3. ONE * (ONE * w) <= ONE * (u * lltv)
    BY <1>1, <1>4, <1>5, SMT
  <2>4. ONE * (ONE * w) <= ONE * (c * price)
    BY <1>1, <1>3, <1>4, <1>5, <2>1, <2>2, <2>3, SMT
  <2> QED
    BY <1>1, <1>5, <2>4, SMT
<1>8. w <= (c * price) \div ONE
  <2> HIDE DEF w
  <2>1. (w * ONE) \div ONE <= (c * price) \div ONE
    <3>1. w * ONE \in Nat /\ c * price \in Nat /\ w * ONE <= c * price
      BY <1>1, <1>5, <1>7, SMT
    <3> QED
      BY <1>1, <3>1, DivMonotone
  <2> QED
    BY <1>1, <1>5, <2>1, DivOfProduct
<1>9. MaxBorrow(c, Times(price, ONE + d), lltv) = w
  BY DEF MaxBorrow, u, p
<1> HIDE DEF w
<1> QED
  BY <1>8, <1>9 DEF Times

(* The displacement asked for by the combination under way.                *)
Asked == IF Sweep = "leverage" THEN Combination[1] ELSE Combination[5]

(* What a loop borrows at is a displaced price of the pool it opened in.   *)
Opened(l, d) ==
  /\ l.lltv \in 1 .. ONE /\ d \in Nat
  /\ MarketImpliedValue(l.opening, BlockTime) \in Nat \ {0}
  /\ l.oraclePrice = Displaced(l.opening, d)

(* What a PT fetches, nothing where the pool does not take the sale.       *)
SoldFor(perPt) == IF perPt = Unsellable THEN 0 ELSE perPt

(* A row of a finished loop: its books and marks are those of the loop.    *)
Settled(r) ==
  /\ r.loop.collateralPt \in Nat /\ r.loop.debt \in Nat /\ r.lltv \in 1 .. ONE
  /\ r.referencePrice \in Nat \ {0} /\ r.oracleDisplacement \in Nat
  /\ r.oraclePrice = Times(r.referencePrice, ONE + r.oracleDisplacement)
  /\ r.loop.debt <= MaxBorrow(r.loop.collateralPt, r.oraclePrice, r.lltv)
  /\ LET worth == SoldFor(r.settled.realizableValuePerPt)
     IN  /\ r.settled.liquidation
              = LiquidationOutcome(r.loop.collateralPt, r.loop.debt, r.oraclePrice, worth, r.lltv)
         /\ r.settled.liquidationAfterOracleReverts
              = LiquidationOutcome(r.loop.collateralPt, r.loop.debt, r.referencePrice, worth,
                                   r.lltv)
         /\ r.settled.solventUnderRealizableMark
              = (Times(r.loop.collateralPt, worth) >= r.loop.debt)
  /\ r.settled.protocolShortfall = r.settled.liquidationAfterOracleReverts.debtRemaining
  /\ r.settled.solventUnderReferenceMark
       = (Times(r.loop.collateralPt, r.referencePrice) >= r.loop.debt)

RowInv ==
  /\ row.sweep \in {"leverage", "stress"} => Settled(row)
  /\ row.sweep = "stress" => row.displacement.required = InsolvencyDisplacementThreshold(row.lltv)

RowsInv == (loop = LoopIdle \/ Opened(loop, Asked)) /\ RowInv

(* Nothing a loop does touches the terms it was opened on.                 *)
LEMMA LoopKeepsTerms ==
  ASSUME Backed(loop), LoopStep
  PROVE  loop'.opening = loop.opening /\ loop'.oraclePrice = loop.oraclePrice
         /\ loop'.lltv = loop.lltv
<1> DEFINE kept == loop'.opening = loop.opening /\ loop'.oraclePrice = loop.oraclePrice
                   /\ loop'.lltv = loop.lltv
<1>0. {"status", "opening", "oraclePrice", "lltv", "fellBack"} \subseteq DOMAIN loop
  BY DEF Backed
<1>1. ASSUME NEW st, loop' = [loop EXCEPT !.status = st] PROVE kept
  BY <1>0, <1>1
<1>2. CASE Borrow
  BY <1>1, <1>2, Zenon DEF Borrow
<1>3. CASE Double
  <2>1. PICK st : loop' = [loop EXCEPT !.status = st]
    BY <1>3 DEF Double
  <2> QED
    BY <1>1, <2>1
<1>4. CASE Fallback
  <2>1. PICK st : loop' = [loop EXCEPT !.status = st, !.fellBack = TRUE]
    BY <1>4, Zenon DEF Fallback
  <2> QED
    BY <1>0, <2>1
<1>5. CASE BisectBudget
  BY <1>1, <1>5, Zenon DEF BisectBudget
<1>6. CASE Buy
  <2>1. CASE buy.lo = 0
    BY <1>1, <1>6, <2>1, Zenon DEF Buy
  <2>2. CASE buy.lo # 0
    <3> DEFINE exec == ExecuteTrade(loop.market, buy.lo, BlockTime)
               fees == loop.ammFeesPaid + exec.trade.netAssetFee
               next == exec.market
               paid == loop.assetSpent - exec.trade.netAssetToAccount
               more == loop.collateralPt + buy.lo
               owed == loop.debt + buy.budget
               deep == Deeper
    <3>1. loop' = [loop EXCEPT !.status = "borrow", !.market = next, !.ammFeesPaid = fees,
                               !.assetSpent = paid, !.collateralPt = more, !.debt = owed,
                               !.achievedDepth = deep]
      BY <1>6, <2>2 DEF Buy
    <3> HIDE DEF fees, next, paid, more, owed, deep
    <3> QED
      BY <1>0, <3>1
  <2> QED
    BY <2>1, <2>2
<1> QED
  BY <1>2, <1>3, <1>4, <1>5, <1>6 DEF LoopStep

LEMMA LoopRowSettled ==
  ASSUME Backed(loop), NEW d, Opened(loop, d), NEW sweep, NEW displacement
  PROVE  Settled(LoopRow(sweep, d, displacement))
<1> DEFINE r == LoopRow(sweep, d, displacement)
           s == Settle(ReferencePrice, InitialPtCost)
<1>1. /\ r.loop = loop /\ r.lltv = loop.lltv /\ r.referencePrice = ReferencePrice
      /\ r.oracleDisplacement = d /\ r.oraclePrice = loop.oraclePrice /\ r.settled = s
  BY DEF LoopRow
<1>2. /\ s.liquidation
           = LiquidationOutcome(loop.collateralPt, loop.debt, loop.oraclePrice,
                                SoldFor(s.realizableValuePerPt), loop.lltv)
      /\ s.liquidationAfterOracleReverts
           = LiquidationOutcome(loop.collateralPt, loop.debt, ReferencePrice,
                                SoldFor(s.realizableValuePerPt), loop.lltv)
      /\ s.solventUnderRealizableMark
           = (Times(loop.collateralPt, SoldFor(s.realizableValuePerPt)) >= loop.debt)
      /\ s.solventUnderReferenceMark = (Times(loop.collateralPt, ReferencePrice) >= loop.debt)
      /\ s.protocolShortfall = s.liquidationAfterOracleReverts.debtRemaining
  BY DEF Settle, LiquidatedAt, SoldFor
<1> HIDE DEF r, s
<1>3. ReferencePrice \in Nat \ {0} /\ loop.oraclePrice = Times(ReferencePrice, ONE + d)
  BY DEF Opened, ReferencePrice, Displaced
<1>4. loop.collateralPt \in Nat /\ loop.debt \in Nat /\ loop.lltv \in 1 .. ONE /\ d \in Nat
  BY DEF Backed, Opened
<1>5. loop.debt <= MaxBorrow(loop.collateralPt, loop.oraclePrice, loop.lltv)
  BY DEF Backed
<1>6. Settled(r)
  BY <1>1, <1>2, <1>3, <1>4, <1>5, Zenon DEF Settled
<1> QED
  BY <1>6 DEF r

(* A displaced price is not below the price it was displaced from.         *)
LEMMA DisplacedPositive ==
  ASSUME NEW price \in Nat \ {0}, NEW d \in Nat
  PROVE  Times(price, ONE + d) \in Nat \ {0} /\ price <= Times(price, ONE + d)
<1>1. /\ ONE \in Nat \ {0} /\ price * ONE \in Nat /\ price * (ONE + d) \in Nat
      /\ price * ONE <= price * (ONE + d)
  BY OneAssumption, SMT
<1>2. (price * ONE) \div ONE = price
  BY <1>1, DivOfProduct
<1>3. price <= (price * (ONE + d)) \div ONE
  BY <1>1, <1>2, DivMonotone
<1>4. (price * (ONE + d)) \div ONE \in Nat
  BY <1>1, DivBounds
<1> QED
  BY <1>3, <1>4, SMT DEF Times

LEMMA StartOpened ==
  ASSUME NEW m, Priced(m), MarketImpliedValue(m, BlockTime) > 0, NEW d \in Nat,
         NEW lltv \in 1 .. ONE, NEW pt, NEW depth,
         RunLoop(pt, m, Displaced(m, d), lltv, depth)
  PROVE  Opened(loop', d)
<1>1. MarketImpliedValue(m, BlockTime) \in Nat \ {0}
  BY PriceNat, SMT
<1>2. loop'.opening = m /\ loop'.oraclePrice = Displaced(m, d) /\ loop'.lltv = lltv
  BY DEF RunLoop
<1> QED
  BY <1>1, <1>2, Zenon DEF Opened

LEMMA RowsInit == Init => RowsInv
BY DEF Init, RowsInv, RowInv, NoRow

LEMMA RowsStep == Inv /\ RowsInv /\ [Next]_vars => RowsInv'
<1> SUFFICES ASSUME Inv, RowsInv, [Next]_vars PROVE RowsInv'
  OBVIOUS
<1>0. GridInv /\ SearchInv /\ LoopInv
  BY DEF Inv
<1>1. ASSUME UNCHANGED <<loop, row, phase, todo>> PROVE RowsInv'
  BY <1>1 DEF RowsInv, RowInv, Asked, Combination, Sweep
<1>2. ASSUME UNCHANGED row, loop' = LoopIdle PROVE RowsInv'
  BY <1>2 DEF RowsInv, RowInv
<1>3. ASSUME NEW made, NEW n, RowsMade(made, n), ~ (made.sweep \in {"leverage", "stress"})
      PROVE  RowsInv'
  <2>1. row' = made /\ loop' = LoopIdle
    BY <1>3 DEF RowsMade
  <2> QED
    BY <1>3, <2>1 DEF RowsInv, RowInv
<1>4. ASSUME UNCHANGED <<row, phase, todo>>, Opened(loop', Asked) PROVE RowsInv'
  <2>1. Asked' = Asked
    BY <1>4 DEF Asked, Combination, Sweep
  <2>2. RowInv'
    BY <1>4 DEF RowsInv, RowInv
  <2> QED
    BY <1>4, <2>1, <2>2 DEF RowsInv
<1>5. CASE NextSweep
  <2>1. loop' = loop /\ row' = row /\ loop.status = "idle"
    BY <1>5 DEF NextSweep, Idle
  <2>2. loop = LoopIdle
    BY <1>0, <2>1 DEF LoopInv, Backed
  <2> QED
    BY <1>2, <2>1, <2>2
<1>6. CASE PortValidationRow
  <2>1. Sweep = "portValidation"
    BY <1>6 DEF PortValidationRow
  <2>2. CASE RowsMade(row, 0)
    BY <1>2, <2>2 DEF RowsMade
  <2>3. CASE \E modelled, onChain :
               RowsMade([sweep |-> Sweep, modelled |-> modelled, onChain |-> onChain], 1)
    BY <1>3, <2>1, <2>3
  <2> QED
    BY <1>6, <2>2, <2>3, Zenon DEF PortValidationRow
<1>7. CASE MaturityRow
  <2>1. PICK market, twap, linear :
          RowsMade([sweep |-> Sweep, market |-> market, twap |-> twap, linear |-> linear], 1)
    BY <1>7, Zenon DEF MaturityRow
  <2>2. Sweep = "maturity"
    BY <1>7 DEF MaturityRow
  <2> QED
    BY <1>3, <2>1, <2>2
<1>8. CASE DisplacementRow
  <2>1. RowsMade(SearchRow(Sweep), 1) /\ Sweep = "displacement"
    BY <1>8 DEF DisplacementRow
  <2>2. SearchRow(Sweep).sweep = "displacement"
    BY <2>1 DEF SearchRow
  <2> QED
    BY <1>3, <2>1, <2>2
<1>9. CASE TransmissionRow
  <2>1. Sweep = "transmission"
    BY <1>9 DEF TransmissionRow
  <2>2. CASE RowsMade([sweep |-> Sweep, achievable |-> FALSE], 1)
    BY <1>3, <2>1, <2>2
  <2>3. CASE \E base, displaced, achieved, transmitted, n :
               RowsMade([sweep |-> Sweep, achievable |-> TRUE, base |-> base,
                         displaced |-> displaced, achieved |-> achieved,
                         transmitted |-> transmitted], n)
    BY <1>3, <2>1, <2>3
  <2> QED
    BY <1>9, <2>2, <2>3, Zenon DEF TransmissionRow
<1>10. CASE PropagationRow
  <2>1. PICK lltv, d, base, allowed, capacity :
          RowsMade([sweep |-> Sweep, lltv |-> lltv, oracleDisplacement |-> d, basePrice |-> base,
                    baseCapacity |-> allowed, borrowCapacity |-> capacity], 1)
    BY <1>10, Zenon DEF PropagationRow
  <2>2. Sweep = "propagation"
    BY <1>10 DEF PropagationRow
  <2> QED
    BY <1>3, <2>1, <2>2
<1>11. CASE LeverageRow \/ StressRow
  <2>1. loop.status = "done" /\ loop # LoopIdle
    BY <1>11, SMT DEF LeverageRow, StressRow, LoopIdle
  <2>2. Backed(loop) /\ Opened(loop, Asked)
    BY <1>0, <2>1 DEF LoopInv, RowsInv
  <2>3. ASSUME NEW displacement, NEW n, RowsMade(LoopRow(Sweep, Asked, displacement), n),
               Sweep = "stress" => displacement.required = InsolvencyDisplacementThreshold(loop.lltv)
        PROVE  RowsInv'
    <3> DEFINE r == LoopRow(Sweep, Asked, displacement)
    <3>1. Settled(r)
      BY <2>2, LoopRowSettled
    <3>2. r.sweep = Sweep /\ r.displacement = displacement /\ r.lltv = loop.lltv
      BY DEF LoopRow
    <3>3. row' = r /\ loop' = LoopIdle
      BY <2>3 DEF RowsMade
    <3> HIDE DEF r
    <3> QED
      BY <2>3, <3>1, <3>2, <3>3 DEF RowsInv, RowInv
  <2>4. CASE LeverageRow
    <3>1. Sweep = "leverage" /\ RowsMade(LoopRow(Sweep, Combination[1], NoRow), 1)
      BY <2>4 DEF LeverageRow
    <3>2. Asked = Combination[1]
      BY <3>1 DEF Asked
    <3> QED
      BY <2>3, <3>1, <3>2, Zenon
  <2>5. CASE StressRow
    <3> DEFINE columns == [achievable |-> Combination[5] = 0 \/ Achievable,
                           required   |-> InsolvencyDisplacementThreshold(loop.lltv),
                           insolvencyReachable |->
                             DisplacementInsolvencyReachable(ReferencePrice, loop.lltv, ONE)]
    <3>1. Sweep = "stress" /\ RowsMade(LoopRow(Sweep, Combination[5], columns), 1)
      BY <2>5, Zenon DEF StressRow
    <3>2. columns.required = InsolvencyDisplacementThreshold(loop.lltv)
      OBVIOUS
    <3>3. Asked = Combination[5]
      BY <3>1 DEF Asked
    <3> HIDE DEF columns
    <3> QED
      BY <2>3, <3>1, <3>2, <3>3, Zenon
  <2> QED
    BY <1>11, <2>4, <2>5
<1>12. CASE StartDisplacement \/ StartTransmission \/ StressSearch \/ Searching \/ UNCHANGED vars
  BY <1>1, <1>12, Zenon DEF StartDisplacement, StartTransmission, StressSearch, Searching, vars
<1>13. CASE StartLeverage
  <2>1. /\ todo # {} /\ Sweep = "leverage" /\ UNCHANGED <<row, phase, todo>>
        /\ RunLoop(OwnPt(anchor.market, Combination[3]), anchor.market,
                   Displaced(anchor.market, Combination[1]), anchor.lltv, Combination[2])
    BY <1>13 DEF StartLeverage
  <2>2. Combination[1] \in Nat /\ Asked = Combination[1]
    BY <1>0, <2>1, OpeningStarts, GridAssumption DEF Asked
  <2>3. anchor \in Anchors /\ Priced(anchor.market)
    BY <1>0, AnchorPriced DEF GridInv
  <2>4. MarketImpliedValue(anchor.market, BlockTime) > 0 /\ anchor.lltv \in 1 .. ONE
    BY <2>3, FineAssumption, GridAssumption DEF Fine
  <2>5. Opened(loop', Combination[1])
    BY <2>1, <2>2, <2>3, <2>4, StartOpened
  <2> QED
    BY <1>4, <2>1, <2>2, <2>5
<1>14. CASE StartStress
  <2> DEFINE m == Reshape(anchor.market, Combination[1], Combination[2])
  <2>1. /\ todo # {} /\ Sweep = "stress" /\ UNCHANGED <<row, phase, todo>>
        /\ RunLoop(OwnPt(m, 1), m, Displaced(m, Combination[5]), Combination[3], Combination[4])
    BY <1>14 DEF StartStress
  <2>2. /\ Combination[1] \in HORIZONS /\ Combination[2] \in LIQUIDITY_SCALES
        /\ Combination[3] \in LLTVS /\ Combination[5] \in DISPLACEMENTS
    BY <1>0, <2>1, OpeningStarts
  <2>3. Combination[3] \in 1 .. ONE /\ Combination[5] \in Nat /\ Asked = Combination[5]
    BY <2>1, <2>2, GridAssumption DEF Asked
  <2>4. anchor \in Anchors /\ Priced(m)
    BY <1>0, <2>2, AnchorPriced, ReshapePriced DEF GridInv
  <2>5. MarketImpliedValue(m, BlockTime) > 0
    BY <2>2, <2>4, FineAssumption DEF Fine
  <2> HIDE DEF m
  <2>6. Opened(loop', Combination[5])
    BY <2>1, <2>3, <2>4, <2>5, StartOpened
  <2> QED
    BY <1>4, <2>1, <2>3, <2>6
<1>15. CASE Looping
  <2>1. LoopStep /\ UNCHANGED <<row, phase, todo>>
    BY <1>15 DEF Looping
  <2>2. loop.status # "idle"
    BY <2>1 DEF LoopStep, Borrow, Double, Fallback, BisectBudget, Buy
  <2>3. Backed(loop) /\ Opened(loop, Asked)
    BY <1>0, <2>2 DEF LoopInv, LoopIdle, RowsInv
  <2>4. Opened(loop', Asked)
    <3>1. loop'.opening = loop.opening /\ loop'.oraclePrice = loop.oraclePrice
          /\ loop'.lltv = loop.lltv
      BY <2>1, <2>3, LoopKeepsTerms
    <3> QED
      BY <2>3, <3>1, Zenon DEF Opened
  <2> QED
    BY <1>4, <2>1, <2>4
<1> QED
  BY <1>5, <1>6, <1>7, <1>8, <1>9, <1>10, <1>11, <1>12, <1>13, <1>14, <1>15, Zenon DEF Next

LEMMA RowsAlways == Spec => [](Inv /\ RowsInv)
BY InvInit, InvStep, RowsInit, RowsStep, PTL DEF Spec

(* A row of a finished loop within the threshold.                          *)
LEMMA RowsCovered == RowsInv => CoveredWithinDeductible
<1> SUFFICES ASSUME RowsInv, row.sweep = "stress",
                    row.oracleDisplacement <= row.displacement.required
             PROVE  row.settled.solventUnderReferenceMark
  BY DEF CoveredWithinDeductible
<1> DEFINE c == row.loop.collateralPt
           p == row.referencePrice
<1>1. Settled(row) /\ row.oracleDisplacement <= InsolvencyDisplacementThreshold(row.lltv)
  BY DEF RowsInv, RowInv
<1>2. /\ c \in Nat /\ p \in Nat /\ row.lltv \in 1 .. ONE /\ row.oracleDisplacement \in Nat
      /\ row.loop.debt \in Nat
      /\ row.loop.debt <= MaxBorrow(c, Times(p, ONE + row.oracleDisplacement), row.lltv)
  BY <1>1 DEF Settled
<1>3. MaxBorrow(c, Times(p, ONE + row.oracleDisplacement), row.lltv) <= Times(c, p)
  BY <1>1, <1>2, DeductibleCovers
<1>4. /\ Times(c, p) \in Nat
      /\ MaxBorrow(c, Times(p, ONE + row.oracleDisplacement), row.lltv) \in Nat
  <2>1. ONE + row.oracleDisplacement \in Nat /\ row.lltv \in Nat
    BY <1>2, OneAssumption, SMT
  <2> QED
    BY <1>2, <2>1, TimesNat, BorrowNat
<1>5. Times(c, p) >= row.loop.debt
  BY <1>2, <1>3, <1>4, SMT
<1> QED
  BY <1>1, <1>5 DEF Settled

(* stressSurface: where the oracle is displaced by no more than            *)
(* insolvencyDisplacementThreshold, the reference price covers the debt of *)
(* the loop, for every pool, horizon, scale, LLTV and depth.               *)
THEOREM DeductibleAlwaysCovers == Spec => []CoveredWithinDeductible
BY RowsCovered, RowsAlways, PTL

------------------------------------------------------------------------------
(***************************************************************************)
(* The curve: its logarithm is a number, and a purchase the pool takes     *)
(* leaves a pool.                                                          *)
(***************************************************************************)

LEMMA LeastOf ==
  ASSUME NEW S \in SUBSET Nat, NEW n \in S
  PROVE  \E m \in S : \A k \in S : m <= k
<1> DEFINE upTo(k) == 0 .. k
           Starts  == {upTo(k) : k \in S}
<1>1. Starts \subseteq FiniteSubsetsOf(Nat) /\ Starts # {}
  <2>1. ASSUME NEW k \in S PROVE upTo(k) \in FiniteSubsetsOf(Nat)
    <3>1. IsFiniteSet(upTo(k))
      BY FS_Interval, SMT
    <3>2. upTo(k) \in SUBSET Nat
      BY SMT
    <3> HIDE DEF upTo
    <3> QED
      BY <3>1, <3>2 DEF FiniteSubsetsOf
  <2> QED
    BY <2>1
<1>2. PICK T \in Starts : \A U \in Starts : ~ (<<U, T>> \in StrictSubsetOrdering(Nat))
  BY <1>1, FS_StrictSubsetOrderingWellFounded, WFMin
<1>3. PICK m \in S : T = upTo(m)
  BY <1>2
<1>4. ASSUME NEW k \in S, k < m PROVE FALSE
  <2>1. upTo(k) \subseteq upTo(m) /\ upTo(k) # upTo(m)
    BY <1>4, SMT
  <2>2. upTo(k) \in SUBSET Nat /\ upTo(m) \in SUBSET Nat
    BY SMT
  <2> HIDE DEF upTo
  <2>3. <<upTo(k), upTo(m)>> \in StrictSubsetOrdering(Nat)
    BY <2>1, <2>2 DEF StrictSubsetOrdering
  <2> QED
    BY <1>2, <1>3, <2>3
<1> QED
  BY <1>4, SMT

(* One step of the logarithm, and what follows the steps up to n.          *)
LnStep(g, y) == IF y >= 2 * ONE THEN LnBelow2(2 * ONE) + g[y \div 2] ELSE LnBelow2(y)
LnUpTo(g, n) == \A y \in 0 .. n : g[y] = LnStep(g, y)

LEMMA Halved ==
  ASSUME NEW y \in Nat, y >= 2 * ONE
  PROVE  y \div 2 \in Nat /\ y \div 2 < y /\ y \div 2 >= ONE
BY OneAssumption, SMT

LEMMA LnUnique ==
  ASSUME NEW g, NEW h, NEW n \in Nat, LnUpTo(g, n), LnUpTo(h, n)
  PROVE  \A y \in 0 .. n : g[y] = h[y]
<1> DEFINE Bad == {y \in 0 .. n : g[y] # h[y]}
<1> SUFFICES ASSUME NEW z \in Bad PROVE FALSE
  OBVIOUS
<1>1. Bad \in SUBSET Nat
  BY SMT
<1>2. PICK y \in Bad : \A k \in Bad : y <= k
  <2> HIDE DEF Bad
  <2> QED
    BY <1>1, LeastOf
<1>3. y \in Nat /\ y <= n /\ g[y] = LnStep(g, y) /\ h[y] = LnStep(h, y) /\ g[y] # h[y]
  BY <1>2, SMT DEF LnUpTo
<1>4. y >= 2 * ONE
  BY <1>3 DEF LnStep
<1>5. y \div 2 \in Nat /\ y \div 2 < y
  BY <1>3, <1>4, Halved
<1>6. g[y \div 2] # h[y \div 2]
  BY <1>3 DEF LnStep
<1>7. y \div 2 \in 0 .. n
  BY <1>3, <1>5, SMT
<1>8. y \div 2 \in Bad
  BY <1>6, <1>7
<1>9. y <= y \div 2
  BY <1>2, <1>8
<1> QED
  BY <1>3, <1>5, <1>9, SMT

LEMMA LnUpToExists ==
  ASSUME NEW n \in Nat
  PROVE  \E g : LnUpTo(g, n)
<1> DEFINE Bad == {k \in Nat : \A g : ~ LnUpTo(g, k)}
<1> SUFFICES ASSUME NEW z \in Bad PROVE FALSE
  BY Zenon
<1>1. PICK k \in Bad : \A j \in Bad : k <= j
  <2>1. Bad \in SUBSET Nat
    OBVIOUS
  <2> HIDE DEF Bad
  <2> QED
    BY <2>1, LeastOf
<1>2. k \in Nat /\ \A g : ~ LnUpTo(g, k)
  BY <1>1
<1>3. PICK g : k > 0 => LnUpTo(g, k - 1)
  <2>1. CASE k = 0
    BY <2>1, SMT
  <2>2. CASE k # 0
    <3>1. k - 1 \in Nat /\ k - 1 < k
      BY <1>2, <2>2, SMT
    <3>2. k - 1 \notin Bad
      <4> HIDE DEF Bad
      <4> QED
        BY <1>1, <1>2, <3>1, SMT
    <3>3. \E g : LnUpTo(g, k - 1)
      BY <3>1, <3>2
    <3> QED
      BY <3>3
  <2> QED
    BY <2>1, <2>2
<1> DEFINE h == [y \in 0 .. k |-> IF y = k THEN LnStep(g, k) ELSE g[y]]
<1>4. ASSUME NEW y \in 0 .. k PROVE LnStep(h, y) = LnStep(g, y)
  <2>1. CASE y >= 2 * ONE
    <3>1. y \in Nat /\ y <= k
      BY <1>2, SMT
    <3>2. y \div 2 \in Nat /\ y \div 2 < y
      BY <2>1, <3>1, Halved
    <3>3. y \div 2 \in 0 .. k /\ y \div 2 # k
      BY <1>2, <3>1, <3>2, SMT
    <3>4. h[y \div 2] = g[y \div 2]
      BY <3>3
    <3> HIDE DEF h
    <3> QED
      BY <3>4 DEF LnStep
  <2>2. CASE ~ (y >= 2 * ONE)
    BY <2>2 DEF LnStep
  <2> QED
    BY <2>1, <2>2
<1>5. ASSUME NEW y \in 0 .. k PROVE h[y] = LnStep(g, y)
  <2>1. CASE y = k
    BY <2>1
  <2>2. CASE y # k
    <3>1. k > 0 /\ y \in 0 .. k - 1
      BY <1>2, <2>2, SMT
    <3>2. g[y] = LnStep(g, y)
      BY <1>3, <3>1 DEF LnUpTo
    <3>3. h[y] = g[y]
      BY <2>2
    <3> QED
      BY <3>2, <3>3
  <2> QED
    BY <2>1, <2>2
<1> HIDE DEF h
<1>6. LnUpTo(h, k)
  BY <1>4, <1>5 DEF LnUpTo
<1> QED
  BY <1>2, <1>6

(* The recursion of Math.log's model has a solution.                       *)
LEMMA LnUnfolds == \A y \in Nat : Ln[y] = LnStep(Ln, y)
<1> DEFINE part(n) == CHOOSE g : LnUpTo(g, n)
           whole   == [y \in Nat |-> part(y)[y]]
<1>1. ASSUME NEW n \in Nat PROVE LnUpTo(part(n), n)
  <2>1. \E g : LnUpTo(g, n)
    BY LnUpToExists
  <2> QED
    BY <2>1
<1> HIDE DEF part
<1>2. ASSUME NEW y \in Nat PROVE part(y)[y] = LnStep(whole, y)
  <2>1. part(y)[y] = LnStep(part(y), y)
    <3>1. y \in 0 .. y
      BY SMT
    <3> QED
      BY <1>1, <3>1 DEF LnUpTo
  <2>2. CASE y >= 2 * ONE
    <3>1. y \div 2 \in Nat /\ y \div 2 < y
      BY <2>2, Halved
    <3>2. 0 .. y \div 2 \subseteq 0 .. y /\ y \div 2 \in 0 .. y \div 2
      BY <3>1, SMT
    <3>3. LnUpTo(part(y), y \div 2)
      BY <1>1, <3>2 DEF LnUpTo
    <3>4. part(y)[y \div 2] = part(y \div 2)[y \div 2]
      BY <1>1, <3>1, <3>2, <3>3, LnUnique
    <3>5. whole[y \div 2] = part(y \div 2)[y \div 2]
      BY <3>1
    <3> HIDE DEF whole
    <3> QED
      BY <2>1, <2>2, <3>4, <3>5 DEF LnStep
  <2>3. CASE ~ (y >= 2 * ONE)
    <3> HIDE DEF whole
    <3> QED
      BY <2>1, <2>3 DEF LnStep
  <2> QED
    BY <2>2, <2>3
<1>3. whole = [y \in Nat |-> LnStep(whole, y)]
  <2>1. [y \in Nat |-> part(y)[y]] = [y \in Nat |-> LnStep(whole, y)]
    <3> HIDE DEF whole
    <3> QED
      BY <1>2
  <2> QED
    BY <2>1 DEF whole
<1>4. \E g : g = [y \in Nat |-> LnStep(g, y)]
  <2> HIDE DEF whole
  <2> QED
    BY <1>3
<1>5. Ln = [y \in Nat |-> LnStep(Ln, y)]
  BY <1>4, Zenon DEF Ln, LnStep
<1> QED
  <2> SUFFICES ASSUME NEW y \in Nat PROVE Ln[y] = LnStep(Ln, y)
    OBVIOUS
  <2>1. [z \in Nat |-> LnStep(Ln, z)][y] = LnStep(Ln, y)
    OBVIOUS
  <2> QED
    BY <1>5, <2>1

LEMMA SeriesNat ==
  ASSUME NEW z \in Nat, NEW s \in Nat
  PROVE  LnSeries(z, s) \in Nat
<1> DEFINE a == Times(z, s)
           b == Times(z, Times(s, s))
           c == Times(z, Times(s, Times(s, s)))
<1>1. a \in Nat /\ b \in Nat /\ c \in Nat
  BY TimesNat
<1>2. LnSeries(z, s) = 2 * (z + a \div 3 + b \div 5 + c \div 7)
  BY DEF LnSeries
<1> HIDE DEF a, b, c
<1>3. a \div 3 \in Nat /\ b \div 5 \in Nat /\ c \div 7 \in Nat
  BY <1>1, SMT
<1> QED
  BY <1>2, <1>3, SMT

LEMMA LnNat ==
  ASSUME NEW n \in Nat, n >= ONE
  PROVE  Ln[n] \in Nat
<1>1. ASSUME NEW y \in Nat, y >= ONE PROVE LnBelow2(y) \in Nat
  <2> DEFINE z == Ratio(y - ONE, y + ONE)
  <2>1. z \in Nat
    <3>1. (y - ONE) * ONE \in Nat /\ y + ONE \in Nat \ {0}
      BY <1>1, OneAssumption, SMT
    <3> QED
      BY <3>1, DivBounds DEF Ratio
  <2>2. LnBelow2(y) = LnSeries(z, Times(z, z))
    BY DEF LnBelow2
  <2> HIDE DEF z
  <2> QED
    BY <2>1, <2>2, TimesNat, SeriesNat
<1> DEFINE Bad == {y \in Nat : y >= ONE /\ Ln[y] \notin Nat}
<1> SUFFICES ASSUME NEW z \in Bad PROVE FALSE
  OBVIOUS
<1>2. PICK y \in Bad : \A k \in Bad : y <= k
  <2>1. Bad \in SUBSET Nat
    OBVIOUS
  <2> HIDE DEF Bad
  <2> QED
    BY <2>1, LeastOf
<1>3. y \in Nat /\ y >= ONE /\ Ln[y] \notin Nat /\ Ln[y] = LnStep(Ln, y)
  BY <1>2, LnUnfolds
<1>4. y >= 2 * ONE
  BY <1>1, <1>3 DEF LnStep
<1>5. y \div 2 \in Nat /\ y \div 2 < y /\ y \div 2 >= ONE
  BY <1>3, <1>4, Halved
<1>6. Ln[y \div 2] \in Nat
  <2>1. y \div 2 \notin Bad
    <3> HIDE DEF Bad
    <3> QED
      BY <1>2, <1>3, <1>5, SMT
  <2> QED
    BY <1>5, <2>1
<1>7. LnBelow2(2 * ONE) \in Nat
  <2>1. 2 * ONE \in Nat /\ 2 * ONE >= ONE
    BY OneAssumption, SMT
  <2> QED
    BY <1>1, <2>1
<1>8. Ln[y] = LnBelow2(2 * ONE) + Ln[y \div 2]
  BY <1>3, <1>4 DEF LnStep
<1> QED
  BY <1>3, <1>6, <1>7, <1>8, SMT

LEMMA IntDiv ==
  ASSUME NEW a \in Int, NEW d \in Nat \ {0}
  PROVE  /\ a \div d \in Int /\ d * (a \div d) <= a /\ a < d * (a \div d) + d
         /\ a >= 0 => a \div d >= 0
         /\ a <= 0 => a \div d <= 0
<1> DEFINE q == a \div d
<1>1. q \in Int /\ d * q <= a /\ a < d * q + d
  BY SMT
<1> HIDE DEF q
<1>2. ASSUME a >= 0, q < 0 PROVE FALSE
  <2>1. d * (q + 1) <= d * 0
    BY <1>1, <1>2, SMT
  <2> QED
    BY <1>1, <1>2, <2>1, SMT
<1>3. ASSUME a <= 0, q > 0 PROVE FALSE
  <2>1. d * q >= d * 1
    BY <1>1, <1>3, SMT
  <2> QED
    BY <1>1, <1>3, <2>1, SMT
<1>4. (a >= 0 => q >= 0) /\ (a <= 0 => q <= 0)
  BY <1>1, <1>2, <1>3, SMT
<1> QED
  BY <1>1, <1>4 DEF q

(* The curve is read where both parts of the pool are there.               *)
LEMMA LogProportionInt ==
  ASSUME NEW part \in Nat \ {0}, NEW whole \in Nat, part < whole
  PROVE  LogProportion(part, whole) \in Int
<1> DEFINE a == Larger(part, whole - part)
           b == Smaller(part, whole - part)
           y == Ratio(a, b)
<1>1. a \in Nat /\ b \in Nat \ {0} /\ b <= a
  BY SMT DEF Larger, Smaller
<1>2. LogProportion(part, whole) = (IF 2 * part >= whole THEN 1 ELSE -1) * Ln[y]
  BY DEF LogProportion
<1>3. y \in Nat /\ y >= ONE
  <2> HIDE DEF a, b
  <2>1. ONE \in Nat /\ a * ONE \in Nat /\ ONE * b \in Nat /\ ONE * b <= a * ONE
    BY <1>1, OneAssumption, SMT
  <2>2. (ONE * b) \div b = ONE /\ (ONE * b) \div b <= (a * ONE) \div b
    BY <1>1, <2>1, DivOfProduct, DivMonotone
  <2>3. (a * ONE) \div b \in Nat
    BY <1>1, <2>1, DivBounds
  <2> QED
    BY <2>1, <2>2, <2>3, SMT DEF Ratio
<1> HIDE DEF y
<1>4. Ln[y] \in Nat
  BY <1>3, LnNat
<1> QED
  BY <1>2, <1>4, SMT

(* What marketPreCompute hands to a trade.                                 *)
Computed(comp) ==
  /\ comp.rateScalar \in Nat \ {0} /\ comp.totalAsset \in Nat \ {0}
  /\ comp.timeToExpiry \in Nat \ {0} /\ comp.rateAnchor \in Int
  /\ comp.feeRate \in Nat /\ comp.feeRate >= ONE

LEMMA PreComputeTyped ==
  ASSUME NEW m \in Market, Open(m, BlockTime), m.scalarRoot * YEAR >= m.expiry - BlockTime
  PROVE  Computed(MarketPreCompute(m, BlockTime))
<1> DEFINE comp  == MarketPreCompute(m, BlockTime)
           left  == m.expiry - BlockTime
           rs    == RateScalar(m.scalarRoot, left)
           asset == SyToAsset(m.index, m.totalSy)
           rate(r) == ExchangeRateFromImpliedRate(r, left)
           log   == LogProportion(m.totalPt, m.totalPt + asset)
<1>1. /\ m.totalPt \in Nat /\ m.totalSy \in Nat /\ m.index \in Nat /\ m.scalarRoot \in Nat
      /\ m.lnFeeRateRoot \in Nat /\ m.lastLnImpliedRate \in Nat /\ m.expiry \in Nat
  BY DEF Market
<1>2. left \in Nat \ {0} /\ m.totalPt \in Nat \ {0} /\ asset \in Nat \ {0}
  <2>1. asset \in Nat
    BY <1>1, TimesNat DEF SyToAsset
  <2>2. m.expiry > BlockTime /\ m.totalPt > 0 /\ asset > 0
    BY DEF Open
  <2> HIDE DEF asset
  <2> QED
    BY <1>1, <2>1, <2>2, SearchAssumption, SMT
<1>3. /\ comp.rateScalar = rs /\ comp.totalAsset = asset /\ comp.timeToExpiry = left
      /\ comp.rateAnchor = rate(m.lastLnImpliedRate) - Ratio(log, rs)
      /\ comp.feeRate = rate(m.lnFeeRateRoot)
  BY DEF MarketPreCompute
<1> HIDE DEF comp, left, asset
<1>4. rs \in Nat \ {0}
  <2>1. m.scalarRoot * YEAR \in Nat /\ 1 * left <= m.scalarRoot * YEAR /\ 1 * left \in Nat
    <3>1. m.scalarRoot * YEAR \in Nat
      BY <1>1, YearAssumption, SMT
    <3> QED
      BY <1>2, <3>1, SMT DEF left
  <2>2. (1 * left) \div left = 1
    BY <1>2, DivOfProduct
  <2>3. (1 * left) \div left <= (m.scalarRoot * YEAR) \div left
    BY <1>2, <2>1, DivMonotone
  <2>4. (m.scalarRoot * YEAR) \div left \in Nat
    BY <1>2, <2>1, DivBounds
  <2> QED
    BY <2>2, <2>3, <2>4, SMT DEF RateScalar
<1>5. ASSUME NEW r \in Nat PROVE rate(r) \in Nat /\ rate(r) >= ONE
  <2>1. r * left \in Nat
    BY <1>2, SMT
  <2>2. (r * left) \div YEAR \in Nat
    BY <2>1, YearAssumption, DivBounds
  <2> QED
    BY <2>2, ExpAboveOne DEF ExchangeRateFromImpliedRate
<1>6. Ratio(log, rs) \in Int
  <2>1. m.totalPt + asset \in Nat /\ m.totalPt < m.totalPt + asset
    BY <1>2, SMT
  <2>2. log \in Int
    BY <1>2, <2>1, LogProportionInt
  <2> HIDE DEF log, rs
  <2>3. log * ONE \in Int
    BY <2>2, OneAssumption, SMT
  <2> QED
    BY <1>4, <2>3, IntDiv DEF Ratio
<1>7. comp.rateAnchor \in Int
  <2> HIDE DEF rs, log
  <2>1. rate(m.lastLnImpliedRate) \in Nat
    BY <1>1, <1>5
  <2> HIDE DEF rate
  <2> QED
    BY <1>3, <1>6, <2>1, SMT
<1>8. comp.feeRate \in Nat /\ comp.feeRate >= ONE
  BY <1>1, <1>3, <1>5
<1>9. Computed(comp)
  <2> HIDE DEF rs
  <2> QED
    BY <1>2, <1>3, <1>4, <1>7, <1>8 DEF Computed
<1> QED
  BY <1>9 DEF comp

(* Where the curve does not throw both parts are there and its rate is one *)
(* and more.                                                               *)
LEMMA OnCurve ==
  ASSUME NEW comp, Computed(comp), NEW part \in Int, NEW whole \in Int,
         ~ OffCurve(comp, part, whole)
  PROVE  /\ part \in Nat \ {0} /\ part < whole
         /\ CurveRate(comp, part, whole) \in Nat /\ CurveRate(comp, part, whole) >= ONE
<1> DEFINE rate == CurveRate(comp, part, whole)
<1>1. ~ (part <= 0) /\ ~ (part * ONE > MAX_MARKET_PROPORTION * whole) /\ ~ (rate < ONE)
  BY DEF OffCurve
<1> HIDE DEF rate
<1>2. part \in Nat \ {0} /\ ONE \in Nat \ {0} /\ MAX_MARKET_PROPORTION \in Nat
      /\ MAX_MARKET_PROPORTION < ONE
  BY <1>1, OneAssumption, ProportionAssumption, SMT
<1>3. part * ONE <= MAX_MARKET_PROPORTION * whole /\ part * ONE > 0
  BY <1>1, <1>2, SMT
<1>4. whole \in Nat
  <2>1. ASSUME whole < 0 PROVE FALSE
    <3>1. MAX_MARKET_PROPORTION * whole <= 0
      BY <1>2, <2>1, SMT
    <3> QED
      BY <1>2, <1>3, <3>1, SMT
  <2> QED
    BY <2>1, SMT
<1>5. part < whole
  <2>1. ASSUME part >= whole PROVE FALSE
    <3>1. MAX_MARKET_PROPORTION * whole <= MAX_MARKET_PROPORTION * part
      BY <1>2, <1>4, <2>1, SMT
    <3>2. MAX_MARKET_PROPORTION * part < ONE * part
      BY <1>2, SMT
    <3> QED
      BY <1>2, <1>3, <1>4, <3>1, <3>2, SMT
  <2> QED
    BY <2>1, <1>2, SMT
<1>6. rate \in Int
  <2> DEFINE log == LogProportion(part, whole)
  <2>1. log \in Int
    BY <1>2, <1>4, <1>5, LogProportionInt
  <2>2. rate = (log * ONE) \div comp.rateScalar + comp.rateAnchor
    BY DEF rate, CurveRate, Ratio
  <2> HIDE DEF log
  <2>3. log * ONE \in Int
    BY <1>2, <2>1, SMT
  <2>4. (log * ONE) \div comp.rateScalar \in Int
    BY <2>3, IntDiv DEF Computed
  <2> QED
    BY <2>2, <2>4, SMT DEF Computed
<1>7. rate \in Nat /\ rate >= ONE
  BY <1>1, <1>2, <1>6, SMT
<1> QED
  BY <1>2, <1>5, <1>7 DEF rate

(* What a purchase pays into the pool, in the asset: its cost, and up to   *)
(* three tokens that rounding adds.                                        *)
LEMMA PaidIn ==
  ASSUME NEW sy \in Nat, NEW cost \in Nat, NEW index \in 1 .. 3 * ONE
  PROVE  LET more == sy - AssetToSy(index, - cost)
         IN  /\ more \in Nat
             /\ SyToAsset(index, more) - SyToAsset(index, sy) - cost \in 0 .. 3
<1> DEFINE d    == ((- cost) * ONE) \div index
           more == sy - d
           old  == (sy * index) \div ONE
           new  == (more * index) \div ONE
<1>1. ONE \in Nat \ {0} /\ index \in Nat \ {0} /\ index <= 3 * ONE
  BY OneAssumption, SMT
<1>2. d \in Int /\ d <= 0 /\ index * d <= (- cost) * ONE /\ (- cost) * ONE < index * d + index
  <2>1. (- cost) * ONE \in Int /\ (- cost) * ONE <= 0
    BY <1>1, SMT
  <2> QED
    BY <1>1, <2>1, IntDiv
<1> HIDE DEF d
<1>3. more \in Nat
  BY <1>2, SMT
<1>4. old \in Nat /\ ONE * old <= sy * index /\ sy * index < ONE * old + ONE
  <2>1. sy * index \in Nat
    BY <1>1, SMT
  <2> QED
    BY <1>1, <2>1, DivBounds
<1>5. new \in Nat /\ ONE * new <= more * index /\ more * index < ONE * new + ONE
  <2>1. more * index \in Nat
    <3> HIDE DEF more
    <3> QED
      BY <1>1, <1>3, SMT
  <2> HIDE DEF more
  <2> QED
    BY <1>1, <2>1, DivBounds
<1>6. more * index = sy * index - index * d
  BY <1>1, <1>2, SMT
<1> HIDE DEF more, old, new
<1>7. ONE * (old + cost) < ONE * (new + 1)
  BY <1>1, <1>2, <1>4, <1>5, <1>6, SMT
<1>8. ONE * new < ONE * (old + cost + 4)
  BY <1>1, <1>2, <1>4, <1>5, <1>6, SMT
<1>9. old + cost < new + 1
  <2>1. ASSUME new + 1 <= old + cost PROVE FALSE
    <3>1. ONE * (new + 1) <= ONE * (old + cost)
      BY <1>1, <1>4, <1>5, <2>1, SMT
    <3> QED
      BY <1>1, <1>4, <1>5, <1>7, <3>1, SMT
  <2> QED
    BY <1>4, <1>5, <2>1, SMT
<1>10. new < old + cost + 4
  <2>1. ASSUME old + cost + 4 <= new PROVE FALSE
    <3>1. ONE * (old + cost + 4) <= ONE * new
      BY <1>1, <1>4, <1>5, <2>1, SMT
    <3> QED
      BY <1>1, <1>4, <1>5, <1>8, <3>1, SMT
  <2> QED
    BY <1>4, <1>5, <2>1, SMT
<1>11. new - old - cost \in 0 .. 3
  BY <1>4, <1>5, <1>9, <1>10, SMT
<1>12. AssetToSy(index, - cost) = d
  BY DEF AssetToSy, Ratio, d
<1>13. SyToAsset(index, more) = new /\ SyToAsset(index, sy) = old
  BY DEF SyToAsset, Times, new, old
<1> QED
  BY <1>3, <1>11, <1>12, <1>13 DEF more

(* The fee of a purchase and its cost are not negative.                    *)
LEMMA PurchasePriced ==
  ASSUME NEW m \in Market, NEW comp, Computed(comp), NEW pt \in Nat \ {0},
         ~ RefusesTrade(m, comp, pt)
  PROVE  LET trade == CalcTrade(m, comp, pt)
         IN  /\ trade.netAssetFee \in Nat /\ - trade.netAssetToAccount \in Nat
             /\ trade.netAssetToAccount \in Int
             /\ trade.netSyToAccount = AssetToSy(m.index, trade.netAssetToAccount)
<1> DEFINE rate == ExchangeRate(m, comp, pt)
           pre  == Ratio(- pt, rate)
           fee  == Fee(pre, comp.feeRate, pt)
           trade == CalcTrade(m, comp, pt)
<1>1. /\ trade.netAssetToAccount = pre - fee /\ trade.netAssetFee = fee
      /\ trade.netSyToAccount = AssetToSy(m.index, pre - fee)
  BY DEF CalcTrade
<1>2. rate \in Nat /\ rate >= ONE
  <2>1. m.totalPt - pt \in Int /\ m.totalPt + comp.totalAsset \in Int
    BY SMT DEF Market, Computed
  <2>2. ~ OffCurve(comp, m.totalPt - pt, m.totalPt + comp.totalAsset)
    BY DEF RefusesTrade
  <2> QED
    BY <2>1, <2>2, OnCurve DEF ExchangeRate
<1> HIDE DEF rate
<1>3. pre \in Int /\ pre <= 0
  <2>1. (- pt) * ONE \in Int /\ (- pt) * ONE <= 0 /\ rate \in Nat \ {0}
    BY <1>2, OneAssumption, SMT
  <2> QED
    BY <2>1, IntDiv DEF Ratio
<1> HIDE DEF pre
<1>4. fee \in Nat
  <2>1. fee = (pre * (ONE - comp.feeRate)) \div ONE
    BY SMT DEF Fee, Times
  <2>2. pre * (ONE - comp.feeRate) \in Int /\ pre * (ONE - comp.feeRate) >= 0
    <3>1. ONE - comp.feeRate \in Int /\ ONE - comp.feeRate <= 0
      BY OneAssumption, SMT DEF Computed
    <3> DEFINE x == - pre
               y == - (ONE - comp.feeRate)
    <3>2. x \in Nat /\ y \in Nat
      BY <1>3, <3>1, SMT
    <3>3. pre * (ONE - comp.feeRate) = x * y
      BY <1>3, <3>1, SMT
    <3> HIDE DEF x, y
    <3> QED
      BY <3>2, <3>3, SMT
  <2> QED
    BY <2>1, <2>2, OneAssumption, IntDiv, SMT
<1> HIDE DEF fee
<1>5. pre - fee \in Int /\ - (pre - fee) \in Nat
  BY <1>3, <1>4, SMT
<1> QED
  BY <1>1, <1>4, <1>5

(* A pool of which the curve can be computed.                              *)
Computable(m) ==
  /\ m \in Market /\ m.index \in 1 .. 3 * ONE
  /\ m.scalarRoot * YEAR >= m.expiry - BlockTime

(* A purchase the pool takes leaves such a pool, richer by what was paid.  *)
LEMMA PurchaseKeepsPool ==
  ASSUME NEW m, Computable(m), NEW pt \in Nat \ {0}, Takes(m, pt, BlockTime)
  PROVE  LET exec == ExecuteTrade(m, pt, BlockTime)
             cost == - exec.trade.netAssetToAccount
         IN  /\ Computable(exec.market) /\ exec.market.index = m.index
             /\ exec.trade.netAssetToAccount \in Int
             /\ cost \in Nat /\ exec.trade.netAssetFee \in Nat
             /\ exec.trade = CalcTrade(m, MarketPreCompute(m, BlockTime), pt)
             /\ SyToAsset(m.index, exec.market.totalSy) - SyToAsset(m.index, m.totalSy) - cost
                  \in 0 .. 3
<1> DEFINE comp  == MarketPreCompute(m, BlockTime)
           trade == CalcTrade(m, comp, pt)
           net   == trade.netAssetToAccount
           cost  == - net
           part  == m.totalPt - pt
           sy    == m.totalSy - trade.netSyToAccount
           after == After(m, trade, pt)
           asset == SyToAsset(m.index, sy)
           rate  == LnImpliedRateAt(part, asset, comp)
           next  == [m EXCEPT !.totalPt = part, !.totalSy = sy, !.lastLnImpliedRate = rate]
           exec  == ExecuteTrade(m, pt, BlockTime)
<1>1. /\ m \in Market /\ m.index \in 1 .. 3 * ONE /\ m.index \in Nat /\ m.totalSy \in Nat
      /\ m.totalPt \in Nat /\ m.scalarRoot * YEAR >= m.expiry - BlockTime
  BY OneAssumption, SMT DEF Computable, Market
<1>2. Open(m, BlockTime) /\ ~ RefusesTrade(m, comp, pt)
      /\ ~ OffCurve(comp, after.totalPt, after.totalPt + SyToAsset(after.index, after.totalSy))
  BY Zenon DEF Takes
<1>3. Computed(comp)
  BY <1>1, <1>2, PreComputeTyped
<1>4. after.totalPt = part /\ after.totalSy = sy /\ after.index = m.index
  <2> HIDE DEF trade
  <2> QED
    BY <1>1 DEF After, Market
<1>5. exec.trade = trade /\ exec.market = [after EXCEPT !.lastLnImpliedRate = rate]
  <2>1. /\ exec.trade = trade
        /\ exec.market = [after EXCEPT !.lastLnImpliedRate =
             LnImpliedRateAt(after.totalPt, SyToAsset(after.index, after.totalSy), comp)]
    BY DEF ExecuteTrade
  <2> HIDE DEF exec, trade, after, comp
  <2> QED
    BY <1>4, <2>1
<1>6. [after EXCEPT !.lastLnImpliedRate = rate] = next
  <2> HIDE DEF trade, rate, sy
  <2> QED
    BY <1>1 DEF After, Market, sy
<1>7. trade.netAssetFee \in Nat /\ net \in Int /\ cost \in Nat
      /\ trade.netSyToAccount = AssetToSy(m.index, net)
  <2> HIDE DEF comp
  <2> QED
    BY <1>1, <1>2, <1>3, PurchasePriced
<1>8. net = - cost
  <2> HIDE DEF trade
  <2> QED
    BY <1>7, SMT
<1>9. sy \in Nat /\ asset - SyToAsset(m.index, m.totalSy) - cost \in 0 .. 3
  <2>1. sy = m.totalSy - AssetToSy(m.index, - cost)
    <3> HIDE DEF trade, net, cost
    <3> QED
      BY <1>7, <1>8
  <2> HIDE DEF cost, sy
  <2> QED
    BY <1>1, <1>7, <2>1, PaidIn
<1>10. asset \in Nat
  <2> HIDE DEF sy
  <2> QED
    BY <1>1, <1>9, TimesNat DEF SyToAsset
<1>11. rate \in Nat /\ part \in Nat
  <2> HIDE DEF comp, trade, after, sy, asset
  <2>1. ~ OffCurve(comp, part, part + asset)
    BY <1>2, <1>4 DEF asset
  <2>2. part \in Int /\ part + asset \in Int
    BY <1>1, <1>10, SMT
  <2>3. /\ part \in Nat \ {0}
        /\ CurveRate(comp, part, part + asset) \in Nat
        /\ CurveRate(comp, part, part + asset) >= ONE
    <3> HIDE DEF part
    <3> QED
      BY <1>3, <2>1, <2>2, OnCurve
  <2> DEFINE log == Ln[CurveRate(comp, part, part + asset)]
  <2>4. log \in Nat
    <3> HIDE DEF part
    <3> QED
      BY <2>3, LnNat
  <2>5. rate = (log * YEAR) \div comp.timeToExpiry
    BY DEF LnImpliedRateAt
  <2> HIDE DEF log, rate
  <2>6. log * YEAR \in Nat
    BY <2>4, YearAssumption, SMT
  <2> QED
    BY <1>3, <2>3, <2>5, <2>6, DivBounds DEF Computed
<1> HIDE DEF comp, trade, sy, asset, rate, exec, after, part
<1>12. /\ next \in Market /\ next.index = m.index /\ next.totalSy = sy
       /\ next.scalarRoot = m.scalarRoot /\ next.expiry = m.expiry
  BY <1>1, <1>9, <1>11 DEF Market
<1>13. Computable(next)
  BY <1>1, <1>12, Zenon DEF Computable
<1> HIDE DEF next, net, cost
<1>14. exec.market = next /\ exec.trade = trade
  BY <1>5, <1>6
<1>15. exec.market.totalSy = sy
  BY <1>12, <1>14
<1>16. SyToAsset(m.index, exec.market.totalSy) - SyToAsset(m.index, m.totalSy) - cost \in 0 .. 3
  BY <1>9, <1>15 DEF asset
<1> QED
  BY <1>7, <1>12, <1>13, <1>14, <1>16 DEF exec, cost, net, trade, comp

------------------------------------------------------------------------------
(***************************************************************************)
(* Types, and the books of the loop with what it spent.                    *)
(***************************************************************************)

(* A search tries two tokens and more, so that its bracket never closes.   *)
SearchTyped(s) ==
  /\ s.market \in Market /\ s.lo < s.hi
  /\ s.status = "bracket" => s.hi >= 2
  /\ s.status = "bisect" => s.hi - s.lo >= 2

(* What the loop spent, against what it borrowed and what its pool took in.*)
LoopTyped(l) ==
  /\ Computable(l.market) /\ l.market.index = l.opening.index
  /\ l.opening \in Market /\ l.opening.totalPt >= 2 * FIRST_SIZE
  /\ l.ammFeesPaid \in Nat /\ l.assetSpent \in Nat /\ l.achievedDepth \in Nat
  /\ ~ l.fellBack => l.assetSpent <= l.debt
  /\ SyToAsset(l.market.index, l.market.totalSy) - SyToAsset(l.opening.index, l.opening.totalSy)
       - l.assetSpent \in 0 .. 3 * l.achievedDepth

CostIn(m, pt) == - CalcTrade(m, MarketPreCompute(m, BlockTime), pt).netAssetToAccount

(* The size kept costs no more than the budget, unless it is a fallback.   *)
Affords(l, b) == b.lo # 0 /\ ~ l.fellBack => CostIn(l.market, b.lo) <= b.budget

BuyTyped(b) ==
  /\ DOMAIN b = {"budget", "lo", "hi", "rounds"}
  /\ b.budget \in Nat /\ b.lo \in Nat /\ b.hi \in Nat /\ b.rounds \in Nat

Sizes == {"double", "fallback", "bisect", "sized"}

LoopBooks ==
  /\ loop = LoopIdle \/ (LoopTyped(loop) /\ (loop.status \in Sizes => Affords(loop, buy)))
  /\ BuyTyped(buy)

TypedInv ==
  /\ phase \in 1 .. 8
  /\ search = SearchIdle \/ SearchTyped(search)
  /\ LoopBooks

LEMMA SolveTyped ==
  ASSUME NEW m \in Market, m.totalPt >= 2 * FIRST_SIZE, NEW fraction, Solve(m, fraction)
  PROVE  SearchTyped(search')
<1> DEFINE st == IF fraction > MaxUpwardDisplacement(MarketImpliedValue(m, BlockTime))
                 THEN "aboveCeiling" ELSE "bracket"
           h  == m.totalPt \div FIRST_SIZE
<1>1. m.totalPt \in Nat /\ FIRST_SIZE \in Nat \ {0} /\ 2 * FIRST_SIZE \in Nat
  BY SearchAssumption, SMT DEF Market
<1>2. h \in Nat /\ h >= 2
  <2>1. (2 * FIRST_SIZE) \div FIRST_SIZE = 2
    BY <1>1, DivOfProduct
  <2>2. (2 * FIRST_SIZE) \div FIRST_SIZE <= h
    BY <1>1, DivMonotone
  <2>3. h \in Nat
    BY <1>1, DivBounds
  <2> QED
    BY <2>1, <2>2, <2>3, SMT
<1>3. search' = [market |-> m, fraction |-> fraction, lo |-> 0, hi |-> h, status |-> st]
  BY DEF Solve
<1>4. st # "bisect"
  OBVIOUS
<1> HIDE DEF st, h
<1>5. search'.market = m /\ search'.lo = 0 /\ search'.hi = h /\ search'.status = st
  BY <1>3
<1> QED
  BY <1>2, <1>4, <1>5, SMT DEF SearchTyped

LEMMA SearchStepTyped ==
  ASSUME Bracketed(search), SearchTyped(search), SearchStep
  PROVE  SearchTyped(search')
<1>1. CASE Bracket
  <2>0. search.status = "bracket" /\ search.lo = 0 /\ search.hi \in Nat /\ search.hi >= 2
    BY <1>1, SMT DEF Bracket, Bracketed, SearchTyped
  <2>1. ASSUME NEW st, search' = [search EXCEPT !.status = st], st # "bracket"
        PROVE  SearchTyped(search')
    BY <2>0, <2>1, SMT DEF Bracketed, SearchTyped
  <2>2. ASSUME NEW st, search' = [search EXCEPT !.hi = 2 * @, !.status = st], st # "bisect"
        PROVE  SearchTyped(search')
    BY <2>0, <2>2, SMT DEF Bracketed, SearchTyped
  <2>3. CASE ~ Takes(search.market, search.hi, BlockTime)
    BY <1>1, <2>1, <2>3, Zenon DEF Bracket
  <2>4. CASE Takes(search.market, search.hi, BlockTime)
    <3>1. CASE PriceAfter(search.market, search.hi) >= TargetPrice
      BY <1>1, <2>1, <2>4, <3>1, Zenon DEF Bracket
    <3>2. CASE ~ (PriceAfter(search.market, search.hi) >= TargetPrice)
      <4>1. search' = [search EXCEPT !.hi = 2 * @,
                                     !.status = IF TooLarge(2 * search.hi)
                                                THEN "unreachable" ELSE @]
        BY <1>1, <2>4, <3>2, Zenon DEF Bracket
      <4>2. CASE TooLarge(2 * search.hi)
        BY <2>2, <4>1, <4>2
      <4>3. CASE ~ TooLarge(2 * search.hi)
        BY <2>0, <2>2, <4>1, <4>3
      <4> QED
        BY <4>2, <4>3
    <3> QED
      BY <3>1, <3>2
  <2> QED
    BY <2>3, <2>4
<1>2. CASE Bisect
  <2> DEFINE mid == (search.lo + search.hi) \div 2
  <2>1. search.status = "bisect"
    BY <1>2 DEF Bisect
  <2>2. /\ search.lo \in Nat /\ search.hi \in Nat /\ mid \in Nat
        /\ search.lo < mid /\ mid < search.hi
    BY <2>1, SMT DEF Bracketed, SearchTyped
  <2>3. LET half == Half(mid)
        IN  search' = [search EXCEPT !.lo = half[1], !.hi = half[2],
                                     !.status = IF half[2] - half[1] <= 1 THEN "found" ELSE @]
    BY <1>2, Zenon DEF Bisect
  <2> HIDE DEF mid
  <2>4. CASE Reaches(mid)
    <3>1. Half(mid) = <<search.lo, mid>>
      BY <2>4 DEF Half
    <3>2. search' = [search EXCEPT !.lo = search.lo, !.hi = mid,
                       !.status = IF mid - search.lo <= 1 THEN "found" ELSE @]
      BY <2>3, <3>1
    <3> QED
      BY <2>1, <2>2, <3>2, SMT DEF Bracketed, SearchTyped
  <2>5. CASE ~ Reaches(mid)
    <3>1. Half(mid) = <<mid, search.hi>>
      BY <2>5 DEF Half
    <3>2. search' = [search EXCEPT !.lo = mid, !.hi = search.hi,
                       !.status = IF search.hi - mid <= 1 THEN "found" ELSE @]
      BY <2>3, <3>1
    <3> QED
      BY <2>1, <2>2, <3>2, SMT DEF Bracketed, SearchTyped
  <2> QED
    BY <2>4, <2>5
<1> QED
  BY <1>1, <1>2 DEF SearchStep

LEMMA RunTyped ==
  ASSUME NEW m, Computable(m), m.totalPt >= 2 * FIRST_SIZE, NEW pt, NEW price, NEW lltv,
         NEW depth, RunLoop(pt, m, price, lltv, depth)
  PROVE  LoopBooks'
<1>1. /\ loop'.market = m /\ loop'.opening = m /\ loop'.ammFeesPaid = 0
      /\ loop'.assetSpent = 0 /\ loop'.achievedDepth = 0 /\ loop'.debt = 0
      /\ loop'.status = "borrow" /\ buy' = BuyIdle
  BY DEF RunLoop
<1>2. SyToAsset(m.index, m.totalSy) \in Nat
  <2>1. m.index \in Nat /\ m.totalSy \in Nat
    BY OneAssumption, SMT DEF Computable, Market
  <2> QED
    BY <2>1, TimesNat DEF SyToAsset
<1>3. SyToAsset(m.index, m.totalSy) - SyToAsset(m.index, m.totalSy) - 0 \in 0 .. 3 * 0
  BY <1>2, SMT
<1>4. LoopTyped(loop')
  BY <1>1, <1>3 DEF LoopTyped, Computable
<1>5. BuyTyped(buy')
  BY <1>1 DEF BuyTyped, BuyIdle
<1>6. loop'.status \notin Sizes
  BY <1>1 DEF Sizes
<1> QED
  BY <1>4, <1>5, <1>6 DEF LoopBooks

(* A step that only changes where the loop stands keeps the books.         *)
LEMMA StatusTyped ==
  ASSUME NEW l, Backed(l), LoopTyped(l), NEW st
  PROVE  /\ LoopTyped([l EXCEPT !.status = st])
         /\ LoopTyped([l EXCEPT !.status = st, !.fellBack = TRUE])
         /\ [l EXCEPT !.status = st].status = st
         /\ \A b : Affords(l, b) => Affords([l EXCEPT !.status = st], b)
         /\ \A b : Affords([l EXCEPT !.status = st, !.fellBack = TRUE], b)
<1>1. /\ [l EXCEPT !.status = st].market = l.market
      /\ [l EXCEPT !.status = st].opening = l.opening
      /\ [l EXCEPT !.status = st].ammFeesPaid = l.ammFeesPaid
      /\ [l EXCEPT !.status = st].assetSpent = l.assetSpent
      /\ [l EXCEPT !.status = st].achievedDepth = l.achievedDepth
      /\ [l EXCEPT !.status = st].fellBack = l.fellBack
      /\ [l EXCEPT !.status = st].debt = l.debt
      /\ [l EXCEPT !.status = st].status = st
  BY DEF Backed
<1> DEFINE fell == [l EXCEPT !.status = st, !.fellBack = TRUE]
<1>2. /\ fell.market = l.market /\ fell.opening = l.opening
      /\ fell.ammFeesPaid = l.ammFeesPaid /\ fell.assetSpent = l.assetSpent
      /\ fell.achievedDepth = l.achievedDepth /\ fell.fellBack = TRUE
  BY DEF Backed
<1> HIDE DEF fell
<1>3. LoopTyped(fell) /\ \A b : Affords(fell, b)
  BY <1>2 DEF LoopTyped, Affords
<1>4. LoopTyped([l EXCEPT !.status = st])
  BY <1>1, Zenon DEF LoopTyped
<1>5. \A b : Affords(l, b) => Affords([l EXCEPT !.status = st], b)
  BY <1>1, Zenon DEF Affords
<1> QED
  BY <1>1, <1>3, <1>4, <1>5 DEF fell

LEMMA LoopStepTyped ==
  ASSUME Backed(loop), loop.status \in Sizes => Sizing(loop, buy),
         LoopTyped(loop), loop.status \in Sizes => Affords(loop, buy), BuyTyped(buy), LoopStep
  PROVE  LoopBooks'
<1>0. LoopInv'
  BY LoopStepBacked DEF Sizes
<1>1. ASSUME NEW st, loop' = [loop EXCEPT !.status = st], BuyTyped(buy'),
             st \in Sizes => Affords(loop, buy')
      PROVE  LoopBooks'
  <2> DEFINE next == [loop EXCEPT !.status = st]
  <2>1. LoopTyped(next) /\ next.status = st /\ (Affords(loop, buy') => Affords(next, buy'))
    BY StatusTyped
  <2>2. loop' = next
    BY <1>1
  <2> HIDE DEF next
  <2> QED
    BY <1>1, <2>1, <2>2 DEF LoopBooks
<1>2. CASE Borrow
  <2>1. CASE loop.achievedDepth = loop.depth \/ Headroom <= 0
    <3>1. loop' = [loop EXCEPT !.status = "done"] /\ buy' = buy
      BY <1>2, <2>1 DEF Borrow
    <3> QED
      BY <1>1, <3>1, Zenon DEF Sizes
  <2>2. CASE ~ (loop.achievedDepth = loop.depth \/ Headroom <= 0)
    <3> DEFINE budget == Times(Headroom, BORROW_UTILISATION)
    <3>1. /\ loop' = [loop EXCEPT !.status = "double"]
          /\ buy' = [budget |-> budget, lo |-> 0, hi |-> budget, rounds |-> 0]
      BY <1>2, <2>2 DEF Borrow
    <3>2. budget \in Nat
      <4> HIDE DEF budget
      <4>1. loop'.status = "double"
        BY <3>1 DEF Backed
      <4>2. Sizing(loop', buy')
        BY <1>0, <4>1 DEF LoopInv, LoopIdle
      <4> QED
        BY <3>1, <4>2 DEF Sizing
    <3> HIDE DEF budget
    <3>3. BuyTyped(buy') /\ Affords(loop, buy')
      BY <3>1, <3>2 DEF BuyTyped, Affords
    <3> QED
      BY <1>1, <3>1, <3>3, Zenon
  <2> QED
    BY <2>1, <2>2
<1>3. CASE Double
  <2>1. loop.status = "double" /\ Affords(loop, buy)
    BY <1>3 DEF Double, Sizes
  <2>2. CASE ~ Short(buy.hi)
    <3>1. loop' = [loop EXCEPT !.status = "bisect"] /\ buy' = buy
      BY <1>3, <2>2 DEF Double
    <3> QED
      BY <1>1, <2>1, <3>1, Zenon
  <2>3. CASE Short(buy.hi)
    <3>1. buy' = [buy EXCEPT !.hi = 2 * @]
      BY <1>3, <2>3 DEF Double
    <3>2. BuyTyped(buy')
      BY <3>1, SMT DEF BuyTyped
    <3>3. Affords(loop, buy')
      <4>1. buy'.lo = buy.lo /\ buy'.budget = buy.budget
        BY <3>1 DEF BuyTyped
      <4> QED
        BY <2>1, <4>1, Zenon DEF Affords
    <3>4. PICK st : loop' = [loop EXCEPT !.status = st]
      BY <1>3, <2>1, <2>3 DEF Double
    <3> QED
      BY <1>1, <3>2, <3>3, <3>4, Zenon
  <2> QED
    BY <2>2, <2>3
<1>4. CASE Fallback
  <2>1. PICK st : loop' = [loop EXCEPT !.status = st, !.fellBack = TRUE]
    BY <1>4, Zenon DEF Fallback
  <2>2. loop'.status \in Sizes
    <3>1. loop.status = "fallback"
      BY <1>4 DEF Fallback
    <3>2. loop' = [loop EXCEPT !.status = IF buy.rounds + 1 = MaxIter THEN "sized" ELSE @,
                               !.fellBack = TRUE]
      BY <1>4 DEF Fallback
    <3>3. loop'.status = IF buy.rounds + 1 = MaxIter THEN "sized" ELSE "fallback"
      BY <3>1, <3>2, SMT DEF Backed
    <3> QED
      BY <3>3 DEF Sizes
  <2>3. Sizing(loop', buy')
    BY <1>0, <2>2 DEF LoopInv, LoopIdle, Sizes
  <2>4. buy'.rounds = buy.rounds + 1
    <3>1. PICK lo, hi : \/ buy' = [buy EXCEPT !.lo = lo, !.hi = hi, !.rounds = @ + 1]
                        \/ buy' = [buy EXCEPT !.hi = hi, !.rounds = @ + 1]
      BY <1>4, Zenon DEF Fallback
    <3> QED
      BY <3>1 DEF BuyTyped
  <2>5. BuyTyped(buy')
    BY <2>3, <2>4, SMT DEF Sizing, BuyTyped
  <2> DEFINE next == [loop EXCEPT !.status = st, !.fellBack = TRUE]
  <2>6. LoopTyped(next) /\ \A b : Affords(next, b)
    BY StatusTyped
  <2>7. loop' = next
    BY <2>1
  <2> HIDE DEF next
  <2> QED
    BY <2>5, <2>6, <2>7 DEF LoopBooks
<1>5. CASE BisectBudget
  <2>1. loop.status = "bisect" /\ Affords(loop, buy)
    BY <1>5 DEF BisectBudget, Sizes
  <2> DEFINE mid == (buy.lo + buy.hi) \div 2
             b   == IF Affordable(mid) THEN [buy EXCEPT !.lo = mid] ELSE [buy EXCEPT !.hi = mid]
  <2>2. mid \in Nat
    BY SMT DEF BuyTyped
  <2>3. buy' = b /\ loop' = [loop EXCEPT !.status = IF b.hi - b.lo <= 1 THEN "sized" ELSE @]
    BY <1>5 DEF BisectBudget
  <2> HIDE DEF mid
  <2>4. BuyTyped(b) /\ Affords(loop, b)
    <3>1. CASE Affordable(mid)
      <4>1. b.lo = mid /\ b.budget = buy.budget /\ BuyTyped(b)
        BY <2>2, <3>1 DEF BuyTyped
      <4>2. CostIn(loop.market, mid) <= buy.budget
        BY <3>1, Zenon DEF Affordable, Cost, CostIn
      <4> HIDE DEF b
      <4> QED
        BY <4>1, <4>2 DEF Affords
    <3>2. CASE ~ Affordable(mid)
      <4>1. b.lo = buy.lo /\ b.budget = buy.budget /\ BuyTyped(b)
        BY <2>2, <3>2 DEF BuyTyped
      <4> HIDE DEF b
      <4> QED
        BY <2>1, <4>1, Zenon DEF Affords
    <3> QED
      BY <3>1, <3>2
  <2> HIDE DEF b
  <2>5. PICK st : loop' = [loop EXCEPT !.status = st]
    BY <2>3
  <2> QED
    BY <1>1, <2>3, <2>4, <2>5, Zenon
<1>6. CASE Buy
  <2>1. loop.status = "sized" /\ Sizing(loop, buy) /\ Affords(loop, buy) /\ buy' = BuyIdle
    BY <1>6 DEF Buy, Sizes
  <2>2. BuyTyped(buy')
    BY <2>1 DEF BuyTyped, BuyIdle
  <2>3. CASE buy.lo = 0
    <3>1. loop' = [loop EXCEPT !.status = "done"]
      BY <1>6, <2>3 DEF Buy
    <3> QED
      BY <1>1, <2>2, <3>1, Zenon DEF Sizes
  <2>4. CASE buy.lo # 0
    <3> DEFINE exec == ExecuteTrade(loop.market, buy.lo, BlockTime)
               net  == exec.trade.netAssetToAccount
               cost == - net
               next == exec.market
               fees == loop.ammFeesPaid + exec.trade.netAssetFee
               paid == loop.assetSpent - net
               more == loop.collateralPt + buy.lo
               owed == loop.debt + buy.budget
               deep == Deeper
               was  == SyToAsset(loop.market.index, loop.market.totalSy)
               is   == SyToAsset(loop.market.index, next.totalSy)
               then == SyToAsset(loop.opening.index, loop.opening.totalSy)
    <3>1. /\ Takes(loop.market, buy.lo, BlockTime)
          /\ loop' = [loop EXCEPT !.status = "borrow", !.market = next, !.ammFeesPaid = fees,
                                  !.assetSpent = paid, !.collateralPt = more, !.debt = owed,
                                  !.achievedDepth = deep]
      BY <1>6, <2>4 DEF Buy
    <3>2. /\ loop'.status = "borrow" /\ loop'.market = next /\ loop'.ammFeesPaid = fees
          /\ loop'.assetSpent = paid /\ loop'.debt = owed /\ loop'.achievedDepth = deep
          /\ loop'.opening = loop.opening /\ loop'.fellBack = loop.fellBack
      <4> HIDE DEF next, fees, paid, more, owed, deep
      <4> QED
        BY <3>1 DEF Backed
    <3>3. buy.lo \in Nat \ {0} /\ Computable(loop.market)
      BY <2>4, SMT DEF BuyTyped, LoopTyped
    <3>4. /\ Computable(next) /\ next.index = loop.market.index
          /\ net \in Int /\ cost \in Nat /\ exec.trade.netAssetFee \in Nat
          /\ exec.trade = CalcTrade(loop.market, MarketPreCompute(loop.market, BlockTime), buy.lo)
          /\ is - was - cost \in 0 .. 3
      BY <3>1, <3>3, PurchaseKeepsPool
    <3>5. ~ loop.fellBack => cost <= buy.budget
      <4>1. cost = CostIn(loop.market, buy.lo)
        BY <3>4 DEF CostIn
      <4> HIDE DEF cost
      <4> QED
        BY <2>1, <2>4, <4>1, Zenon DEF Affords
    <3>6. /\ loop.ammFeesPaid \in Nat /\ loop.assetSpent \in Nat /\ loop.achievedDepth \in Nat
          /\ (~ loop.fellBack => loop.assetSpent <= loop.debt)
          /\ was - then - loop.assetSpent \in 0 .. 3 * loop.achievedDepth
          /\ loop.debt \in Nat /\ buy.budget \in Nat
      BY DEF LoopTyped, Backed, BuyTyped
    <3>7. was \in Nat /\ is \in Nat /\ then \in Nat
      <4>1. \A m : Computable(m) => m.index \in Nat /\ m.totalSy \in Nat
        BY OneAssumption, SMT DEF Computable, Market
      <4>2. /\ loop.market.index \in Nat /\ loop.market.totalSy \in Nat /\ next.totalSy \in Nat
            /\ loop.opening.index \in Nat /\ loop.opening.totalSy \in Nat
        <5> HIDE DEF next
        <5> QED
          BY <3>3, <3>4, <4>1 DEF LoopTyped, Market
      <4> HIDE DEF next
      <4> QED
        BY <4>2, TimesNat DEF SyToAsset
    <3> HIDE DEF next
    <3> HIDE DEF is, was, then, net
    <3>8. fees \in Nat /\ paid \in Nat /\ deep \in Nat /\ (~ loop.fellBack => paid <= owed)
      <4>1. deep = loop.achievedDepth + 1
        BY DEF Deeper
      <4>2. fees \in Nat
        BY <3>4, <3>6, SMT
      <4>3. paid \in Nat /\ (~ loop.fellBack => paid <= owed)
        <5> HIDE DEF exec
        <5> QED
          BY <3>4, <3>5, <3>6, SMT
      <4>4. deep \in Nat
        <5> HIDE DEF deep
        <5> QED
          BY <3>6, <4>1, SMT
      <4> QED
        BY <4>2, <4>3, <4>4
    <3>9. is - then - paid \in 0 .. 3 * deep
      <4>1. deep = loop.achievedDepth + 1
        BY DEF Deeper
      <4> HIDE DEF exec, deep
      <4> QED
        BY <3>4, <3>6, <3>7, <4>1, SMT
    <3> HIDE DEF fees, paid, deep, owed, more
    <3>10. LoopTyped(loop')
      <4>1. SyToAsset(next.index, next.totalSy) = is
            /\ SyToAsset(loop.opening.index, loop.opening.totalSy) = then
        BY <3>4 DEF is, then
      <4>2. next.index = loop.opening.index /\ loop.opening \in Market
            /\ loop.opening.totalPt >= 2 * FIRST_SIZE
        BY <3>4 DEF LoopTyped
      <4> QED
        BY <3>2, <3>4, <3>8, <3>9, <4>1, <4>2, Zenon DEF LoopTyped
    <3>11. loop'.status \notin Sizes
      BY <3>2 DEF Sizes
    <3> QED
      BY <2>2, <3>10, <3>11 DEF LoopBooks
  <2> QED
    BY <2>3, <2>4
<1> QED
  BY <1>2, <1>3, <1>4, <1>5, <1>6 DEF LoopStep

LEMMA AnchorPool ==
  ASSUME GridInv
  PROVE  /\ anchor.market \in Market /\ Computable(anchor.market)
         /\ anchor.market.totalPt >= 2 * FIRST_SIZE
<1>1. anchor \in Anchors
  BY DEF GridInv
<1> QED
  BY <1>1, GridAssumption, FineAssumption DEF Fine, Computable

LEMMA ReshapedPool ==
  ASSUME GridInv, NEW t \in HORIZONS, NEW scale \in LIQUIDITY_SCALES \cup {1}
  PROVE  LET m == Reshape(anchor.market, t, scale)
         IN  m \in Market /\ Computable(m) /\ m.totalPt >= 2 * FIRST_SIZE /\ m.pyIndex > 0
<1> DEFINE m == Reshape(anchor.market, t, scale)
<1>1. anchor \in Anchors /\ anchor.market \in Market
  BY AnchorPool DEF GridInv
<1>2. t \in Nat /\ scale \in Nat /\ BlockTime \in Nat
  BY GridAssumption, SearchAssumption
<1>3. /\ anchor.market.totalPt * scale \in Nat /\ anchor.market.totalSy * scale \in Nat
      /\ BlockTime + t \in Nat
  BY <1>1, <1>2, SMT DEF Market
<1>4. m \in Market
  BY <1>1, <1>3 DEF Reshape, Market
<1>5. Fine(m)
  BY <1>1, FineAssumption
<1> HIDE DEF m
<1> QED
  BY <1>4, <1>5 DEF Fine, Computable, m

LEMMA TypedInit == Init => TypedInv
<1> SUFFICES ASSUME Init PROVE TypedInv
  OBVIOUS
<1>1. phase = 1 /\ search = SearchIdle /\ loop = LoopIdle /\ buy = BuyIdle
  BY DEF Init
<1>2. BuyTyped(buy)
  BY <1>1 DEF BuyTyped, BuyIdle
<1> QED
  BY <1>1, <1>2 DEF TypedInv, LoopBooks

LEMMA TypedStep == Inv /\ TypedInv /\ [Next]_vars => TypedInv'
<1> SUFFICES ASSUME Inv, TypedInv, [Next]_vars PROVE TypedInv'
  OBVIOUS
<1>0. GridInv /\ SearchInv /\ LoopInv
  BY DEF Inv
<1>s. ASSUME UNCHANGED search PROVE (search = SearchIdle \/ SearchTyped(search))'
  BY <1>s DEF TypedInv
<1>l. ASSUME UNCHANGED <<loop, buy>> PROVE LoopBooks'
  BY <1>l DEF TypedInv, LoopBooks
<1>p. ASSUME UNCHANGED phase PROVE (phase \in 1 .. 8)'
  BY <1>p DEF TypedInv
<1>r. ASSUME NEW made, NEW n, RowsMade(made, n) PROVE TypedInv'
  <2>1. phase' = phase /\ search' = SearchIdle /\ loop' = LoopIdle /\ buy' = BuyIdle
    BY <1>r DEF RowsMade
  <2>2. BuyTyped(buy')
    BY <2>1 DEF BuyTyped, BuyIdle
  <2> QED
    BY <1>p, <2>1, <2>2 DEF TypedInv, LoopBooks
<1>v. ASSUME NEW m \in Market, m.totalPt >= 2 * FIRST_SIZE, NEW fraction, Solve(m, fraction),
             UNCHANGED <<loop, buy, phase>>
      PROVE  TypedInv'
  BY <1>l, <1>p, <1>v, SolveTyped DEF TypedInv
<1>1. CASE UNCHANGED vars
  BY <1>1, <1>s, <1>l, <1>p DEF vars, TypedInv
<1>2. CASE NextSweep
  <2>1. phase < 8 /\ phase' = phase + 1 /\ UNCHANGED <<search, loop, buy>>
    BY <1>2 DEF NextSweep
  <2>2. phase' \in 1 .. 8
    BY <2>1, SMT DEF TypedInv
  <2> QED
    BY <1>s, <1>l, <2>1, <2>2 DEF TypedInv
<1>3. CASE PortValidationRow \/ MaturityRow \/ DisplacementRow \/ TransmissionRow
           \/ PropagationRow \/ LeverageRow \/ StressRow
  BY <1>3, <1>r, Zenon DEF PortValidationRow, MaturityRow, DisplacementRow, TransmissionRow,
       PropagationRow, LeverageRow, StressRow
<1>4. CASE StartDisplacement
  <2> DEFINE m == Reshape(anchor.market, Combination[1], Combination[2])
  <2>1. /\ todo # {} /\ Sweep = "displacement" /\ Solve(m, Combination[3])
        /\ UNCHANGED <<loop, buy, phase>>
    BY <1>4 DEF StartDisplacement
  <2>2. m \in Market /\ m.totalPt >= 2 * FIRST_SIZE
    BY <1>0, <2>1, OpeningStarts, ReshapedPool
  <2> HIDE DEF m
  <2> QED
    BY <1>v, <2>1, <2>2
<1>5. CASE StartTransmission
  BY <1>0, <1>v, <1>5, AnchorPool DEF StartTransmission
<1>6. CASE StartLeverage
  <2>1. UNCHANGED <<search, phase>>
    BY <1>6 DEF StartLeverage
  <2>2. LoopBooks'
    BY <1>0, <1>6, AnchorPool, RunTyped DEF StartLeverage
  <2> QED
    BY <1>s, <1>p, <2>1, <2>2 DEF TypedInv
<1>7. CASE StartStress
  <2> DEFINE m == Reshape(anchor.market, Combination[1], Combination[2])
  <2>1. /\ todo # {} /\ Sweep = "stress" /\ UNCHANGED <<search, phase>>
        /\ RunLoop(OwnPt(m, 1), m, Displaced(m, Combination[5]), Combination[3], Combination[4])
    BY <1>7 DEF StartStress
  <2>2. Computable(m) /\ m.totalPt >= 2 * FIRST_SIZE
    BY <1>0, <2>1, OpeningStarts, ReshapedPool
  <2> HIDE DEF m
  <2>3. LoopBooks'
    BY <2>1, <2>2, RunTyped
  <2> QED
    BY <1>s, <1>p, <2>1, <2>3 DEF TypedInv
<1>8. CASE StressSearch
  <2>1. /\ loop.status = "done" /\ Solve(loop.opening, Combination[5])
        /\ UNCHANGED <<loop, buy, phase>>
    BY <1>8 DEF StressSearch
  <2>2. loop.opening \in Market /\ loop.opening.totalPt >= 2 * FIRST_SIZE
    BY <2>1 DEF TypedInv, LoopBooks, LoopTyped, LoopIdle
  <2> QED
    BY <1>v, <2>1, <2>2
<1>9. CASE Searching
  <2>1. SearchStep /\ UNCHANGED <<loop, buy, phase>>
    BY <1>9 DEF Searching
  <2>2. search # SearchIdle
    BY <2>1 DEF SearchStep, Bracket, Bisect, SearchIdle
  <2>3. SearchTyped(search')
    BY <1>0, <2>1, <2>2, SearchStepTyped DEF SearchInv, TypedInv
  <2> QED
    BY <1>l, <1>p, <2>1, <2>3 DEF TypedInv
<1>10. CASE Looping
  <2>1. LoopStep /\ UNCHANGED <<search, phase>>
    BY <1>10 DEF Looping
  <2>2. loop # LoopIdle
    BY <2>1 DEF LoopStep, Borrow, Double, Fallback, BisectBudget, Buy, LoopIdle
  <2>3. Backed(loop) /\ (loop.status \in Sizes => Sizing(loop, buy))
    BY <1>0, <2>2 DEF LoopInv, Sizes
  <2>4. LoopTyped(loop) /\ (loop.status \in Sizes => Affords(loop, buy)) /\ BuyTyped(buy)
    BY <2>2 DEF TypedInv, LoopBooks
  <2>5. LoopBooks'
    BY <2>1, <2>3, <2>4, LoopStepTyped
  <2> QED
    BY <1>s, <1>p, <2>1, <2>5 DEF TypedInv
<1> QED
  BY <1>1, <1>2, <1>3, <1>4, <1>5, <1>6, <1>7, <1>8, <1>9, <1>10, Zenon DEF Next

LEMMA TypedAlways == Spec => [](Inv /\ TypedInv)
BY InvInit, InvStep, TypedInit, TypedStep, PTL DEF Spec

(* Amounts never go negative and every pool traded with stays a pool: the  *)
(* reserves of one that executeTrade leaves are positive, and its rate is  *)
(* the logarithm of a number of one and more.                              *)
THEOREM TypeCorrect == Spec => []TypeOK
<1>1. Inv /\ TypedInv => TypeOK
  <2> SUFFICES ASSUME Inv, TypedInv PROVE TypeOK
    OBVIOUS
  <2>1. phase \in 1 .. 8 /\ todo \subseteq Combinations(Sweep)
    BY DEF Inv, GridInv, TypedInv
  <2>2. search.status # "idle" => search.market \in Market /\ search.lo < search.hi
    BY DEF TypedInv, SearchTyped, SearchIdle
  <2>3. loop.status # "idle" =>
          /\ loop.market \in Market
          /\ {loop.collateralPt, loop.debt, loop.ammFeesPaid, loop.assetSpent} \subseteq Nat
    BY DEF Inv, LoopInv, TypedInv, LoopBooks, LoopTyped, Backed, Computable, LoopIdle
  <2>4. {buy.budget, buy.lo, buy.hi, buy.rounds} \subseteq Nat
    BY DEF TypedInv, LoopBooks, BuyTyped
  <2> QED
    BY <2>1, <2>2, <2>3, <2>4 DEF TypeOK
<1> QED
  BY <1>1, TypedAlways, PTL

(* runLoop spends no more than it borrowed unless a purchase fell back on  *)
(* the largest the pool takes, and the pool takes in what was spent, within*)
(* three tokens for each purchase: for every pool, price, LLTV and depth.  *)
THEOREM LoopAlwaysBacked == Spec => []LoopBacked
<1>1. Inv /\ TypedInv => LoopBacked
  <2> SUFFICES ASSUME Inv, TypedInv PROVE LoopBacked
    OBVIOUS
  <2>1. LoopCovered
    BY InvCovered
  <2>2. ASSUME loop.status # "idle"
        PROVE  LoopTyped(loop)
    BY <2>2 DEF TypedInv, LoopBooks, LoopIdle
  <2> QED
    BY <2>1, <2>2 DEF LoopBacked, LoopTyped
<1> QED
  BY <1>1, TypedAlways, PTL

------------------------------------------------------------------------------
(***************************************************************************)
(* The program comes to its end.                                           *)
(***************************************************************************)

(* How many combinations a sweep has.                                      *)
LEMMA Triples ==
  ASSUME NEW A, NEW B, NEW C, IsFiniteSet(A), IsFiniteSet(B), IsFiniteSet(C)
  PROVE  /\ IsFiniteSet(A \X B \X C)
         /\ Cardinality(A \X B \X C) = Cardinality(A) * Cardinality(B) * Cardinality(C)
<1> DEFINE AB == A \X B
           f  == [q \in AB \X C |-> <<q[1][1], q[1][2], q[2]>>]
<1>1. IsFiniteSet(AB) /\ Cardinality(AB) = Cardinality(A) * Cardinality(B)
  BY FS_Product
<1>2. IsFiniteSet(AB \X C) /\ Cardinality(AB \X C) = Cardinality(AB) * Cardinality(C)
  <2> HIDE DEF AB
  <2> QED
    BY <1>1, FS_Product
<1>3. f \in Bijection(AB \X C, A \X B \X C)
  <2>1. f \in [AB \X C -> A \X B \X C]
    OBVIOUS
  <2>2. \A p, q \in AB \X C : f[p] = f[q] => p = q
    OBVIOUS
  <2>3. ASSUME NEW t \in A \X B \X C PROVE \E q \in AB \X C : f[q] = t
    <3>1. <<<<t[1], t[2]>>, t[3]>> \in AB \X C /\ f[<<<<t[1], t[2]>>, t[3]>>] = t
      OBVIOUS
    <3> QED
      BY <3>1
  <2> HIDE DEF f
  <2> QED
    BY <2>1, <2>2, <2>3 DEF Bijection, Injection, Surjection, IsInjective
<1>4. IsFiniteSet(A \X B \X C) /\ Cardinality(A \X B \X C) = Cardinality(AB \X C)
  <2> HIDE DEF AB, f
  <2> QED
    BY <1>2, <1>3, FS_Bijection DEF ExistsBijection
<1> HIDE DEF AB
<1> QED
  BY <1>1, <1>2, <1>4

Crossing(A, B, C, D, E) == A \X B \X C \X D \X E
Fivefold(a, b, c, d, e) == a * b * c * d * e

LEMMA Quintuples ==
  ASSUME NEW A, NEW B, NEW C, NEW D, NEW E, IsFiniteSet(A), IsFiniteSet(B), IsFiniteSet(C),
         IsFiniteSet(D), IsFiniteSet(E)
  PROVE  /\ IsFiniteSet(Crossing(A, B, C, D, E))
         /\ Cardinality(Crossing(A, B, C, D, E))
              = Fivefold(Cardinality(A), Cardinality(B), Cardinality(C), Cardinality(D),
                         Cardinality(E))
<1> DEFINE ABC == A \X B \X C
           f   == [q \in ABC \X D \X E |-> <<q[1][1], q[1][2], q[1][3], q[2], q[3]>>]
<1>1. /\ IsFiniteSet(ABC)
      /\ Cardinality(ABC) = Cardinality(A) * Cardinality(B) * Cardinality(C)
  BY Triples
<1>2. /\ IsFiniteSet(ABC \X D \X E)
      /\ Cardinality(ABC \X D \X E) = Cardinality(ABC) * Cardinality(D) * Cardinality(E)
  <2> HIDE DEF ABC
  <2> QED
    BY <1>1, Triples
<1>3. f \in Bijection(ABC \X D \X E, A \X B \X C \X D \X E)
  <2>1. f \in [ABC \X D \X E -> A \X B \X C \X D \X E]
    OBVIOUS
  <2>2. \A p, q \in ABC \X D \X E : f[p] = f[q] => p = q
    OBVIOUS
  <2>3. ASSUME NEW t \in A \X B \X C \X D \X E PROVE \E q \in ABC \X D \X E : f[q] = t
    <3> DEFINE q == << <<t[1], t[2], t[3]>>, t[4], t[5] >>
    <3>1. q \in ABC \X D \X E /\ f[q] = t
      OBVIOUS
    <3> QED
      BY <3>1
  <2> HIDE DEF f
  <2> QED
    BY <2>1, <2>2, <2>3 DEF Bijection, Injection, Surjection, IsInjective
<1>4. /\ IsFiniteSet(A \X B \X C \X D \X E)
      /\ Cardinality(A \X B \X C \X D \X E) = Cardinality(ABC \X D \X E)
  <2> HIDE DEF ABC, f
  <2> QED
    BY <1>2, <1>3, FS_Bijection DEF ExistsBijection
<1> HIDE DEF ABC
<1> QED
  <2>1. Crossing(A, B, C, D, E) = A \X B \X C \X D \X E
    BY DEF Crossing
  <2>2. Cardinality(A \X B \X C \X D \X E)
          = Cardinality(A) * Cardinality(B) * Cardinality(C) * Cardinality(D) * Cardinality(E)
    BY <1>1, <1>2, <1>4
  <2> QED
    BY ONLY <1>4, <1>2, <2>1, <2>2, Zenon DEF Fivefold

LEMMA CombinationsFinite ==
  ASSUME NEW p \in 1 .. 8
  PROVE  IsFiniteSet(Combinations(PHASES[p]))
<1>1. /\ IsFiniteSet(Anchors) /\ IsFiniteSet(HORIZONS) /\ IsFiniteSet(LIQUIDITY_SCALES)
      /\ IsFiniteSet(TARGETS) /\ IsFiniteSet(LLTVS) /\ IsFiniteSet(LOOP_DEPTHS)
      /\ IsFiniteSet(DISPLACEMENTS) /\ IsFiniteSet(OWN_SHARES)
  BY ListsAssumption
<1>2. IsFiniteSet(HORIZONS \X LIQUIDITY_SCALES \X TARGETS)
  BY <1>1, Triples
<1>3. IsFiniteSet(LLTVS \X (TARGETS \cup {0}))
  BY <1>1, FS_AddElement, FS_Product
<1>4. IsFiniteSet(DISPLACEMENTS \X LOOP_DEPTHS \X OWN_SHARES)
  BY <1>1, Triples
<1>5. IsFiniteSet(HORIZONS \X LIQUIDITY_SCALES \X LLTVS \X LOOP_DEPTHS \X DISPLACEMENTS)
  <2>1. IsFiniteSet(Crossing(HORIZONS, LIQUIDITY_SCALES, LLTVS, LOOP_DEPTHS, DISPLACEMENTS))
    BY <1>1, Quintuples
  <2> QED
    BY <2>1 DEF Crossing
<1>6. IsFiniteSet({})
  BY FS_EmptySet
<1>7. Combinations(PHASES[p]) \in
        {Anchors, HORIZONS, HORIZONS \X LIQUIDITY_SCALES \X TARGETS, TARGETS,
         LLTVS \X (TARGETS \cup {0}), DISPLACEMENTS \X LOOP_DEPTHS \X OWN_SHARES,
         HORIZONS \X LIQUIDITY_SCALES \X LLTVS \X LOOP_DEPTHS \X DISPLACEMENTS, {}}
  <2>1. PHASES[p] \in {"portValidation", "maturity", "displacement", "transmission",
                       "propagation", "leverage", "stress", "written"}
    BY DEF PHASES
  <2> QED
    BY <2>1, Zenon DEF Combinations
<1> QED
  BY <1>1, <1>2, <1>3, <1>4, <1>5, <1>6, <1>7

(* The greatest of finitely many depths.                                   *)
LEMMA DeepestLoop == MaxDepth \in Nat /\ \A d \in LOOP_DEPTHS : d <= MaxDepth
<1> DEFINE above(x) == {y \in LOOP_DEPTHS : y > x}
           Tops     == {above(x) : x \in LOOP_DEPTHS}
<1>1. IsFiniteSet(LOOP_DEPTHS) /\ LOOP_DEPTHS \in SUBSET Nat /\ LOOP_DEPTHS # {}
  BY ListsAssumption
<1>2. Tops \subseteq FiniteSubsetsOf(LOOP_DEPTHS) /\ Tops # {}
  <2>1. ASSUME NEW x \in LOOP_DEPTHS PROVE above(x) \in FiniteSubsetsOf(LOOP_DEPTHS)
    <3>1. above(x) \in SUBSET LOOP_DEPTHS
      OBVIOUS
    <3> HIDE DEF above
    <3> QED
      BY <1>1, <3>1, FS_Subset DEF FiniteSubsetsOf
  <2> QED
    BY <1>1, <2>1
<1>3. PICK T \in Tops : \A U \in Tops : ~ (<<U, T>> \in StrictSubsetOrdering(LOOP_DEPTHS))
  BY <1>2, FS_StrictSubsetOrderingWellFounded, WFMin
<1>4. PICK x \in LOOP_DEPTHS : T = above(x)
  BY <1>3
<1>5. ASSUME NEW y \in LOOP_DEPTHS, y > x PROVE FALSE
  <2>1. above(y) \subseteq above(x) /\ y \in above(x) /\ y \notin above(y)
    <3>1. \A z \in LOOP_DEPTHS : z > y => z > x
      BY <1>1, <1>5, SMT
    <3>2. ~ (y > y)
      BY <1>1, SMT
    <3> QED
      BY <1>5, <3>1, <3>2, Zenon
  <2>2. above(y) \in SUBSET LOOP_DEPTHS /\ above(x) \in SUBSET LOOP_DEPTHS
    OBVIOUS
  <2> HIDE DEF above
  <2>3. <<above(y), above(x)>> \in StrictSubsetOrdering(LOOP_DEPTHS)
    BY <2>1, <2>2 DEF StrictSubsetOrdering
  <2> QED
    BY <1>3, <1>4, <2>3
<1>6. \A y \in LOOP_DEPTHS : x >= y
  BY <1>1, <1>5
<1>7. MaxDepth \in LOOP_DEPTHS /\ \A y \in LOOP_DEPTHS : MaxDepth >= y
  BY <1>6 DEF MaxDepth, Max
<1> QED
  BY <1>1, <1>7

(* The parts of Left, for any loop, purchase and search.                   *)
LoopLeft(l) ==
  IF l.status = "idle" THEN MaxDepth + 2
  ELSE IF l.status = "done" THEN 0 ELSE 1 + l.depth - l.achievedDepth
SizingStage(l) ==
  CASE l.status = "borrow" -> 4 [] l.status = "double" -> 3
    [] l.status \in {"fallback", "bisect"} -> 2 [] l.status = "sized" -> 1 [] OTHER -> 0
SizingLeft(l, b) ==
  CASE l.status = "double" -> Larger(0, 2 * l.market.totalPt - b.hi)
    [] l.status = "bisect" -> b.hi - b.lo
    [] l.status = "fallback" -> MaxIter - b.rounds [] OTHER -> 0
SearchStage(s) ==
  CASE s.status = "idle" -> 3 [] s.status = "bracket" -> 2
    [] s.status = "bisect" -> 1 [] OTHER -> 0
SearchLeft(s) ==
  CASE s.status = "bracket" -> 2 * s.market.totalPt - s.hi
    [] s.status = "bisect" -> s.hi - s.lo [] OTHER -> 0

LoopLess(m, c, l, b) ==
  \/ LoopLeft(m) < LoopLeft(l)
  \/ LoopLeft(m) = LoopLeft(l) /\ SizingStage(m) < SizingStage(l)
  \/ /\ LoopLeft(m) = LoopLeft(l) /\ SizingStage(m) = SizingStage(l)
     /\ SizingLeft(m, c) < SizingLeft(l, b)
SearchLess(t, s) ==
  \/ SearchStage(t) < SearchStage(s)
  \/ SearchStage(t) = SearchStage(s) /\ SearchLeft(t) < SearchLeft(s)

(* A function is determined by its values: a step that changes none leaves *)
(* the variable as it is.                                                  *)
Shaped(f) == f = [x \in DOMAIN f |-> f[x]]

(* Where the loop and its purchase may stand, so that what is left of them *)
(* is never negative.                                                      *)
LoopCounts(l, b) ==
  /\ Shaped(l) /\ Shaped(b)
  /\ l.depth \in LOOP_DEPTHS /\ l.achievedDepth <= l.depth
  /\ l.status \in Sizes => l.achievedDepth < l.depth
  /\ l.status = "double" => b.rounds = 0 /\ b.lo = 0
  /\ l.status = "fallback" => b.rounds <= MaxIter
  /\ l.status = "bisect" => b.lo <= b.hi

SearchCounts(s) == s.status = "bracket" => s.hi <= s.market.totalPt

LEMMA StatusCounts ==
  ASSUME NEW l, Backed(l), LoopTyped(l), NEW st,
         NEW n, n \in {[l EXCEPT !.status = st], [l EXCEPT !.status = st, !.fellBack = TRUE]}
  PROVE  /\ n.status = st /\ n.depth = l.depth /\ n.achievedDepth = l.achievedDepth
         /\ n.market = l.market /\ Shaped(n)
<1>1. n.status = st /\ n.depth = l.depth /\ n.achievedDepth = l.achievedDepth
      /\ n.market = l.market
  BY DEF Backed
<1>2. Shaped(n)
  BY DEF Shaped
<1> QED
  BY <1>1, <1>2

(* Each step of the loop leaves less of it to do, or nothing changed.      *)
LEMMA LoopStepCounts ==
  ASSUME Backed(loop), LoopTyped(loop), BuyTyped(buy), LoopCounts(loop, buy), LoopStep
  PROVE  /\ LoopCounts(loop', buy')
         /\ LoopLess(loop', buy', loop, buy) \/ UNCHANGED <<loop, buy>>
<1> DEFINE d == loop.depth
           a == loop.achievedDepth
           p == loop.market.totalPt
<1>1. /\ d \in Nat /\ a \in Nat /\ a <= d /\ d \in LOOP_DEPTHS
      /\ loop.status \in Sizes => a < d
      /\ p \in Nat
      /\ buy.lo \in Nat /\ buy.hi \in Nat /\ buy.rounds \in Nat
      /\ Shaped(loop) /\ Shaped(buy)
  BY ListsAssumption DEF LoopCounts, LoopTyped, Backed, BuyTyped
<1>m. MaxIter \in Nat
  BY RoundsAssumption
<1>s. ASSUME NEW st \in {"borrow", "double", "fallback", "bisect", "sized", "done"},
             loop' = [loop EXCEPT !.status = st]
      PROVE  /\ loop'.status = st /\ loop'.depth = d /\ loop'.achievedDepth = a
             /\ loop'.market.totalPt = p /\ Shaped(loop')
  <2> DEFINE next == [loop EXCEPT !.status = st]
  <2>1. next.status = st /\ next.depth = d /\ next.achievedDepth = a
        /\ next.market = loop.market
    BY DEF Backed
  <2>s. Shaped(next)
    BY DEF Shaped
  <2>2. loop' = next
    BY <1>s
  <2> HIDE DEF next
  <2> QED
    BY <2>1, <2>2, <2>s
<1>2. CASE Borrow
  <2>1. loop.status = "borrow"
    BY <1>2 DEF Borrow
  <2>2. LoopLeft(loop) = 1 + d - a /\ SizingStage(loop) = 4
    BY <2>1 DEF LoopLeft, SizingStage
  <2>3. CASE a = d \/ Headroom <= 0
    <3>1. loop' = [loop EXCEPT !.status = "done"] /\ buy' = buy
      BY <1>2, <2>3 DEF Borrow
    <3>2. /\ loop'.status = "done" /\ loop'.depth = d /\ loop'.achievedDepth = a
          /\ Shaped(loop')
      BY <1>s, <3>1
    <3>3. LoopLeft(loop') = 0
      BY <3>2 DEF LoopLeft
    <3>4. LoopLess(loop', buy', loop, buy)
      BY <1>1, <2>2, <3>3, SMT DEF LoopLess
    <3>5. LoopCounts(loop', buy')
      BY <1>1, <3>1, <3>2 DEF LoopCounts, Sizes
    <3> QED
      BY <3>4, <3>5
  <2>4. CASE ~ (a = d \/ Headroom <= 0)
    <3> DEFINE budget == Times(Headroom, BORROW_UTILISATION)
    <3>1. /\ loop' = [loop EXCEPT !.status = "double"]
          /\ buy' = [budget |-> budget, lo |-> 0, hi |-> budget, rounds |-> 0]
      BY <1>2, <2>4 DEF Borrow
    <3> HIDE DEF budget
    <3>2. /\ loop'.status = "double" /\ loop'.depth = d /\ loop'.achievedDepth = a
          /\ Shaped(loop')
      BY <1>s, <3>1
    <3>3. Shaped(buy') /\ buy'.rounds = 0 /\ buy'.lo = 0
      BY <3>1 DEF Shaped
    <3>4. LoopLeft(loop') = 1 + d - a /\ SizingStage(loop') = 3
      BY <3>2 DEF LoopLeft, SizingStage
    <3>5. LoopLess(loop', buy', loop, buy)
      BY <2>2, <3>4, SMT DEF LoopLess
    <3>6. a < d
      BY <1>1, <2>4, SMT
    <3>7. LoopCounts(loop', buy')
      BY <1>1, <3>2, <3>3, <3>6 DEF LoopCounts
    <3> QED
      BY <3>5, <3>7
  <2> QED
    BY <2>3, <2>4
<1>3. CASE Double
  <2>1. loop.status = "double" /\ a < d /\ buy.rounds = 0 /\ buy.lo = 0
    BY <1>1, <1>3 DEF Double, LoopCounts, Sizes
  <2>2. /\ LoopLeft(loop) = 1 + d - a /\ SizingStage(loop) = 3
        /\ SizingLeft(loop, buy) = Larger(0, 2 * p - buy.hi)
    BY <2>1 DEF LoopLeft, SizingStage, SizingLeft
  <2>b. ASSUME NEW st \in {"fallback", "bisect"}, loop' = [loop EXCEPT !.status = st],
               Shaped(buy'), buy'.rounds = 0, buy'.lo = 0, buy'.hi \in Nat
        PROVE  LoopCounts(loop', buy') /\ LoopLess(loop', buy', loop, buy)
    <3>1. /\ loop'.status = st /\ loop'.depth = d /\ loop'.achievedDepth = a
          /\ Shaped(loop')
      BY <1>s, <2>b
    <3>2. LoopLeft(loop') = 1 + d - a /\ SizingStage(loop') = 2
      BY <3>1 DEF LoopLeft, SizingStage
    <3>3. LoopLess(loop', buy', loop, buy)
      BY <2>2, <3>2, SMT DEF LoopLess
    <3>4. buy'.rounds <= MaxIter /\ buy'.lo <= buy'.hi
      BY <1>m, <2>b, SMT
    <3>5. LoopCounts(loop', buy')
      BY <1>1, <2>1, <2>b, <3>1, <3>4 DEF LoopCounts
    <3> QED
      BY <3>3, <3>5
  <2>3. CASE ~ Short(buy.hi)
    <3>1. loop' = [loop EXCEPT !.status = "bisect"] /\ buy' = buy
      BY <1>3, <2>3 DEF Double
    <3> QED
      BY <1>1, <2>1, <2>b, <3>1
  <2>4. CASE Short(buy.hi)
    <3> DEFINE fits == 2 * buy.hi * 1000 <= p * 999
               st   == IF Short(2 * buy.hi) THEN "fallback" ELSE "bisect"
    <3>1. /\ buy' = [buy EXCEPT !.hi = 2 * @]
          /\ loop' = [loop EXCEPT !.status = IF fits THEN @ ELSE st]
      BY <1>3, <2>4 DEF Double
    <3>2. /\ buy'.hi = 2 * buy.hi /\ buy'.lo = 0 /\ buy'.rounds = 0 /\ Shaped(buy')
          /\ buy'.hi \in Nat
      <4>1. buy'.hi = 2 * buy.hi /\ buy'.lo = buy.lo /\ buy'.rounds = buy.rounds
        BY <3>1 DEF BuyTyped
      <4>2. Shaped(buy')
        BY <3>1 DEF Shaped
      <4>3. 2 * buy.hi \in Nat
        BY <1>1, SMT
      <4> QED
        BY <2>1, <4>1, <4>2, <4>3
    <3>3. CASE ~ fits
      <4>1. st \in {"fallback", "bisect"} /\ loop' = [loop EXCEPT !.status = st]
        BY <3>1, <3>3
      <4> QED
        BY <2>b, <3>2, <4>1
    <3>4. CASE fits
      <4>1. loop' = [loop EXCEPT !.status = "double"]
        BY <2>1, <3>1, <3>4
      <4>2. /\ loop'.status = "double" /\ loop'.depth = d /\ loop'.achievedDepth = a
            /\ loop'.market.totalPt = p /\ Shaped(loop')
        BY <1>s, <4>1
      <4>3. LoopCounts(loop', buy')
        BY <1>1, <2>1, <3>2, <4>2 DEF LoopCounts
      <4>4. CASE buy.hi = 0
        <5>1. buy' = buy
          <6>1. \A x \in DOMAIN buy : buy'[x] = buy[x]
            BY <3>1, <4>4
          <6>2. DOMAIN buy' = DOMAIN buy
            BY <3>1
          <6> QED
            BY <1>1, <3>2, <6>1, <6>2 DEF Shaped
        <5>2. loop' = loop
          <6>1. \A x \in DOMAIN loop : loop'[x] = loop[x]
            BY <2>1, <4>1
          <6>2. DOMAIN loop' = DOMAIN loop
            BY <4>1
          <6> QED
            BY <1>1, <4>2, <6>1, <6>2 DEF Shaped
        <5> QED
          BY <4>3, <5>1, <5>2
      <4>5. CASE buy.hi # 0
        <5>1. /\ LoopLeft(loop') = 1 + d - a /\ SizingStage(loop') = 3
              /\ SizingLeft(loop', buy') = Larger(0, 2 * p - 2 * buy.hi)
          BY <3>2, <4>2 DEF LoopLeft, SizingStage, SizingLeft
        <5>2. Larger(0, 2 * p - 2 * buy.hi) < Larger(0, 2 * p - buy.hi)
          BY <1>1, <3>4, <4>5, SMT DEF Larger
        <5> QED
          BY <2>2, <4>3, <5>1, <5>2 DEF LoopLess
      <4> QED
        BY <4>4, <4>5
    <3> QED
      BY <3>3, <3>4
  <2> QED
    BY <2>3, <2>4
<1>4. CASE Fallback
  <2>1. loop.status = "fallback" /\ a < d /\ buy.rounds < MaxIter
    BY <1>1, <1>4 DEF Fallback, Sizes
  <2> DEFINE st == IF buy.rounds + 1 = MaxIter THEN "sized" ELSE "fallback"
  <2>2. loop' = [loop EXCEPT !.status = st, !.fellBack = TRUE]
    BY <1>4, <2>1 DEF Fallback
  <2>3. buy'.rounds = buy.rounds + 1 /\ Shaped(buy')
    <3>1. PICK lo, hi : \/ buy' = [buy EXCEPT !.lo = lo, !.hi = hi, !.rounds = @ + 1]
                        \/ buy' = [buy EXCEPT !.hi = hi, !.rounds = @ + 1]
      BY <1>4, Zenon DEF Fallback
    <3>2. buy'.rounds = buy.rounds + 1
      BY <3>1 DEF BuyTyped
    <3>3. Shaped(buy')
      BY <3>1 DEF Shaped
    <3> QED
      BY <3>2, <3>3
  <2>4. st \in {"sized", "fallback"}
    OBVIOUS
  <2>5. st = "fallback" => buy.rounds + 1 # MaxIter
    OBVIOUS
  <2> HIDE DEF st
  <2>6. /\ loop'.status = st /\ loop'.depth = d /\ loop'.achievedDepth = a /\ Shaped(loop')
    BY <2>2, StatusCounts, Zenon
  <2>7. LoopCounts(loop', buy')
    <3>1. buy'.rounds <= MaxIter
      BY <1>1, <1>m, <2>1, <2>3, SMT
    <3> QED
      BY <1>1, <2>1, <2>3, <2>4, <2>6, <3>1 DEF LoopCounts
  <2>8. /\ LoopLeft(loop) = 1 + d - a /\ SizingStage(loop) = 2
        /\ SizingLeft(loop, buy) = MaxIter - buy.rounds
    BY <2>1 DEF LoopLeft, SizingStage, SizingLeft
  <2>9. LoopLeft(loop') = 1 + d - a
    BY <2>4, <2>6 DEF LoopLeft
  <2>10. CASE st = "sized"
    <3>1. SizingStage(loop') = 1
      BY <2>6, <2>10 DEF SizingStage
    <3> QED
      BY <2>7, <2>8, <2>9, <3>1, SMT DEF LoopLess
  <2>11. CASE st = "fallback"
    <3>1. SizingStage(loop') = 2 /\ SizingLeft(loop', buy') = MaxIter - (buy.rounds + 1)
      BY <2>3, <2>6, <2>11 DEF SizingStage, SizingLeft
    <3>2. MaxIter - (buy.rounds + 1) < MaxIter - buy.rounds
      BY <1>1, <1>m, SMT
    <3> QED
      BY <2>7, <2>8, <2>9, <3>1, <3>2 DEF LoopLess
  <2> QED
    BY <2>4, <2>10, <2>11
<1>5. CASE BisectBudget
  <2>1. loop.status = "bisect" /\ a < d /\ buy.lo <= buy.hi
    BY <1>1, <1>5 DEF BisectBudget, Sizes, LoopCounts
  <2> DEFINE mid == (buy.lo + buy.hi) \div 2
             b   == IF Affordable(mid) THEN [buy EXCEPT !.lo = mid] ELSE [buy EXCEPT !.hi = mid]
             st  == IF b.hi - b.lo <= 1 THEN "sized" ELSE "bisect"
  <2>2. buy' = b /\ loop' = [loop EXCEPT !.status = st]
    BY <1>5, <2>1 DEF BisectBudget
  <2>3. /\ mid \in Nat /\ buy.lo <= mid /\ mid <= buy.hi
        /\ buy.hi - buy.lo >= 2 => buy.lo < mid /\ mid < buy.hi
    BY <1>1, <2>1, SMT
  <2> HIDE DEF mid
  <2>4. /\ b.lo \in Nat /\ b.hi \in Nat /\ b.lo <= b.hi /\ Shaped(b)
        /\ b.hi - b.lo > 1 => b.hi - b.lo < buy.hi - buy.lo
    <3>1. CASE Affordable(mid)
      <4>1. b.lo = mid /\ b.hi = buy.hi /\ Shaped(b)
        BY <3>1 DEF BuyTyped, Shaped
      <4> HIDE DEF b
      <4> QED
        BY <1>1, <2>3, <4>1, SMT
    <3>2. CASE ~ Affordable(mid)
      <4>1. b.lo = buy.lo /\ b.hi = mid /\ Shaped(b)
        BY <3>2 DEF BuyTyped, Shaped
      <4> HIDE DEF b
      <4> QED
        BY <1>1, <2>3, <4>1, SMT
    <3> QED
      BY <3>1, <3>2
  <2>5. st \in {"sized", "bisect"} /\ (st = "bisect" => ~ (b.hi - b.lo <= 1))
    <3> HIDE DEF b
    <3> QED
      OBVIOUS
  <2> HIDE DEF b, st
  <2>6. /\ loop'.status = st /\ loop'.depth = d /\ loop'.achievedDepth = a /\ Shaped(loop')
    BY <1>s, <2>2, <2>5
  <2>7. LoopCounts(loop', buy')
    BY <1>1, <2>1, <2>2, <2>4, <2>5, <2>6 DEF LoopCounts
  <2>8. /\ LoopLeft(loop) = 1 + d - a /\ SizingStage(loop) = 2
        /\ SizingLeft(loop, buy) = buy.hi - buy.lo
    BY <2>1 DEF LoopLeft, SizingStage, SizingLeft
  <2>9. LoopLeft(loop') = 1 + d - a
    BY <2>5, <2>6 DEF LoopLeft
  <2>10. CASE st = "sized"
    <3>1. SizingStage(loop') = 1
      BY <2>6, <2>10 DEF SizingStage
    <3> QED
      BY <2>7, <2>8, <2>9, <3>1, SMT DEF LoopLess
  <2>11. CASE st = "bisect"
    <3>1. SizingStage(loop') = 2 /\ SizingLeft(loop', buy') = b.hi - b.lo
      BY <2>2, <2>6, <2>11 DEF SizingStage, SizingLeft
    <3>2. b.hi - b.lo < buy.hi - buy.lo
      BY <2>4, <2>5, <2>11, SMT
    <3> QED
      BY <2>7, <2>8, <2>9, <3>1, <3>2 DEF LoopLess
  <2> QED
    BY <2>5, <2>10, <2>11
<1>6. CASE Buy
  <2>1. loop.status = "sized" /\ a < d /\ buy' = BuyIdle
    BY <1>1, <1>6 DEF Buy, Sizes
  <2>2. Shaped(buy')
    BY <2>1 DEF BuyIdle, Shaped
  <2>3. LoopLeft(loop) = 1 + d - a
    BY <2>1 DEF LoopLeft
  <2>4. CASE buy.lo = 0
    <3>1. loop' = [loop EXCEPT !.status = "done"]
      BY <1>6, <2>4 DEF Buy
    <3>2. /\ loop'.status = "done" /\ loop'.depth = d /\ loop'.achievedDepth = a
          /\ Shaped(loop')
      BY <1>s, <3>1
    <3>3. LoopLeft(loop') = 0
      BY <3>2 DEF LoopLeft
    <3>4. LoopLess(loop', buy', loop, buy)
      BY <1>1, <2>3, <3>3, SMT DEF LoopLess
    <3>5. LoopCounts(loop', buy')
      BY <1>1, <2>2, <3>2 DEF LoopCounts, Sizes
    <3> QED
      BY <3>4, <3>5
  <2>5. CASE buy.lo # 0
    <3> DEFINE exec == ExecuteTrade(loop.market, buy.lo, BlockTime)
               m    == exec.market
               fees == loop.ammFeesPaid + exec.trade.netAssetFee
               paid == loop.assetSpent - exec.trade.netAssetToAccount
               more == loop.collateralPt + buy.lo
               owed == loop.debt + buy.budget
               deep == a + 1
    <3>1. loop' = [loop EXCEPT !.status = "borrow", !.market = m, !.ammFeesPaid = fees,
                     !.assetSpent = paid, !.collateralPt = more, !.debt = owed,
                     !.achievedDepth = deep]
      BY <1>6, <2>5 DEF Buy, Deeper
    <3> HIDE DEF exec, m, fees, paid, more, owed
    <3>2. loop'.status = "borrow" /\ loop'.depth = d /\ loop'.achievedDepth = a + 1
      BY <3>1 DEF Backed
    <3>3. Shaped(loop')
      BY <3>1 DEF Shaped
    <3>4. LoopLeft(loop') = 1 + d - (a + 1)
      BY <3>2 DEF LoopLeft
    <3>5. LoopLess(loop', buy', loop, buy)
      BY <1>1, <2>3, <3>4, SMT DEF LoopLess
    <3>6. a + 1 <= d
      BY <1>1, <2>1, SMT
    <3>7. LoopCounts(loop', buy')
      BY <1>1, <2>2, <3>2, <3>3, <3>6 DEF LoopCounts, Sizes
    <3> QED
      BY <3>5, <3>7
  <2> QED
    BY <2>4, <2>5
<1> QED
  BY <1>2, <1>3, <1>4, <1>5, <1>6 DEF LoopStep

(* So does each step of the search.                                        *)
LEMMA SearchStepCounts ==
  ASSUME Bracketed(search), SearchTyped(search), SearchCounts(search), SearchStep
  PROVE  SearchCounts(search') /\ SearchLess(search', search)
<1> DEFINE p == search.market.totalPt
<1>1. p \in Nat /\ search.lo \in Nat /\ search.hi \in Nat
  BY DEF Bracketed, SearchTyped, Market
<1>2. CASE Bracket
  <2>1. search.status = "bracket" /\ search.hi >= 2 /\ search.hi <= p
    BY <1>2 DEF Bracket, SearchTyped, SearchCounts
  <2>2. SearchStage(search) = 2 /\ SearchLeft(search) = 2 * p - search.hi
    BY <2>1 DEF SearchStage, SearchLeft
  <2>3. ASSUME search'.status \in {"unreachable", "bisect"}
        PROVE  SearchCounts(search') /\ SearchLess(search', search)
    <3>1. SearchStage(search') \in {0, 1}
      BY <2>3 DEF SearchStage
    <3>2. SearchLess(search', search)
      BY <2>2, <3>1, SMT DEF SearchLess
    <3> QED
      BY <2>3, <3>2 DEF SearchCounts
  <2>4. CASE ~ Takes(search.market, search.hi, BlockTime)
    <3>1. search' = [search EXCEPT !.status = "unreachable"]
      BY <1>2, <2>4, Zenon DEF Bracket
    <3> QED
      BY <2>3, <3>1 DEF Bracketed
  <2>5. CASE /\ Takes(search.market, search.hi, BlockTime)
             /\ PriceAfter(search.market, search.hi) >= TargetPrice
    <3>1. search' = [search EXCEPT !.status = "bisect"]
      BY <1>2, <2>5, Zenon DEF Bracket
    <3> QED
      BY <2>3, <3>1 DEF Bracketed
  <2>6. CASE /\ Takes(search.market, search.hi, BlockTime)
             /\ ~ (PriceAfter(search.market, search.hi) >= TargetPrice)
    <3> DEFINE large == TooLarge(2 * search.hi)
               st    == IF large THEN "unreachable" ELSE "bracket"
    <3>1. search' = [search EXCEPT !.hi = 2 * @,
                                   !.status = IF large THEN "unreachable" ELSE @]
      BY <1>2, <2>6, Zenon DEF Bracket
    <3>2. search' = [search EXCEPT !.hi = 2 * @, !.status = st]
      <4> HIDE DEF large
      <4> QED
        BY <2>1, <3>1
    <3>3. large <=> 2 * search.hi * 1000 > p * 999
      BY DEF TooLarge
    <3>4. CASE large
      <4>1. search'.status = "unreachable"
        BY <3>2, <3>4 DEF Bracketed
      <4> QED
        BY <2>3, <4>1
    <3>5. CASE ~ large
      <4>1. /\ search'.status = "bracket" /\ search'.hi = 2 * search.hi
            /\ search'.market = search.market
        <5> HIDE DEF large
        <5> QED
          BY <3>2, <3>5 DEF Bracketed
      <4>2. 2 * search.hi <= p
        <5>1. ~ (2 * search.hi * 1000 > p * 999)
          BY <3>3, <3>5
        <5> QED
          BY <1>1, <5>1, SMT
      <4> HIDE DEF large, st
      <4>3. SearchCounts(search')
        BY <4>1, <4>2 DEF SearchCounts
      <4>4. SearchStage(search') = 2 /\ SearchLeft(search') = 2 * p - 2 * search.hi
        BY <4>1 DEF SearchStage, SearchLeft
      <4>5. 2 * p - 2 * search.hi < 2 * p - search.hi
        BY <1>1, <2>1, SMT
      <4> QED
        BY <2>2, <4>3, <4>4, <4>5 DEF SearchLess
    <3> QED
      BY <3>4, <3>5
  <2> QED
    BY <2>4, <2>5, <2>6
<1>3. CASE Bisect
  <2> DEFINE mid  == (search.lo + search.hi) \div 2
             half == Half(mid)
             st   == IF half[2] - half[1] <= 1 THEN "found" ELSE "bisect"
  <2>1. search.status = "bisect" /\ search.hi - search.lo >= 2
    BY <1>3 DEF Bisect, SearchTyped
  <2>2. mid \in Nat /\ search.lo < mid /\ mid < search.hi
    BY <1>1, <2>1, SMT
  <2>3. search' = [search EXCEPT !.lo = half[1], !.hi = half[2], !.status = st]
    <3>1. search' = [search EXCEPT !.lo = half[1], !.hi = half[2],
                                   !.status = IF half[2] - half[1] <= 1 THEN "found" ELSE @]
      BY <1>3, Zenon DEF Bisect
    <3> HIDE DEF half
    <3> QED
      BY <2>1, <3>1
  <2>4. half[2] - half[1] < search.hi - search.lo
    <3> HIDE DEF mid
    <3>1. half = <<search.lo, mid>> \/ half = <<mid, search.hi>>
      BY DEF Half
    <3> HIDE DEF half
    <3> QED
      BY <1>1, <2>2, <3>1, SMT
  <2>5. st \in {"found", "bisect"}
    OBVIOUS
  <2> HIDE DEF half, st
  <2>6. search'.status = st /\ search'.hi = half[2] /\ search'.lo = half[1]
    BY <2>3 DEF Bracketed
  <2>7. SearchStage(search) = 1 /\ SearchLeft(search) = search.hi - search.lo
    BY <2>1 DEF SearchStage, SearchLeft
  <2>8. SearchCounts(search')
    BY <2>5, <2>6 DEF SearchCounts
  <2>9. CASE st = "found"
    <3>1. SearchStage(search') = 0
      BY <2>6, <2>9 DEF SearchStage
    <3> QED
      BY <2>7, <2>8, <3>1, SMT DEF SearchLess
  <2>10. CASE st = "bisect"
    <3>1. SearchStage(search') = 1 /\ SearchLeft(search') = half[2] - half[1]
      BY <2>6, <2>10 DEF SearchStage, SearchLeft
    <3> QED
      BY <2>4, <2>7, <2>8, <3>1 DEF SearchLess
  <2> QED
    BY <2>5, <2>9, <2>10
<1> QED
  BY <1>2, <1>3 DEF SearchStep

LEMMA SolveCounts ==
  ASSUME NEW m \in Market, NEW fraction, Solve(m, fraction)
  PROVE  SearchCounts(search') /\ SearchStage(search') \in {0, 2}
<1> DEFINE st == IF fraction > MaxUpwardDisplacement(MarketImpliedValue(m, BlockTime))
                 THEN "aboveCeiling" ELSE "bracket"
           h  == m.totalPt \div FIRST_SIZE
<1>1. m.totalPt \in Nat /\ FIRST_SIZE \in Nat \ {0}
  BY SearchAssumption DEF Market
<1>2. h <= m.totalPt
  BY <1>1, SMT
<1>3. search' = [market |-> m, fraction |-> fraction, lo |-> 0, hi |-> h, status |-> st]
  BY DEF Solve
<1>4. st \in {"aboveCeiling", "bracket"}
  OBVIOUS
<1> HIDE DEF st, h
<1>5. search'.market = m /\ search'.hi = h /\ search'.status = st
  BY <1>3
<1>6. SearchStage(search') \in {0, 2}
  BY <1>4, <1>5 DEF SearchStage
<1> QED
  BY <1>2, <1>5, <1>6 DEF SearchCounts

LEMMA RunCounts ==
  ASSUME NEW m, NEW pt, NEW price, NEW lltv, NEW depth \in LOOP_DEPTHS,
         RunLoop(pt, m, price, lltv, depth)
  PROVE  LoopCounts(loop', buy') /\ LoopLeft(loop') < MaxDepth + 2
<1>1. /\ loop'.status = "borrow" /\ loop'.depth = depth /\ loop'.achievedDepth = 0
      /\ Shaped(loop')
  BY DEF RunLoop, Shaped
<1>2. Shaped(buy')
  BY DEF RunLoop, BuyIdle, Shaped
<1>3. depth \in Nat /\ depth <= MaxDepth /\ MaxDepth \in Nat
  BY ListsAssumption, DeepestLoop
<1>4. LoopLeft(loop') = 1 + depth - 0
  BY <1>1 DEF LoopLeft
<1>5. LoopLeft(loop') < MaxDepth + 2
  BY <1>3, <1>4, SMT
<1>6. 0 <= depth
  BY <1>3, SMT
<1> QED
  BY <1>1, <1>2, <1>5, <1>6 DEF LoopCounts, Sizes

(* Every row takes one combination off, and the two crossed sweeps count   *)
(* their rows.                                                             *)
Crossed(i) == Cardinality(Combinations(PHASES[i]))
RowCount(i) ==
  /\ rows[i] \in Nat
  /\ phase < i => rows[i] = 0
  /\ phase = i => rows[i] + Cardinality(todo) = Crossed(i)
  /\ phase > i => rows[i] = Crossed(i)

EndInv ==
  /\ DOMAIN rows = 1 .. 7 /\ RowCount(3) /\ RowCount(7)
  /\ search # SearchIdle \/ loop # LoopIdle => todo # {}
  /\ search = SearchIdle \/ SearchCounts(search)
  /\ loop = LoopIdle \/ LoopCounts(loop, buy)

(* What is left is counted in natural numbers.                             *)
LEMMA LoopLeftNat ==
  ASSUME LoopInv, TypedInv, EndInv
  PROVE  LoopLeft(loop) \in Nat /\ SizingStage(loop) \in Nat /\ SizingLeft(loop, buy) \in Nat
<1>1. MaxDepth \in Nat /\ MaxIter \in Nat
  BY DeepestLoop, RoundsAssumption
<1>2. CASE loop = LoopIdle
  <2>1. loop.status = "idle"
    BY <1>2 DEF LoopIdle
  <2>2. LoopLeft(loop) = MaxDepth + 2 /\ SizingStage(loop) = 0 /\ SizingLeft(loop, buy) = 0
    BY <2>1 DEF LoopLeft, SizingStage, SizingLeft
  <2> QED
    BY <1>1, <2>2, SMT
<1>3. CASE loop # LoopIdle
  <2>1. Backed(loop) /\ LoopTyped(loop) /\ LoopCounts(loop, buy) /\ BuyTyped(buy)
    BY <1>3 DEF LoopInv, TypedInv, LoopBooks, EndInv
  <2>2. /\ loop.depth \in Nat /\ loop.achievedDepth \in Nat /\ loop.achievedDepth <= loop.depth
        /\ loop.market.totalPt \in Nat /\ buy.hi \in Nat /\ buy.lo \in Nat /\ buy.rounds \in Nat
        /\ loop.status \in {"borrow", "double", "fallback", "bisect", "sized", "done"}
        /\ loop.status = "fallback" => buy.rounds <= MaxIter
        /\ loop.status = "bisect" => buy.lo <= buy.hi
    BY <2>1, ListsAssumption DEF Backed, LoopTyped, LoopCounts, BuyTyped
  <2>3. LoopLeft(loop) \in Nat
    <3>1. LoopLeft(loop) \in {0, 1 + loop.depth - loop.achievedDepth}
      BY <2>2 DEF LoopLeft
    <3> QED
      BY <2>2, <3>1, SMT
  <2>4. SizingStage(loop) \in Nat
    BY <2>2 DEF SizingStage
  <2>5. SizingLeft(loop, buy) \in Nat
    <3>1. CASE loop.status = "double"
      <4>1. SizingLeft(loop, buy) = Larger(0, 2 * loop.market.totalPt - buy.hi)
        BY <3>1 DEF SizingLeft
      <4> QED
        BY <2>2, <4>1, SMT DEF Larger
    <3>2. CASE loop.status = "bisect"
      <4>1. SizingLeft(loop, buy) = buy.hi - buy.lo
        BY <3>2 DEF SizingLeft
      <4> QED
        BY <2>2, <3>2, <4>1, SMT
    <3>3. CASE loop.status = "fallback"
      <4>1. SizingLeft(loop, buy) = MaxIter - buy.rounds
        BY <3>3 DEF SizingLeft
      <4> QED
        BY <1>1, <2>2, <3>3, <4>1, SMT
    <3>4. CASE loop.status \notin {"double", "bisect", "fallback"}
      BY <3>4 DEF SizingLeft
    <3> QED
      BY <3>1, <3>2, <3>3, <3>4
  <2> QED
    BY <2>3, <2>4, <2>5
<1> QED
  BY <1>2, <1>3

LEMMA SearchLeftNat ==
  ASSUME SearchInv, TypedInv, EndInv
  PROVE  SearchStage(search) \in Nat /\ SearchLeft(search) \in Nat
<1>1. CASE search = SearchIdle
  <2>1. search.status = "idle"
    BY <1>1 DEF SearchIdle
  <2> QED
    BY <2>1 DEF SearchStage, SearchLeft
<1>2. CASE search # SearchIdle
  <2>1. Bracketed(search) /\ SearchTyped(search) /\ SearchCounts(search)
    BY <1>2 DEF SearchInv, TypedInv, EndInv
  <2>2. /\ search.market.totalPt \in Nat /\ search.hi \in Nat /\ search.lo \in Nat
        /\ search.lo <= search.hi
        /\ search.status = "bracket" => search.hi <= search.market.totalPt
    BY <2>1 DEF Bracketed, SearchTyped, SearchCounts, Market
  <2>3. SearchStage(search) \in Nat
    BY DEF SearchStage
  <2>4. SearchLeft(search) \in Nat
    <3>1. CASE search.status = "bracket"
      <4>1. SearchLeft(search) = 2 * search.market.totalPt - search.hi
        BY <3>1 DEF SearchLeft
      <4> QED
        BY <2>2, <3>1, <4>1, SMT
    <3>2. CASE search.status = "bisect"
      <4>1. SearchLeft(search) = search.hi - search.lo
        BY <3>2 DEF SearchLeft
      <4> QED
        BY <2>2, <4>1, SMT
    <3>3. CASE search.status \notin {"bracket", "bisect"}
      BY <3>3 DEF SearchLeft
    <3> QED
      BY <3>1, <3>2, <3>3
  <2> QED
    BY <2>3, <2>4
<1> QED
  BY <1>1, <1>2

LEMMA TodoFinite ==
  ASSUME GridInv, TypedInv
  PROVE  IsFiniteSet(todo) /\ Cardinality(todo) \in Nat
<1>1. IsFiniteSet(Combinations(Sweep))
  BY CombinationsFinite DEF TypedInv, Sweep
<1>2. IsFiniteSet(todo)
  BY <1>1, FS_Subset DEF GridInv
<1> QED
  BY <1>2, FS_CardinalityType

LEMMA SweepNumbers ==
  ASSUME phase \in 1 .. 8
  PROVE  /\ Sweep = "displacement" <=> phase = 3
         /\ Sweep = "stress" <=> phase = 7
         /\ Sweep = "written" <=> phase = 8
BY DEF Sweep, PHASES

(* What a step does to what is left, from the first part it changes.       *)
Shrinks ==
  \/ phase' = phase + 1
  \/ phase' = phase /\ Cardinality(todo') < Cardinality(todo)
  \/ UNCHANGED <<phase, todo>> /\ LoopLess(loop', buy', loop, buy)
  \/ UNCHANGED <<phase, todo, loop, buy>> /\ SearchLess(search', search)

LEMMA RowsCounted ==
  ASSUME GridInv, TypedInv, EndInv, NEW made, NEW n, RowsMade(made, n), todo # {},
         phase \in {3, 7} => n = 1
  PROVE  EndInv' /\ Shrinks
<1>1. /\ phase' = phase /\ rows' = [rows EXCEPT ![phase] = @ + n]
      /\ todo' = todo \ {Combination} /\ search' = SearchIdle /\ loop' = LoopIdle
  BY DEF RowsMade
<1>2. Combination \in todo
  BY Zenon DEF Combination
<1>3. /\ Cardinality(todo) \in Nat /\ Cardinality(todo') = Cardinality(todo) - 1
      /\ Cardinality(todo') \in Nat
  <2>1. IsFiniteSet(todo) /\ Cardinality(todo) \in Nat
    BY TodoFinite
  <2>2. IsFiniteSet(todo') /\ Cardinality(todo') = Cardinality(todo) - 1
    BY <1>1, <1>2, <2>1, FS_RemoveElement
  <2>3. Cardinality(todo') \in Nat
    BY <2>2, FS_CardinalityType
  <2> QED
    BY <2>1, <2>2, <2>3
<1>4. ASSUME NEW i \in {3, 7}, RowCount(i) PROVE RowCount(i)'
  <2>1. phase \in 1 .. 8 /\ DOMAIN rows = 1 .. 7
    BY DEF TypedInv, EndInv
  <2>2. CASE phase = i
    <3>1. rows[i] \in Nat /\ rows[i] + Cardinality(todo) = Crossed(i)
      BY <1>4, <2>2 DEF RowCount
    <3>2. rows'[i] = rows[i] + 1
      BY <1>1, <2>1, <2>2
    <3>3. rows'[i] \in Nat /\ rows'[i] + Cardinality(todo') = Crossed(i)
      BY <1>3, <3>1, <3>2, SMT
    <3>4. phase' = i /\ ~ (i < i) /\ ~ (i > i)
      BY <1>1, <2>2, SMT
    <3> QED
      BY <3>3, <3>4 DEF RowCount, Crossed
  <2>3. CASE phase # i
    <3>1. rows'[i] = rows[i]
      BY <1>1, <2>1, <2>3
    <3> QED
      BY <1>1, <1>4, <2>3, <3>1 DEF RowCount, Crossed
  <2> QED
    BY <2>2, <2>3
<1>5. DOMAIN rows' = 1 .. 7
  BY <1>1 DEF EndInv
<1>6. EndInv'
  BY <1>1, <1>4, <1>5 DEF EndInv
<1>7. Shrinks
  BY <1>1, <1>3, SMT DEF Shrinks
<1> QED
  BY <1>6, <1>7

LEMMA SweepCounted ==
  ASSUME Inv, TypedInv, EndInv, NextSweep
  PROVE  EndInv' /\ Shrinks
<1>1. /\ phase < 8 /\ todo = {} /\ phase' = phase + 1 /\ phase \in 1 .. 8
      /\ todo' = Combinations(PHASES[phase + 1]) /\ UNCHANGED <<search, loop, buy, rows>>
  BY DEF NextSweep, TypedInv
<1>2. search = SearchIdle /\ loop = LoopIdle
  BY <1>1 DEF EndInv
<1>3. ASSUME NEW i \in {3, 7}, RowCount(i) PROVE RowCount(i)'
  <2>0. i \in 1 .. 8
    BY SMT
  <2>1. Crossed(i) \in Nat
    BY <2>0, CombinationsFinite, FS_CardinalityType DEF Crossed
  <2>2. Cardinality(todo) = 0
    BY <1>1, FS_EmptySet
  <2>3. rows' = rows /\ rows[i] \in Nat
    BY <1>1, <1>3 DEF RowCount
  <2>4. CASE phase + 1 < i
    <3>1. phase < i /\ phase + 1 # i /\ ~ (phase + 1 > i)
      BY <1>1, <2>4, SMT
    <3> QED
      BY <1>1, <1>3, <2>3, <2>4, <3>1 DEF RowCount, Crossed
  <2>5. CASE phase + 1 = i
    <3>1. phase < i /\ ~ (i < i) /\ ~ (i > i)
      BY <1>1, <2>5, SMT
    <3>2. rows[i] = 0 /\ Cardinality(todo') = Crossed(i)
      BY <1>1, <1>3, <2>5, <3>1 DEF RowCount, Crossed
    <3>3. rows'[i] + Cardinality(todo') = Crossed(i)
      BY <2>1, <2>3, <3>2, SMT
    <3> QED
      BY <1>1, <2>3, <2>5, <3>1, <3>3 DEF RowCount, Crossed
  <2>6. CASE phase + 1 > i
    <3>1. (phase = i \/ phase > i) /\ ~ (phase + 1 < i) /\ phase + 1 # i
      BY <1>1, <2>6, SMT
    <3>2. rows[i] = Crossed(i)
      <4>1. CASE phase = i
        <5>1. rows[i] + 0 = Crossed(i)
          BY <1>3, <2>2, <4>1 DEF RowCount
        <5> QED
          BY <2>3, <5>1, SMT
      <4>2. CASE phase > i
        BY <1>3, <4>2 DEF RowCount
      <4> QED
        BY <3>1, <4>1, <4>2
    <3> QED
      BY <1>1, <2>3, <3>1, <3>2 DEF RowCount, Crossed
  <2>7. phase + 1 < i \/ phase + 1 = i \/ phase + 1 > i
    BY <1>1, SMT
  <2> QED
    BY <2>4, <2>5, <2>6, <2>7
<1>4. EndInv'
  BY <1>1, <1>2, <1>3 DEF EndInv
<1> QED
  BY <1>1, <1>4 DEF Shrinks

(* Steps within a combination.                                             *)
LEMMA KeepCounted ==
  ASSUME EndInv, UNCHANGED <<phase, todo, rows>>
  PROVE  RowCount(3)' /\ RowCount(7)' /\ (DOMAIN rows)' = 1 .. 7
BY DEF EndInv, RowCount, Crossed

LEMMA SolveCounted ==
  ASSUME EndInv, NEW m \in Market, NEW fraction, Solve(m, fraction), search.status = "idle",
         todo # {}, UNCHANGED <<phase, todo, rows, loop, buy>>
  PROVE  EndInv' /\ Shrinks
<1>1. SearchCounts(search') /\ SearchStage(search') \in {0, 2}
  BY SolveCounts
<1>2. SearchStage(search) = 3
  BY DEF SearchStage
<1>3. SearchLess(search', search)
  BY <1>1, <1>2, SMT DEF SearchLess
<1>4. EndInv'
  BY <1>1, KeepCounted DEF EndInv
<1> QED
  BY <1>3, <1>4 DEF Shrinks

LEMMA RunCounted ==
  ASSUME EndInv, NEW m, NEW pt, NEW price, NEW lltv, NEW depth \in LOOP_DEPTHS,
         RunLoop(pt, m, price, lltv, depth), loop.status = "idle", todo # {},
         UNCHANGED <<phase, todo, rows, search>>
  PROVE  EndInv' /\ Shrinks
<1>1. LoopCounts(loop', buy') /\ LoopLeft(loop') < MaxDepth + 2
  BY RunCounts
<1>2. LoopLeft(loop) = MaxDepth + 2
  BY DEF LoopLeft
<1>3. LoopLess(loop', buy', loop, buy)
  BY <1>1, <1>2 DEF LoopLess
<1>4. EndInv'
  BY <1>1, KeepCounted DEF EndInv
<1> QED
  BY <1>3, <1>4 DEF Shrinks

LEMMA DepthListed ==
  ASSUME GridInv, todo # {}
  PROVE  /\ Sweep = "leverage" => Combination[2] \in LOOP_DEPTHS
         /\ Sweep = "stress" => Combination[4] \in LOOP_DEPTHS
<1>1. Combination \in Combinations(Sweep)
  BY Zenon DEF GridInv, Combination
<1>2. CASE Sweep = "leverage"
  <2>1. Combination \in DISPLACEMENTS \X LOOP_DEPTHS \X OWN_SHARES
    BY <1>1, <1>2, SMT DEF Combinations
  <2> QED
    BY <1>2, <2>1, SMT
<1>3. CASE Sweep = "stress"
  <2>1. Combination \in HORIZONS \X LIQUIDITY_SCALES \X LLTVS \X LOOP_DEPTHS \X DISPLACEMENTS
    BY <1>1, <1>3, SMT DEF Combinations
  <2> QED
    BY <1>3, <2>1, SMT
<1> QED
  BY <1>2, <1>3, Zenon

LEMMA EndStep ==
  ASSUME Inv, TypedInv, EndInv, Next
  PROVE  EndInv' /\ (Shrinks \/ UNCHANGED vars)
<1>0. GridInv /\ SearchInv /\ LoopInv /\ phase \in 1 .. 8
  BY DEF Inv, TypedInv
<1>w. search.status # "idle" \/ loop.status # "idle" => todo # {}
  BY DEF EndInv, SearchIdle, LoopIdle
<1>1. CASE NextSweep
  BY <1>1, SweepCounted
<1>2. CASE PortValidationRow \/ MaturityRow \/ PropagationRow
  <2>1. PICK made, n : RowsMade(made, n)
    BY <1>2, Zenon DEF PortValidationRow, MaturityRow, PropagationRow
  <2>2. todo # {} /\ Sweep \in {"portValidation", "maturity", "propagation"}
    BY <1>2 DEF PortValidationRow, MaturityRow, PropagationRow
  <2>3. phase \notin {3, 7}
    BY <1>0, <2>2, SweepNumbers
  <2> QED
    BY <1>0, <2>1, <2>2, <2>3, RowsCounted
<1>3. CASE DisplacementRow
  <2>1. RowsMade(SearchRow(Sweep), 1) /\ search.status # "idle"
    BY <1>3 DEF DisplacementRow, Answered
  <2> QED
    BY <1>0, <1>w, <2>1, RowsCounted
<1>4. CASE TransmissionRow
  <2>1. PICK made, n : RowsMade(made, n)
    BY <1>4, Zenon DEF TransmissionRow
  <2>2. search.status # "idle" /\ Sweep = "transmission"
    BY <1>4 DEF TransmissionRow, Answered
  <2>3. phase \notin {3, 7}
    BY <1>0, <2>2, SweepNumbers
  <2> QED
    BY <1>0, <1>w, <2>1, <2>2, <2>3, RowsCounted
<1>5. CASE LeverageRow
  <2>1. PICK made : RowsMade(made, 1)
    BY <1>5, Zenon DEF LeverageRow
  <2>2. loop.status # "idle"
    BY <1>5 DEF LeverageRow
  <2> QED
    BY <1>0, <1>w, <2>1, <2>2, RowsCounted
<1>6. CASE StressRow
  <2>1. PICK made : RowsMade(made, 1)
    BY <1>6, Zenon DEF StressRow
  <2>2. loop.status # "idle"
    BY <1>6 DEF StressRow
  <2> QED
    BY <1>0, <1>w, <2>1, <2>2, RowsCounted
<1>7. CASE StartDisplacement
  <2> DEFINE m == Reshape(anchor.market, Combination[1], Combination[2])
  <2>1. /\ todo # {} /\ Sweep = "displacement" /\ Solve(m, Combination[3])
        /\ search.status = "idle" /\ UNCHANGED <<loop, buy, phase, todo, rows>>
    BY <1>7 DEF StartDisplacement, Idle
  <2>2. m \in Market
    BY <1>0, <2>1, OpeningStarts, ReshapedPool
  <2> HIDE DEF m
  <2> QED
    BY <2>1, <2>2, SolveCounted
<1>8. CASE StartTransmission
  BY <1>0, <1>8, AnchorPool, SolveCounted DEF StartTransmission, Idle
<1>9. CASE StartLeverage
  <2>1. /\ todo # {} /\ Sweep = "leverage" /\ loop.status = "idle"
        /\ RunLoop(OwnPt(anchor.market, Combination[3]), anchor.market,
                   Displaced(anchor.market, Combination[1]), anchor.lltv, Combination[2])
        /\ UNCHANGED <<search, phase, todo, rows>>
    BY <1>9 DEF StartLeverage, Idle
  <2>2. Combination[2] \in LOOP_DEPTHS
    BY <1>0, <2>1, DepthListed
  <2> QED
    BY <2>1, <2>2, RunCounted
<1>10. CASE StartStress
  <2> DEFINE m == Reshape(anchor.market, Combination[1], Combination[2])
  <2>1. /\ todo # {} /\ Sweep = "stress" /\ loop.status = "idle"
        /\ RunLoop(OwnPt(m, 1), m, Displaced(m, Combination[5]), Combination[3], Combination[4])
        /\ UNCHANGED <<search, phase, todo, rows>>
    BY <1>10 DEF StartStress, Idle
  <2>2. Combination[4] \in LOOP_DEPTHS
    BY <1>0, <2>1, DepthListed
  <2> HIDE DEF m
  <2> QED
    BY <2>1, <2>2, RunCounted
<1>11. CASE StressSearch
  <2>1. /\ loop.status = "done" /\ search.status = "idle" /\ Solve(loop.opening, Combination[5])
        /\ UNCHANGED <<loop, buy, phase, todo, rows>>
    BY <1>11 DEF StressSearch
  <2>2. loop.opening \in Market
    BY <2>1 DEF TypedInv, LoopBooks, LoopTyped, LoopIdle
  <2>3. todo # {}
    BY <1>w, <2>1
  <2> QED
    BY <2>1, <2>2, <2>3, SolveCounted
<1>12. CASE Searching
  <2>1. SearchStep /\ UNCHANGED <<loop, buy, phase, todo, rows>>
    BY <1>12 DEF Searching
  <2>2. search # SearchIdle
    BY <2>1 DEF SearchStep, Bracket, Bisect, SearchIdle
  <2>3. Bracketed(search) /\ SearchTyped(search) /\ SearchCounts(search) /\ todo # {}
    BY <1>0, <2>2 DEF SearchInv, TypedInv, EndInv
  <2>4. SearchCounts(search') /\ SearchLess(search', search)
    BY <2>1, <2>3, SearchStepCounts
  <2>5. EndInv'
    BY <2>1, <2>3, <2>4, KeepCounted DEF EndInv
  <2> QED
    BY <2>1, <2>4, <2>5 DEF Shrinks
<1>13. CASE Looping
  <2>1. LoopStep /\ UNCHANGED <<search, anchor, phase, todo, row, rows>>
    BY <1>13 DEF Looping
  <2>2. loop # LoopIdle
    BY <2>1 DEF LoopStep, Borrow, Double, Fallback, BisectBudget, Buy, LoopIdle
  <2>3. Backed(loop) /\ LoopTyped(loop) /\ BuyTyped(buy) /\ LoopCounts(loop, buy) /\ todo # {}
    BY <1>0, <2>2 DEF LoopInv, TypedInv, LoopBooks, EndInv
  <2>4. /\ LoopCounts(loop', buy')
        /\ LoopLess(loop', buy', loop, buy) \/ UNCHANGED <<loop, buy>>
    BY <2>1, <2>3, LoopStepCounts
  <2>5. EndInv'
    BY <2>1, <2>3, <2>4, KeepCounted DEF EndInv
  <2> QED
    BY <2>1, <2>4, <2>5 DEF Shrinks, vars
<1> QED
  BY <1>1, <1>2, <1>3, <1>4, <1>5, <1>6, <1>7, <1>8, <1>9, <1>10, <1>11, <1>12, <1>13,
     Zenon DEF Next

------------------------------------------------------------------------------
LeftTuple ==
  <<8 - phase, Cardinality(todo), LoopLeft(loop), SizingStage(loop), SizingLeft(loop, buy),
    SearchStage(search), SearchLeft(search)>>

LEMMA LeftIs == Left = LeftTuple
BY Zenon DEF Left, LeftTuple, LoopLeft, SizingStage, SizingLeft, SearchStage, SearchLeft

LEMMA LeftNat ==
  ASSUME Inv, TypedInv, EndInv
  PROVE  DOMAIN LeftTuple = 1 .. 7 /\ \A i \in 1 .. 7 : LeftTuple[i] \in Nat
<1>1. /\ LoopLeft(loop) \in Nat /\ SizingStage(loop) \in Nat /\ SizingLeft(loop, buy) \in Nat
      /\ SearchStage(search) \in Nat /\ SearchLeft(search) \in Nat /\ Cardinality(todo) \in Nat
  BY LoopLeftNat, SearchLeftNat, TodoFinite DEF Inv
<1>2. 8 - phase \in Nat
  BY SMT DEF TypedInv
<1> QED
  BY <1>1, <1>2, SMT DEF LeftTuple

LEMMA LessAt ==
  ASSUME NEW a, NEW b, NEW n \in 1 .. 7, DOMAIN a = 1 .. 7, \A i \in 1 .. 7 : a[i] \in Nat,
         a[n] < b[n], \A j \in 1 .. 7 : j < n => a[j] = b[j]
  PROVE  Less(a, b)
<1>1. \A i \in DOMAIN a : a[i] >= 0
  BY SMT
<1>2. \A j \in 1 .. n - 1 : a[j] = b[j]
  BY SMT
<1> QED
  BY <1>1, <1>2 DEF Less

LEMMA ShrinksLess ==
  ASSUME Inv, TypedInv, EndInv, Inv', TypedInv', EndInv', Shrinks
  PROVE  Less(Left', Left)
<1> DEFINE a == LeftTuple'
           b == LeftTuple
<1>1. DOMAIN a = 1 .. 7 /\ \A i \in 1 .. 7 : a[i] \in Nat
  <2>1. (Inv /\ TypedInv /\ EndInv => DOMAIN LeftTuple = 1 .. 7
                                        /\ \A i \in 1 .. 7 : LeftTuple[i] \in Nat)'
    BY LeftNat, PTL
  <2> QED
    BY <2>1
<1>2. /\ a[1] = 8 - phase' /\ a[2] = Cardinality(todo') /\ a[3] = LoopLeft(loop')
      /\ a[4] = SizingStage(loop') /\ a[5] = SizingLeft(loop', buy')
      /\ a[6] = SearchStage(search') /\ a[7] = SearchLeft(search')
  BY DEF LeftTuple, LoopLeft, SizingStage, SizingLeft, SearchStage, SearchLeft
<1>3. /\ b[1] = 8 - phase /\ b[2] = Cardinality(todo) /\ b[3] = LoopLeft(loop)
      /\ b[4] = SizingStage(loop) /\ b[5] = SizingLeft(loop, buy)
      /\ b[6] = SearchStage(search) /\ b[7] = SearchLeft(search)
  BY DEF LeftTuple
<1>4. Left' = a /\ Left = b
  <2>1. (Left = LeftTuple)'
    BY LeftIs, PTL
  <2> QED
    BY <2>1, LeftIs
<1> HIDE DEF a, b
<1>5. ASSUME NEW n \in 1 .. 7, a[n] < b[n], \A j \in 1 .. 7 : j < n => a[j] = b[j]
      PROVE  Less(a, b)
  BY <1>1, <1>5, LessAt
<1>6. CASE phase' = phase + 1
  <2>1. a[1] < b[1]
    BY <1>2, <1>3, <1>6, SMT DEF TypedInv
  <2>2. \A j \in 1 .. 7 : j < 1 => a[j] = b[j]
    BY SMT
  <2> QED
    BY <1>4, <1>5, <2>1, <2>2
<1>7. CASE phase' = phase /\ Cardinality(todo') < Cardinality(todo)
  <2>1. \A j \in 1 .. 7 : j < 2 => a[j] = b[j]
    BY <1>2, <1>3, <1>7, SMT
  <2> QED
    BY <1>2, <1>3, <1>4, <1>5, <1>7, <2>1
<1>8. CASE UNCHANGED <<phase, todo>> /\ LoopLess(loop', buy', loop, buy)
  <2>1. a[1] = b[1] /\ a[2] = b[2]
    BY <1>2, <1>3, <1>8
  <2>2. CASE a[3] < b[3]
    <3>1. \A j \in 1 .. 7 : j < 3 => a[j] = b[j]
      BY <2>1, SMT
    <3> QED
      BY <1>4, <1>5, <2>2, <3>1
  <2>3. CASE a[3] = b[3] /\ a[4] < b[4]
    <3>1. \A j \in 1 .. 7 : j < 4 => a[j] = b[j]
      BY <2>1, <2>3, SMT
    <3> QED
      BY <1>4, <1>5, <2>3, <3>1
  <2>4. CASE a[3] = b[3] /\ a[4] = b[4] /\ a[5] < b[5]
    <3>1. \A j \in 1 .. 7 : j < 5 => a[j] = b[j]
      BY <2>1, <2>4, SMT
    <3> QED
      BY <1>4, <1>5, <2>4, <3>1
  <2> QED
    BY <1>2, <1>3, <1>8, <2>2, <2>3, <2>4 DEF LoopLess
<1>9. CASE UNCHANGED <<phase, todo, loop, buy>> /\ SearchLess(search', search)
  <2>1. a[1] = b[1] /\ a[2] = b[2] /\ a[3] = b[3] /\ a[4] = b[4] /\ a[5] = b[5]
    BY <1>2, <1>3, <1>9
  <2>2. CASE a[6] < b[6]
    <3>1. \A j \in 1 .. 7 : j < 6 => a[j] = b[j]
      BY <2>1, SMT
    <3> QED
      BY <1>4, <1>5, <2>2, <3>1
  <2>3. CASE a[6] = b[6] /\ a[7] < b[7]
    <3>1. \A j \in 1 .. 7 : j < 7 => a[j] = b[j]
      BY <2>1, <2>3, SMT
    <3> QED
      BY <1>4, <1>5, <2>3, <3>1
  <2> QED
    BY <1>2, <1>3, <1>9, <2>2, <2>3 DEF SearchLess
<1> QED
  BY <1>6, <1>7, <1>8, <1>9 DEF Shrinks

LEMMA EndInit == Init => EndInv
<1> SUFFICES ASSUME Init PROVE EndInv
  OBVIOUS
<1>1. /\ phase = 1 /\ search = SearchIdle /\ loop = LoopIdle /\ rows = [i \in 1 .. 7 |-> 0]
  BY DEF Init
<1>2. RowCount(3) /\ RowCount(7)
  BY <1>1, SMT DEF RowCount
<1> QED
  BY <1>1, <1>2 DEF EndInv

LEMMA CrossedSizes ==
  /\ Crossed(3) = Cardinality(HORIZONS) * Cardinality(LIQUIDITY_SCALES) * Cardinality(TARGETS)
  /\ Crossed(7) = Cardinality(HORIZONS) * Cardinality(LIQUIDITY_SCALES) * Cardinality(LLTVS)
                    * Cardinality(LOOP_DEPTHS) * Cardinality(DISPLACEMENTS)
<1>1. PHASES[3] = "displacement" /\ PHASES[7] = "stress"
  BY DEF PHASES
<1>2. /\ Crossed(3) = Cardinality(HORIZONS \X LIQUIDITY_SCALES \X TARGETS)
      /\ Crossed(7) =
           Cardinality(HORIZONS \X LIQUIDITY_SCALES \X LLTVS \X LOOP_DEPTHS \X DISPLACEMENTS)
  BY <1>1 DEF Crossed, Combinations
<1>3. /\ IsFiniteSet(HORIZONS) /\ IsFiniteSet(LIQUIDITY_SCALES) /\ IsFiniteSet(TARGETS)
      /\ IsFiniteSet(LLTVS) /\ IsFiniteSet(LOOP_DEPTHS) /\ IsFiniteSet(DISPLACEMENTS)
  BY ListsAssumption
<1>4. Cardinality(HORIZONS \X LIQUIDITY_SCALES \X TARGETS)
        = Cardinality(HORIZONS) * Cardinality(LIQUIDITY_SCALES) * Cardinality(TARGETS)
  BY <1>3, Triples
<1>5. Cardinality(HORIZONS \X LIQUIDITY_SCALES \X LLTVS \X LOOP_DEPTHS \X DISPLACEMENTS)
        = Cardinality(HORIZONS) * Cardinality(LIQUIDITY_SCALES) * Cardinality(LLTVS)
            * Cardinality(LOOP_DEPTHS) * Cardinality(DISPLACEMENTS)
  <2>1. Cardinality(Crossing(HORIZONS, LIQUIDITY_SCALES, LLTVS, LOOP_DEPTHS, DISPLACEMENTS))
          = Fivefold(Cardinality(HORIZONS), Cardinality(LIQUIDITY_SCALES), Cardinality(LLTVS),
                     Cardinality(LOOP_DEPTHS), Cardinality(DISPLACEMENTS))
    BY <1>3, Quintuples
  <2> QED
    BY ONLY <2>1, Zenon DEF Fivefold, Crossing
<1> QED
  BY ONLY <1>2, <1>4, <1>5

(* Only NextSweep goes on to another sweep.                                *)
LEMMA SweepOrSame == Next => NextSweep \/ phase' = phase
<1>1. ASSUME NEW made, NEW n, RowsMade(made, n) PROVE phase' = phase
  BY <1>1 DEF RowsMade
<1>2. CASE PortValidationRow \/ MaturityRow \/ DisplacementRow \/ TransmissionRow
           \/ PropagationRow \/ LeverageRow \/ StressRow
  BY <1>1, <1>2, Zenon DEF PortValidationRow, MaturityRow, DisplacementRow, TransmissionRow,
       PropagationRow, LeverageRow, StressRow
<1>3. CASE StartDisplacement \/ StartTransmission \/ StartLeverage \/ StartStress
           \/ StressSearch \/ Searching \/ Looping
  BY <1>3, Zenon DEF StartDisplacement, StartTransmission, StartLeverage, StartStress,
       StressSearch, Searching, Looping
<1> QED
  BY <1>2, <1>3, Zenon DEF Next

AllRows ==
  /\ rows[3] = Cardinality(HORIZONS) * Cardinality(LIQUIDITY_SCALES) * Cardinality(TARGETS)
  /\ rows[7] = Cardinality(HORIZONS) * Cardinality(LIQUIDITY_SCALES)
                 * Cardinality(LLTVS) * Cardinality(LOOP_DEPTHS)
                 * Cardinality(DISPLACEMENTS)
AdvanceStep == Less(Left', Left) /\ (Sweep' = "written" => AllRows)

(***************************************************************************)
(* Every step leaves less to do, counted in natural numbers, and when the  *)
(* results are written both crossed sweeps have a row for each combination:*)
(* no doubling, bisection or loop of the driver goes on for ever, for every*)
(* pool, price and grid.                                                   *)
(***************************************************************************)
THEOREM AlwaysAdvances == Spec => Advances
<1> DEFINE All == Inv /\ TypedInv /\ EndInv
<1>0. TypedInv => (Sweep = "written" => phase = 8)
  BY SweepNumbers DEF TypedInv
<1>1. Init => All
  BY InvInit, TypedInit, EndInit
<1>2. All /\ [Next]_vars => All'
  <2>1. ASSUME All, UNCHANGED vars PROVE EndInv'
    BY <2>1 DEF vars, EndInv, RowCount, Crossed
  <2> QED
    BY <2>1, InvStep, TypedStep, EndStep
<1>3. All => (Sweep = "written" => AllRows)
  <2> SUFFICES ASSUME All, Sweep = "written" PROVE AllRows
    OBVIOUS
  <2>1. phase = 8
    BY SweepNumbers DEF TypedInv
  <2>2. rows[3] = Crossed(3) /\ rows[7] = Crossed(7)
    BY <2>1, SMT DEF EndInv, RowCount
  <2> QED
    BY <2>2, CrossedSizes DEF AllRows
<1>4. All /\ All' /\ [Next]_vars => [AdvanceStep]_vars
  <2> SUFFICES ASSUME All, All', Next, ~ UNCHANGED vars PROVE AdvanceStep
    OBVIOUS
  <2>1. Shrinks
    BY EndStep
  <2>2. Less(Left', Left)
    BY <2>1, ShrinksLess
  <2>3. ASSUME Sweep' = "written" PROVE AllRows
    <3>1. phase' = 8
      <4>1. (TypedInv => (Sweep = "written" => phase = 8))'
        BY <1>0, PTL
      <4> QED
        BY <2>3, <4>1
    <3>2. CASE NextSweep
      <4>1. AllRows'
        <5>1. (All => (Sweep = "written" => AllRows))'
          BY <1>3, PTL
        <5> QED
          BY <2>3, <5>1
      <4>2. rows' = rows
        BY <3>2 DEF NextSweep
      <4> QED
        BY <4>1, <4>2 DEF AllRows
    <3>3. CASE phase' = phase
      <4>1. Sweep = "written"
        BY <3>1, <3>3, SweepNumbers DEF TypedInv
      <4> QED
        BY <1>3, <4>1
    <3> QED
      BY <3>2, <3>3, SweepOrSame
  <2> QED
    BY <2>2, <2>3 DEF AdvanceStep
<1>5. Advances <=> [][AdvanceStep]_vars
  BY PTL DEF Advances, AdvanceStep, AllRows
<1> HIDE DEF All
<1> QED
  BY <1>1, <1>2, <1>4, <1>5, PTL DEF Spec

------------------------------------------------------------------------------
(***************************************************************************)
(* The curve rises with the odds of the PT, and the price of a PT falls as *)
(* the rate does not: a larger purchase leaves a higher price.             *)
(***************************************************************************)
LEMMA QuotientRises ==
  ASSUME NEW a \in Int, NEW b \in Int, NEW d \in Nat \ {0}, NEW e \in Nat \ {0},
         a * e <= b * d
  PROVE  a \div d <= b \div e
<1> DEFINE q == a \div d
           r == b \div e
<1>1. q \in Int /\ d * q <= a /\ r \in Int /\ b < e * r + e
  BY IntDiv
<1> HIDE DEF q, r
<1>2. ASSUME r + 1 <= q PROVE FALSE
  <2>1. (d * q) * e <= a * e
    BY <1>1, SMT
  <2>2. b * d < (e * (r + 1)) * d
    <3>1. b < e * (r + 1)
      BY <1>1, SMT
    <3> DEFINE y == e * (r + 1)
    <3>2. y \in Int /\ b < y
      BY <1>1, <3>1, SMT
    <3> HIDE DEF y
    <3>3. b * d < y * d
      BY <3>2, SMT
    <3> QED
      BY <3>3 DEF y
  <2> DEFINE w == d * e
  <2>3. w \in Nat /\ (d * q) * e = w * q /\ (e * (r + 1)) * d = w * (r + 1)
    BY <1>1, SMT
  <2>4. w * (r + 1) <= w * q
    <3> HIDE DEF w
    <3> QED
      BY <1>1, <1>2, <2>3, SMT
  <2>5. a * e \in Int /\ b * d \in Int /\ w * q \in Int /\ w * (r + 1) \in Int
    BY <1>1, SMT
  <2>6. w * q <= a * e /\ b * d < w * (r + 1)
    BY <2>1, <2>2, <2>3
  <2> HIDE DEF w
  <2> QED
    BY <2>4, <2>5, <2>6, SMT
<1>3. q <= r
  BY <1>1, <1>2, SMT
<1> QED
  BY <1>3 DEF q, r

LEMMA DivRises ==
  ASSUME NEW a \in Int, NEW b \in Int, NEW d \in Nat \ {0}, a <= b
  PROVE  a \div d <= b \div d
<1>1. a * d <= b * d
  BY SMT
<1> QED
  BY <1>1, QuotientRises

LEMMA DivFalls ==
  ASSUME NEW a \in Nat, NEW d \in Nat \ {0}, NEW e \in Nat \ {0}, d <= e
  PROVE  a \div e <= a \div d
<1>1. a * d <= a * e
  BY SMT
<1> QED
  BY <1>1, QuotientRises

LEMMA TimesRises ==
  ASSUME NEW a \in Nat, NEW b \in Nat, NEW c \in Nat, NEW d \in Nat, a <= b, c <= d
  PROVE  Times(a, c) <= Times(b, d)
<1>1. a * c \in Nat /\ b * d \in Nat /\ a * c <= b * c /\ b * c \in Nat /\ b * c <= b * d
  BY SMT
<1>2. a * c <= b * d
  BY <1>1, SMT
<1> QED
  BY <1>1, <1>2, OneAssumption, DivMonotone DEF Times

LEMMA ExpRises ==
  ASSUME NEW x \in Nat, NEW y \in Nat, x <= y
  PROVE  Exp(x) <= Exp(y)
<1> DEFINE s == Times(x, x)
           c == Times(s, x)
           q == Times(s, s)
           t == Times(y, y)
           d == Times(t, y)
           r == Times(t, t)
<1>1. s \in Nat /\ c \in Nat /\ q \in Nat /\ t \in Nat /\ d \in Nat /\ r \in Nat
  BY TimesNat
<1>2. s <= t
  BY TimesRises
<1>e. Exp(x) = ONE + x + s \div 2 + c \div 6 + q \div 24
      /\ Exp(y) = ONE + y + t \div 2 + d \div 6 + r \div 24
  BY DEF Exp
<1>3. c <= d
  <2> HIDE DEF s, t
  <2> QED
    BY <1>1, <1>2, TimesRises
<1>4. q <= r
  <2> HIDE DEF s, t
  <2> QED
    BY <1>1, <1>2, TimesRises
<1> HIDE DEF s, c, q, t, d, r
<1>5. s \div 2 <= t \div 2
  BY <1>1, <1>2, DivMonotone
<1>6. c \div 6 <= d \div 6
  BY <1>1, <1>3, DivMonotone
<1>7. q \div 24 <= r \div 24
  BY <1>1, <1>4, DivMonotone
<1>8. s \div 2 \in Nat /\ c \div 6 \in Nat /\ q \div 24 \in Nat
      /\ t \div 2 \in Nat /\ d \div 6 \in Nat /\ r \div 24 \in Nat
  BY <1>1, SMT
<1> QED
  BY <1>e, <1>5, <1>6, <1>7, <1>8, OneAssumption, SMT

LEMMA SeriesRises ==
  ASSUME NEW z \in Nat, NEW s \in Nat, NEW y \in Nat, NEW t \in Nat, z <= y, s <= t
  PROVE  LnSeries(z, s) <= LnSeries(y, t)
<1> DEFINE a == Times(z, s)
           f == Times(s, s)
           g == Times(s, f)
           b == Times(z, f)
           c == Times(z, g)
           aa == Times(y, t)
           ff == Times(t, t)
           gg == Times(t, ff)
           bb == Times(y, ff)
           cc == Times(y, gg)
<1>1. a \in Nat /\ f \in Nat /\ g \in Nat /\ b \in Nat /\ c \in Nat
  BY TimesNat
<1>2. aa \in Nat /\ ff \in Nat /\ gg \in Nat /\ bb \in Nat /\ cc \in Nat
  BY TimesNat
<1>e. LnSeries(z, s) = 2 * (z + a \div 3 + b \div 5 + c \div 7)
      /\ LnSeries(y, t) = 2 * (y + aa \div 3 + bb \div 5 + cc \div 7)
  BY DEF LnSeries
<1>3. a <= aa /\ f <= ff
  BY TimesRises
<1>4. g <= gg
  <2> HIDE DEF f, ff
  <2> QED
    BY <1>1, <1>2, <1>3, TimesRises
<1>5. b <= bb
  <2> HIDE DEF f, ff
  <2> QED
    BY <1>1, <1>2, <1>3, TimesRises
<1>6. c <= cc
  <2> HIDE DEF g, gg
  <2> QED
    BY <1>1, <1>2, <1>4, TimesRises
<1> HIDE DEF a, f, g, b, c, aa, ff, gg, bb, cc
<1>7. a \div 3 <= aa \div 3
  BY <1>1, <1>2, <1>3, DivMonotone
<1>8. b \div 5 <= bb \div 5
  BY <1>1, <1>2, <1>5, DivMonotone
<1>9. c \div 7 <= cc \div 7
  BY <1>1, <1>2, <1>6, DivMonotone
<1>10. a \div 3 \in Nat /\ b \div 5 \in Nat /\ c \div 7 \in Nat
       /\ aa \div 3 \in Nat /\ bb \div 5 \in Nat /\ cc \div 7 \in Nat
  BY <1>1, <1>2, SMT
<1> QED
  BY <1>e, <1>7, <1>8, <1>9, <1>10, SMT

LEMMA LnBelow2Rises ==
  ASSUME NEW a \in Nat, NEW b \in Nat, ONE <= a, a <= b
  PROVE  LnBelow2(a) \in Nat /\ LnBelow2(a) <= LnBelow2(b)
<1> DEFINE z == Ratio(a - ONE, a + ONE)
           y == Ratio(b - ONE, b + ONE)
<1>1. /\ (a - ONE) * ONE \in Nat /\ (b - ONE) * ONE \in Nat
      /\ a + ONE \in Nat \ {0} /\ b + ONE \in Nat \ {0}
  BY OneAssumption, SMT
<1>2. z \in Nat /\ y \in Nat
  BY <1>1, DivBounds DEF Ratio
<1>3. ((a - ONE) * ONE) * (b + ONE) <= ((b - ONE) * ONE) * (a + ONE)
  <2> DEFINE u == a - ONE
             v == b - ONE
  <2>1. ONE \in Nat /\ u \in Nat /\ v \in Nat /\ u <= v /\ b + ONE = v + 2 * ONE
        /\ a + ONE = u + 2 * ONE
    BY OneAssumption, SMT
  <2> HIDE DEF u, v
  <2>2. u * ONE \in Nat /\ v * ONE \in Nat /\ u * ONE <= v * ONE
    BY <2>1, SMT
  <2>3. (u * ONE) * (v + 2 * ONE) = (u * ONE) * v + (u * ONE) * (2 * ONE)
    BY <2>1, <2>2, SMT
  <2>4. (v * ONE) * (u + 2 * ONE) = (u * ONE) * v + (v * ONE) * (2 * ONE)
    BY <2>1, <2>2, SMT
  <2>5. (u * ONE) * (2 * ONE) <= (v * ONE) * (2 * ONE)
    <3> DEFINE p == u * ONE
               q == v * ONE
               w == 2 * ONE
    <3>1. p \in Nat /\ q \in Nat /\ w \in Nat /\ p <= q
      BY <2>1, <2>2, SMT
    <3> HIDE DEF p, q, w
    <3>2. p * w <= q * w
      BY <3>1, SMT
    <3> QED
      BY <3>2 DEF p, q, w
  <2>6. (u * ONE) * v \in Nat /\ (u * ONE) * (2 * ONE) \in Nat /\ (v * ONE) * (2 * ONE) \in Nat
    BY <2>1, SMT
  <2>7. (u * ONE) * (v + 2 * ONE) <= (v * ONE) * (u + 2 * ONE)
    BY <2>3, <2>4, <2>5, <2>6, SMT
  <2> QED
    BY <2>1, <2>7 DEF u, v
<1>4. z <= y
  <2>1. (a - ONE) * ONE \in Int /\ (b - ONE) * ONE \in Int
    BY <1>1, SMT
  <2> QED
    BY <1>1, <1>3, <2>1, QuotientRises DEF Ratio
<1>e. LnBelow2(a) = LnSeries(z, Times(z, z)) /\ LnBelow2(b) = LnSeries(y, Times(y, y))
  BY DEF LnBelow2
<1> HIDE DEF z, y
<1>5. Times(z, z) \in Nat /\ Times(y, y) \in Nat /\ Times(z, z) <= Times(y, y)
  BY <1>2, <1>4, TimesNat, TimesRises
<1> QED
  BY <1>e, <1>2, <1>4, <1>5, SeriesNat, SeriesRises

(* The logarithm of the program rises, across the halvings too.            *)
LEMMA LnRises ==
  ASSUME NEW a \in Nat, NEW b \in Nat, ONE <= a, a <= b
  PROVE  Ln[a] <= Ln[b]
<1> DEFINE Bad == {y \in Nat : \E x \in Nat : ONE <= x /\ x <= y /\ ~ (Ln[x] <= Ln[y])}
<1> SUFFICES ASSUME b \in Bad PROVE FALSE
  BY SMT
<1>2. PICK y \in Bad : \A k \in Bad : y <= k
  <2>1. Bad \in SUBSET Nat
    OBVIOUS
  <2> HIDE DEF Bad
  <2> QED
    BY <2>1, LeastOf
<1>3. PICK x \in Nat : ONE <= x /\ x <= y /\ ~ (Ln[x] <= Ln[y])
  BY <1>2
<1>4. y \in Nat /\ y >= ONE /\ ONE \in Nat \ {0}
  BY <1>2, <1>3, OneAssumption, SMT
<1>5. Ln[x] = LnStep(Ln, x) /\ Ln[y] = LnStep(Ln, y) /\ Ln[x] \in Nat /\ Ln[y] \in Nat
  BY <1>3, <1>4, LnUnfolds, LnNat, SMT
<1>6. y >= 2 * ONE
  <2>1. ASSUME ~ (y >= 2 * ONE) PROVE FALSE
    <3>1. ~ (x >= 2 * ONE)
      BY <1>3, <1>4, <2>1, SMT
    <3>2. Ln[x] = LnBelow2(x) /\ Ln[y] = LnBelow2(y)
      BY <1>5, <2>1, <3>1 DEF LnStep
    <3>3. LnBelow2(x) <= LnBelow2(y)
      BY <1>3, <1>4, LnBelow2Rises
    <3> QED
      BY <1>3, <3>2, <3>3
  <2> QED
    BY <2>1
<1>7. Ln[y] = LnBelow2(2 * ONE) + Ln[y \div 2]
  BY <1>5, <1>6 DEF LnStep
<1>8. y \div 2 \in Nat /\ y \div 2 < y /\ y \div 2 >= ONE
  BY <1>4, <1>6, Halved
<1>9. Ln[y \div 2] \in Nat
  BY <1>8, LnNat
<1>10. LnBelow2(2 * ONE) \in Nat
  <2>1. 2 * ONE \in Nat /\ ONE <= 2 * ONE /\ 2 * ONE <= 2 * ONE
    BY <1>4, SMT
  <2> QED
    BY <2>1, LnBelow2Rises
<1>11. CASE ~ (x >= 2 * ONE)
  <2>1. Ln[x] = LnBelow2(x)
    BY <1>5, <1>11 DEF LnStep
  <2>2. 2 * ONE \in Nat /\ x <= 2 * ONE
    BY <1>3, <1>4, <1>11, SMT
  <2>3. LnBelow2(x) <= LnBelow2(2 * ONE)
    BY <1>3, <2>2, LnBelow2Rises
  <2> QED
    BY <1>3, <1>5, <1>7, <1>9, <1>10, <2>1, <2>3, SMT
<1>12. CASE x >= 2 * ONE
  <2>1. Ln[x] = LnBelow2(2 * ONE) + Ln[x \div 2]
    BY <1>5, <1>12 DEF LnStep
  <2>2. x \div 2 \in Nat /\ x \div 2 >= ONE
    BY <1>3, <1>12, Halved
  <2>3. x \div 2 <= y \div 2
    BY <1>3, <1>4, DivMonotone
  <2>4. y \div 2 \notin Bad
    <3> HIDE DEF Bad
    <3> QED
      BY <1>2, <1>4, <1>8, SMT
  <2>5. Ln[x \div 2] <= Ln[y \div 2]
    BY <1>8, <2>2, <2>3, <2>4, SMT
  <2>6. Ln[x \div 2] \in Nat
    BY <2>2, LnNat
  <2> QED
    BY <1>3, <1>7, <1>9, <1>10, <2>1, <2>5, <2>6, SMT
<1> QED
  BY <1>11, <1>12

(* So does the logarithm of the odds of a reserve, with the odds.          *)
LEMMA LogProportionRises ==
  ASSUME NEW p \in Nat \ {0}, NEW w \in Nat, NEW q \in Nat \ {0}, NEW v \in Nat, p < w, q < v,
         p * (v - q) <= q * (w - p)
  PROVE  LogProportion(p, w) <= LogProportion(q, v)
<1> DEFINE pp == w - p
           qq == v - q
           x == Ratio(Larger(p, pp), Smaller(p, pp))
           y == Ratio(Larger(q, qq), Smaller(q, qq))
<1>1. pp \in Nat \ {0} /\ qq \in Nat \ {0} /\ p * qq <= q * pp
      /\ (2 * p >= w <=> p >= pp) /\ (2 * q >= v <=> q >= qq)
  BY SMT
<1>2. LogProportion(p, w) = (IF 2 * p >= w THEN 1 ELSE -1) * Ln[x]
      /\ LogProportion(q, v) = (IF 2 * q >= v THEN 1 ELSE -1) * Ln[y]
  BY DEF LogProportion
<1>o. ONE \in Nat \ {0}
  BY OneAssumption
<1> HIDE DEF pp, qq
<1>3. ASSUME NEW a \in Nat \ {0}, NEW b \in Nat \ {0}, b <= a
      PROVE  Ratio(a, b) \in Nat /\ Ratio(a, b) >= ONE /\ Ln[Ratio(a, b)] \in Nat
  <2>1. a * ONE \in Nat /\ ONE * b \in Nat /\ ONE * b <= a * ONE
    BY <1>o, <1>3, SMT
  <2>2. (ONE * b) \div b = ONE /\ (ONE * b) \div b <= (a * ONE) \div b
    BY <1>o, <2>1, DivOfProduct, DivMonotone
  <2>3. (a * ONE) \div b \in Nat
    BY <2>1, DivBounds
  <2>4. Ratio(a, b) \in Nat /\ Ratio(a, b) >= ONE
    BY <1>o, <2>2, <2>3 DEF Ratio
  <2> QED
    BY <2>4, LnNat
<1>4. ASSUME NEW a \in Nat \ {0}, NEW b \in Nat \ {0}, NEW c \in Nat \ {0}, NEW d \in Nat \ {0},
             b <= a, d <= c, a * d <= c * b
      PROVE  Ln[Ratio(a, b)] <= Ln[Ratio(c, d)]
  <2>1. a * ONE \in Int /\ c * ONE \in Int /\ (a * ONE) * d <= (c * ONE) * b
    <3> DEFINE k == a * d
               l == c * b
    <3>1. k \in Nat /\ l \in Nat /\ k <= l
      BY <1>4, SMT
    <3>2. (a * ONE) * d = k * ONE /\ (c * ONE) * b = l * ONE
      BY <1>o, SMT
    <3> HIDE DEF k, l
    <3>3. k * ONE <= l * ONE
      BY <1>o, <3>1, SMT
    <3> QED
      BY <1>o, <3>2, <3>3, SMT
  <2>2. Ratio(a, b) <= Ratio(c, d)
    BY <2>1, QuotientRises DEF Ratio
  <2>3. Ratio(a, b) \in Nat /\ Ratio(a, b) >= ONE /\ Ratio(c, d) \in Nat
    BY <1>3, <1>4
  <2> QED
    BY <1>o, <2>2, <2>3, LnRises, SMT
<1>5. CASE p >= pp /\ q >= qq
  <2>1. x = Ratio(p, pp) /\ y = Ratio(q, qq)
    BY <1>1, <1>5, SMT DEF Larger, Smaller
  <2>2. Ln[x] <= Ln[y] /\ Ln[x] \in Nat /\ Ln[y] \in Nat
    BY <1>1, <1>3, <1>4, <1>5, <2>1
  <2> HIDE DEF x, y
  <2> QED
    BY <1>1, <1>2, <1>5, <2>2, SMT
<1>6. CASE ~ (p >= pp) /\ q >= qq
  <2>1. x = Ratio(pp, p) /\ y = Ratio(q, qq) /\ p <= pp
    BY <1>1, <1>6, SMT DEF Larger, Smaller
  <2>2. Ln[x] \in Nat /\ Ln[y] \in Nat
    BY <1>1, <1>3, <1>6, <2>1
  <2> HIDE DEF x, y
  <2> QED
    BY <1>1, <1>2, <1>6, <2>2, SMT
<1>7. CASE ~ (p >= pp) /\ ~ (q >= qq)
  <2>1. x = Ratio(pp, p) /\ y = Ratio(qq, q) /\ p <= pp /\ q <= qq /\ qq * p <= pp * q
    BY <1>1, <1>7, SMT DEF Larger, Smaller
  <2>2. Ln[y] <= Ln[x] /\ Ln[x] \in Nat /\ Ln[y] \in Nat
    BY <1>1, <1>3, <1>4, <2>1
  <2> HIDE DEF x, y
  <2> QED
    BY <1>1, <1>2, <1>7, <2>2, SMT
<1>8. CASE p >= pp /\ ~ (q >= qq)
  <2>1. pp * qq <= p * qq /\ q * pp < qq * pp
    BY <1>1, <1>8, SMT
  <2> QED
    BY <1>1, <2>1, SMT
<1> QED
  BY <1>5, <1>6, <1>7, <1>8

LEMMA CurveRises ==
  ASSUME NEW comp, Computed(comp),
         NEW p \in Nat \ {0}, NEW w \in Nat, NEW q \in Nat \ {0}, NEW v \in Nat, p < w, q < v,
         p * (v - q) <= q * (w - p)
  PROVE  /\ CurveRate(comp, p, w) <= CurveRate(comp, q, v)
         /\ CurveRate(comp, p, w) \in Int /\ CurveRate(comp, q, v) \in Int
<1> DEFINE a == LogProportion(p, w)
           b == LogProportion(q, v)
           s == comp.rateScalar
<1>1. a \in Int /\ b \in Int /\ a <= b
  BY LogProportionInt, LogProportionRises
<1>2. CurveRate(comp, p, w) = (a * ONE) \div s + comp.rateAnchor
      /\ CurveRate(comp, q, v) = (b * ONE) \div s + comp.rateAnchor
  BY DEF CurveRate, Ratio
<1>3. s \in Nat \ {0} /\ comp.rateAnchor \in Int
  BY DEF Computed
<1> HIDE DEF a, b, s
<1>4. a * ONE \in Int /\ b * ONE \in Int /\ a * ONE <= b * ONE
  BY <1>1, OneAssumption, SMT
<1>5. (a * ONE) \div s <= (b * ONE) \div s /\ (a * ONE) \div s \in Int /\ (b * ONE) \div s \in Int
  BY <1>3, <1>4, DivRises, IntDiv
<1> QED
  BY <1>2, <1>3, <1>5, SMT

(* The price of a PT falls as the rate rises, haircut or not.              *)
LEMMA RateFalls ==
  ASSUME NEW r \in Nat, NEW s \in Nat, r <= s, NEW left \in Int
  PROVE  /\ PtToAssetRateFromLnImpliedRate(s, left) <= PtToAssetRateFromLnImpliedRate(r, left)
         /\ PtToAssetRateFromLnImpliedRate(s, left) \in Nat
         /\ PtToAssetRateFromLnImpliedRate(r, left) \in 0 .. ONE
<1>o. ONE \in Nat \ {0}
  BY OneAssumption
<1>1. CASE left <= 0
  BY <1>o, <1>1, SMT DEF PtToAssetRateFromLnImpliedRate
<1>2. CASE ~ (left <= 0)
  <2> DEFINE x == (r * left) \div YEAR
             y == (s * left) \div YEAR
             d == Exp(x)
             e == Exp(y)
  <2>1. r * left \in Nat /\ s * left \in Nat /\ r * left <= s * left
    BY <1>2, SMT
  <2>2. x \in Nat /\ y \in Nat /\ x <= y
    BY <2>1, YearAssumption, DivBounds, DivMonotone
  <2>3. PtToAssetRateFromLnImpliedRate(r, left) = (ONE * ONE) \div d
        /\ PtToAssetRateFromLnImpliedRate(s, left) = (ONE * ONE) \div e
    BY <1>2 DEF PtToAssetRateFromLnImpliedRate, ExchangeRateFromImpliedRate, Ratio
  <2> HIDE DEF x, y
  <2>4. d \in Nat /\ e \in Nat /\ ONE <= d /\ d <= e
    BY <2>2, ExpAboveOne, ExpRises
  <2> HIDE DEF d, e
  <2>5. ONE * ONE \in Nat /\ d \in Nat \ {0} /\ e \in Nat \ {0}
    BY <1>o, <2>4, SMT
  <2>6. (ONE * ONE) \div e <= (ONE * ONE) \div d /\ (ONE * ONE) \div d <= (ONE * ONE) \div ONE
        /\ (ONE * ONE) \div ONE = ONE
    BY <1>o, <2>4, <2>5, DivFalls, DivOfProduct
  <2>7. (ONE * ONE) \div e \in Nat /\ (ONE * ONE) \div d \in Nat
    BY <2>5, DivBounds
  <2> QED
    BY <1>o, <2>3, <2>6, <2>7, SMT
<1> QED
  BY <1>1, <1>2

LEMMA PriceFalls ==
  ASSUME NEW r \in Nat, NEW s \in Nat, r <= s, NEW left \in Int, NEW sy \in Nat, NEW py \in Nat
  PROVE  /\ PtToAssetRate(s, left, sy, py) <= PtToAssetRate(r, left, sy, py)
         /\ PtToAssetRate(s, left, sy, py) \in Nat /\ PtToAssetRate(r, left, sy, py) \in 0 .. ONE
<1> DEFINE a == PtToAssetRateFromLnImpliedRate(r, left)
           b == PtToAssetRateFromLnImpliedRate(s, left)
<1>1. b <= a /\ a \in Nat /\ b \in Nat /\ a <= ONE
  <2>1. b <= a /\ b \in Nat /\ a \in 0 .. ONE
    BY RateFalls
  <2> HIDE DEF a, b
  <2> QED
    BY <2>1, OneAssumption, SMT
<1>2. PtToAssetRate(r, left, sy, py) = (IF sy >= py THEN a ELSE (a * sy) \div py)
      /\ PtToAssetRate(s, left, sy, py) = (IF sy >= py THEN b ELSE (b * sy) \div py)
  BY DEF PtToAssetRate
<1> HIDE DEF a, b
<1>3. CASE sy >= py
  BY <1>1, <1>2, <1>3, OneAssumption, SMT
<1>4. CASE ~ (sy >= py)
  <2>1. py \in Nat \ {0} /\ sy <= py
    BY <1>4, SMT
  <2>2. a * sy \in Nat /\ b * sy \in Nat /\ b * sy <= a * sy /\ a * py \in Nat /\ a * sy <= a * py
    BY <1>1, <2>1, SMT
  <2>3. (b * sy) \div py \in Nat /\ (a * sy) \div py \in Nat /\ (b * sy) \div py <= (a * sy) \div py
    BY <2>1, <2>2, DivBounds, DivMonotone
  <2>4. (a * sy) \div py <= a
    BY <1>1, <2>1, <2>2, DivMonotone, DivOfProduct
  <2> QED
    BY <1>1, <1>2, <1>4, <2>3, <2>4, OneAssumption, SMT
<1> QED
  BY <1>3, <1>4

(* What one purchase leaves, for pools the curve can be computed of.       *)
Pre(m) == MarketPreCompute(m, BlockTime)
TradeAt(m, pt) == CalcTrade(m, Pre(m), pt)
SyAfter(m, pt) == m.totalSy - TradeAt(m, pt).netSyToAccount
AssetAfter(m, pt) == SyToAsset(m.index, SyAfter(m, pt))
RateAfter(m, pt) == LnImpliedRateAt(m.totalPt - pt, AssetAfter(m, pt), Pre(m))

LEMMA AfterMeans ==
  ASSUME NEW m \in Market, NEW pt
  PROVE  /\ Takes(m, pt, BlockTime) <=>
              /\ Open(m, BlockTime)
              /\ ~ RefusesTrade(m, Pre(m), pt)
              /\ ~ OffCurve(Pre(m), m.totalPt - pt, (m.totalPt - pt) + AssetAfter(m, pt))
         /\ ExecuteTrade(m, pt, BlockTime).market.lastLnImpliedRate = RateAfter(m, pt)
         /\ PriceAfter(m, pt)
              = PtToAssetRate(RateAfter(m, pt), m.expiry - BlockTime, m.syIndex, m.pyIndex)
<1> DEFINE comp  == Pre(m)
           trade == TradeAt(m, pt)
           after == After(m, trade, pt)
           exec  == ExecuteTrade(m, pt, BlockTime).market
<1>1. /\ after.totalPt = m.totalPt - pt /\ after.totalSy = SyAfter(m, pt) /\ after.index = m.index
      /\ after.expiry = m.expiry /\ after.syIndex = m.syIndex /\ after.pyIndex = m.pyIndex
      /\ "lastLnImpliedRate" \in DOMAIN after
  <2> DEFINE t == trade.netSyToAccount
  <2>1. after = [m EXCEPT !.totalPt = @ - pt, !.totalSy = @ - t] /\ SyAfter(m, pt) = m.totalSy - t
    BY DEF After, SyAfter
  <2> HIDE DEF trade, after, t
  <2> QED
    BY <2>1 DEF Market
<1>2. Takes(m, pt, BlockTime) <=>
        /\ Open(m, BlockTime) /\ ~ RefusesTrade(m, comp, pt)
        /\ ~ OffCurve(comp, after.totalPt, after.totalPt + SyToAsset(after.index, after.totalSy))
  BY Zenon DEF Takes, Pre, TradeAt
<1>3. exec = [after EXCEPT !.lastLnImpliedRate =
                LnImpliedRateAt(after.totalPt, SyToAsset(after.index, after.totalSy), comp)]
  BY DEF ExecuteTrade, Pre, TradeAt
<1>4. RateAfter(m, pt) = LnImpliedRateAt(m.totalPt - pt, AssetAfter(m, pt), comp)
      /\ AssetAfter(m, pt) = SyToAsset(m.index, SyAfter(m, pt))
  BY DEF RateAfter, AssetAfter
<1>p. PriceAfter(m, pt)
        = PtToAssetRate(exec.lastLnImpliedRate, exec.expiry - BlockTime, exec.syIndex, exec.pyIndex)
  BY DEF PriceAfter, MarketImpliedValue
<1> HIDE DEF comp, trade, after, exec
<1>5. /\ exec.lastLnImpliedRate = RateAfter(m, pt) /\ exec.expiry = m.expiry
      /\ exec.syIndex = m.syIndex /\ exec.pyIndex = m.pyIndex
  BY <1>1, <1>3, <1>4
<1>6. Takes(m, pt, BlockTime) <=>
        /\ Open(m, BlockTime) /\ ~ RefusesTrade(m, comp, pt)
        /\ ~ OffCurve(comp, m.totalPt - pt, (m.totalPt - pt) + AssetAfter(m, pt))
  BY <1>1, <1>2, <1>4
<1> QED
  BY <1>5, <1>6, <1>p DEF comp, exec

(* The curve falls as PT leaves the pool.                                  *)
LEMMA CurveFallsWithPurchase ==
  ASSUME NEW m \in Market, NEW comp, Computed(comp), NEW a \in Nat, NEW b \in Nat, a <= b,
         m.totalPt - b > 0
  PROVE  /\ ExchangeRate(m, comp, b) <= ExchangeRate(m, comp, a)
         /\ ExchangeRate(m, comp, b) \in Int /\ ExchangeRate(m, comp, a) \in Int
<1> DEFINE p == m.totalPt - b
           q == m.totalPt - a
           w == m.totalPt + comp.totalAsset
<1>1. /\ m.totalPt \in Nat /\ comp.totalAsset \in Nat \ {0}
      /\ p \in Nat \ {0} /\ q \in Nat \ {0} /\ w \in Nat /\ p < w /\ q < w /\ p <= q
      /\ w - q <= w - p /\ w - q \in Nat /\ w - p \in Nat
  BY SMT DEF Market, Computed
<1>2. ExchangeRate(m, comp, b) = CurveRate(comp, p, w)
      /\ ExchangeRate(m, comp, a) = CurveRate(comp, q, w)
  BY DEF ExchangeRate
<1> HIDE DEF p, q, w
<1>3. p * (w - q) <= q * (w - p)
  <2> DEFINE x == w - q
             y == w - p
  <2>1. x \in Nat /\ y \in Nat /\ x <= y
    BY <1>1
  <2> HIDE DEF x, y
  <2>2. p * x <= q * x /\ q * x <= q * y /\ p * x \in Nat /\ q * x \in Nat /\ q * y \in Nat
    BY <1>1, <2>1, SMT
  <2>3. p * x <= q * y
    BY <2>2, SMT
  <2> QED
    BY <2>3 DEF x, y
<1> QED
  BY <1>1, <1>2, <1>3, CurveRises

(* A larger purchase pays more into the pool, fee included.                *)
LEMMA PaysMore ==
  ASSUME NEW m, Computable(m), Open(m, BlockTime), NEW a \in Nat \ {0}, NEW b \in Nat \ {0},
         a <= b, m.totalPt - b > 0, ExchangeRate(m, Pre(m), b) >= ONE
  PROVE  /\ SyAfter(m, a) \in Nat /\ SyAfter(m, b) \in Nat /\ SyAfter(m, a) <= SyAfter(m, b)
         /\ AssetAfter(m, a) \in Nat /\ AssetAfter(m, b) \in Nat
         /\ AssetAfter(m, a) <= AssetAfter(m, b)
         /\ SyToAsset(m.index, m.totalSy) <= AssetAfter(m, a)
<1> DEFINE comp == Pre(m)
           er(n)  == ExchangeRate(m, comp, n)
           pre(n) == Ratio(- n, er(n))
           fee(n) == Fee(pre(n), comp.feeRate, n)
           net(n) == pre(n) - fee(n)
           f      == ONE - comp.feeRate
<1>1. m \in Market /\ m.index \in Nat \ {0} /\ m.totalSy \in Nat /\ ONE \in Nat \ {0}
  BY OneAssumption, SMT DEF Computable, Market
<1>2. Computed(comp)
  BY PreComputeTyped DEF Computable, Pre
<1>3. er(b) <= er(a) /\ er(a) \in Nat \ {0} /\ er(b) \in Nat \ {0}
  <2>1. er(b) <= er(a) /\ er(a) \in Int /\ er(b) \in Int
    BY <1>1, <1>2, CurveFallsWithPurchase
  <2> HIDE DEF er
  <2>2. er(b) >= ONE
    BY DEF er
  <2> QED
    BY <1>1, <2>1, <2>2, SMT
<1>4. ASSUME NEW n \in Nat \ {0} PROVE TradeAt(m, n).netSyToAccount = (net(n) * ONE) \div m.index
  BY DEF TradeAt, CalcTrade, AssetToSy, Ratio
<1>5. ASSUME NEW n \in Nat \ {0} PROVE fee(n) = (pre(n) * f) \div ONE
  BY <1>5, SMT DEF Fee, Times
<1>6. f \in Int /\ f <= 0
  BY <1>1, <1>2, SMT DEF Computed
<1>p. pre(a) = ((- a) * ONE) \div er(a) /\ pre(b) = ((- b) * ONE) \div er(b)
  BY DEF Ratio
<1> HIDE DEF comp, er, f
<1>7. pre(a) \in Int /\ pre(b) \in Int /\ pre(b) <= pre(a) /\ pre(a) <= 0
  <2>1. (- a) * ONE \in Int /\ (- b) * ONE \in Int /\ (- a) * ONE <= 0
    BY <1>1, SMT
  <2>2. ((- b) * ONE) * er(a) <= ((- a) * ONE) * er(b)
    <3> DEFINE x == a * ONE
               y == b * ONE
    <3>1. x \in Nat /\ y \in Nat /\ x <= y /\ (- a) * ONE = - x /\ (- b) * ONE = - y
      BY <1>1, SMT
    <3> HIDE DEF x, y
    <3>2. x * er(b) <= y * er(b) /\ y * er(b) <= y * er(a)
          /\ x * er(b) \in Nat /\ y * er(b) \in Nat /\ y * er(a) \in Nat
      BY <1>3, <3>1, SMT
    <3>3. (- y) * er(a) = - (y * er(a)) /\ (- x) * er(b) = - (x * er(b))
      BY <1>3, <3>1, SMT
    <3>4. - (y * er(a)) <= - (x * er(b))
      BY <3>2, SMT
    <3> QED
      BY <3>1, <3>3, <3>4
  <2> HIDE DEF pre
  <2> QED
    BY <1>p, <1>3, <2>1, <2>2, QuotientRises, IntDiv
<1> HIDE DEF pre
<1>8. fee(a) \in Int /\ fee(b) \in Int /\ fee(a) <= fee(b) /\ fee(a) >= 0
  <2>1. pre(a) * f \in Int /\ pre(b) * f \in Int /\ pre(a) * f <= pre(b) * f /\ pre(a) * f >= 0
    <3> DEFINE x == - pre(a)
               y == - pre(b)
               g == - f
    <3>1. x \in Nat /\ y \in Nat /\ g \in Nat /\ x <= y
      BY <1>6, <1>7, SMT
    <3>2. pre(a) * f = x * g /\ pre(b) * f = y * g
      BY <1>6, <1>7, SMT
    <3> HIDE DEF x, y, g
    <3>3. x * g \in Nat /\ y * g \in Nat /\ x * g <= y * g
      BY <3>1, SMT
    <3> QED
      BY <3>2, <3>3, SMT
  <2>2. (pre(a) * f) \div ONE \in Int /\ (pre(b) * f) \div ONE \in Int
        /\ (pre(a) * f) \div ONE <= (pre(b) * f) \div ONE /\ (pre(a) * f) \div ONE >= 0
    BY <1>1, <2>1, DivRises, IntDiv
  <2> HIDE DEF fee
  <2> QED
    BY <1>5, <2>2
<1> HIDE DEF fee
<1>9. net(a) \in Int /\ net(b) \in Int /\ net(b) <= net(a) /\ net(a) <= 0
  BY <1>7, <1>8, SMT
<1> HIDE DEF net
<1>10. /\ net(a) * ONE \in Int /\ net(b) * ONE \in Int /\ net(b) * ONE <= net(a) * ONE
       /\ net(a) * ONE <= 0
  <2> DEFINE x == - net(a)
             y == - net(b)
  <2>1. x \in Nat /\ y \in Nat /\ x <= y
    BY <1>9, SMT
  <2>2. net(a) * ONE = - (x * ONE) /\ net(b) * ONE = - (y * ONE)
    BY <1>1, <1>9, SMT
  <2> HIDE DEF x, y
  <2>3. x * ONE \in Nat /\ y * ONE \in Nat /\ x * ONE <= y * ONE
    BY <1>1, <2>1, SMT
  <2> QED
    BY <2>2, <2>3, SMT
<1> DEFINE s == (net(a) * ONE) \div m.index
           t == (net(b) * ONE) \div m.index
<1>11. s \in Int /\ t \in Int /\ t <= s /\ s <= 0
  BY <1>1, <1>10, DivRises, IntDiv
<1>12. SyAfter(m, a) = m.totalSy - s /\ SyAfter(m, b) = m.totalSy - t
  BY <1>4 DEF SyAfter
<1> HIDE DEF s, t
<1>13. /\ SyAfter(m, a) \in Nat /\ SyAfter(m, b) \in Nat /\ SyAfter(m, a) <= SyAfter(m, b)
       /\ m.totalSy <= SyAfter(m, a)
  BY <1>1, <1>11, <1>12, SMT
<1>14. AssetAfter(m, a) \in Nat /\ AssetAfter(m, b) \in Nat
       /\ AssetAfter(m, a) <= AssetAfter(m, b)
       /\ SyToAsset(m.index, m.totalSy) <= AssetAfter(m, a)
  <2>1. m.index \in Nat
    BY <1>1
  <2> QED
    BY <1>1, <1>13, <2>1, TimesNat, TimesMonotone DEF AssetAfter, SyToAsset
<1> QED
  BY <1>13, <1>14

(* Where the pool takes a purchase and a larger one it takes every one     *)
(* between them, and the larger of two leaves the lower rate.              *)
LEMMA PurchasesBetween ==
  ASSUME NEW m, Computable(m), NEW a \in Nat \ {0}, NEW b \in Nat \ {0}, NEW c \in Nat \ {0},
         a <= b, b <= c, Takes(m, a, BlockTime), Takes(m, c, BlockTime)
  PROVE  /\ Takes(m, b, BlockTime)
         /\ RateAfter(m, b) <= RateAfter(m, a)
         /\ RateAfter(m, a) \in Nat /\ RateAfter(m, b) \in Nat
<1> DEFINE comp == Pre(m)
           T    == m.totalPt
           A(n) == AssetAfter(m, n)
           W(n) == (T - n) + A(n)
           er(n) == ExchangeRate(m, comp, n)
           whole == T + comp.totalAsset
<1>m. m \in Market /\ T \in Nat /\ ONE \in Nat \ {0} /\ MAX_MARKET_PROPORTION \in Nat
      /\ MAX_MARKET_PROPORTION < ONE
  BY OneAssumption, ProportionAssumption, SMT DEF Computable, Market
<1>1. /\ Open(m, BlockTime)
      /\ ~ RefusesTrade(m, comp, a) /\ ~ OffCurve(comp, T - a, W(a))
      /\ ~ RefusesTrade(m, comp, c) /\ ~ OffCurve(comp, T - c, W(c))
  BY <1>m, AfterMeans
<1>2. Computed(comp)
  BY <1>1, PreComputeTyped DEF Computable, Pre
<1>3. comp.totalAsset \in Nat \ {0} /\ comp.feeRate \in Nat /\ comp.feeRate >= ONE
      /\ comp.timeToExpiry \in Nat \ {0} /\ whole \in Nat
  BY <1>m, <1>2, SMT DEF Computed
<1>4. ~ OffCurve(comp, T - a, whole) /\ ~ OffCurve(comp, T - c, whole)
      /\ ~ (er(a) < comp.feeRate) /\ ~ (er(c) < comp.feeRate)
  <2>1. a > 0 /\ c > 0
    BY SMT
  <2> QED
    BY <1>1, <2>1, Zenon DEF RefusesTrade
<1>5. T - c > 0 /\ T - a \in Nat \ {0} /\ T - b \in Nat \ {0} /\ T - c \in Nat \ {0}
      /\ T - b <= T - a /\ T - c <= T - b /\ T - b > 0
  <2>1. ~ (T - c <= 0)
    BY <1>4 DEF OffCurve
  <2> QED
    BY <1>m, <2>1, SMT
<1>6. er(b) <= er(a) /\ er(c) <= er(b) /\ er(a) \in Int /\ er(b) \in Int /\ er(c) \in Int
  BY <1>m, <1>2, <1>5, CurveFallsWithPurchase
<1>e. er(a) = CurveRate(comp, T - a, whole) /\ er(b) = CurveRate(comp, T - b, whole)
      /\ er(c) = CurveRate(comp, T - c, whole)
  BY DEF ExchangeRate
<1>r. RefusesTrade(m, comp, b) <=>
        OffCurve(comp, T - b, whole) \/ (b > 0 /\ er(b) < comp.feeRate)
  BY DEF RefusesTrade
<1>d. ExchangeRate(m, Pre(m), b) = er(b) /\ ExchangeRate(m, Pre(m), c) = er(c)
      /\ A(a) = AssetAfter(m, a) /\ A(b) = AssetAfter(m, b) /\ A(c) = AssetAfter(m, c)
      /\ SyToAsset(m.index, m.totalSy) = comp.totalAsset
  BY DEF Pre, MarketPreCompute
<1>x. /\ Takes(m, b, BlockTime) <=> /\ Open(m, BlockTime) /\ ~ RefusesTrade(m, comp, b)
                                    /\ ~ OffCurve(comp, T - b, W(b))
      /\ RateAfter(m, a) = (Ln[CurveRate(comp, T - a, (T - a) + A(a))] * YEAR) \div comp.timeToExpiry
      /\ RateAfter(m, b) = (Ln[CurveRate(comp, T - b, (T - b) + A(b))] * YEAR) \div comp.timeToExpiry
  BY <1>m, AfterMeans DEF RateAfter, LnImpliedRateAt
<1> HIDE DEF comp, A, er, whole, T
<1>7. er(c) >= ONE /\ er(b) >= ONE
  BY <1>m, <1>3, <1>4, <1>6, SMT
<1>8. ~ OffCurve(comp, T - b, whole)
  <2>1. ~ ((T - a) * ONE > MAX_MARKET_PROPORTION * whole)
    BY <1>4 DEF OffCurve
  <2>2. (T - b) * ONE <= (T - a) * ONE
    <3> DEFINE x == T - b
               y == T - a
    <3>1. x \in Nat /\ y \in Nat /\ x <= y
      BY <1>5, SMT
    <3> HIDE DEF x, y
    <3>2. x * ONE <= y * ONE
      BY <1>m, <3>1, SMT
    <3> QED
      BY <3>2 DEF x, y
  <2>3. ~ ((T - b) * ONE > MAX_MARKET_PROPORTION * whole)
    BY <1>m, <1>3, <1>5, <2>1, <2>2, SMT
  <2>4. ~ (T - b <= 0)
    BY <1>m, <1>5, SMT
  <2>5. ~ (CurveRate(comp, T - b, whole) < ONE)
    BY <1>m, <1>6, <1>7, <1>e, SMT
  <2> QED
    BY <2>3, <2>4, <2>5, Zenon DEF OffCurve
<1>9. ~ RefusesTrade(m, comp, b)
  <2>1. ~ (er(b) < comp.feeRate)
    BY <1>3, <1>4, <1>6, SMT
  <2> QED
    BY <1>8, <1>r, <2>1
<1>10. A(a) \in Nat /\ A(b) \in Nat /\ A(c) \in Nat /\ A(a) <= A(b) /\ A(b) <= A(c)
       /\ comp.totalAsset <= A(a)
  <2>1. /\ AssetAfter(m, a) \in Nat /\ AssetAfter(m, b) \in Nat
        /\ AssetAfter(m, a) <= AssetAfter(m, b) /\ SyToAsset(m.index, m.totalSy) <= AssetAfter(m, a)
    BY <1>1, <1>5, <1>7, <1>d, PaysMore DEF T
  <2>2. AssetAfter(m, c) \in Nat /\ AssetAfter(m, b) <= AssetAfter(m, c)
    BY <1>1, <1>5, <1>7, <1>d, PaysMore DEF T
  <2> QED
    BY <1>d, <2>1, <2>2
<1>11. A(a) \in Nat \ {0} /\ A(b) \in Nat \ {0} /\ A(c) \in Nat \ {0}
  BY <1>3, <1>10, SMT
<1> DEFINE cr(n) == CurveRate(comp, T - n, W(n))
<1>12. ASSUME NEW x \in Nat \ {0}, NEW y \in Nat \ {0}, x <= y, T - x \in Nat \ {0},
              T - y \in Nat \ {0}, A(x) \in Nat \ {0}, A(y) \in Nat \ {0}, A(x) <= A(y)
       PROVE  cr(y) <= cr(x) /\ cr(y) \in Int /\ cr(x) \in Int
  <2> DEFINE p == T - y
             q == T - x
             k == A(x)
             l == A(y)
             w == p + l
             v == q + k
  <2>1. p \in Nat \ {0} /\ q \in Nat \ {0} /\ p <= q /\ k \in Nat \ {0} /\ l \in Nat \ {0} /\ k <= l
    BY <1>m, <1>12, SMT
  <2>2. cr(y) = CurveRate(comp, p, w) /\ cr(x) = CurveRate(comp, q, v)
    OBVIOUS
  <2> HIDE DEF p, q, k, l, cr
  <2>3. w \in Nat /\ v \in Nat /\ p < w /\ q < v /\ v - q = k /\ w - p = l
    BY <2>1, SMT
  <2>4. p * k <= q * l
    <3>1. p * k <= q * k /\ q * k <= q * l /\ p * k \in Nat /\ q * k \in Nat /\ q * l \in Nat
      BY <2>1, SMT
    <3> QED
      BY <3>1, SMT
  <2>5. p * (v - q) <= q * (w - p)
    BY <2>3, <2>4
  <2> HIDE DEF w, v
  <2> QED
    BY <1>2, <2>1, <2>2, <2>3, <2>5, CurveRises
<1>13. cr(b) <= cr(a) /\ cr(c) <= cr(b) /\ cr(a) \in Int /\ cr(b) \in Int /\ cr(c) \in Int
  <2> HIDE DEF cr
  <2> QED
    BY <1>5, <1>10, <1>11, <1>12
<1>14. ~ (cr(c) < ONE)
  BY <1>1 DEF OffCurve
<1>15. ~ OffCurve(comp, T - b, W(b))
  <2>1. ~ ((T - a) * ONE > MAX_MARKET_PROPORTION * W(a))
    BY <1>1 DEF OffCurve
  <2>2. ~ ((T - b) * ONE > MAX_MARKET_PROPORTION * W(b))
    <3> DEFINE x == T - b
               y == T - a
               k == A(a)
               l == A(b)
               g == ONE - MAX_MARKET_PROPORTION
    <3>1. x \in Nat /\ y \in Nat /\ x <= y /\ k \in Nat /\ l \in Nat /\ k <= l /\ g \in Nat
          /\ ONE = g + MAX_MARKET_PROPORTION
      BY <1>m, <1>5, <1>10, SMT
    <3>2. W(a) = y + k /\ W(b) = x + l
      OBVIOUS
    <3>3. ~ (y * ONE > MAX_MARKET_PROPORTION * (y + k))
      BY <2>1, <3>2
    <3> HIDE DEF x, y, k, l, g
    <3>4. y * ONE = y * g + MAX_MARKET_PROPORTION * y /\ x * ONE = x * g + MAX_MARKET_PROPORTION * x
          /\ MAX_MARKET_PROPORTION * (y + k) = MAX_MARKET_PROPORTION * y + MAX_MARKET_PROPORTION * k
          /\ MAX_MARKET_PROPORTION * (x + l) = MAX_MARKET_PROPORTION * x + MAX_MARKET_PROPORTION * l
      <4>1. y * ONE = y * g + y * MAX_MARKET_PROPORTION /\ x * ONE = x * g + x * MAX_MARKET_PROPORTION
        BY <1>m, <3>1, SMT
      <4> QED
        BY <1>m, <3>1, <4>1, SMT
    <3>5. x * g <= y * g /\ MAX_MARKET_PROPORTION * k <= MAX_MARKET_PROPORTION * l
          /\ x * g \in Nat /\ y * g \in Nat /\ MAX_MARKET_PROPORTION * k \in Nat
          /\ MAX_MARKET_PROPORTION * l \in Nat /\ MAX_MARKET_PROPORTION * x \in Nat
          /\ MAX_MARKET_PROPORTION * y \in Nat
      BY <1>m, <3>1, SMT
    <3>6. ~ (x * ONE > MAX_MARKET_PROPORTION * (x + l))
      BY <3>3, <3>4, <3>5, SMT
    <3> QED
      BY <3>2, <3>6 DEF x, y, k, l
  <2>3. ~ (T - b <= 0) /\ ~ (cr(b) < ONE)
    <3> HIDE DEF cr
    <3> QED
      BY <1>m, <1>5, <1>13, <1>14, SMT
  <2> QED
    BY <2>2, <2>3, Zenon DEF OffCurve
<1>16. Takes(m, b, BlockTime)
  BY <1>1, <1>9, <1>15, <1>x
<1>17. RateAfter(m, b) <= RateAfter(m, a) /\ RateAfter(m, a) \in Nat /\ RateAfter(m, b) \in Nat
  <2>1. RateAfter(m, a) = (Ln[cr(a)] * YEAR) \div comp.timeToExpiry
        /\ RateAfter(m, b) = (Ln[cr(b)] * YEAR) \div comp.timeToExpiry
    BY <1>x
  <2> HIDE DEF cr
  <2>2. cr(a) \in Nat /\ cr(b) \in Nat /\ ONE <= cr(b) /\ ONE <= cr(a)
    BY <1>m, <1>13, <1>14, SMT
  <2>3. Ln[cr(b)] <= Ln[cr(a)] /\ Ln[cr(a)] \in Nat /\ Ln[cr(b)] \in Nat
    BY <1>13, <2>2, LnRises, LnNat
  <2> DEFINE x == Ln[cr(a)]
             y == Ln[cr(b)]
  <2> HIDE DEF x, y
  <2>4. x \in Nat /\ y \in Nat /\ y <= x /\ YEAR \in Nat
    BY <2>3, YearAssumption DEF x, y
  <2>5. x * YEAR \in Nat /\ y * YEAR \in Nat /\ y * YEAR <= x * YEAR
    BY <2>4, SMT
  <2>6. (y * YEAR) \div comp.timeToExpiry <= (x * YEAR) \div comp.timeToExpiry
        /\ (x * YEAR) \div comp.timeToExpiry \in Nat /\ (y * YEAR) \div comp.timeToExpiry \in Nat
    BY <1>3, <2>5, DivMonotone, DivBounds
  <2> QED
    BY <2>1, <2>6 DEF x, y
<1> QED
  BY <1>16, <1>17

(* So the search is for an edge: no purchase below one that does not reach *)
(* the price reaches it, as long as a larger one does.                     *)
LEMMA NoneBelow ==
  ASSUME NEW m, Computable(m), NEW fraction, NEW a \in Nat \ {0}, NEW b \in Nat \ {0},
         NEW c \in Nat \ {0}, a <= b, b <= c,
         ReachesIn(m, fraction, a), ReachesIn(m, fraction, c), fraction \in Nat
  PROVE  ReachesIn(m, fraction, b)
<1>1. /\ Takes(m, b, BlockTime) /\ RateAfter(m, b) <= RateAfter(m, a)
      /\ RateAfter(m, a) \in Nat /\ RateAfter(m, b) \in Nat
  BY PurchasesBetween DEF ReachesIn
<1>2. /\ m \in Market /\ m.expiry - BlockTime \in Int /\ m.syIndex \in Nat /\ m.pyIndex \in Nat
      /\ Priced(m)
  BY SearchAssumption, MarketPriced, SMT DEF Computable, Market
<1>3. PriceAfter(m, a) <= PriceAfter(m, b) /\ PriceAfter(m, a) \in Nat /\ PriceAfter(m, b) \in Nat
  <2> DEFINE x == PtToAssetRate(RateAfter(m, a), m.expiry - BlockTime, m.syIndex, m.pyIndex)
             y == PtToAssetRate(RateAfter(m, b), m.expiry - BlockTime, m.syIndex, m.pyIndex)
  <2>1. PriceAfter(m, a) = x /\ PriceAfter(m, b) = y
    BY <1>2, AfterMeans
  <2>2. x <= y /\ x \in Nat /\ y \in 0 .. ONE
    BY <1>1, <1>2, PriceFalls
  <2> HIDE DEF x, y
  <2> QED
    BY <2>1, <2>2, OneAssumption, SMT
<1>4. Times(MarketImpliedValue(m, BlockTime), ONE + fraction) \in Nat
  <2>1. ONE + fraction \in Nat
    BY OneAssumption, SMT
  <2> QED
    BY <1>2, <2>1, PriceNat, TimesNat
<1>5. PriceAfter(m, a) >= Times(MarketImpliedValue(m, BlockTime), ONE + fraction)
  BY DEF ReachesIn
<1>6. PriceAfter(m, b) >= Times(MarketImpliedValue(m, BlockTime), ONE + fraction)
  BY <1>3, <1>4, <1>5, SMT
<1> QED
  BY <1>1, <1>6 DEF ReachesIn

------------------------------------------------------------------------------
(***************************************************************************)
(* The prices of one PT.                                                   *)
(***************************************************************************)
(* A sale returns less a PT than the pool implies, while the SY has not    *)
(* lost value: the curve rises with the PT sold and the fee is taken off.  *)
LEMMA SaleBelowPrice ==
  ASSUME NEW m, Computable(m), NEW n \in Nat \ {0}, Takes(m, - n, BlockTime),
         m.syIndex >= m.pyIndex
  PROVE  Ratio(ExecuteTrade(m, - n, BlockTime).trade.netAssetToAccount, n)
           <= MarketImpliedValue(m, BlockTime)
<1> DEFINE comp == Pre(m)
           left == m.expiry - BlockTime
           T    == m.totalPt
           w    == T + comp.totalAsset
           q    == T + n
           er   == ExchangeRate(m, comp, - n)
           E    == ExchangeRateFromImpliedRate(m.lastLnImpliedRate, left)
           pre  == Ratio(n, er)
           fee  == Fee(pre, comp.feeRate, - n)
           net  == pre - fee
<1>1. m \in Market /\ T \in Nat /\ ONE \in Nat \ {0} /\ left \in Int
      /\ m.lastLnImpliedRate \in Nat /\ m.expiry \in Nat
  BY OneAssumption, SearchAssumption, SMT DEF Computable, Market
<1>2. Open(m, BlockTime) /\ ~ RefusesTrade(m, comp, - n)
  BY <1>1, AfterMeans
<1>3. Computed(comp)
  BY <1>2, PreComputeTyped DEF Computable, Pre
<1>4. T > 0 /\ left > 0
  BY <1>1, <1>2, SearchAssumption, SMT DEF Open
<1>5. T - (- n) = q
  BY <1>1, SMT
<1>6. ~ OffCurve(comp, q, w) /\ er = CurveRate(comp, q, w)
  BY <1>2, <1>5, Zenon DEF RefusesTrade, ExchangeRate
<1>7. q \in Nat \ {0} /\ w \in Nat /\ comp.totalAsset \in Nat \ {0} /\ comp.feeRate \in Nat
      /\ comp.feeRate >= ONE /\ comp.feeRate \in Nat \ {0} /\ T \in Nat \ {0} /\ T < w
  BY <1>1, <1>3, <1>4, SMT DEF Computed
<1>a. comp.rateAnchor = E - Ratio(LogProportion(T, w), comp.rateScalar)
      /\ CurveRate(comp, T, w) = Ratio(LogProportion(T, w), comp.rateScalar) + comp.rateAnchor
  BY DEF Pre, MarketPreCompute, CurveRate
<1>t. ExecuteTrade(m, - n, BlockTime).trade.netAssetToAccount
        = Ratio(- (- n), er) - Fee(Ratio(- (- n), er), comp.feeRate, - n)
  BY DEF ExecuteTrade, CalcTrade, Pre
<1>u. - (- n) = n /\ ~ (- n > 0)
  BY SMT
<1>v. ExecuteTrade(m, - n, BlockTime).trade.netAssetToAccount = net
  BY <1>t, <1>u
<1>f. fee = - ((pre * (ONE - comp.feeRate)) \div comp.feeRate)
  BY <1>u DEF Fee
<1>p. pre = (n * ONE) \div er
  BY DEF Ratio
<1>i. MarketImpliedValue(m, BlockTime) = (ONE * ONE) \div E
  <2>1. ~ (left <= 0)
    BY <1>1, <1>4, SMT
  <2>2. PtToAssetRateFromLnImpliedRate(m.lastLnImpliedRate, left) = (ONE * ONE) \div E
    BY <2>1, Zenon DEF PtToAssetRateFromLnImpliedRate, Ratio
  <2> QED
    BY <2>2, Zenon DEF MarketImpliedValue, PtToAssetRate
<1>8. E \in Nat \ {0}
  <2>1. m.lastLnImpliedRate * left \in Nat
    BY <1>1, <1>4, SMT
  <2>2. (m.lastLnImpliedRate * left) \div YEAR \in Nat
    BY <2>1, YearAssumption, DivBounds
  <2> QED
    BY <2>2, ExpAtLeastOne DEF ExchangeRateFromImpliedRate
<1>9. q < w /\ er \in Nat /\ er >= ONE /\ er \in Nat \ {0}
  <2> HIDE DEF q, w, er, comp
  <2>1. q \in Int /\ w \in Int
    BY <1>7
  <2>2. q < w /\ er \in Nat /\ er >= ONE
    BY <1>3, <1>6, <2>1, OnCurve
  <2> QED
    BY <1>1, <2>2, SMT
<1>10. E <= er
  <2>1. T * (w - q) <= q * (w - T)
    <3> DEFINE x == w - q
               y == w - T
    <3>1. x \in Nat /\ y \in Nat /\ x <= y /\ q \in Nat /\ T <= q
      BY <1>1, <1>7, <1>9, SMT
    <3> HIDE DEF x, y, q, T
    <3>2. T * x <= q * x /\ q * x <= q * y /\ T * x \in Nat /\ q * x \in Nat /\ q * y \in Nat
      BY <1>1, <3>1, SMT
    <3>3. T * x <= q * y
      BY <3>2, SMT
    <3> QED
      BY <3>3 DEF x, y
  <2>2. CurveRate(comp, T, w) <= CurveRate(comp, q, w)
    <3> HIDE DEF T, w, q, comp
    <3> QED
      BY <1>3, <1>7, <1>9, <2>1, CurveRises
  <2>3. CurveRate(comp, T, w) = E
    <3> DEFINE k == Ratio(LogProportion(T, w), comp.rateScalar)
    <3>1. k \in Int
      <4> DEFINE g == LogProportion(T, w)
      <4> HIDE DEF T, w, comp
      <4>1. g \in Int
        BY <1>7, LogProportionInt
      <4> HIDE DEF g
      <4>2. g * ONE \in Int
        BY <1>1, <4>1, SMT
      <4>3. (g * ONE) \div comp.rateScalar \in Int
        BY <1>3, <4>2, IntDiv DEF Computed
      <4> QED
        BY <4>3 DEF Ratio, g
    <3>2. comp.rateAnchor = E - k /\ CurveRate(comp, T, w) = k + comp.rateAnchor
      BY <1>a
    <3> HIDE DEF k, E, T, w, comp
    <3> QED
      BY <1>8, <3>1, <3>2, SMT
  <2> QED
    BY <1>6, <2>2, <2>3
<1> HIDE DEF comp, left, w, q, er, E
<1>11. pre \in Nat /\ er * pre <= n * ONE /\ n * ONE \in Nat
  <2>1. n * ONE \in Nat
    BY <1>1, SMT
  <2> QED
    BY <1>9, <1>p, <2>1, DivBounds
<1> HIDE DEF pre
<1>12. fee \in Nat
  <2> DEFINE g == ONE - comp.feeRate
  <2>1. g \in Int /\ g <= 0
    BY <1>1, <1>7, SMT
  <2> HIDE DEF g
  <2>2. pre * g \in Int /\ pre * g <= 0
    <3> DEFINE h == - g
    <3>1. h \in Nat /\ pre * g = - (pre * h)
      BY <1>11, <2>1, SMT
    <3> HIDE DEF h
    <3>2. pre * h \in Nat
      BY <1>11, <3>1, SMT
    <3> QED
      BY <3>1, <3>2, SMT
  <2>3. (pre * g) \div comp.feeRate \in Int /\ (pre * g) \div comp.feeRate <= 0
    BY <1>7, <2>2, IntDiv
  <2>4. fee = - ((pre * g) \div comp.feeRate)
    BY <1>f DEF g
  <2> HIDE DEF fee
  <2> QED
    BY <2>3, <2>4, SMT
<1> HIDE DEF fee
<1>13. (net * ONE) \div n <= (ONE * ONE) \div E
  <2>1. net \in Int /\ net <= pre
    BY <1>11, <1>12, SMT
  <2> HIDE DEF net
  <2>2. net * ONE \in Int /\ pre * ONE \in Nat /\ net * ONE <= pre * ONE
    <3> DEFINE d == pre - net
    <3>1. d \in Nat /\ net = pre - d
      BY <1>11, <2>1, SMT
    <3> HIDE DEF d
    <3>2. d * ONE \in Nat /\ net * ONE = pre * ONE - d * ONE /\ pre * ONE \in Nat
      BY <1>1, <1>11, <3>1, SMT
    <3> QED
      BY <3>2, SMT
  <2>3. (net * ONE) \div n <= (pre * ONE) \div n
    <3>1. pre * ONE \in Int
      BY <2>2
    <3> QED
      BY <2>2, <3>1, DivRises
  <2>4. (pre * ONE) * E <= (ONE * ONE) * n
    <3>1. E * pre <= er * pre /\ E * pre \in Nat /\ er * pre \in Nat
      BY <1>8, <1>9, <1>10, <1>11, SMT
    <3> DEFINE k == E * pre
               l == n * ONE
    <3>2. k \in Nat /\ l \in Nat /\ k <= l
      BY <1>11, <3>1, SMT
    <3>3. (pre * ONE) * E = k * ONE /\ (ONE * ONE) * n = l * ONE
      BY <1>1, <1>8, <1>11, SMT
    <3> HIDE DEF k, l
    <3>4. k * ONE <= l * ONE
      BY <1>1, <3>2, SMT
    <3> QED
      BY <3>3, <3>4
  <2>5. (pre * ONE) \div n <= (ONE * ONE) \div E
    <3>1. pre * ONE \in Int /\ ONE * ONE \in Int
      BY <1>1, <2>2, SMT
    <3> QED
      BY <1>8, <2>4, <3>1, QuotientRises
  <2>6. (net * ONE) \div n \in Int /\ (pre * ONE) \div n \in Int /\ (ONE * ONE) \div E \in Int
    <3>1. pre * ONE \in Int /\ ONE * ONE \in Int
      BY <1>1, <2>2, SMT
    <3> QED
      BY <1>8, <2>2, <3>1, IntDiv
  <2> QED
    BY <2>3, <2>5, <2>6, SMT
<1> QED
  BY <1>13, <1>i, <1>v DEF Ratio

(* Priced in SY and the SY at its index, a PT loses a unit of the SY.      *)
LEMMA SyPriceRounds ==
  ASSUME NEW raw \in Nat, NEW sy \in Nat, NEW M \in Nat \ {0}
  PROVE  (raw * sy) \div M - Times(Ratio(raw, M), sy) \in 0 .. 1 + sy \div ONE
<1> DEFINE X == (raw * ONE) \div M
           Y == (X * sy) \div ONE
           V == (raw * sy) \div M
           k == sy \div ONE
<1>o. ONE \in Nat \ {0}
  BY OneAssumption
<1>1. raw * ONE \in Nat /\ raw * sy \in Nat
  BY <1>o, SMT
<1>2. X \in Nat /\ M * X <= raw * ONE /\ raw * ONE < M * X + M
  BY <1>1, DivBounds
<1>3. V \in Nat /\ M * V <= raw * sy /\ raw * sy < M * V + M
  BY <1>1, DivBounds
<1>4. k \in Nat /\ ONE * k <= sy /\ sy < ONE * k + ONE
  BY <1>o, DivBounds
<1> HIDE DEF X
<1>5. X * sy \in Nat
  BY <1>2, SMT
<1>6. Y \in Nat /\ ONE * Y <= X * sy /\ X * sy < ONE * Y + ONE
  BY <1>o, <1>5, DivBounds
<1> HIDE DEF Y, V, k
<1>c. ASSUME NEW a \in Nat, NEW b \in Nat, NEW d \in Nat \ {0}, d * a < d * b PROVE a < b
  <2>1. ASSUME b <= a PROVE FALSE
    <3>1. d * b <= d * a /\ d * a \in Nat /\ d * b \in Nat
      BY <1>c, <2>1, SMT
    <3> QED
      BY <1>c, <3>1, SMT
  <2> QED
    BY <2>1, SMT
<1>d. ASSUME NEW a \in Nat, NEW b \in Nat, NEW d \in Nat, a <= b PROVE d * a <= d * b
  BY <1>d, SMT
<1> DEFINE P == X * sy
           R == raw * sy
<1>7. Y < V + 1
  <2>1. M * (ONE * Y) <= M * P
    <3>1. ONE * Y \in Nat /\ P \in Nat /\ ONE * Y <= P /\ M \in Nat
      BY <1>o, <1>5, <1>6, SMT
    <3> HIDE DEF P
    <3> QED
      BY <3>1, <1>d
  <2>2. M * P <= ONE * R
    <3>1. (M * X) * sy <= (raw * ONE) * sy
      <4> DEFINE a == M * X
                 b == raw * ONE
      <4>1. a \in Nat /\ b \in Nat /\ a <= b
        BY <1>1, <1>2, SMT
      <4> HIDE DEF a, b
      <4>2. a * sy <= b * sy
        BY <4>1, SMT
      <4> QED
        BY <4>2 DEF a, b
    <3>2. (M * X) * sy = M * P /\ (raw * ONE) * sy = ONE * R
      BY <1>o, <1>2, SMT
    <3> QED
      BY <3>1, <3>2
  <2>3. ONE * R < ONE * (M * (V + 1))
    <3> DEFINE b == M * (V + 1)
    <3>1. b \in Nat /\ R \in Nat /\ R < b
      BY <1>1, <1>3, SMT
    <3> HIDE DEF b, R
    <3>2. ONE * (R + 1) <= ONE * b
      BY <1>o, <1>d, <3>1, SMT
    <3>3. ONE * R < ONE * b
      BY <1>o, <3>1, <3>2, SMT
    <3> QED
      BY <3>3 DEF b
  <2>4. ONE * (M * (V + 1)) = (ONE * M) * (V + 1) /\ M * (ONE * Y) = (ONE * M) * Y
    BY <1>o, <1>3, <1>6, SMT
  <2> DEFINE d == ONE * M
  <2>5. d \in Nat \ {0}
    BY <1>o, SMT
  <2>6. M * P \in Nat /\ ONE * R \in Nat /\ d * (V + 1) \in Nat /\ d * Y \in Nat
    <3>1. P \in Nat /\ R \in Nat
      BY <1>1, <1>5
    <3> HIDE DEF P, R, d
    <3> QED
      BY <1>o, <1>3, <1>6, <2>5, <3>1, SMT
  <2> HIDE DEF P, R, d
  <2>7. d * Y < d * (V + 1)
    BY <2>1, <2>2, <2>3, <2>4, <2>6, SMT DEF d
  <2> QED
    BY <1>3, <1>6, <2>5, <2>7, <1>c
<1>8. V < Y + k + 2
  <2>1. M * (ONE * V) <= M * (P + sy)
    <3>1. ONE * (M * V) <= ONE * R
      <4> DEFINE a == M * V
      <4>1. a \in Nat /\ R \in Nat /\ a <= R
        BY <1>1, <1>3, SMT
      <4> HIDE DEF a, R
      <4>2. ONE * a <= ONE * R
        BY <1>o, <1>d, <4>1
      <4> QED
        BY <4>2 DEF a
    <3>2. (raw * ONE) * sy <= (M * X + M) * sy
      <4> DEFINE a == raw * ONE
                 b == M * X + M
      <4>1. a \in Nat /\ b \in Nat /\ a <= b
        BY <1>1, <1>2, SMT
      <4> HIDE DEF a, b
      <4>2. a * sy <= b * sy
        BY <4>1, SMT
      <4> QED
        BY <4>2 DEF a, b
    <3>3. (raw * ONE) * sy = ONE * R /\ (M * X + M) * sy = M * (P + sy)
          /\ ONE * (M * V) = M * (ONE * V)
      <4>1. (M * X + M) * sy = (M * (X + 1)) * sy
        BY <1>2, SMT
      <4>2. (M * (X + 1)) * sy = M * ((X + 1) * sy)
        BY <1>2, SMT
      <4>3. (X + 1) * sy = P + sy
        BY <1>2, SMT
      <4>4. (raw * ONE) * sy = ONE * R /\ ONE * (M * V) = M * (ONE * V)
        BY <1>o, <1>3, SMT
      <4> QED
        BY <4>1, <4>2, <4>3, <4>4
    <3>4. ONE * R \in Nat /\ M * (P + sy) \in Nat /\ M * (ONE * V) \in Nat
      <4>1. P \in Nat /\ R \in Nat
        BY <1>1, <1>5
      <4> HIDE DEF P, R
      <4> QED
        BY <1>o, <1>3, <4>1, SMT
    <3> HIDE DEF P, R
    <3> QED
      BY <3>1, <3>2, <3>3, <3>4, SMT
  <2>2. ONE * V <= P + sy
    <3>1. ONE * V \in Nat /\ P + sy + 1 \in Nat /\ P + sy \in Nat
      BY <1>o, <1>3, <1>5, SMT
    <3> DEFINE a == ONE * V
               b == P + sy
    <3>2. a \in Nat /\ b \in Nat /\ M * a <= M * b
      BY <2>1, <3>1
    <3> HIDE DEF a, b
    <3>3. M * a < M * (b + 1)
      BY <3>2, SMT
    <3>4. a < b + 1
      BY <1>c, <3>2, <3>3
    <3>5. a <= b
      BY <3>2, <3>4, SMT
    <3> QED
      BY <3>5 DEF a, b
  <2>3. ONE * V < ONE * (Y + k + 2)
    <3>1. ONE * (Y + k + 2) = ONE * Y + ONE * k + 2 * ONE
      BY <1>o, <1>4, <1>6, SMT
    <3>2. ONE * Y \in Nat /\ ONE * k \in Nat /\ ONE * V \in Nat
      BY <1>o, <1>3, <1>4, <1>6, SMT
    <3> DEFINE a == ONE * Y
               b == ONE * k
               c == ONE * V
    <3>3. a \in Nat /\ b \in Nat /\ c \in Nat /\ c <= P + sy /\ P < a + ONE /\ sy < b + ONE
          /\ P \in Nat
      BY <1>4, <1>5, <1>6, <2>2, <3>2
    <3> HIDE DEF a, b, c, P
    <3>4. c < a + b + 2 * ONE
      BY <1>o, <3>3, SMT
    <3> QED
      BY <3>1, <3>4 DEF a, b, c
  <2> QED
    BY <1>c, <1>o, <1>3, <1>4, <1>6, <2>3, SMT
<1>9. V - Y \in 0 .. 1 + k
  BY <1>3, <1>4, <1>6, <1>7, <1>8, SMT
<1> QED
  BY <1>9 DEF Times, Ratio, V, Y, X, k

(* A leg that moves up above the lowest one does not move the smallest.    *)
LEMMA LowestLegHolds ==
  ASSUME NEW a \in Nat \ {0}, NEW b \in Nat, a < b, NEW f \in Nat
  PROVE  MinTransmitted(<<a, b>>, {2}, f) = 0
<1> DEFINE c == Times(b, ONE + f)
           legs  == <<a, b>>
           moved == {IF i \in {2} THEN Times(legs[i], ONE + f) ELSE legs[i] : i \in DOMAIN legs}
           still == {legs[i] : i \in DOMAIN legs}
<1>1. c \in Nat /\ b <= c
  <2>1. b \in Nat \ {0}
    BY SMT
  <2>2. /\ ONE \in Nat \ {0} /\ b * ONE \in Nat /\ b * (ONE + f) \in Nat
        /\ b * ONE <= b * (ONE + f)
    BY OneAssumption, SMT
  <2>3. (b * ONE) \div ONE = b /\ (b * ONE) \div ONE <= (b * (ONE + f)) \div ONE
        /\ (b * (ONE + f)) \div ONE \in Nat
    BY <2>2, DivOfProduct, DivMonotone, DivBounds
  <2> QED
    BY <2>3 DEF Times
<1>2. moved = {a, c} /\ still = {a, b}
  <2>1. DOMAIN legs = {1, 2} /\ legs[1] = a /\ legs[2] = b
    BY SMT
  <2> HIDE DEF legs
  <2>2. still = {a, b}
    BY <2>1
  <2>3. moved = {a, c}
    <3>1. 1 \notin {2} /\ 2 \in {2}
      BY SMT
    <3>2. moved = {IF 1 \in {2} THEN Times(legs[1], ONE + f) ELSE legs[1],
                   IF 2 \in {2} THEN Times(legs[2], ONE + f) ELSE legs[2]}
      BY <2>1
    <3> HIDE DEF moved, c
    <3> QED
      BY <2>1, <3>1, <3>2 DEF c
  <2> QED
    BY <2>2, <2>3
<1>3. ASSUME NEW d \in Nat, a <= d PROVE Min({a, d}) = a
  <2> DEFINE least(x) == \A y \in {a, d} : x <= y
  <2>1. least(a) /\ a \in {a, d}
    BY <1>3, SMT
  <2>2. ASSUME NEW x \in {a, d}, least(x) PROVE x = a
    BY <1>3, <2>2, SMT
  <2>3. (CHOOSE x \in {a, d} : least(x)) = a
    BY <2>1, <2>2
  <2> QED
    BY <2>3 DEF Min
<1>4. Min(moved) = a /\ Min(still) = a
  BY <1>1, <1>2, <1>3, SMT
<1>5. MinTransmitted(legs, {2}, f) = Ratio(Min(moved), Min(still)) - ONE
  BY DEF MinTransmitted, MinAggregatedOracleValue
<1>6. Ratio(a, a) = ONE
  <2>1. a * ONE = ONE * a /\ (ONE * a) \div a = ONE
    BY OneAssumption, DivOfProduct, SMT
  <2> QED
    BY <2>1 DEF Ratio
<1> HIDE DEF moved, still, legs
<1>7. MinTransmitted(legs, {2}, f) = 0
  BY <1>4, <1>5, <1>6, OneAssumption, SMT
<1> QED
  BY <1>7 DEF legs

(* The row of one horizon.                                                 *)
Compared(m, size) ==
  [sweep |-> "maturity", market |-> m,
   twap |-> ValuationSnapshot(m, BlockTime,
              [kind |-> "PendleChainlinkOracle", twapLnImpliedRate |-> m.lastLnImpliedRate], size),
   linear |-> [d \in DISCOUNTS |->
                ValuationSnapshot(m, BlockTime,
                  [kind |-> "PendleSparkLinearDiscountOracle", baseDiscountPerYear |-> d], size)]]

LEMMA ComparedOrdered ==
  ASSUME NEW m, Computable(m), m.pyIndex > 0, NEW size \in Nat, row = Compared(m, size)
  PROVE  PricesOrdered
<1> DEFINE left == m.expiry - BlockTime
           miv  == MarketImpliedValue(m, BlockTime)
           t    == row.twap
           line(d) == LinearDiscountOracleValue(left, d)
           sold == RealizableValuePerPt(m, size, BlockTime)
           raw  == PtToAssetRateFromLnImpliedRate(m.lastLnImpliedRate, left)
<1>1. /\ m \in Market /\ left \in Int /\ m.lastLnImpliedRate \in Nat /\ m.syIndex \in Nat
      /\ m.pyIndex \in Nat /\ m.totalPt \in Nat /\ ONE \in Nat \ {0}
  BY OneAssumption, SearchAssumption, SMT DEF Computable, Market
<1>2. /\ t.redemptionValue = RedemptionValue(left, 0) /\ t.marketImpliedValue = miv
      /\ t.oracleValue = TwapOracleValue(m.lastLnImpliedRate, left, m.syIndex, m.pyIndex)
      /\ t.realizableValue = sold /\ row.market = m
      /\ \A d \in DISCOUNTS : row.linear[d].oracleValue = line(d)
  <2>1. row.market = m
    BY DEF Compared
  <2>2. t = ValuationSnapshot(m, BlockTime,
              [kind |-> "PendleChainlinkOracle", twapLnImpliedRate |-> m.lastLnImpliedRate], size)
    BY DEF Compared
  <2>3. /\ t.redemptionValue = RedemptionValue(left, 0) /\ t.marketImpliedValue = miv
        /\ t.realizableValue = sold
        /\ t.oracleValue = OracleValue(m, BlockTime,
             [kind |-> "PendleChainlinkOracle", twapLnImpliedRate |-> m.lastLnImpliedRate])
    BY <2>2 DEF ValuationSnapshot
  <2>4. OracleValue(m, BlockTime,
             [kind |-> "PendleChainlinkOracle", twapLnImpliedRate |-> m.lastLnImpliedRate])
          = TwapOracleValue(m.lastLnImpliedRate, left, m.syIndex, m.pyIndex)
    BY SMT DEF OracleValue
  <2>5. ASSUME NEW d \in DISCOUNTS PROVE row.linear[d].oracleValue = line(d)
    <3> DEFINE feed == [kind |-> "PendleSparkLinearDiscountOracle", baseDiscountPerYear |-> d]
    <3>1. row.linear[d] = ValuationSnapshot(m, BlockTime, feed, size)
      BY DEF Compared
    <3>2. row.linear[d].oracleValue = OracleValue(m, BlockTime, feed)
      BY <3>1 DEF ValuationSnapshot
    <3>3. OracleValue(m, BlockTime, feed) = line(d)
      BY SMT DEF OracleValue
    <3> QED
      BY <3>2, <3>3
  <2> QED
    BY <2>1, <2>3, <2>4, <2>5
<1>3. t.oracleValue = t.marketImpliedValue
  BY <1>2 DEF TwapOracleValue, MarketImpliedValue
<1>4. miv \in Nat /\ miv <= ONE
  <2>1. PtToAssetRate(m.lastLnImpliedRate, left, m.syIndex, m.pyIndex) \in 0 .. ONE
    <3> HIDE DEF left
    <3>1. m.lastLnImpliedRate <= m.lastLnImpliedRate
      BY <1>1, SMT
    <3> QED
      BY <1>1, <3>1, PriceFalls
  <2> QED
    BY <1>1, <2>1, SMT DEF MarketImpliedValue
<1>5. t.marketImpliedValue <= t.redemptionValue
  <2>1. RedemptionValue(left, 0) = ONE
    <3>1. CASE left <= 0
      BY <3>1 DEF RedemptionValue, PtToAssetRateFromLnImpliedRate
    <3>2. CASE ~ (left <= 0)
      <4>1. 0 * left = 0 /\ 0 \div YEAR = 0
        BY <1>1, YearAssumption, SMT
      <4>2. Exp(0) = ONE
        <5>1. 0 * 0 = 0 /\ 0 \div ONE = 0 /\ 0 \div 2 = 0 /\ 0 \div 6 = 0 /\ 0 \div 24 = 0
          BY <1>1, SMT
        <5>2. Times(0, 0) = 0
          BY <5>1 DEF Times
        <5>3. Exp(0) = ONE + 0 + 0 + 0 + 0
          BY <5>1, <5>2 DEF Exp
        <5> QED
          BY <1>1, <5>3, SMT
      <4>3. Ratio(ONE, ONE) = ONE
        BY <1>1, DivOfProduct DEF Ratio
      <4> QED
        BY <3>2, <4>1, <4>2, <4>3
          DEF RedemptionValue, PtToAssetRateFromLnImpliedRate, ExchangeRateFromImpliedRate
    <3> QED
      BY <3>1, <3>2
  <2> QED
    BY <1>2, <1>4, <2>1
<1>6. ASSUME m.syIndex >= m.pyIndex PROVE t.realizableValue <= t.marketImpliedValue
  <2>1. CASE size <= 0
    BY <1>2, <1>4, <2>1, SMT DEF RealizableValuePerPt
  <2>2. CASE ~ (size <= 0) /\ ~ Takes(m, - size, BlockTime)
    BY <1>2, <1>4, <2>2, SMT DEF RealizableValuePerPt, Unsellable
  <2>3. CASE ~ (size <= 0) /\ Takes(m, - size, BlockTime)
    <3>1. size \in Nat \ {0}
      BY <2>3, SMT
    <3>2. sold = Ratio(ExecuteTrade(m, - size, BlockTime).trade.netAssetToAccount, size)
      BY <2>3, Zenon DEF RealizableValuePerPt
    <3> QED
      BY <1>2, <1>6, <2>3, <3>1, <3>2, SaleBelowPrice
  <2> QED
    BY <2>1, <2>2, <2>3
<1>7. t.marketImpliedValue
        - Times(PtToSyRate(m.lastLnImpliedRate, left, m.syIndex, m.pyIndex), m.syIndex)
          \in 0 .. 1 + m.syIndex \div ONE
  <2> DEFINE M == PyIndexCurrent(m.syIndex, m.pyIndex)
  <2>1. M \in Nat \ {0} /\ (m.syIndex >= m.pyIndex => M = m.syIndex)
        /\ (~ (m.syIndex >= m.pyIndex) => M = m.pyIndex)
    BY <1>1, SMT DEF PyIndexCurrent, Larger
  <2>2. raw \in Nat
    <3> HIDE DEF left
    <3>1. m.lastLnImpliedRate <= m.lastLnImpliedRate
      BY <1>1, SMT
    <3>2. raw \in 0 .. ONE
      BY <1>1, <3>1, RateFalls
    <3> HIDE DEF raw
    <3> QED
      BY <1>1, <3>2, SMT
  <2>3. miv = IF m.syIndex >= m.pyIndex THEN raw ELSE (raw * m.syIndex) \div m.pyIndex
    BY DEF MarketImpliedValue, PtToAssetRate
  <2>4. PtToSyRate(m.lastLnImpliedRate, left, m.syIndex, m.pyIndex) = Ratio(raw, M)
    BY DEF PtToSyRate
  <2> HIDE DEF raw, M, miv
  <2>5. miv = (raw * m.syIndex) \div M
    <3>1. CASE m.syIndex >= m.pyIndex
      <4>1. m.syIndex \in Nat \ {0} /\ M = m.syIndex
        BY <2>1, <3>1
      <4>2. (raw * m.syIndex) \div m.syIndex = raw
        BY <2>2, <4>1, DivOfProduct
      <4> QED
        BY <2>3, <3>1, <4>1, <4>2
    <3>2. CASE ~ (m.syIndex >= m.pyIndex)
      BY <2>1, <2>3, <3>2
    <3> QED
      BY <3>1, <3>2
  <2>6. (raw * m.syIndex) \div M - Times(Ratio(raw, M), m.syIndex) \in 0 .. 1 + m.syIndex \div ONE
    BY <1>1, <2>1, <2>2, SyPriceRounds
  <2> QED
    BY <1>2, <2>4, <2>5, <2>6
<1>8. ASSUME NEW d \in DISCOUNTS
      PROVE  /\ line(d) <= ONE
             /\ line(d) \in 1 .. miv - 1 => MinTransmitted(<<line(d), miv>>, {2}, 300) = 0
  <2> DEFINE c == (Larger(0, left) * d) \div YEAR
  <2>1. line(d) = IF c > ONE THEN Overflows ELSE ONE - c
    BY DEF LinearDiscountOracleValue
  <2>2. c \in Nat
    <3>1. Larger(0, left) \in Nat /\ d \in Nat
      BY <1>1, WindowAssumption, SMT DEF Larger
    <3>2. Larger(0, left) * d \in Nat
      BY <3>1, SMT
    <3> QED
      BY <3>2, YearAssumption, DivBounds
  <2> HIDE DEF c, line
  <2>3. line(d) <= ONE
    BY <1>1, <2>1, <2>2, SMT DEF Overflows
  <2>4. ASSUME line(d) \in 1 .. miv - 1 PROVE MinTransmitted(<<line(d), miv>>, {2}, 300) = 0
    <3> HIDE DEF miv
    <3>1. line(d) \in Nat \ {0} /\ line(d) < miv /\ 300 \in Nat
      BY <1>4, <2>4, SMT
    <3> QED
      BY <1>4, <3>1, LowestLegHolds
  <2> QED
    BY <2>3, <2>4
<1> HIDE DEF t, line, miv
<1>9. t.oracleValue = miv
  BY <1>2, <1>3
<1>10. \A d \in DISCOUNTS :
         /\ row.linear[d].oracleValue <= REDEMPTION_CEILING
         /\ row.linear[d].oracleValue \in 1 .. t.oracleValue - 1
              => MinTransmitted(<<row.linear[d].oracleValue, t.oracleValue>>, {2}, 300) = 0
  BY <1>2, <1>8, <1>9 DEF REDEMPTION_CEILING
<1> QED
  BY <1>2, <1>3, <1>5, <1>6, <1>7, <1>10 DEF PricesOrdered, t

------------------------------------------------------------------------------
(***************************************************************************)
(* The pools searched and borrowed against, and the smallest purchase.     *)
(***************************************************************************)
(* A search under way: a pool the curve can be computed of, whose PT is    *)
(* worth something, and a displacement.                                    *)
Solvable(s) ==
  /\ Computable(s.market) /\ s.fraction \in Nat
  /\ MarketImpliedValue(s.market, BlockTime) \in Nat \ {0}
  /\ s.status = "aboveCeiling" =>
       s.fraction > MaxUpwardDisplacement(MarketImpliedValue(s.market, BlockTime))

(* The transmission sweep searches the live pool, for a target.            *)
Live(s) == Sweep = "transmission" => s.market = anchor.market /\ s.fraction \in TARGETS

PoolInv ==
  /\ search = SearchIdle \/ (Solvable(search) /\ Live(search))
  /\ loop = LoopIdle \/ Computable(loop.opening)

LEMMA TargetsListed ==
  ASSUME GridInv, todo # {}
  PROVE  /\ Sweep = "displacement" => Combination[3] \in TARGETS
         /\ Sweep = "transmission" => Combination \in TARGETS
         /\ Sweep = "maturity" => Combination \in HORIZONS
         /\ Sweep = "propagation" =>
              Combination[1] \in LLTVS /\ Combination[2] \in TARGETS \cup {0}
<1>1. Combination \in Combinations(Sweep)
  BY Zenon DEF GridInv, Combination
<1>2. CASE Sweep = "displacement"
  <2>1. Combination \in HORIZONS \X LIQUIDITY_SCALES \X TARGETS
    BY <1>1, <1>2, SMT DEF Combinations
  <2> QED
    BY <1>2, <2>1, SMT
<1>3. CASE Sweep = "transmission"
  BY <1>1, <1>3, SMT DEF Combinations
<1>4. CASE Sweep = "maturity"
  BY <1>1, <1>4, SMT DEF Combinations
<1>5. CASE Sweep = "propagation"
  <2>1. Combination \in LLTVS \X (TARGETS \cup {0})
    BY <1>1, <1>5, SMT DEF Combinations
  <2> QED
    BY <1>5, <2>1, SMT
<1> QED
  BY <1>2, <1>3, <1>4, <1>5, Zenon

LEMMA SolveSolvable ==
  ASSUME NEW m, Computable(m), MarketImpliedValue(m, BlockTime) \in Nat \ {0},
         NEW fraction \in Nat, Solve(m, fraction)
  PROVE  Solvable(search') /\ search'.market = m /\ search'.fraction = fraction
<1>1. /\ search'.market = m /\ search'.fraction = fraction
      /\ search'.status = "aboveCeiling" =>
           fraction > MaxUpwardDisplacement(MarketImpliedValue(m, BlockTime))
  BY DEF Solve
<1> QED
  BY <1>1, Zenon DEF Solvable

(* Nothing a search does touches what it was asked.                        *)
LEMMA SearchKeepsTerms ==
  ASSUME Bracketed(search), SearchStep
  PROVE  search'.market = search.market /\ search'.fraction = search.fraction
         /\ search'.status # "aboveCeiling"
<1> DEFINE kept == search'.market = search.market /\ search'.fraction = search.fraction
                   /\ search'.status # "aboveCeiling"
<1>0. {"market", "fraction", "lo", "hi", "status"} \subseteq DOMAIN search
  BY DEF Bracketed
<1>1. ASSUME NEW lo, NEW hi, NEW st, st # "aboveCeiling",
             search' = [search EXCEPT !.lo = lo, !.hi = hi, !.status = st]
      PROVE  kept
  BY <1>0, <1>1
<1>2. CASE Bracket
  <2>1. search.status = "bracket"
    BY <1>2 DEF Bracket
  <2>2. CASE search' = [search EXCEPT !.status = "unreachable"]
    BY <1>0, <2>2
  <2>3. CASE search' = [search EXCEPT !.status = "bisect"]
    BY <1>0, <2>3
  <2>4. CASE search' = [search EXCEPT !.hi = 2 * @,
                                     !.status = IF TooLarge(2 * search.hi)
                                                THEN "unreachable" ELSE @]
    BY <1>0, <2>1, <2>4
  <2> QED
    BY <1>2, <2>2, <2>3, <2>4, Zenon DEF Bracket
<1>3. CASE Bisect
  <2> DEFINE half == Half((search.lo + search.hi) \div 2)
             lo == half[1]
             hi == half[2]
             st == IF hi - lo <= 1 THEN "found" ELSE search.status
  <2>1. search.status = "bisect"
        /\ search' = [search EXCEPT !.lo = lo, !.hi = hi, !.status = st]
    BY <1>3 DEF Bisect
  <2>2. st # "aboveCeiling"
    BY <2>1
  <2> HIDE DEF half, lo, hi, st
  <2> QED
    BY <1>1, <2>1, <2>2
<1> QED
  BY <1>2, <1>3 DEF SearchStep

LEMMA AnchorWorth ==
  ASSUME GridInv
  PROVE  MarketImpliedValue(anchor.market, BlockTime) \in Nat \ {0}
<1>1. anchor \in Anchors /\ Priced(anchor.market)
  BY AnchorPriced DEF GridInv
<1>2. MarketImpliedValue(anchor.market, BlockTime) > 0
  BY <1>1, FineAssumption DEF Fine
<1>3. MarketImpliedValue(anchor.market, BlockTime) \in Nat
  BY <1>1, PriceNat
<1> QED
  BY <1>2, <1>3, SMT

LEMMA ReshapedWorth ==
  ASSUME GridInv, NEW t \in HORIZONS, NEW scale \in LIQUIDITY_SCALES
  PROVE  /\ Computable(Reshape(anchor.market, t, scale))
         /\ MarketImpliedValue(Reshape(anchor.market, t, scale), BlockTime) \in Nat \ {0}
<1> DEFINE m == Reshape(anchor.market, t, scale)
<1>1. anchor \in Anchors /\ m \in Market /\ Computable(m)
  BY ReshapedPool DEF GridInv
<1>2. MarketImpliedValue(m, BlockTime) > 0
  BY <1>1, FineAssumption DEF Fine
<1> HIDE DEF m
<1>3. MarketImpliedValue(m, BlockTime) \in Nat
  BY <1>1, MarketPriced, PriceNat
<1>4. MarketImpliedValue(m, BlockTime) \in Nat \ {0}
  BY <1>2, <1>3, SMT
<1> QED
  BY <1>1, <1>4 DEF m

LEMMA PoolInit == Init => PoolInv
BY DEF Init, PoolInv

LEMMA PoolStep == Inv /\ RowsInv /\ PoolInv /\ [Next]_vars => PoolInv'
<1> SUFFICES ASSUME Inv, RowsInv, PoolInv, [Next]_vars PROVE PoolInv'
  OBVIOUS
<1> DEFINE Searched == search = SearchIdle \/ (Solvable(search) /\ Live(search))
           Looped   == loop = LoopIdle \/ Computable(loop.opening)
<1>0. GridInv /\ SearchInv /\ LoopInv
  BY DEF Inv
<1>s. ASSUME UNCHANGED <<search, anchor, phase>> PROVE Searched'
  BY <1>s DEF PoolInv, Live, Sweep
<1>l. ASSUME UNCHANGED loop PROVE Looped'
  BY <1>l DEF PoolInv
<1>t. ASSUME UNCHANGED <<anchor, phase>>, Solvable(search'),
             Sweep = "transmission" => search'.market = anchor.market /\ search'.fraction \in TARGETS
      PROVE  Searched'
  BY <1>t DEF Live, Sweep
<1>r. ASSUME NEW made, NEW n, RowsMade(made, n) PROVE PoolInv'
  BY <1>r DEF RowsMade, PoolInv
<1>1. CASE UNCHANGED vars
  BY <1>1, <1>s, <1>l DEF vars, PoolInv
<1>2. CASE NextSweep
  <2>1. search' = search /\ loop' = loop /\ search.status = "idle"
    BY <1>2 DEF NextSweep, Idle
  <2>2. search = SearchIdle
    BY <1>0, <2>1 DEF SearchInv, Bracketed
  <2> QED
    BY <1>l, <2>1, <2>2 DEF PoolInv
<1>3. CASE PortValidationRow \/ MaturityRow \/ DisplacementRow \/ TransmissionRow
           \/ PropagationRow \/ LeverageRow \/ StressRow
  BY <1>3, <1>r, Zenon DEF PortValidationRow, MaturityRow, DisplacementRow, TransmissionRow,
       PropagationRow, LeverageRow, StressRow
<1>4. CASE StartDisplacement
  <2> DEFINE m == Reshape(anchor.market, Combination[1], Combination[2])
  <2>1. /\ todo # {} /\ Sweep = "displacement" /\ Solve(m, Combination[3])
        /\ UNCHANGED <<loop, anchor, phase>>
    BY <1>4 DEF StartDisplacement
  <2>2. Combination[3] \in Nat
    BY <1>0, <2>1, TargetsListed, WindowAssumption
  <2>3. Computable(m) /\ MarketImpliedValue(m, BlockTime) \in Nat \ {0}
    BY <1>0, <2>1, OpeningStarts, ReshapedWorth
  <2> HIDE DEF m
  <2>4. Solvable(search')
    BY <2>1, <2>2, <2>3, SolveSolvable
  <2> QED
    BY <1>l, <1>t, <2>1, <2>4 DEF PoolInv
<1>5. CASE StartTransmission
  <2>1. /\ todo # {} /\ Sweep = "transmission" /\ Solve(anchor.market, Combination)
        /\ UNCHANGED <<loop, anchor, phase>>
    BY <1>5 DEF StartTransmission
  <2>2. Combination \in TARGETS /\ Combination \in Nat
    BY <1>0, <2>1, TargetsListed, WindowAssumption
  <2>3. Solvable(search') /\ search'.market = anchor.market /\ search'.fraction = Combination
    BY <1>0, <2>1, <2>2, AnchorPool, AnchorWorth, SolveSolvable
  <2> QED
    BY <1>l, <1>t, <2>1, <2>2, <2>3 DEF PoolInv
<1>6. CASE StartLeverage
  <2>1. UNCHANGED <<search, anchor, phase>> /\ loop'.opening = anchor.market
    BY <1>6 DEF StartLeverage, RunLoop
  <2> QED
    BY <1>0, <1>s, <2>1, AnchorPool DEF PoolInv
<1>7. CASE StartStress
  <2> DEFINE m == Reshape(anchor.market, Combination[1], Combination[2])
  <2>1. /\ todo # {} /\ Sweep = "stress" /\ UNCHANGED <<search, anchor, phase>>
        /\ loop'.opening = m
    BY <1>7 DEF StartStress, RunLoop
  <2>2. Computable(m)
    BY <1>0, <2>1, OpeningStarts, ReshapedWorth
  <2> HIDE DEF m
  <2> QED
    BY <1>s, <2>1, <2>2 DEF PoolInv
<1>8. CASE StressSearch
  <2>1. /\ Sweep = "stress" /\ loop.status = "done" /\ Solve(loop.opening, Combination[5])
        /\ UNCHANGED <<loop, anchor, phase>>
    BY <1>8 DEF StressSearch
  <2>2. loop # LoopIdle
    BY <2>1 DEF LoopIdle
  <2>3. Computable(loop.opening) /\ Opened(loop, Combination[5])
    BY <2>1, <2>2 DEF PoolInv, RowsInv, Asked
  <2>4. Solvable(search')
    BY <2>1, <2>3, SolveSolvable DEF Opened
  <2> QED
    BY <1>l, <1>t, <2>1, <2>4 DEF PoolInv
<1>9. CASE Searching
  <2>1. SearchStep /\ UNCHANGED <<loop, anchor, phase>>
    BY <1>9 DEF Searching
  <2>2. search # SearchIdle
    BY <2>1 DEF SearchStep, Bracket, Bisect, SearchIdle
  <2>3. Bracketed(search) /\ Solvable(search) /\ Live(search)
    BY <1>0, <2>2 DEF SearchInv, PoolInv
  <2>4. search'.market = search.market /\ search'.fraction = search.fraction
        /\ search'.status # "aboveCeiling"
    BY <2>1, <2>3, SearchKeepsTerms
  <2>5. Solvable(search')
    BY <2>3, <2>4, Zenon DEF Solvable
  <2> QED
    BY <1>l, <1>t, <2>1, <2>3, <2>4, <2>5 DEF PoolInv, Live
<1>10. CASE Looping
  <2>1. LoopStep /\ UNCHANGED <<search, anchor, phase>>
    BY <1>10 DEF Looping
  <2>2. loop # LoopIdle
    BY <2>1 DEF LoopStep, Borrow, Double, Fallback, BisectBudget, Buy, LoopIdle
  <2>3. Backed(loop) /\ Computable(loop.opening)
    BY <1>0, <2>2 DEF LoopInv, PoolInv
  <2>4. loop'.opening = loop.opening
    BY <2>1, <2>3, LoopKeepsTerms
  <2> QED
    BY <1>s, <2>1, <2>3, <2>4 DEF PoolInv
<1> QED
  BY <1>1, <1>2, <1>3, <1>4, <1>5, <1>6, <1>7, <1>8, <1>9, <1>10, Zenon DEF Next

PoolAll == Inv /\ RowsInv /\ PoolInv

LEMMA PoolAlways == Spec => []PoolAll
<1>1. Init => PoolAll
  BY InvInit, RowsInit, PoolInit DEF PoolAll
<1>2. PoolAll /\ [Next]_vars => PoolAll'
  BY InvStep, RowsStep, PoolStep DEF PoolAll
<1> QED
  BY <1>1, <1>2, PTL DEF Spec

(* No purchase, not even one of nothing, raises the price above one.       *)
LEMMA PriceUpToOne ==
  ASSUME NEW m, Computable(m), NEW pt \in Nat, Takes(m, pt, BlockTime)
  PROVE  PriceAfter(m, pt) \in 0 .. ONE
<1> DEFINE comp == Pre(m)
           T    == m.totalPt
           er   == ExchangeRate(m, comp, 0)
<1>m. /\ m \in Market /\ T \in Nat /\ ONE \in Nat \ {0} /\ m.index \in Nat \ {0}
      /\ m.totalSy \in Nat /\ m.expiry - BlockTime \in Int /\ m.syIndex \in Nat /\ m.pyIndex \in Nat
  BY OneAssumption, SearchAssumption, SMT DEF Computable, Market
<1>1. RateAfter(m, pt) \in Nat
  <2>1. CASE pt # 0
    <3>1. pt <= pt /\ pt \in Nat \ {0}
      BY <2>1, SMT
    <3> QED
      BY <3>1, PurchasesBetween
  <2>2. CASE pt = 0
    <3>1. Open(m, BlockTime) /\ ~ RefusesTrade(m, comp, 0)
          /\ ~ OffCurve(comp, T - 0, (T - 0) + AssetAfter(m, 0))
      BY <1>m, <2>2, AfterMeans
    <3>2. Computed(comp)
      BY <3>1, PreComputeTyped DEF Computable, Pre
    <3>3. ~ OffCurve(comp, T - 0, T + comp.totalAsset)
      BY <3>1 DEF RefusesTrade
    <3>4. T - 0 \in Int /\ T + comp.totalAsset \in Int
      BY <1>m, <3>2, SMT DEF Computed
    <3>5. er \in Nat /\ er >= ONE
      BY <3>2, <3>3, <3>4, OnCurve DEF ExchangeRate
    <3>6. TradeAt(m, 0).netSyToAccount
            = ((((- 0) * ONE) \div er - Fee(((- 0) * ONE) \div er, comp.feeRate, 0)) * ONE) \div m.index
      BY DEF TradeAt, CalcTrade, AssetToSy, Ratio
    <3> HIDE DEF er
    <3>7. ((- 0) * ONE) \div er = 0
      <4>1. (- 0) * ONE = 0 /\ er \in Nat \ {0}
        BY <1>m, <3>5, SMT
      <4> QED
        BY <4>1, SMT
    <3>8. Fee(0, comp.feeRate, 0) = 0
      <4>1. comp.feeRate \in Nat \ {0} /\ 0 * (ONE - comp.feeRate) = 0
        BY <1>m, <3>2, SMT DEF Computed
      <4>2. 0 \div comp.feeRate = 0
        BY <4>1, SMT
      <4> QED
        BY <4>1, <4>2, SMT DEF Fee
    <3>9. TradeAt(m, 0).netSyToAccount = 0
      <4>1. (0 - 0) * ONE = 0 /\ 0 \div m.index = 0
        BY <1>m, SMT
      <4> QED
        BY <3>6, <3>7, <3>8, <4>1
    <3>10. AssetAfter(m, 0) \in Nat
      <4>1. m.totalSy - 0 = m.totalSy /\ m.index \in Nat
        BY <1>m, SMT
      <4> QED
        BY <1>m, <3>9, <4>1, TimesNat DEF AssetAfter, SyAfter, SyToAsset
    <3>11. (T - 0) + AssetAfter(m, 0) \in Int
      BY <3>4, <3>10, SMT
    <3> DEFINE rate == CurveRate(comp, T - 0, (T - 0) + AssetAfter(m, 0))
    <3>12. rate \in Nat /\ rate >= ONE
      BY <3>1, <3>2, <3>4, <3>11, OnCurve
    <3>13. RateAfter(m, 0) = (Ln[rate] * YEAR) \div comp.timeToExpiry
      BY DEF RateAfter, LnImpliedRateAt
    <3> HIDE DEF rate
    <3>14. Ln[rate] \in Nat
      BY <3>12, LnNat
    <3>15. Ln[rate] * YEAR \in Nat /\ comp.timeToExpiry \in Nat \ {0}
      BY <3>2, <3>14, YearAssumption, SMT DEF Computed
    <3> QED
      BY <2>2, <3>13, <3>15, DivBounds
  <2> QED
    BY <2>1, <2>2
<1>2. PriceAfter(m, pt)
        = PtToAssetRate(RateAfter(m, pt), m.expiry - BlockTime, m.syIndex, m.pyIndex)
  BY <1>m, AfterMeans
<1>3. RateAfter(m, pt) <= RateAfter(m, pt)
  BY <1>1, SMT
<1> DEFINE r == RateAfter(m, pt)
<1> HIDE DEF r
<1>4. r \in Nat /\ r <= r
  BY <1>1, <1>3 DEF r
<1>5. PtToAssetRate(r, m.expiry - BlockTime, m.syIndex, m.pyIndex) \in 0 .. ONE
  BY <1>m, <1>4, PriceFalls
<1> QED
  BY <1>2, <1>5 DEF r

(* A displacement above the largest asks for one and more.                 *)
LEMMA CeilingInTheWay ==
  ASSUME NEW price \in Nat \ {0}, NEW fraction \in Nat, fraction > MaxUpwardDisplacement(price)
  PROVE  Times(price, ONE + fraction) \in Nat /\ Times(price, ONE + fraction) >= ONE
<1> DEFINE q == (ONE * ONE) \div price
           u == price * (ONE + fraction)
<1>o. ONE \in Nat \ {0} /\ ONE * ONE \in Nat
  BY OneAssumption, SMT
<1>1. fraction > q - ONE
  BY DEF MaxUpwardDisplacement, Ratio
<1>2. q \in Nat /\ ONE * ONE < price * q + price
  BY <1>o, DivBounds
<1>d. Times(price, ONE + fraction) = u \div ONE
  BY DEF Times
<1> HIDE DEF q
<1>3. q + 1 <= ONE + fraction /\ ONE + fraction \in Nat
  BY <1>o, <1>1, <1>2, SMT
<1>4. price * (q + 1) <= u /\ u \in Nat
  BY <1>2, <1>3, SMT
<1> HIDE DEF u
<1>5. ONE * ONE <= u
  <2> DEFINE v == price * (q + 1)
             w == ONE * ONE
  <2>1. v = price * q + price /\ v \in Nat /\ w < price * q + price
    BY <1>2, SMT
  <2>2. w \in Nat /\ v <= u
    BY <1>o, <1>4
  <2> HIDE DEF v, w
  <2>3. w < v
    BY <2>1
  <2>4. w <= u
    BY <1>4, <2>1, <2>2, <2>3, SMT
  <2> QED
    BY <2>4 DEF w
<1>6. (ONE * ONE) \div ONE <= u \div ONE /\ (ONE * ONE) \div ONE = ONE /\ u \div ONE \in Nat
  BY <1>o, <1>4, <1>5, DivMonotone, DivOfProduct, DivBounds
<1> QED
  BY <1>d, <1>6

(* solveDisplacement answers with the smallest purchase that raises the    *)
(* price by what was asked, for every pool and target: between two that    *)
(* reach the price every purchase does, so that the edge of the bisection  *)
(* is the only one.  And where it answers that the par ceiling is in the   *)
(* way, no purchase reaches the price.                                     *)
THEOREM FoundAlwaysMinimal == Spec => []FoundSizeMinimal
<1>1. PoolAll => EdgeFound
  BY EdgeWhenFound DEF PoolAll
<1>2. ASSUME PoolAll, search.status = "found", NEW size \in 1 .. search.hi - 1, Reaches(size)
      PROVE  FALSE
  <2> DEFINE hi == search.hi
  <2>1. hi \in Nat
    BY <1>2 DEF PoolAll, Inv, SearchInv, SearchIdle, Bracketed
  <2>2. Computable(search.market) /\ search.fraction \in Nat
    BY <1>2 DEF PoolAll, PoolInv, SearchIdle, Solvable
  <2>3. Reaches(hi) /\ (hi > 1 => ~ Reaches(hi - 1))
    BY <1>1, <1>2 DEF EdgeFound
  <2>4. /\ size \in Nat \ {0} /\ hi - 1 \in Nat \ {0} /\ hi \in Nat \ {0} /\ size <= hi - 1
        /\ hi - 1 <= hi /\ hi > 1
    BY <1>2, <2>1, SMT
  <2>5. ReachesIn(search.market, search.fraction, size) /\ ReachesIn(search.market, search.fraction, hi)
    BY <1>2, <2>3, ReachesMeans
  <2> HIDE DEF hi
  <2>6. ReachesIn(search.market, search.fraction, hi - 1)
    BY <2>2, <2>4, <2>5, NoneBelow
  <2> QED
    BY <2>3, <2>4, <2>6, ReachesMeans
<1>3. ASSUME PoolAll, search.status = "aboveCeiling", TargetPrice # ONE,
             NEW size \in Probes(search.market.totalPt), Reaches(size)
      PROVE  FALSE
  <2> DEFINE m == search.market
             n == m.totalPt
  <2>1. Solvable(search) /\ search.status = "aboveCeiling"
    BY <1>3 DEF PoolAll, PoolInv, SearchIdle
  <2>2. Computable(m) /\ Takes(m, size, BlockTime) /\ PriceAfter(m, size) >= TargetPrice
    BY <1>3, <2>1 DEF Solvable, Reaches
  <2>3. n \in Nat /\ n > 0
    BY <2>2 DEF Takes, Open, Computable, Market
  <2>4. size \in Nat
    <3>1. CASE size = n - 1
      BY <2>3, <3>1, SMT
    <3>2. ASSUME NEW k \in 1 .. PROBES - 1, size = (n * k) \div PROBES PROVE size \in Nat
      <4>1. n * k \in Nat /\ PROBES \in Nat \ {0}
        BY <2>3, WindowAssumption, SMT
      <4> QED
        BY <3>2, <4>1, DivBounds
    <3> QED
      BY <1>3, <3>1, <3>2 DEF Probes
  <2>5. PriceAfter(m, size) \in 0 .. ONE
    BY <2>2, <2>4, PriceUpToOne
  <2>6. TargetPrice \in Nat /\ TargetPrice >= ONE
    <3>1. TargetPrice = Times(MarketImpliedValue(m, BlockTime), ONE + search.fraction)
      BY DEF TargetPrice, BasePrice
    <3> QED
      BY <2>1, <3>1, CeilingInTheWay DEF Solvable
  <2>7. TargetPrice = ONE
    BY <2>2, <2>5, <2>6, OneAssumption, SMT
  <2> QED
    BY <1>3, <2>7
<1>4. PoolAll => FoundSizeMinimal
  BY <1>1, <1>2, <1>3 DEF FoundSizeMinimal
<1> QED
  BY <1>4, PoolAlways, PTL

------------------------------------------------------------------------------
(***************************************************************************)
(* What a displaced price lends, and what a window passes on.              *)
(***************************************************************************)
(* What a displaced price lends against what it was displaced from: within *)
(* the threshold no more, beyond it more but for three roundings.          *)
LEMMA LendsMoreBeyond ==
  ASSUME NEW base \in Nat, NEW lltv \in 1 .. ONE, NEW d \in Nat,
         NEW over \in Int, over = d - InsolvencyDisplacementThreshold(lltv),
         Times(over - 1, base) >= 2 + ONE \div lltv
  PROVE  MaxBorrow(ONE, Times(base, ONE + d), lltv) > base
<1> DEFINE t == (ONE * ONE) \div lltv
           k == ONE \div lltv
           u == base * (ONE + d)
           p == u \div ONE
           v == (over - 1) * base
           x == v \div ONE
           o == ONE * ONE
<1>1. ONE \in Nat \ {0} /\ lltv \in Nat \ {0} /\ o \in Nat /\ ONE + d \in Nat /\ u \in Nat
  BY OneAssumption, SMT
<1>2. t \in Nat /\ o < lltv * t + lltv
  BY <1>1, DivBounds
<1>3. k \in Nat /\ ONE < lltv * k + lltv
  BY <1>1, DivBounds
<1>4. p \in Nat /\ u < ONE * p + ONE
  BY <1>1, DivBounds
<1>5. v \in Int /\ x \in Int /\ ONE * x <= v
  <2>1. v \in Int
    BY SMT
  <2> QED
    BY <1>1, <2>1, IntDiv
<1>6. x >= 2 + k
  BY DEF Times
<1>7. ONE + d = (over - 1) + (t + 1)
  <2>1. over = d - (t - ONE)
    BY DEF InsolvencyDisplacementThreshold, Ratio
  <2> HIDE DEF t
  <2> QED
    BY <1>1, <1>2, <2>1, SMT
<1>8. u = v + base * (t + 1)
  <2>1. u = base * ((over - 1) + (t + 1))
    BY <1>7
  <2> HIDE DEF u, t
  <2> QED
    BY <1>2, <2>1, SMT
<1>9. MaxBorrow(ONE, Times(base, ONE + d), lltv) = (p * lltv) \div ONE
  <2>1. Times(base, ONE + d) = p
    BY DEF Times
  <2>2. (ONE * p) \div ONE = p
    <3> HIDE DEF p
    <3>1. ONE * p = p * ONE
      BY <1>1, <1>4, SMT
    <3> QED
      BY <1>1, <1>4, <3>1, DivOfProduct
  <2> HIDE DEF p
  <2> QED
    BY <2>1, <2>2 DEF MaxBorrow, Times
<1> HIDE DEF t, k, u, p, v, x
<1> DEFINE A == lltv * u
           B == lltv * v
           C == base * (lltv * (t + 1))
<1>10. /\ A \in Int /\ B \in Int /\ C \in Nat /\ A = B + C
  <2>1. lltv * u = lltv * v + lltv * (base * (t + 1))
    <3> DEFINE w == base * (t + 1)
    <3>1. w \in Nat /\ u = v + w
      BY <1>2, <1>8, SMT
    <3> HIDE DEF w
    <3>2. lltv * u = lltv * v + lltv * w
      BY <1>1, <1>5, <3>1, SMT
    <3> QED
      BY <3>2 DEF w
  <2>2. lltv * (base * (t + 1)) = C /\ C \in Nat
    BY <1>1, <1>2, SMT
  <2>3. A \in Int /\ B \in Int
    BY <1>1, <1>5, SMT
  <2> QED
    BY <2>1, <2>2, <2>3
<1>11. C >= base * o
  <2> DEFINE y == lltv * (t + 1)
  <2>1. y \in Nat /\ o <= y
    <3>1. y = lltv * t + lltv /\ y \in Nat /\ lltv * t \in Nat
      BY <1>1, <1>2, SMT
    <3> HIDE DEF y, o
    <3> QED
      BY <1>1, <1>2, <3>1, SMT
  <2> HIDE DEF y, o
  <2>2. base * o <= base * y
    BY <1>1, <2>1, SMT
  <2> QED
    BY <2>2 DEF y
<1>12. B >= ONE * (lltv + ONE)
  <2>1. lltv * (ONE * x) <= B
    <3> DEFINE z == ONE * x
    <3>1. z \in Int /\ z <= v
      BY <1>1, <1>5, SMT
    <3> HIDE DEF z
    <3>2. lltv * z <= lltv * v
      BY <1>1, <1>5, <3>1, SMT
    <3> QED
      BY <3>2 DEF z
  <2>2. lltv * (ONE * x) = ONE * (lltv * x)
    BY <1>1, <1>5, SMT
  <2>3. lltv * (2 + k) <= lltv * x
    BY <1>1, <1>3, <1>5, <1>6, SMT
  <2>4. lltv + ONE <= lltv * (2 + k)
    <3>1. lltv * (2 + k) = lltv + (lltv * k + lltv)
      BY <1>1, <1>3, SMT
    <3>2. lltv * k \in Nat
      BY <1>1, <1>3, SMT
    <3> QED
      BY <1>1, <1>3, <3>1, <3>2, SMT
  <2> DEFINE y == lltv * x
             z == lltv * (2 + k)
  <2>5. y \in Int /\ z \in Int /\ z <= y /\ lltv + ONE <= z
    BY <1>1, <1>3, <1>5, <2>3, <2>4, SMT
  <2>6. ONE * y <= B
    BY <2>1, <2>2
  <2> HIDE DEF y, z, B
  <2>7. lltv + ONE <= y
    BY <1>1, <2>5, SMT
  <2>8. ONE * (lltv + ONE) <= ONE * y /\ ONE * y \in Int /\ ONE * (lltv + ONE) \in Int
    BY <1>1, <2>5, <2>7, SMT
  <2> QED
    BY <1>10, <2>6, <2>8, SMT
<1> DEFINE q == p * lltv
<1>13. q \in Nat /\ A < ONE * (q + lltv)
  <2>1. q \in Nat
    BY <1>1, <1>4, SMT
  <2>2. A < lltv * (ONE * p + ONE)
    <3> DEFINE z == ONE * p + ONE
    <3>1. z \in Nat /\ u < z
      BY <1>1, <1>4, SMT
    <3> HIDE DEF z
    <3>2. lltv * u < lltv * z
      BY <1>1, <3>1, SMT
    <3> QED
      BY <3>2 DEF z
  <2>3. lltv * (ONE * p + ONE) = ONE * (q + lltv)
    <3>1. lltv * (ONE * p + ONE) = lltv * (ONE * p) + lltv * ONE
      BY <1>1, <1>4, SMT
    <3>2. lltv * (ONE * p) = ONE * (p * lltv)
      BY <1>1, <1>4, SMT
    <3>3. ONE * ((p * lltv) + lltv) = ONE * (p * lltv) + ONE * lltv
      BY <1>1, <1>4, SMT
    <3> QED
      BY <1>1, <3>1, <3>2, <3>3, SMT
  <2> QED
    BY <2>1, <2>2, <2>3
<1>14. ONE * ((base + 1) * ONE) < ONE * q
  <2>1. ONE * (lltv + ONE) + base * o <= A
    <3>1. ONE * (lltv + ONE) \in Int /\ base * o \in Int
      BY <1>1, SMT
    <3> HIDE DEF A, B, C, o
    <3> QED
      BY <1>10, <1>11, <1>12, <3>1, SMT
  <2>2. ONE * (lltv + ONE) = ONE * lltv + ONE * ONE /\ ONE * (q + lltv) = ONE * q + ONE * lltv
    <3> HIDE DEF q
    <3>1. ONE * (lltv + ONE) = ONE * lltv + ONE * ONE
      BY <1>1, SMT
    <3>2. ONE * (q + lltv) = ONE * q + ONE * lltv
      BY <1>1, <1>13, SMT
    <3> QED
      BY <3>1, <3>2
  <2>3. base * o = ONE * (base * ONE) /\ ONE * ((base + 1) * ONE) = ONE * (base * ONE) + ONE * ONE
    BY <1>1, SMT
  <2>4. ONE * lltv \in Nat /\ ONE * ONE \in Nat /\ ONE * q \in Nat /\ ONE * (base * ONE) \in Nat
    BY <1>1, <1>13, SMT
  <2> DEFINE e == ONE * lltv
             g == ONE * q
             h == ONE * (base * ONE)
             j == ONE * ((base + 1) * ONE)
  <2>5. /\ e \in Nat /\ o \in Nat /\ g \in Nat /\ h \in Nat /\ A \in Int
        /\ (e + o) + h <= A /\ A < g + e /\ j = h + o
    BY <1>10, <1>13, <2>1, <2>2, <2>3, <2>4
  <2> HIDE DEF e, g, h, j, o, A
  <2>6. j < g
    BY <2>5, SMT
  <2> QED
    BY <2>6 DEF j, g
<1>15. (base + 1) * ONE <= q
  <2> DEFINE z == (base + 1) * ONE
  <2>1. z \in Nat
    BY <1>1, SMT
  <2>2. ONE * z < ONE * q
    BY <1>14
  <2> HIDE DEF z, q
  <2>3. ASSUME q < z PROVE FALSE
    <3>1. ONE * q <= ONE * z /\ ONE * q \in Nat /\ ONE * z \in Nat
      BY <1>1, <1>13, <2>1, <2>3, SMT
    <3> QED
      BY <2>2, <3>1, SMT
  <2>4. z <= q
    BY <1>13, <2>1, <2>3, SMT
  <2> QED
    BY <2>4 DEF z
<1> HIDE DEF q
<1>16. ((base + 1) * ONE) \div ONE <= q \div ONE /\ ((base + 1) * ONE) \div ONE = base + 1
       /\ q \div ONE \in Nat
  <2>1. (base + 1) * ONE \in Nat /\ base + 1 \in Nat
    BY <1>1, SMT
  <2> QED
    BY <1>1, <1>13, <1>15, <2>1, DivMonotone, DivOfProduct, DivBounds
<1>17. q \div ONE > base
  BY <1>16, SMT
<1> QED
  BY <1>9, <1>17 DEF q

(* A displaced price within the ceiling is not beyond a threshold that     *)
(* calls for more than the ceiling, but for its roundings.                 *)
LEMMA NoneOutOfReach ==
  ASSUME NEW price \in Nat \ {0}, NEW lltv \in 1 .. ONE, NEW d \in Nat,
         ~ DisplacementInsolvencyReachable(price, lltv, ONE), Times(price, ONE + d) <= ONE
  PROVE  (d - InsolvencyDisplacementThreshold(lltv) - 1) * price < ONE
<1> DEFINE o == ONE * ONE
           t == o \div lltv
           q == o \div price
           u == price * (ONE + d)
           p == u \div ONE
           r == InsolvencyDisplacementThreshold(lltv)
<1>1. ONE \in Nat \ {0} /\ lltv \in Nat \ {0} /\ o \in Nat /\ ONE + d \in Nat /\ u \in Nat
  BY OneAssumption, SMT
<1>2. t \in Nat /\ q \in Nat /\ o < price * q + price /\ p \in Nat /\ u < ONE * p + ONE
  BY <1>1, DivBounds
<1>3. r = t - ONE /\ ~ (q - ONE > r) /\ p <= ONE
  BY DEF DisplacementInsolvencyReachable, InsolvencyDisplacementThreshold, Ratio, Times
<1> HIDE DEF t, q, p, r
<1>4. u < o + ONE
  <2>1. ONE * p <= ONE * ONE /\ ONE * p \in Nat
    BY <1>1, <1>2, <1>3, SMT
  <2> HIDE DEF u
  <2> QED
    BY <1>1, <1>2, <2>1, SMT
<1>5. q + 1 <= t + 1
  BY <1>1, <1>2, <1>3, SMT
<1> DEFINE w == price * (t + 1)
<1>6. w \in Nat /\ o < w
  <2>1. price * (q + 1) <= price * (t + 1) /\ price * (q + 1) = price * q + price
        /\ price * (q + 1) \in Nat /\ w \in Nat
    BY <1>2, <1>5, SMT
  <2> HIDE DEF o
  <2> QED
    BY <1>1, <1>2, <2>1, SMT
<1>7. (d - r - 1) * price = u - w
  <2>1. d - r - 1 = (ONE + d) - (t + 1)
    BY <1>1, <1>2, <1>3, SMT
  <2>2. ((ONE + d) - (t + 1)) * price = u - w
    BY <1>1, <1>2, SMT
  <2> QED
    BY <2>1, <2>2
<1> HIDE DEF u, w, o
<1>8. u - w < ONE
  BY <1>1, <1>4, <1>6, SMT
<1> QED
  BY <1>7, <1>8 DEF r

(* What the accumulator weighs of the newest n of two segments.            *)
Weighing(segments, duration, w) ==
  [n \in 0 .. Len(segments) |->
     IF n = 0 THEN <<duration, 0>>
     ELSE LET newer   == w[n - 1]
              segment == segments[Len(segments) - n + 1]
              take    == Smaller(segment.seconds, newer[1])
          IN  <<newer[1] - take, newer[2] + segment.rate * take>>]

LEMMA TwapOfTwo ==
  ASSUME NEW base \in Nat, NEW displaced \in Nat, NEW held \in Nat, NEW window \in Nat \ {0}
  PROVE  DilutedTwap(base, displaced, held, window)
           = TwapLnImpliedRate(<< [rate |-> base, seconds |-> window],
                                  [rate |-> displaced, seconds |-> held] >>, window)
<1> DEFINE s == << [rate |-> base, seconds |-> window], [rate |-> displaced, seconds |-> held] >>
           k == Smaller(held, window)
           w0 == <<window, 0>>
           w1 == <<window - k, displaced * k>>
           w2 == <<0, displaced * k + base * (window - k)>>
           f == [n \in 0 .. 2 |-> IF n = 0 THEN w0 ELSE IF n = 1 THEN w1 ELSE w2]
           W == CHOOSE w : w = Weighing(s, window, w)
<1>1. /\ Len(s) = 2 /\ s[1].rate = base /\ s[1].seconds = window
      /\ s[2].rate = displaced /\ s[2].seconds = held
  OBVIOUS
<1>2. k \in Nat /\ k <= window /\ window - k \in Nat /\ Smaller(window, window - k) = window - k
  BY SMT DEF Smaller
<1>3. TwapLnImpliedRate(s, window)
        = IF W[Len(s)][1] > 0 THEN OracleTargetTooOld ELSE W[Len(s)][2] \div window
  BY Zenon DEF TwapLnImpliedRate, Weighing
<1>k. k = Smaller(held, window)
  OBVIOUS
<1> HIDE DEF s, k
<1>4. ASSUME NEW w, w[0] = w0, w[1] = w1
      PROVE  Weighing(s, window, w) = f
  <2> DEFINE step(n) == IF n = 0 THEN <<window, 0>>
                        ELSE LET newer   == w[n - 1]
                                 segment == s[Len(s) - n + 1]
                                 take    == Smaller(segment.seconds, newer[1])
                             IN  <<newer[1] - take, newer[2] + segment.rate * take>>
  <2>1. Weighing(s, window, w) = [n \in 0 .. Len(s) |-> step(n)]
    BY DEF Weighing
  <2>2. step(0) = w0
    OBVIOUS
  <2>3. step(1) = w1
    <3>1. Len(s) - 1 + 1 = 2 /\ 1 - 1 = 0 /\ 1 # 0
      BY <1>1, SMT
    <3>2. w[0][1] = window /\ w[0][2] = 0
      BY <1>4
    <3>3. step(1) = <<window - Smaller(held, window), 0 + displaced * Smaller(held, window)>>
      BY <1>1, <3>1, <3>2
    <3>4. 0 + displaced * k = displaced * k
      BY <1>2, SMT
    <3> QED
      BY <1>k, <3>3, <3>4
  <2>4. step(2) = w2
    <3>1. Len(s) - 2 + 1 = 1 /\ 2 - 1 = 1 /\ 2 # 0
      BY <1>1, SMT
    <3>2. w[1][1] = window - k /\ w[1][2] = displaced * k
      BY <1>4
    <3>3. step(2) = <<(window - k) - Smaller(window, window - k),
                      displaced * k + base * Smaller(window, window - k)>>
      BY <1>1, <3>1, <3>2
    <3>4. (window - k) - (window - k) = 0
      BY <1>2, SMT
    <3> QED
      BY <1>2, <3>3, <3>4
  <2> HIDE DEF step, w0, w1, w2
  <2>5. \A n \in 0 .. 2 : step(n) = IF n = 0 THEN w0 ELSE IF n = 1 THEN w1 ELSE w2
    <3>1. \A n \in 0 .. 2 : n = 0 \/ n = 1 \/ n = 2
      BY SMT
    <3> QED
      BY <2>2, <2>3, <2>4, <3>1
  <2>6. [n \in 0 .. 2 |-> step(n)] = f
    BY <2>5
  <2> QED
    BY <1>1, <2>1, <2>6
<1>5. f[0] = w0 /\ f[1] = w1 /\ f[2] = w2
  <2> HIDE DEF w0, w1, w2
  <2> QED
    BY SMT
<1>6. f = Weighing(s, window, f)
  <2> HIDE DEF f, w0, w1, w2
  <2> QED
    BY <1>4, <1>5
<1>7. W = Weighing(s, window, W)
  <2>1. \E w : w = Weighing(s, window, w)
    <3> HIDE DEF f
    <3> QED
      BY <1>6
  <2> QED
    BY <2>1, Zenon
<1> HIDE DEF W
<1>8. W[0] = w0
  <2>1. 0 \in 0 .. Len(s)
    BY <1>1, SMT
  <2>2. Weighing(s, window, W)[0] = w0
    BY <2>1 DEF Weighing
  <2> QED
    BY <1>7, <2>2
<1>9. W[1] = w1
  <2>1. 1 \in 0 .. Len(s) /\ Len(s) - 1 + 1 = 2 /\ 1 - 1 = 0 /\ 1 # 0
    BY <1>1, SMT
  <2>2. W[0][1] = window /\ W[0][2] = 0
    BY <1>8
  <2>3. Weighing(s, window, W)[1]
          = <<window - Smaller(held, window), 0 + displaced * Smaller(held, window)>>
    BY <1>1, <2>1, <2>2 DEF Weighing
  <2>4. 0 + displaced * k = displaced * k
    BY <1>2, SMT
  <2>5. Weighing(s, window, W)[1] = w1
    BY <1>k, <2>3, <2>4
  <2> HIDE DEF w1
  <2> QED
    BY <1>7, <2>5
<1>10. W[2] = w2
  <2> HIDE DEF w0, w1, w2
  <2>1. Weighing(s, window, W) = f
    BY <1>4, <1>8, <1>9
  <2> HIDE DEF f
  <2> QED
    BY <1>5, <1>7, <2>1
<1>11. TwapLnImpliedRate(s, window) = (displaced * k + base * (window - k)) \div window
  <2>1. W[2][1] = 0 /\ W[2][2] = displaced * k + base * (window - k)
    BY <1>10
  <2>2. ~ (0 > 0)
    BY SMT
  <2> QED
    BY <1>1, <1>3, <2>1, <2>2
<1>12. DilutedTwap(base, displaced, held, window) = (base * (window - k) + displaced * k) \div window
  BY <1>k DEF DilutedTwap
<1>13. displaced * k + base * (window - k) = base * (window - k) + displaced * k
  BY <1>2, SMT
<1> QED
  BY <1>11, <1>12, <1>13 DEF s

(* A window holds the displaced rate for as long as it is held and the old *)
(* one for the rest: its mean falls from one to the other.                 *)
LEMMA DilutedBetween ==
  ASSUME NEW base \in Nat, NEW displaced \in Nat, displaced <= base, NEW g \in Nat, NEW h \in Nat,
         g <= h, NEW window \in Nat \ {0}
  PROVE  /\ DilutedTwap(base, displaced, g, window) \in displaced .. base
         /\ DilutedTwap(base, displaced, h, window) \in displaced .. base
         /\ DilutedTwap(base, displaced, h, window) <= DilutedTwap(base, displaced, g, window)
         /\ g = 0 => DilutedTwap(base, displaced, g, window) = base
         /\ g >= window => DilutedTwap(base, displaced, g, window) = displaced
<1> DEFINE mass(k) == base * (window - k) + displaced * k
<1>1. ASSUME NEW k \in Nat, NEW l \in Nat, k <= l, l <= window
      PROVE  /\ mass(k) \in Nat /\ mass(l) \in Nat
             /\ displaced * window <= mass(l) /\ mass(l) <= mass(k) /\ mass(k) <= base * window
  <2> DEFINE fall == base - displaced
             x == base * window
             y == fall * k
             z == fall * l
             e == fall * window
  <2>1. fall \in Nat /\ base = displaced + fall
    BY SMT
  <2>2. mass(k) = x - y /\ mass(l) = x - z /\ displaced * window = x - e
    <3>1. base * (window - k) = x - base * k /\ base * (window - l) = x - base * l
      BY <1>1, SMT
    <3>2. y = base * k - displaced * k /\ z = base * l - displaced * l
          /\ e = base * window - displaced * window
      BY <1>1, SMT
    <3>3. base * k \in Nat /\ base * l \in Nat /\ x \in Nat /\ displaced * k \in Nat
          /\ displaced * l \in Nat /\ displaced * window \in Nat
      BY <1>1, SMT
    <3> DEFINE bk == base * k
               bl == base * l
               dk == displaced * k
               dl == displaced * l
               dw == displaced * window
    <3> HIDE DEF bk, bl, dk, dl, dw, x, y, z, e
    <3>4. (x - bk) + dk = x - (bk - dk) /\ (x - bl) + dl = x - (bl - dl) /\ dw = x - (x - dw)
      BY <3>3, SMT DEF bk, bl, dk, dl, dw
    <3> QED
      BY <3>1, <3>2, <3>4 DEF bk, bl, dk, dl, dw, x
  <2> HIDE DEF fall
  <2>3. y \in Nat /\ z \in Nat /\ e \in Nat /\ x \in Nat /\ y <= z /\ z <= e
    <3>1. y \in Nat /\ z \in Nat /\ e \in Nat /\ x \in Nat
      BY <1>1, <2>1, SMT
    <3>2. y <= z
      BY <1>1, <2>1, SMT
    <3>3. z <= e
      BY <1>1, <2>1, SMT
    <3> QED
      BY <3>1, <3>2, <3>3
  <2>4. displaced * window \in Nat
    BY SMT
  <2> HIDE DEF mass, x, y, z, e
  <2>5. x - e \in Nat
    BY <2>2, <2>4
  <2>6. x - y \in Nat /\ x - z \in Nat /\ x - e <= x - z /\ x - z <= x - y /\ x - y <= x
    BY <2>3, <2>5, SMT
  <2> QED
    BY <2>2, <2>6 DEF x
<1>2. ASSUME NEW k \in Nat, NEW l \in Nat, k <= l, l <= window
      PROVE  /\ mass(k) \div window \in Nat /\ mass(l) \div window \in Nat
             /\ displaced <= mass(l) \div window /\ mass(l) \div window <= mass(k) \div window
             /\ mass(k) \div window <= base
  <2>1. /\ mass(k) \in Nat /\ mass(l) \in Nat
        /\ displaced * window <= mass(l) /\ mass(l) <= mass(k) /\ mass(k) <= base * window
    BY <1>1, <1>2
  <2> HIDE DEF mass
  <2>2. displaced * window \in Nat /\ base * window \in Nat
    BY SMT
  <2> QED
    BY <2>1, <2>2, DivMonotone, DivBounds, DivOfProduct
<1> DEFINE k == Smaller(g, window)
           l == Smaller(h, window)
<1>3. k \in Nat /\ l \in Nat /\ k <= l /\ l <= window /\ (g = 0 => k = 0)
      /\ (g >= window => k = window)
  BY SMT DEF Smaller
<1>4. DilutedTwap(base, displaced, g, window) = mass(k) \div window
      /\ DilutedTwap(base, displaced, h, window) = mass(l) \div window
  BY DEF DilutedTwap
<1> HIDE DEF k, l
<1>5. g = 0 => mass(k) \div window = base
  <2> SUFFICES ASSUME g = 0 PROVE mass(0) \div window = base
    BY <1>3
  <2>1. mass(0) = base * window
    BY SMT
  <2> HIDE DEF mass
  <2> QED
    BY <2>1, DivOfProduct
<1>6. g >= window => mass(k) \div window = displaced
  <2> SUFFICES ASSUME g >= window PROVE mass(window) \div window = displaced
    BY <1>3
  <2>1. mass(window) = displaced * window
    BY SMT
  <2> HIDE DEF mass
  <2> QED
    BY <2>1, DivOfProduct
<1> HIDE DEF mass
<1>7. /\ mass(k) \div window \in Nat /\ mass(l) \div window \in Nat
      /\ displaced <= mass(l) \div window /\ mass(l) \div window <= mass(k) \div window
      /\ mass(k) \div window <= base
  BY <1>2, <1>3
<1>8. mass(k) \div window \in displaced .. base /\ mass(l) \div window \in displaced .. base
  BY <1>7, SMT
<1> QED
  BY <1>4, <1>5, <1>6, <1>7, <1>8

LEMMA DilutedWhole ==
  ASSUME NEW base \in Nat, NEW displaced \in Nat, displaced <= base, NEW g \in Nat,
         NEW window \in Nat \ {0}
  PROVE  g >= window => DilutedTwap(base, displaced, g, window) = displaced
<1> SUFFICES ASSUME g >= window PROVE DilutedTwap(base, displaced, g, window) = displaced
  OBVIOUS
<1>1. Smaller(g, window) = window
  BY SMT DEF Smaller
<1>2. base * (window - window) + displaced * window = displaced * window
  BY SMT
<1>3. DilutedTwap(base, displaced, g, window) = (displaced * window) \div window
  BY <1>1, <1>2 DEF DilutedTwap
<1> QED
  BY <1>3, DivOfProduct

(* A fraction of prices with the haircut against that of prices without.   *)
LEMMA HaircutRounds ==
  ASSUME NEW a \in Nat \ {0}, NEW b \in Nat, NEW sy \in Nat, NEW py \in Nat \ {0},
         NEW p \in Nat \ {0}, p = (a * sy) \div py, NEW q \in Nat, q = (b * sy) \div py,
         NEW over \in Int, over <= Ratio(b, a) - Ratio(q, p)
  PROVE  (over - 1) * p < ONE
<1> DEFINE X == (b * ONE) \div a
           Y == (q * ONE) \div p
<1>1. ONE \in Nat \ {0} /\ b * ONE \in Nat /\ q * ONE \in Nat /\ a * sy \in Nat /\ b * sy \in Nat
  BY OneAssumption, SMT
<1>2. X \in Nat /\ a * X <= b * ONE /\ Y \in Nat /\ q * ONE < p * Y + p
  BY <1>1, DivBounds
<1>3. py * p <= a * sy /\ b * sy < py * q + py
  BY <1>1, DivBounds
<1>4. over <= X - Y
  BY DEF Ratio
<1> HIDE DEF X, Y
<1>5. X * p < (q + 1) * ONE
  <2>1. py * (X * p) <= (a * X) * sy
    <3> DEFINE u == py * p
               v == a * sy
    <3>1. u \in Nat /\ v \in Nat /\ u <= v
      BY <1>1, <1>3, SMT
    <3> HIDE DEF u, v
    <3>2. X * u <= X * v
      BY <1>2, <3>1, SMT
    <3>3. py * (X * p) = X * (py * p) /\ (a * X) * sy = X * (a * sy)
      BY <1>2, SMT
    <3> QED
      BY <3>2, <3>3 DEF u, v
  <2>2. (a * X) * sy <= ONE * (b * sy)
    <3> DEFINE u == a * X
               v == b * ONE
    <3>1. u \in Nat /\ v \in Nat /\ u <= v
      BY <1>1, <1>2, SMT
    <3> HIDE DEF u, v
    <3>2. u * sy <= v * sy
      BY <3>1, SMT
    <3>3. (b * ONE) * sy = ONE * (b * sy)
      BY <1>1, SMT
    <3> QED
      BY <3>2, <3>3 DEF u, v
  <2>3. ONE * (b * sy) < py * ((q + 1) * ONE)
    <3> DEFINE u == b * sy
               v == py * q + py
    <3>1. u \in Nat /\ v \in Nat /\ u < v
      BY <1>1, <1>3, SMT
    <3>2. v * ONE = py * ((q + 1) * ONE)
      <4>1. v = py * (q + 1)
        BY SMT
      <4> HIDE DEF v
      <4> QED
        BY <1>1, <4>1, SMT
    <3> HIDE DEF u, v
    <3>3. ONE * u < ONE * v /\ ONE * v = v * ONE
      BY <1>1, <3>1, SMT
    <3> QED
      BY <3>2, <3>3 DEF u
  <2> DEFINE u == X * p
             v == (q + 1) * ONE
  <2>4. u \in Nat /\ v \in Nat
    BY <1>1, <1>2, SMT
  <2>5. py * u < py * v
    <3>1. py * u \in Nat /\ (a * X) * sy \in Nat /\ ONE * (b * sy) \in Nat /\ py * v \in Nat
      BY <1>1, <1>2, <2>4, SMT
    <3> DEFINE k == py * u
               l == (a * X) * sy
               n == ONE * (b * sy)
               o == py * v
    <3>2. k \in Nat /\ l \in Nat /\ n \in Nat /\ o \in Nat /\ k <= l /\ l <= n /\ n < o
      BY <2>1, <2>2, <2>3, <3>1
    <3> HIDE DEF k, l, n, o
    <3>3. k < o
      BY <3>2, SMT
    <3> QED
      BY <3>3 DEF k, o
  <2> HIDE DEF u, v
  <2>6. ASSUME v <= u PROVE FALSE
    <3>1. py * v <= py * u /\ py * v \in Nat /\ py * u \in Nat
      BY <2>4, <2>6, SMT
    <3> QED
      BY <2>5, <3>1, SMT
  <2>7. u < v
    BY <2>4, <2>6, SMT
  <2> QED
    BY <2>7 DEF u, v
<1>6. (over - 1) * p <= X * p - (p * Y + p)
  <2>1. (over - 1) * p <= (X - (Y + 1)) * p
    <3> DEFINE u == over - 1
               v == X - (Y + 1)
    <3>1. u \in Int /\ v \in Int /\ u <= v
      BY <1>2, <1>4, SMT
    <3> HIDE DEF u, v
    <3>2. u * p <= v * p
      BY <3>1, SMT
    <3> QED
      BY <3>2 DEF u, v
  <2>2. (X - (Y + 1)) * p = X * p - (p * Y + p)
    BY <1>2, SMT
  <2> QED
    BY <2>1, <2>2
<1> DEFINE u == X * p
           v == p * Y + p
           w == (over - 1) * p
           n == q * ONE
<1>7. u \in Nat /\ v \in Nat /\ w \in Int /\ n \in Nat /\ u < n + ONE /\ n < v /\ w <= u - v
  <2>1. u \in Nat /\ v \in Nat /\ w \in Int /\ n \in Nat
    BY <1>1, <1>2, SMT
  <2>2. (q + 1) * ONE = n + ONE
    BY <1>1, SMT
  <2> QED
    BY <1>2, <1>5, <1>6, <2>1, <2>2
<1> HIDE DEF u, v, w, n
<1>8. w < ONE
  BY <1>1, <1>7, SMT
<1> QED
  BY <1>8 DEF w

LEMMA RatioRises ==
  ASSUME NEW a \in Nat, NEW b \in Nat, a <= b, NEW d \in Nat \ {0}
  PROVE  /\ Ratio(a, d) \in Nat /\ Ratio(b, d) \in Nat /\ Ratio(a, d) <= Ratio(b, d)
         /\ Ratio(d, d) = ONE
<1>1. ONE \in Nat \ {0} /\ d \in Nat
  BY OneAssumption, SMT
<1>2. a * ONE \in Nat /\ b * ONE \in Nat /\ a * ONE <= b * ONE /\ d * ONE = ONE * d
  BY <1>1, SMT
<1> QED
  BY <1>1, <1>2, DivMonotone, DivBounds, DivOfProduct DEF Ratio

(* The row of one target.                                                  *)
Transmitted(m, size) ==
  [sweep |-> "transmission", achievable |-> TRUE, base |-> m.lastLnImpliedRate,
   displaced |-> ExecuteTrade(m, size, BlockTime).market.lastLnImpliedRate,
   achieved |-> Ratio(PriceAfter(m, size), MarketImpliedValue(m, BlockTime)) - ONE,
   transmitted |-> [h \in HELD |->
     TwapTransmitted(m, ExecuteTrade(m, size, BlockTime).market.lastLnImpliedRate,
                     HeldSeconds(h), TWAP_DURATION)]]

LEMMA TransmittedBounded ==
  ASSUME NEW m, m = anchor.market, Computable(m), MarketImpliedValue(m, BlockTime) \in Nat \ {0},
         NEW fraction \in Nat,
         MarketImpliedValue(m, BlockTime)
           < Times(MarketImpliedValue(m, BlockTime), ONE + fraction),
         NEW size \in Nat \ {0}, ReachesIn(m, fraction, size), row = Transmitted(m, size)
  PROVE  TransmissionBounded
<1> DEFINE left == m.expiry - BlockTime
           sy   == m.syIndex
           py   == m.pyIndex
           base == m.lastLnImpliedRate
           disp == RateAfter(m, size)
           D    == TWAP_DURATION
           tw(h) == DilutedTwap(base, disp, HeldSeconds(h), D)
           raw(r) == PtToAssetRateFromLnImpliedRate(r, left)
           a == raw(base)
           b == raw(disp)
           p == MarketImpliedValue(m, BlockTime)
           q == PriceAfter(m, size)
<1>1. /\ m \in Market /\ left \in Int /\ sy \in Nat /\ py \in Nat /\ base \in Nat
      /\ ONE \in Nat \ {0} /\ D \in Nat \ {0} /\ p \in Nat \ {0}
  BY OneAssumption, SearchAssumption, WindowAssumption, SMT DEF Computable, Market
<1>2. disp \in Nat
  <2>1. size <= size
    BY SMT
  <2> QED
    BY <2>1, PurchasesBetween DEF ReachesIn
<1>3. /\ ExecuteTrade(m, size, BlockTime).market.lastLnImpliedRate = disp
      /\ q = PtToAssetRate(disp, left, sy, py) /\ p = PtToAssetRate(base, left, sy, py)
  BY <1>1, AfterMeans DEF MarketImpliedValue
<1>4. /\ row.base = base /\ row.displaced = disp /\ row.achieved = Ratio(q, p) - ONE
      /\ \A h \in HELD : row.transmitted[h] = Ratio(raw(tw(h)), a) - ONE
  <2>1. /\ row.base = base /\ row.displaced = disp /\ row.achieved = Ratio(q, p) - ONE
        /\ \A h \in HELD : row.transmitted[h] = TwapTransmitted(m, disp, HeldSeconds(h), D)
    BY <1>3 DEF Transmitted
  <2>2. ONE >= ONE
    BY <1>1, SMT
  <2>3. \A r : TwapOracleValue(r, left, ONE, ONE) = raw(r)
    BY <2>2, Zenon DEF TwapOracleValue, PtToAssetRate
  <2>4. \A h : TwapTransmitted(m, disp, HeldSeconds(h), D) = Ratio(raw(tw(h)), a) - ONE
    BY <2>3, Zenon DEF TwapTransmitted
  <2> QED
    BY <2>1, <2>4
<1>h. \A r : PtToAssetRate(r, left, sy, py) = IF sy >= py THEN raw(r) ELSE (raw(r) * sy) \div py
  BY Zenon DEF PtToAssetRate
<1>5. \A r \in Nat : raw(r) \in Nat
  <2> SUFFICES ASSUME NEW r \in Nat PROVE raw(r) \in Nat
    OBVIOUS
  <2>1. r <= r
    BY SMT
  <2>2. raw(r) \in 0 .. ONE
    BY <1>1, <2>1, RateFalls
  <2> QED
    BY <1>1, <2>2, SMT
<1>6. \A r, s \in Nat : r <= s => raw(s) <= raw(r)
  BY <1>1, RateFalls
<1>7. disp <= base
  <2>1. q >= Times(p, ONE + fraction) /\ p < Times(p, ONE + fraction)
    BY DEF ReachesIn
  <2>2. Times(p, ONE + fraction) \in Nat
    <3>1. ONE + fraction \in Nat /\ p \in Nat
      BY <1>1, SMT
    <3> HIDE DEF p
    <3> QED
      BY <3>1, TimesNat
  <2>3. ASSUME base <= disp PROVE FALSE
    <3>1. PtToAssetRate(disp, left, sy, py) <= PtToAssetRate(base, left, sy, py)
          /\ PtToAssetRate(disp, left, sy, py) \in Nat
      BY <1>1, <1>2, <2>3, PriceFalls
    <3>2. q <= p /\ q \in Nat
      BY <1>3, <3>1
    <3> HIDE DEF p, q
    <3> QED
      BY <1>1, <2>1, <2>2, <3>2, SMT
  <2> HIDE DEF disp, base
  <2> QED
    BY <1>1, <1>2, <2>3, SMT
<1> HIDE DEF p, q, raw, disp, tw
<1>8. a \in Nat \ {0} /\ b \in Nat
  <2>1. a \in Nat /\ b \in Nat
    BY <1>1, <1>2, <1>5
  <2>2. ASSUME a = 0 PROVE FALSE
    <3>1. p = IF sy >= py THEN a ELSE (a * sy) \div py
      BY <1>3, <1>h
    <3>2. ASSUME ~ (sy >= py) PROVE (0 * sy) \div py = 0
      <4>1. py \in Nat \ {0} /\ 0 * sy = 0
        BY <1>1, <3>2, SMT
      <4> QED
        BY <4>1, SMT
    <3> QED
      BY <1>1, <2>2, <3>1, <3>2
  <2> QED
    BY <2>1, <2>2
<1>9. ASSUME NEW h \in HELD PROVE HeldSeconds(h) \in Nat
  <2>1. h \in Nat
    BY WindowAssumption
  <2>2. D * h \in Nat
    BY <1>1, <2>1, SMT
  <2> QED
    BY <2>2, SMT DEF HeldSeconds
<1>10. ASSUME NEW g \in HELD, NEW h \in HELD, g <= h
       PROVE  /\ tw(g) \in disp .. base /\ tw(h) \in disp .. base /\ tw(h) <= tw(g)
              /\ g = 0 => tw(g) = base
              /\ g >= 4 => tw(g) = disp
  <2>1. g \in Nat /\ h \in Nat
    BY WindowAssumption
  <2>2. HeldSeconds(g) \in Nat /\ HeldSeconds(h) \in Nat
    BY <1>9
  <2>3. HeldSeconds(g) <= HeldSeconds(h)
    <3>1. D * g \in Nat /\ D * h \in Nat /\ D * g <= D * h
      BY <1>1, <1>10, <2>1, SMT
    <3>2. 4 \in Nat \ {0}
      BY SMT
    <3> QED
      BY <3>1, <3>2, DivMonotone DEF HeldSeconds
  <2>4. g = 0 => HeldSeconds(g) = 0
    <3> SUFFICES ASSUME g = 0 PROVE (D * 0) \div 4 = 0
      BY DEF HeldSeconds
    <3> QED
      BY <1>1, SMT
  <2>5. g >= 4 => HeldSeconds(g) >= D
    <3> SUFFICES ASSUME g >= 4 PROVE (D * g) \div 4 >= D
      BY DEF HeldSeconds
    <3>1. D * 4 \in Nat /\ D * g \in Nat /\ D * 4 <= D * g /\ 4 \in Nat \ {0} /\ D \in Nat
      BY <1>1, <2>1, SMT
    <3>2. (D * 4) \div 4 <= (D * g) \div 4 /\ (D * 4) \div 4 = D /\ (D * g) \div 4 \in Nat
      BY <3>1, DivMonotone, DivOfProduct, DivBounds
    <3> QED
      BY <1>1, <3>2, SMT
  <2> DEFINE x == HeldSeconds(g)
             y == HeldSeconds(h)
  <2>6. tw(g) = DilutedTwap(base, disp, x, D) /\ tw(h) = DilutedTwap(base, disp, y, D)
    BY DEF tw
  <2>7. x \in Nat /\ y \in Nat /\ x <= y /\ (g = 0 => x = 0) /\ (g >= 4 => x >= D)
    BY <2>2, <2>3, <2>4, <2>5
  <2> HIDE DEF base, D, x, y
  <2>8. /\ DilutedTwap(base, disp, x, D) \in disp .. base
        /\ DilutedTwap(base, disp, y, D) \in disp .. base
        /\ DilutedTwap(base, disp, y, D) <= DilutedTwap(base, disp, x, D)
        /\ x = 0 => DilutedTwap(base, disp, x, D) = base
        /\ x >= D => DilutedTwap(base, disp, x, D) = disp
    <3>1. /\ base \in Nat /\ disp \in Nat /\ disp <= base /\ x \in Nat /\ y \in Nat /\ x <= y
          /\ D \in Nat \ {0}
      BY <1>1, <1>2, <1>7, <2>7
    <3>2. DilutedTwap(base, disp, x, D) \in disp .. base
      BY <3>1, DilutedBetween, Zenon
    <3>3. DilutedTwap(base, disp, y, D) \in disp .. base
      BY <3>1, DilutedBetween, Zenon
    <3>4. DilutedTwap(base, disp, y, D) <= DilutedTwap(base, disp, x, D)
      BY <3>1, DilutedBetween, Zenon
    <3>5. x = 0 => DilutedTwap(base, disp, x, D) = base
      BY <3>1, DilutedBetween, Zenon
    <3>6. x >= D => DilutedTwap(base, disp, x, D) = disp
      BY <3>1, DilutedWhole, Zenon
    <3> QED
      BY <3>2, <3>3, <3>4, <3>5, <3>6
  <2> QED
    BY <2>6, <2>7, <2>8
<1> HIDE DEF base, D, a, b
<1>r. a = raw(base) /\ b = raw(disp)
  BY DEF a, b
<1>11. ASSUME NEW g \in HELD, NEW h \in HELD, g <= h
       PROVE  /\ raw(tw(g)) \in Nat /\ raw(tw(h)) \in Nat
              /\ a <= raw(tw(g)) /\ raw(tw(g)) <= raw(tw(h)) /\ raw(tw(h)) <= b
              /\ g = 0 => raw(tw(g)) = a
              /\ g >= 4 => raw(tw(g)) = b
  <2>1. /\ tw(g) \in disp .. base /\ tw(h) \in disp .. base /\ tw(h) <= tw(g)
        /\ g = 0 => tw(g) = base
        /\ g >= 4 => tw(g) = disp
    BY <1>10, <1>11
  <2>2. /\ tw(g) \in Nat /\ tw(h) \in Nat /\ tw(g) <= base /\ disp <= tw(h)
    BY <1>1, <1>2, <2>1, SMT
  <2> QED
    BY <1>1, <1>2, <1>5, <1>6, <1>r, <2>1, <2>2
<1> DEFINE part(h) == Ratio(raw(tw(h)), a)
<1>12. ASSUME NEW g \in HELD, NEW h \in HELD, g <= h
       PROVE  /\ part(g) \in Nat /\ part(h) \in Nat /\ part(g) <= part(h)
              /\ ONE <= part(g) /\ part(h) <= Ratio(b, a) /\ Ratio(b, a) \in Nat
              /\ g = 0 => part(g) = ONE
              /\ g >= 4 => part(g) = Ratio(b, a)
  <2>1. /\ raw(tw(g)) \in Nat /\ raw(tw(h)) \in Nat
        /\ a <= raw(tw(g)) /\ raw(tw(g)) <= raw(tw(h)) /\ raw(tw(h)) <= b
        /\ g = 0 => raw(tw(g)) = a
        /\ g >= 4 => raw(tw(g)) = b
    BY <1>11, <1>12
  <2> DEFINE x == raw(tw(g))
             y == raw(tw(h))
  <2>2. a \in Nat /\ a \in Nat \ {0} /\ b \in Nat /\ x \in Nat /\ y \in Nat
        /\ a <= x /\ x <= y /\ y <= b /\ part(g) = Ratio(x, a) /\ part(h) = Ratio(y, a)
        /\ (g = 0 => x = a) /\ (g >= 4 => x = b)
    BY <1>8, <2>1
  <2> HIDE DEF x, y, part
  <2>3. Ratio(a, a) = ONE /\ Ratio(a, a) <= Ratio(x, a)
    BY <2>2, RatioRises
  <2>4. Ratio(x, a) \in Nat /\ Ratio(y, a) \in Nat /\ Ratio(x, a) <= Ratio(y, a)
    BY <2>2, RatioRises
  <2>5. Ratio(y, a) <= Ratio(b, a) /\ Ratio(b, a) \in Nat
    BY <2>2, RatioRises
  <2> QED
    BY <2>2, <2>3, <2>4, <2>5
<1>t. \A h \in HELD : row.transmitted[h] = part(h) - ONE
  BY <1>4
<1>l. \A h \in HELD : h <= h
  BY WindowAssumption, SMT
<1> HIDE DEF part
<1>13. ASSUME NEW h \in HELD
       PROVE  LET over == row.transmitted[h] - row.achieved
              IN  /\ row.transmitted[h] >= 0
                  /\ over > 0 => sy < py /\ (over - 1) * p < ONE
  <2> DEFINE over == row.transmitted[h] - row.achieved
  <2>1. part(h) \in Nat /\ ONE <= part(h) /\ part(h) <= Ratio(b, a) /\ Ratio(b, a) \in Nat
    BY <1>12, <1>l
  <2>2. p = (IF sy >= py THEN a ELSE (a * sy) \div py)
        /\ q = (IF sy >= py THEN b ELSE (b * sy) \div py)
    BY <1>3, <1>h, <1>r
  <2>3. row.transmitted[h] = part(h) - ONE /\ row.achieved = Ratio(q, p) - ONE
    BY <1>4, <1>t
  <2>4. row.transmitted[h] >= 0
    BY <1>1, <2>1, <2>3, SMT
  <2>5. CASE sy >= py
    <3>1. Ratio(q, p) = Ratio(b, a)
      BY <2>2, <2>5
    <3>2. over = (part(h) - ONE) - (Ratio(b, a) - ONE)
      BY <2>3, <3>1
    <3> HIDE DEF over
    <3>3. ~ (over > 0)
      BY <1>1, <2>1, <3>2, SMT
    <3> QED
      BY <2>4, <3>3 DEF over
  <2>6. CASE ~ (sy >= py)
    <3>1. sy < py /\ py \in Nat \ {0}
      BY <1>1, <2>6, SMT
    <3>2. p = (a * sy) \div py /\ q = (b * sy) \div py
      BY <2>2, <2>6
    <3>3. q \in Nat
      <4>1. b * sy \in Nat
        BY <1>1, <1>8, SMT
      <4> QED
        BY <3>1, <3>2, <4>1, DivBounds
    <3>4. Ratio(q, p) \in Nat
      <4>1. q <= q
        BY <3>3, SMT
      <4> QED
        BY <1>1, <3>3, <4>1, RatioRises
    <3>5. over = (part(h) - ONE) - (Ratio(q, p) - ONE)
      BY <2>3
    <3> HIDE DEF over, sy, py
    <3>6. over \in Int /\ over <= Ratio(b, a) - Ratio(q, p)
      BY <1>1, <2>1, <3>4, <3>5, SMT
    <3>7. (over - 1) * p < ONE
      BY <1>1, <1>8, <3>1, <3>2, <3>3, <3>6, HaircutRounds
    <3> QED
      BY <2>4, <3>1, <3>7 DEF over
  <2> QED
    BY <2>5, <2>6
<1>14. ASSUME NEW g \in HELD, NEW h \in HELD
       PROVE  /\ g <= h => row.transmitted[g] <= row.transmitted[h]
              /\ g >= 4 /\ h >= 4 => row.transmitted[g] = row.transmitted[h]
  <2>1. row.transmitted[g] = part(g) - ONE /\ row.transmitted[h] = part(h) - ONE
    BY <1>t
  <2>2. ASSUME g <= h PROVE row.transmitted[g] <= row.transmitted[h]
    <3>1. part(g) \in Nat /\ part(h) \in Nat /\ part(g) <= part(h)
      BY <1>12, <2>2
    <3> QED
      BY <1>1, <2>1, <3>1, SMT
  <2>3. g >= 4 /\ h >= 4 => part(g) = part(h)
    BY <1>12, <1>l
  <2> QED
    BY <2>1, <2>2, <2>3
<1>15. 0 \in HELD => row.transmitted[0] = 0
  <2> SUFFICES ASSUME 0 \in HELD PROVE row.transmitted[0] = 0
    OBVIOUS
  <2>1. part(0) = ONE
    BY <1>12, <1>l
  <2>2. ONE - ONE = 0
    BY <1>1, SMT
  <2> QED
    BY <1>t, <2>1, <2>2
<1>16. ASSUME NEW h \in HELD
       PROVE  DilutedTwap(row.base, row.displaced, HeldSeconds(h), TWAP_DURATION)
                = TwapLnImpliedRate(<< [rate |-> row.base, seconds |-> TWAP_DURATION],
                                       [rate |-> row.displaced, seconds |-> HeldSeconds(h)] >>,
                                    TWAP_DURATION)
  BY <1>1, <1>2, <1>4, <1>9, TwapOfTwo DEF D
<1> QED
  BY <1>13, <1>14, <1>15, <1>16, Zenon DEF TransmissionBounded, p

------------------------------------------------------------------------------
(***************************************************************************)
(* The rows.                                                               *)
(***************************************************************************)
(* What the row made last shows of the pool and the search it is made from.*)
Lent(r) ==
  /\ r.lltv \in 1 .. ONE /\ r.oracleDisplacement \in Nat /\ r.basePrice \in Nat
  /\ r.borrowCapacity = MaxBorrow(ONE, Times(r.basePrice, ONE + r.oracleDisplacement), r.lltv)

Reachable(r) ==
  /\ r.displacement.insolvencyReachable
       = DisplacementInsolvencyReachable(r.referencePrice, r.lltv, ONE)
  /\ r.settled.oraclePriceExceedsRedemptionCeiling = (r.oraclePrice > REDEMPTION_CEILING)

Made(r, a) ==
  /\ r.sweep = "maturity" =>
       \E m : Computable(m) /\ m.pyIndex > 0 /\ r = Compared(m, m.totalPt \div 100)
  /\ r.sweep = "transmission" /\ r.achievable =>
       \E f \in TARGETS, size \in Nat \ {0} :
         ReachesIn(a.market, f, size) /\ r = Transmitted(a.market, size)
  /\ r.sweep = "propagation" => Lent(r)
  /\ r.sweep = "stress" => Reachable(r)
  /\ r.sweep \in {"leverage", "stress"} => r.settled.realizableValuePerPt \in Int

MadeInv == Made(row, anchor)

LEMMA MadeInit == Init => MadeInv
BY DEF Init, MadeInv, Made, NoRow

LEMMA ComparedMade ==
  ASSUME GridInv, Sweep = "maturity", todo # {}, MaturityRow
  PROVE  Made(row', anchor)
<1> DEFINE m == Reshape(anchor.market, Combination, 1)
<1>1. row' = Compared(m, m.totalPt \div 100)
  <2> DEFINE size == m.totalPt \div 100
             linear(d) == ValuationSnapshot(m, BlockTime,
                            [kind |-> "PendleSparkLinearDiscountOracle",
                             baseDiscountPerYear |-> d], size)
             twap == ValuationSnapshot(m, BlockTime,
                       [kind |-> "PendleChainlinkOracle",
                        twapLnImpliedRate |-> m.lastLnImpliedRate], size)
  <2>1. RowsMade([sweep |-> Sweep, market |-> m, twap |-> twap,
                  linear |-> [d \in DISCOUNTS |-> linear(d)]], 1)
    BY Zenon DEF MaturityRow
  <2>2. row' = [sweep |-> "maturity", market |-> m, twap |-> twap,
                linear |-> [d \in DISCOUNTS |-> linear(d)]]
    BY <2>1, Zenon DEF RowsMade
  <2> QED
    BY <2>2, Zenon DEF Compared
<1>2. Combination \in HORIZONS
  BY TargetsListed
<1>3. Computable(m) /\ m.pyIndex > 0
  BY <1>2, ReshapedPool
<1>4. row'.sweep = "maturity"
  BY <1>1 DEF Compared
<1> HIDE DEF m
<1> QED
  BY <1>1, <1>3, <1>4 DEF Made

LEMMA TransmittedMade ==
  ASSUME SearchInv, PoolInv, search = SearchIdle \/ SearchTyped(search), TransmissionRow
  PROVE  Made(row', anchor)
<1> DEFINE size == search.hi
<1>1. Sweep = "transmission" /\ Answered
  BY DEF TransmissionRow
<1>2. CASE ~ Achievable
  <2>1. row' = [sweep |-> "transmission", achievable |-> FALSE]
    BY <1>1, <1>2 DEF TransmissionRow, RowsMade
  <2> QED
    BY <2>1 DEF Made
<1>3. CASE Achievable
  <2>1. search.status = "found" /\ search # SearchIdle
    BY <1>3 DEF Achievable, SearchIdle
  <2>2. Bracketed(search) /\ SearchTyped(search) /\ Solvable(search)
        /\ search.market = anchor.market /\ search.fraction \in TARGETS
    BY <1>1, <2>1 DEF SearchInv, PoolInv, Live
  <2>3. size \in Nat \ {0} /\ ReachesIn(anchor.market, search.fraction, size)
    <3>1. search.lo \in Nat /\ search.hi \in Nat /\ search.lo < search.hi
      BY <2>2 DEF Bracketed, SearchTyped
    <3>2. search.hi \in Nat \ {0}
      BY <3>1, SMT
    <3>3. ReachesIn(search.market, search.fraction, search.hi)
      BY <2>1, <2>2 DEF Bracketed
    <3> QED
      BY <2>2, <3>2, <3>3
  <2>4. row' = Transmitted(anchor.market, size)
    <3>1. row' = [sweep |-> "transmission", achievable |-> TRUE,
                  base |-> anchor.market.lastLnImpliedRate,
                  displaced |-> DisplacedLnImpliedRate,
                  achieved |-> AchievedFraction,
                  transmitted |-> [h \in HELD |->
                    TwapTransmitted(anchor.market, DisplacedLnImpliedRate,
                                    HeldSeconds(h), TWAP_DURATION)]]
      BY <1>1, <1>3, Zenon DEF TransmissionRow, RowsMade
    <3>2. DisplacedLnImpliedRate
            = ExecuteTrade(anchor.market, size, BlockTime).market.lastLnImpliedRate
      BY <2>2 DEF DisplacedLnImpliedRate
    <3>3. AchievedFraction = Ratio(PriceAfter(anchor.market, size),
                                   MarketImpliedValue(anchor.market, BlockTime)) - ONE
      BY <2>2 DEF AchievedFraction, BasePrice
    <3> QED
      BY <3>1, <3>2, <3>3, Zenon DEF Transmitted
  <2>5. row'.sweep = "transmission"
    BY <2>4 DEF Transmitted
  <2> HIDE DEF size
  <2> QED
    BY <2>2, <2>3, <2>4, <2>5 DEF Made
<1> QED
  BY <1>2, <1>3

LEMMA LentMade ==
  ASSUME GridInv, PropagationRow
  PROVE  Made(row', anchor)
<1> DEFINE base == MarketImpliedValue(anchor.market, BlockTime)
           l == Combination[1]
           d == Combination[2]
           own == MaxBorrow(ONE, base, l)
           lent == MaxBorrow(ONE, Times(base, ONE + d), l)
<1>1. Sweep = "propagation" /\ todo # {}
  BY DEF PropagationRow
<1>2. row' = [sweep |-> "propagation", lltv |-> l, oracleDisplacement |-> d,
              basePrice |-> base, baseCapacity |-> own, borrowCapacity |-> lent]
  BY <1>1, Zenon DEF PropagationRow, RowsMade
<1>3. l \in LLTVS /\ d \in TARGETS \cup {0}
  BY <1>1, TargetsListed
<1>4. l \in 1 .. ONE /\ d \in Nat
  <2> HIDE DEF l, d
  <2>1. l \in 1 .. ONE
    BY <1>3, GridAssumption
  <2>2. d \in TARGETS \/ d = 0
    BY <1>3
  <2>3. d \in Nat
    <3>1. \A f \in TARGETS : f \in Nat
      BY WindowAssumption
    <3>2. 0 \in Nat
      BY SMT
    <3> QED
      BY <2>2, <3>1, <3>2
  <2> QED
    BY <2>1, <2>3
<1>5. base \in Nat
  BY AnchorWorth
<1>6. lent = MaxBorrow(ONE, Times(base, ONE + d), l)
  OBVIOUS
<1> HIDE DEF base, l, d, own, lent
<1>7. row'.sweep = "propagation" /\ Lent(row')
  BY <1>2, <1>4, <1>5, <1>6 DEF Lent
<1> QED
  BY <1>7 DEF Made

(* What a sale the pool takes returns per PT is a number.                  *)
LEMMA SaleInt ==
  ASSUME NEW m, Computable(m), NEW n \in Nat \ {0}, Takes(m, - n, BlockTime)
  PROVE  Ratio(ExecuteTrade(m, - n, BlockTime).trade.netAssetToAccount, n) \in Int
<1> DEFINE comp == Pre(m)
           w    == m.totalPt + comp.totalAsset
           q    == m.totalPt + n
           er   == ExchangeRate(m, comp, - n)
           pre  == Ratio(n, er)
           g    == ONE - comp.feeRate
           fee  == - ((pre * g) \div comp.feeRate)
<1>1. m \in Market /\ m.totalPt \in Nat /\ ONE \in Nat \ {0}
  BY OneAssumption, SMT DEF Computable, Market
<1>2. Open(m, BlockTime) /\ ~ RefusesTrade(m, comp, - n)
  BY <1>1, AfterMeans
<1>3. Computed(comp)
  BY <1>2, PreComputeTyped DEF Computable, Pre
<1>4. m.totalPt - (- n) = q /\ - (- n) = n /\ ~ (- n > 0)
  BY <1>1, SMT
<1>5. ~ OffCurve(comp, q, w) /\ er = CurveRate(comp, q, w)
  BY <1>2, <1>4, Zenon DEF RefusesTrade, ExchangeRate
<1>6. q \in Int /\ w \in Int /\ comp.feeRate \in Nat \ {0} /\ g \in Int
  BY <1>1, <1>3, SMT DEF Computed
<1>7. ExecuteTrade(m, - n, BlockTime).trade.netAssetToAccount = pre - fee
  <2>1. ExecuteTrade(m, - n, BlockTime).trade.netAssetToAccount
          = Ratio(- (- n), er) - Fee(Ratio(- (- n), er), comp.feeRate, - n)
    BY DEF ExecuteTrade, CalcTrade, Pre
  <2> QED
    BY <1>4, <2>1 DEF Fee
<1> HIDE DEF comp, q, w, er, g
<1>8. er \in Nat \ {0}
  <2>1. er \in Nat /\ er >= ONE
    BY <1>3, <1>5, <1>6, OnCurve
  <2> QED
    BY <1>1, <2>1, SMT
<1>9. pre \in Nat
  <2>1. n * ONE \in Nat
    BY <1>1, SMT
  <2> QED
    BY <1>8, <2>1, DivBounds DEF Ratio
<1> HIDE DEF pre
<1>10. fee \in Int
  <2>1. pre * g \in Int
    BY <1>6, <1>9, SMT
  <2>2. (pre * g) \div comp.feeRate \in Int
    BY <1>6, <2>1, IntDiv
  <2> QED
    BY <2>2, SMT
<1> HIDE DEF fee
<1>11. (pre - fee) * ONE \in Int
  BY <1>1, <1>9, <1>10, SMT
<1>12. ((pre - fee) * ONE) \div n \in Int
  <2> DEFINE a == (pre - fee) * ONE
  <2>1. a \in Int
    BY <1>11
  <2> HIDE DEF a
  <2>2. a \div n \in Int
    BY <2>1, IntDiv
  <2> QED
    BY <2>2 DEF a
<1> QED
  BY <1>7, <1>12 DEF Ratio

LEMMA LoopRowSold ==
  ASSUME LoopInv, LoopBooks, loop.status = "done", NEW sweep, NEW d, NEW displacement
  PROVE  LoopRow(sweep, d, displacement).settled.realizableValuePerPt \in Int
<1> DEFINE m    == loop.market
           size == loop.collateralPt
           sold == RealizableValuePerPt(m, size, BlockTime)
<1>0. loop # LoopIdle
  BY DEF LoopIdle
<1>1. Computable(m) /\ size \in Nat /\ ONE \in Nat \ {0}
  BY <1>0, OneAssumption DEF LoopInv, Backed, LoopBooks, LoopTyped
<1>2. LoopRow(sweep, d, displacement).settled.realizableValuePerPt = sold
  BY DEF LoopRow, Settle
<1>3. CASE size <= 0
  <2>1. m.lastLnImpliedRate \in Nat /\ m.syIndex \in Nat /\ m.pyIndex \in Nat
        /\ m.expiry - BlockTime \in Int
    BY <1>1, SearchAssumption, SMT DEF Computable, Market
  <2>2. MarketImpliedValue(m, BlockTime) \in Int
    <3> DEFINE left == m.expiry - BlockTime
               E    == ExchangeRateFromImpliedRate(m.lastLnImpliedRate, left)
               raw  == PtToAssetRateFromLnImpliedRate(m.lastLnImpliedRate, left)
    <3>1. raw \in Int
      <4>1. CASE left <= 0
        BY <1>1, <4>1 DEF PtToAssetRateFromLnImpliedRate
      <4>2. CASE ~ (left <= 0)
        <5>1. m.lastLnImpliedRate * left \in Nat
          BY <2>1, <4>2, SMT
        <5>2. (m.lastLnImpliedRate * left) \div YEAR \in Nat
          BY <5>1, YearAssumption, DivBounds
        <5>3. E \in Nat \ {0}
          BY <5>2, ExpAtLeastOne DEF ExchangeRateFromImpliedRate
        <5>4. ONE * ONE \in Nat
          BY <1>1, SMT
        <5>5. (ONE * ONE) \div E \in Nat
          BY <5>3, <5>4, DivBounds
        <5>6. raw = (ONE * ONE) \div E
          BY <4>2, Zenon DEF PtToAssetRateFromLnImpliedRate, Ratio
        <5> QED
          BY <5>5, <5>6, SMT
      <4> QED
        BY <4>1, <4>2
    <3>2. MarketImpliedValue(m, BlockTime)
            = IF m.syIndex >= m.pyIndex THEN raw ELSE (raw * m.syIndex) \div m.pyIndex
      BY DEF MarketImpliedValue, PtToAssetRate
    <3> HIDE DEF raw
    <3>3. CASE m.syIndex >= m.pyIndex
      BY <3>1, <3>2, <3>3
    <3>4. CASE ~ (m.syIndex >= m.pyIndex)
      <4>1. raw * m.syIndex \in Int /\ m.pyIndex \in Nat \ {0}
        BY <2>1, <3>1, <3>4, SMT
      <4>2. (raw * m.syIndex) \div m.pyIndex \in Int
        BY <4>1, IntDiv
      <4> QED
        BY <3>2, <3>4, <4>2
    <3> QED
      BY <3>3, <3>4
  <2> QED
    BY <1>2, <1>3, <2>2 DEF RealizableValuePerPt
<1>4. CASE ~ (size <= 0) /\ ~ Takes(m, - size, BlockTime)
  BY <1>2, <1>4, SMT DEF RealizableValuePerPt, Unsellable
<1>5. CASE ~ (size <= 0) /\ Takes(m, - size, BlockTime)
  <2>1. size \in Nat \ {0}
    BY <1>1, <1>5, SMT
  <2>2. sold = Ratio(ExecuteTrade(m, - size, BlockTime).trade.netAssetToAccount, size)
    BY <1>5, Zenon DEF RealizableValuePerPt
  <2> QED
    BY <1>1, <1>2, <1>5, <2>1, <2>2, SaleInt
<1> QED
  BY <1>3, <1>4, <1>5

LEMMA ReachableMade ==
  ASSUME LoopInv, LoopBooks, StressRow
  PROVE  Made(row', anchor)
<1> DEFINE columns == [achievable |-> Combination[5] = 0 \/ Achievable,
                       required   |-> InsolvencyDisplacementThreshold(loop.lltv),
                       insolvencyReachable |->
                         DisplacementInsolvencyReachable(ReferencePrice, loop.lltv, ONE)]
           s == Settle(ReferencePrice, InitialPtCost)
           r == LoopRow("stress", Combination[5], columns)
<1>1. row' = r
  BY Zenon DEF StressRow, RowsMade
<1>2. columns.insolvencyReachable = DisplacementInsolvencyReachable(ReferencePrice, loop.lltv, ONE)
  OBVIOUS
<1>3. s.oraclePriceExceedsRedemptionCeiling = (loop.oraclePrice > REDEMPTION_CEILING)
  BY DEF Settle
<1> HIDE DEF columns, s
<1>4. /\ r.sweep = "stress" /\ r.lltv = loop.lltv /\ r.referencePrice = ReferencePrice
      /\ r.oraclePrice = loop.oraclePrice /\ r.settled = s /\ r.displacement = columns
  BY DEF LoopRow, s
<1> HIDE DEF r
<1>5. Reachable(r)
  BY <1>2, <1>3, <1>4 DEF Reachable
<1>6. r.settled.realizableValuePerPt \in Int
  <2>1. loop.status = "done"
    BY DEF StressRow
  <2> QED
    BY <2>1, LoopRowSold DEF r
<1> QED
  BY <1>1, <1>4, <1>5, <1>6 DEF Made

LEMMA MadeStep == Inv /\ TypedInv /\ PoolInv /\ MadeInv /\ [Next]_vars => MadeInv'
<1> SUFFICES ASSUME Inv, TypedInv, PoolInv, MadeInv, [Next]_vars PROVE MadeInv'
  OBVIOUS
<1>0. GridInv /\ SearchInv /\ LoopInv /\ LoopBooks /\ (search = SearchIdle \/ SearchTyped(search))
  BY DEF Inv, TypedInv
<1>1. ASSUME UNCHANGED <<row, anchor>> PROVE MadeInv'
  BY <1>1 DEF MadeInv
<1>2. ASSUME anchor' = anchor, Made(row', anchor) PROVE MadeInv'
  BY <1>2 DEF MadeInv
<1>3. ASSUME NEW made, NEW n, RowsMade(made, n) PROVE row' = made /\ anchor' = anchor
  BY <1>3 DEF RowsMade
<1>4. CASE NextSweep \/ StartDisplacement \/ StartTransmission \/ StartLeverage \/ StartStress
           \/ StressSearch \/ Searching \/ Looping \/ UNCHANGED vars
  BY <1>1, <1>4, Zenon DEF NextSweep, StartDisplacement, StartTransmission, StartLeverage,
       StartStress, StressSearch, Searching, Looping, vars
<1>5. CASE MaturityRow
  <2>1. anchor' = anchor /\ Sweep = "maturity" /\ todo # {}
    BY <1>5, <1>3, Zenon DEF MaturityRow
  <2> QED
    BY <1>0, <1>2, <1>5, <2>1, ComparedMade
<1>6. CASE TransmissionRow
  <2>1. anchor' = anchor
    BY <1>6, <1>3, Zenon DEF TransmissionRow
  <2> QED
    BY <1>0, <1>2, <1>6, <2>1, TransmittedMade
<1>7. CASE PropagationRow
  <2>1. anchor' = anchor
    BY <1>7, <1>3, Zenon DEF PropagationRow
  <2> QED
    BY <1>0, <1>2, <1>7, <2>1, LentMade
<1>8. CASE StressRow
  <2>1. anchor' = anchor
    BY <1>8, <1>3, Zenon DEF StressRow
  <2> QED
    BY <1>0, <1>2, <1>8, <2>1, ReachableMade
<1>9. ASSUME NEW made, NEW n, RowsMade(made, n),
             ~ (made.sweep \in {"maturity", "transmission", "propagation", "leverage", "stress"})
      PROVE  MadeInv'
  BY <1>2, <1>3, <1>9 DEF Made
<1>10. CASE DisplacementRow
  <2>1. RowsMade(SearchRow(Sweep), 1) /\ Sweep = "displacement"
    BY <1>10 DEF DisplacementRow
  <2>2. SearchRow(Sweep).sweep = "displacement"
    BY <2>1 DEF SearchRow
  <2> QED
    BY <1>9, <2>1, <2>2
<1>11. CASE LeverageRow
  <2>1. RowsMade(LoopRow(Sweep, Combination[1], NoRow), 1) /\ Sweep = "leverage"
    BY <1>11 DEF LeverageRow
  <2> DEFINE r == LoopRow(Sweep, Combination[1], NoRow)
  <2>2. r.sweep = "leverage"
    BY <2>1 DEF LoopRow
  <2>3. r.settled.realizableValuePerPt \in Int
    <3>1. loop.status = "done"
      BY <1>11 DEF LeverageRow
    <3> QED
      BY <1>0, <3>1, LoopRowSold
  <2>4. row' = r /\ anchor' = anchor
    BY <1>3, <2>1
  <2> HIDE DEF r
  <2>5. Made(r, anchor)
    BY <2>2, <2>3 DEF Made
  <2> QED
    BY <1>2, <2>4, <2>5
<1>12. CASE PortValidationRow
  <2>1. Sweep = "portValidation"
    BY <1>12 DEF PortValidationRow
  <2>2. CASE RowsMade(row, 0)
    BY <1>1, <1>3, <2>2
  <2>3. CASE \E modelled, onChain :
               RowsMade([sweep |-> Sweep, modelled |-> modelled, onChain |-> onChain], 1)
    BY <1>9, <2>1, <2>3
  <2> QED
    BY <1>12, <2>2, <2>3, Zenon DEF PortValidationRow
<1> QED
  BY <1>4, <1>5, <1>6, <1>7, <1>8, <1>10, <1>11, <1>12, Zenon DEF Next

RowAll == PoolAll /\ TypedInv /\ MadeInv

LEMMA RowAlways == Spec => []RowAll
<1>1. Init => RowAll
  BY InvInit, RowsInit, PoolInit, TypedInit, MadeInit DEF RowAll, PoolAll
<1>2. RowAll /\ [Next]_vars => RowAll'
  BY InvStep, RowsStep, PoolStep, TypedStep, MadeStep DEF RowAll, PoolAll
<1> QED
  BY <1>1, <1>2, PTL DEF Spec

(* liquidationOutcome and settleLoop: whatever the pool, the price, the    *)
(* depth and the LLTV, a liquidation of the loop creates and loses no      *)
(* collateral; it leaves the whole debt where it does not pay at its price *)
(* and else exactly what the whole collateral would not repay at it; where *)
(* it pays while the oracle is displaced it pays once the oracle reverts;  *)
(* and a loan above what the collateral sells for is never cleared.        *)
THEOREM ShortfallAlwaysReal == Spec => []ShortfallIsReal
<1>1. RowAll => ShortfallIsReal
  <2> DEFINE displaced == row.settled.liquidation
             reverted  == row.settled.liquidationAfterOracleReverts
             c         == row.loop.collateralPt
             debt      == row.loop.debt
             perPt     == row.settled.realizableValuePerPt
             worth     == SoldFor(perPt)
             lif       == LiquidationIncentiveFactor(row.lltv)
  <2> SUFFICES ASSUME RowAll, row.sweep \in {"leverage", "stress"} PROVE ShortfallIsReal
    BY DEF ShortfallIsReal
  <2>1. Settled(row) /\ perPt \in Int
    BY DEF RowAll, PoolAll, RowsInv, RowInv, MadeInv, Made
  <2>2. /\ c \in Nat /\ debt \in Nat /\ row.lltv \in 1 .. ONE
        /\ row.referencePrice \in Nat \ {0} /\ row.oraclePrice \in Nat \ {0}
        /\ row.referencePrice <= row.oraclePrice
    <3>1. /\ row.referencePrice \in Nat \ {0} /\ row.oracleDisplacement \in Nat
          /\ row.oraclePrice = Times(row.referencePrice, ONE + row.oracleDisplacement)
      BY <2>1 DEF Settled
    <3> QED
      BY <2>1, <3>1, DisplacedPositive DEF Settled
  <2>3. /\ displaced = LiquidationOutcome(c, debt, row.oraclePrice, worth, row.lltv)
        /\ reverted = LiquidationOutcome(c, debt, row.referencePrice, worth, row.lltv)
        /\ row.settled.solventUnderRealizableMark = (Times(c, worth) >= debt)
        /\ row.settled.protocolShortfall = reverted.debtRemaining
    BY <2>1 DEF Settled
  <2>4. worth \in Int
    <3> HIDE DEF perPt
    <3> QED
      BY <2>1, SMT DEF SoldFor
  <2> HIDE DEF displaced, reverted, c, debt, worth
  <2>5. /\ Real(displaced, c, debt, row.oraclePrice, worth, row.lltv)
        /\ Real(reverted, c, debt, row.referencePrice, worth, row.lltv)
    BY <2>2, <2>3, <2>4, OutcomeReal
  <2>6. lif \in Nat \ {0}
    BY <2>2, IncentiveAtLeastOne, OneAssumption, SMT
  <2> HIDE DEF lif
  <2>7. /\ Ratio(row.oraclePrice, lif) \in Nat /\ Ratio(row.referencePrice, lif) \in Nat
        /\ Ratio(row.referencePrice, lif) <= Ratio(row.oraclePrice, lif)
    <3>1. /\ row.referencePrice * ONE \in Nat /\ row.oraclePrice * ONE \in Nat
          /\ row.referencePrice * ONE <= row.oraclePrice * ONE
      BY <2>2, OneAssumption, SMT
    <3> QED
      BY <2>6, <3>1, DivMonotone, DivBounds DEF Ratio
  <2>8. ASSUME NEW price, Ratio(price, lif) \in Nat
        PROVE  PaysAt(price) = (worth > Ratio(price, lif))
    <3> DEFINE k == Ratio(price, lif)
    <3>1. PaysAt(price) = (perPt > k)
      BY DEF PaysAt, lif
    <3>2. (perPt > k) = (worth > k)
      <4>1. k \in Nat
        BY <2>8
      <4> HIDE DEF k, perPt
      <4>2. CASE perPt = Unsellable
        <5>1. worth = 0 /\ perPt = -1
          BY <4>2 DEF worth, SoldFor, Unsellable
        <5> QED
          BY <4>1, <5>1, SMT
      <4>3. CASE perPt # Unsellable
        BY <4>3 DEF worth, SoldFor
      <4> QED
        BY <4>2, <4>3
    <3> QED
      BY <3>1, <3>2
  <2>9. /\ displaced.debtRemaining = LeftAt(row.oraclePrice)
        /\ reverted.debtRemaining = LeftAt(row.referencePrice)
    BY <2>5, <2>7, <2>8 DEF Real, LeftAt, lif, c, debt
  <2>10. displaced.liquidationProfitable => reverted.liquidationProfitable
    <3>1. worth > Ratio(row.oraclePrice, lif) => worth > Ratio(row.referencePrice, lif)
      BY <2>4, <2>7, SMT
    <3> QED
      BY <2>5, <3>1 DEF Real, lif
  <2>11. ~ row.settled.solventUnderRealizableMark /\ debt > 0
           => displaced.debtRemaining > 0 /\ reverted.debtRemaining > 0
    <3>1. Times(c, worth) \in Int
      <4>1. c * worth \in Int
        BY <2>2, <2>4, SMT
      <4> QED
        BY <4>1, OneAssumption, IntDiv DEF Times
    <3>2. ~ (Times(c, worth) >= debt) => Times(c, worth) < debt
      BY <2>2, <3>1, SMT
    <3> QED
      BY <2>3, <2>5, <3>2 DEF Real
  <2>12. \A l \in {displaced, reverted} : l.seized + l.collateralRemaining = c
    BY <2>5 DEF Real
  <2> QED
    BY <2>3, <2>9, <2>10, <2>11, <2>12 DEF ShortfallIsReal, displaced, reverted, c, debt
<1> QED
  BY <1>1, RowAlways, PTL

(* ptValuation's rows, for every pool, horizon and linear feed: nothing is *)
(* worth more than it redeems for, the TWAP feed reports the price of the  *)
(* pool, a sale returns less than the pool implies unless the SY lost      *)
(* value, PT priced in SY and in the asset agree within a unit of the SY,  *)
(* and a smallest-of feed does not rise while its lower leg stays.         *)
THEOREM PricesAlwaysOrdered == Spec => []PricesOrdered
<1>1. RowAll => PricesOrdered
  <2> SUFFICES ASSUME RowAll, row.sweep = "maturity" PROVE PricesOrdered
    BY DEF PricesOrdered
  <2>1. PICK m : Computable(m) /\ m.pyIndex > 0 /\ row = Compared(m, m.totalPt \div 100)
    BY DEF RowAll, MadeInv, Made
  <2>2. m.totalPt \in Nat
    BY <2>1 DEF Computable, Market
  <2>3. m.totalPt \div 100 \in Nat
    BY <2>2, SMT
  <2> QED
    BY <2>1, <2>3, ComparedOrdered
<1> QED
  BY <1>1, RowAlways, PTL

(* A window transmits no more of a displacement than the pool shows, the   *)
(* more the longer it is held, all of it from a full window on and nothing *)
(* if it is not held; and dilutedTwap weighs as the accumulator of the     *)
(* pool does: for every pool, target, window and holding times.            *)
THEOREM TransmissionAlwaysBounded == Spec => []TransmissionBounded
<1>1. RowAll => TransmissionBounded
  <2> SUFFICES ASSUME RowAll, row.sweep = "transmission", row.achievable
               PROVE  TransmissionBounded
    BY DEF TransmissionBounded
  <2> DEFINE m == anchor.market
  <2>1. PICK f \in TARGETS, size \in Nat \ {0} :
          ReachesIn(m, f, size) /\ row = Transmitted(m, size)
    BY DEF RowAll, MadeInv, Made
  <2>2. GridInv /\ anchor \in Anchors /\ f \in Nat
    BY WindowAssumption DEF RowAll, PoolAll, Inv, GridInv
  <2>3. Computable(m) /\ MarketImpliedValue(m, BlockTime) \in Nat \ {0}
    BY <2>2, AnchorPool, AnchorWorth
  <2>4. MarketImpliedValue(m, BlockTime) < Times(MarketImpliedValue(m, BlockTime), ONE + f)
    BY <2>1, <2>2, FineAssumption
  <2>5. m = anchor.market
    OBVIOUS
  <2> HIDE DEF m
  <2> QED
    BY <2>1, <2>2, <2>3, <2>4, <2>5, TransmittedBounded
<1> QED
  BY <1>1, RowAlways, PTL

(* borrowCapacity and insolvencyDisplacementThreshold, for every price,    *)
(* LLTV and displacement: a displaced price lends more than the collateral *)
(* is worth beyond the threshold and not within it, a loop within it is    *)
(* covered, and where the rows call it out of reach it is.                 *)
THEOREM InsolvencyAlwaysNeedsDisplacement == Spec => []InsolvencyNeedsDisplacement
<1>1. RowAll => CapacityCrosses
  <2> DEFINE over == row.oracleDisplacement - InsolvencyDisplacementThreshold(row.lltv)
  <2> SUFFICES ASSUME RowAll, row.sweep = "propagation"
               PROVE  /\ over <= 0 => row.borrowCapacity <= row.basePrice
                      /\ Times(over - 1, row.basePrice) >= 2 + ONE \div row.lltv
                           => row.borrowCapacity > row.basePrice
    BY DEF CapacityCrosses
  <2>1. /\ row.lltv \in 1 .. ONE /\ row.oracleDisplacement \in Nat /\ row.basePrice \in Nat
        /\ row.borrowCapacity
             = MaxBorrow(ONE, Times(row.basePrice, ONE + row.oracleDisplacement), row.lltv)
    BY DEF RowAll, MadeInv, Made, Lent
  <2> DEFINE l == row.lltv
             d == row.oracleDisplacement
             base == row.basePrice
             t == InsolvencyDisplacementThreshold(l)
  <2>2. ONE \in Nat \ {0} /\ ONE \in Nat /\ t \in Int
    <3>1. ONE \in Nat \ {0} /\ ONE * ONE \in Nat /\ l \in Nat \ {0}
      BY <2>1, OneAssumption, SMT
    <3>2. (ONE * ONE) \div l \in Nat
      BY <3>1, DivBounds
    <3>3. t = (ONE * ONE) \div l - ONE
      BY DEF InsolvencyDisplacementThreshold, Ratio
    <3> HIDE DEF l, t
    <3> QED
      BY <3>1, <3>2, <3>3, SMT
  <2>3. over = d - t
    OBVIOUS
  <2> HIDE DEF l, d, base, t, over
  <2>4. ASSUME over <= 0 PROVE MaxBorrow(ONE, Times(base, ONE + d), l) <= base
    <3>1. d <= t
      BY <2>1, <2>2, <2>3, <2>4, SMT DEF d
    <3>2. MaxBorrow(ONE, Times(base, ONE + d), l) <= Times(ONE, base)
      BY <2>1, <2>2, <3>1, DeductibleCovers DEF l, d, base, t
    <3>3. Times(ONE, base) = base
      <4>1. ONE * base = base * ONE /\ base \in Nat
        BY <2>1, <2>2, SMT DEF base
      <4> QED
        BY <2>2, <4>1, DivOfProduct DEF Times
    <3> QED
      BY <3>2, <3>3
  <2>5. ASSUME Times(over - 1, base) >= 2 + ONE \div l
        PROVE  MaxBorrow(ONE, Times(base, ONE + d), l) > base
    <3>1. over \in Int /\ over = d - InsolvencyDisplacementThreshold(l)
      BY <2>1, <2>2, <2>3, SMT DEF d, t
    <3>2. l \in 1 .. ONE /\ d \in Nat /\ base \in Nat
      BY <2>1 DEF l, d, base
    <3> QED
      BY <2>5, <3>1, <3>2, LendsMoreBeyond
  <2> QED
    BY <2>1, <2>4, <2>5 DEF l, d, base
<1>2. RowsInv => CoveredWithinDeductible
  BY RowsCovered
<1>3. RowAll => OutOfReachMeansNone
  <2> SUFFICES ASSUME RowAll, row.sweep = "stress", ~ row.displacement.insolvencyReachable,
                      ~ row.settled.oraclePriceExceedsRedemptionCeiling
               PROVE  (row.oracleDisplacement - row.displacement.required - 1)
                        * row.referencePrice < ONE
    BY DEF OutOfReachMeansNone
  <2>1. Settled(row) /\ row.displacement.required = InsolvencyDisplacementThreshold(row.lltv)
    BY DEF RowAll, PoolAll, RowsInv, RowInv
  <2>2. /\ row.displacement.insolvencyReachable
             = DisplacementInsolvencyReachable(row.referencePrice, row.lltv, ONE)
        /\ row.settled.oraclePriceExceedsRedemptionCeiling = (row.oraclePrice > REDEMPTION_CEILING)
    BY DEF RowAll, MadeInv, Made, Reachable
  <2>3. /\ row.referencePrice \in Nat \ {0} /\ row.lltv \in 1 .. ONE
        /\ row.oracleDisplacement \in Nat
        /\ row.oraclePrice = Times(row.referencePrice, ONE + row.oracleDisplacement)
    BY <2>1 DEF Settled
  <2>4. Times(row.referencePrice, ONE + row.oracleDisplacement) <= ONE
    <3>1. Times(row.referencePrice, ONE + row.oracleDisplacement) \in Nat /\ ONE \in Nat
      BY <2>3, DisplacedPositive, OneAssumption
    <3>2. ~ (Times(row.referencePrice, ONE + row.oracleDisplacement) > ONE)
      BY <2>2, <2>3 DEF REDEMPTION_CEILING
    <3> QED
      BY <3>1, <3>2, SMT
  <2>5. ~ DisplacementInsolvencyReachable(row.referencePrice, row.lltv, ONE)
    BY <2>2
  <2> QED
    BY <2>1, <2>3, <2>4, <2>5, NoneOutOfReach
<1>4. RowAll => InsolvencyNeedsDisplacement
  BY <1>1, <1>2, <1>3 DEF InsolvencyNeedsDisplacement, RowAll, PoolAll
<1> QED
  BY <1>4, RowAlways, PTL

------------------------------------------------------------------------------
(***************************************************************************)
(* The exponential of a logarithm.                                         *)
(***************************************************************************)

LEMMA Scaled ==
  ASSUME NEW a \in Nat, NEW b \in Nat, NEW c \in Nat, a <= b
  PROVE  a * c <= b * c /\ c * a <= c * b /\ a * c \in Nat /\ b * c \in Nat
BY SMT

LEMMA Unscaled ==
  ASSUME NEW a \in Int, NEW b \in Int, NEW c \in Nat \ {0}, a * c <= b * c
  PROVE  a <= b
BY SMT

(* The series of the exponential without its quotients, 24 ONE^3 times as  *)
(* large.                                                                  *)
Quartic(x) ==
  24 * (ONE * ONE * ONE * ONE) + 24 * (ONE * ONE * ONE) * x
    + 12 * (ONE * ONE) * (x * x) + 4 * ONE * (x * x * x) + x * x * x * x

LEMMA TimesBelow ==
  ASSUME NEW a \in Nat, NEW b \in Nat
  PROVE  Times(a, b) \in Nat /\ Times(a, b) * ONE <= a * b
<1>1. a * b \in Nat
  BY SMT
<1>2. ONE * ((a * b) \div ONE) <= a * b /\ (a * b) \div ONE \in Nat
  BY <1>1, OneAssumption, DivBounds
<1> DEFINE q == (a * b) \div ONE
<1> HIDE DEF q
<1>3. q \in Nat /\ ONE * q <= a * b
  BY <1>2 DEF q
<1>4. ONE * q = q * ONE
  BY <1>3, OneAssumption, SMT
<1> QED
  BY <1>3, <1>4 DEF Times, q

LEMMA ExpWithin ==
  ASSUME NEW x \in Nat
  PROVE  24 * (ONE * ONE * ONE) * Exp(x) <= Quartic(x) /\ Exp(x) \in Nat
<1> DEFINE s == Times(x, x)
           t == Times(s, x)
           v == Times(s, s)
           h == s \div 2
           u == t \div 6
           w == v \div 24
           o == ONE
<1>o. o \in Nat \ {0}
  BY OneAssumption
<1>1. s \in Nat /\ t \in Nat /\ v \in Nat /\ s * o <= x * x /\ t * o <= s * x /\ v * o <= s * s
  BY TimesBelow
<1>2. Exp(x) = o + x + h + u + w
  BY DEF Exp
<1> HIDE DEF s, t, v, o
<1>3. h \in Nat /\ u \in Nat /\ w \in Nat /\ 2 * h <= s /\ 6 * u <= t /\ 24 * w <= v
  BY <1>1, SMT
<1> HIDE DEF h, u, w
<1> DEFINE x2 == x * x
           o2 == o * o
           o3 == o * o * o
           so == s * o
<1>4. x2 \in Nat /\ o2 \in Nat /\ o3 \in Nat /\ so \in Nat /\ so <= x2 /\ o3 = o2 * o
  BY <1>o, <1>1, SMT
<1>5. 24 * (o3 * h) <= 12 * (o2 * x2)
  <2>1. h * o3 \in Nat /\ (2 * h) * o3 <= s * o3 /\ s * o3 = so * o2
    BY <1>o, <1>1, <1>3, SMT
  <2>2. so * o2 <= x2 * o2 /\ so * o2 \in Nat /\ x2 * o2 \in Nat
    BY <1>4, Scaled
  <2> HIDE DEF x2, o2, o3, so
  <2>3. (2 * h) * o3 = 2 * (o3 * h) /\ x2 * o2 = o2 * x2 /\ o3 * h \in Nat
    BY <1>3, <1>4, SMT
  <2> QED
    BY <1>4, <2>1, <2>2, <2>3, SMT
<1>6. 24 * (o3 * u) <= 4 * (o * (x2 * x))
  <2>1. (6 * u) * o3 <= t * o3 /\ t * o3 = (t * o) * o2 /\ (t * o) * o2 <= (s * x) * o2
        /\ (s * x) * o2 = (so * x) * o /\ (so * x) * o <= (x2 * x) * o
    <3>1. (6 * u) * o3 <= t * o3
      <4> HIDE DEF o3
      <4> QED
        BY <1>1, <1>3, <1>4, SMT
    <3>2. t * o3 = (t * o) * o2 /\ (s * x) * o2 = (so * x) * o
      BY <1>o, <1>1, SMT
    <3>3. (t * o) * o2 <= (s * x) * o2
      <4>1. t * o \in Nat /\ s * x \in Nat
        BY <1>o, <1>1, SMT
      <4> HIDE DEF o2
      <4> QED
        BY <1>1, <1>4, <4>1, Scaled
    <3>4. (so * x) * o <= (x2 * x) * o
      <4> HIDE DEF so, x2
      <4>1. so * x <= x2 * x /\ so * x \in Nat /\ x2 * x \in Nat
        BY <1>4, Scaled
      <4> QED
        BY <1>o, <4>1, Scaled
    <3> QED
      BY <3>1, <3>2, <3>3, <3>4
  <2>2. t * o3 \in Nat /\ (s * x) * o2 \in Nat /\ (x2 * x) * o \in Nat /\ o3 * u \in Nat
    BY <1>o, <1>1, <1>3, SMT
  <2>3. (6 * u) * o3 = 6 * (o3 * u) /\ (x2 * x) * o = o * (x2 * x)
    <3> HIDE DEF o3, x2
    <3> QED
      BY <1>o, <1>3, <1>4, SMT
  <2> HIDE DEF x2, o2, o3, so
  <2> QED
    BY <2>1, <2>2, <2>3, SMT
<1>7. 24 * (o3 * w) <= x2 * x2
  <2>1. (24 * w) * o3 <= v * o3
    <3> HIDE DEF o3
    <3> QED
      BY <1>1, <1>3, <1>4, SMT
  <2>2. v * o3 = (v * o) * o2 /\ (s * s) * o2 = so * so
    BY <1>o, <1>1, SMT
  <2>3. (v * o) * o2 <= (s * s) * o2
    <3>1. v * o \in Nat /\ s * s \in Nat
      BY <1>o, <1>1, SMT
    <3> HIDE DEF o2
    <3> QED
      BY <1>1, <1>4, <3>1, Scaled
  <2>4. so * so <= x2 * x2
    <3> HIDE DEF so, x2
    <3>1. so * so <= x2 * so /\ x2 * so <= x2 * x2
      BY <1>4, Scaled
    <3>2. so * so \in Nat /\ x2 * so \in Nat /\ x2 * x2 \in Nat
      BY <1>4, SMT
    <3> QED
      BY <3>1, <3>2, SMT
  <2>5. v * o3 \in Nat /\ so * so \in Nat /\ x2 * x2 \in Nat /\ o3 * w \in Nat
    BY <1>o, <1>1, <1>3, SMT
  <2> HIDE DEF x2, o2, o3, so
  <2>6. (24 * w) * o3 = 24 * (o3 * w)
    BY <1>3, <1>4, SMT
  <2> QED
    BY <2>1, <2>2, <2>3, <2>4, <2>5, <2>6, SMT
<1>8. Quartic(x) = 24 * (o3 * o) + 24 * (o3 * x) + 12 * (o2 * x2) + 4 * (o * (x2 * x)) + x2 * x2
  BY <1>o, SMT DEF Quartic, o
<1>9. 24 * o3 * Exp(x) = 24 * (o3 * o) + 24 * (o3 * x) + 24 * (o3 * h) + 24 * (o3 * u) + 24 * (o3 * w)
  <2> HIDE DEF o3
  <2> QED
    BY <1>o, <1>2, <1>3, <1>4, SMT
<1>10. Exp(x) \in Nat
  BY <1>o, <1>2, <1>3, SMT
<1>11. /\ o3 * o \in Nat /\ o3 * x \in Nat /\ o3 * h \in Nat /\ o3 * u \in Nat /\ o3 * w \in Nat
       /\ o2 * x2 \in Nat /\ o * (x2 * x) \in Nat /\ x2 * x2 \in Nat
  BY <1>o, <1>3, SMT
<1>12. 24 * (ONE * ONE * ONE) * Exp(x) = 24 * o3 * Exp(x)
  BY DEF o
<1> HIDE DEF x2, o2, o3
<1> QED
  BY <1>5, <1>6, <1>7, <1>8, <1>9, <1>10, <1>11, <1>12, SMT

(* A product of such series has every term of the series of the sum.       *)
LEMMA QuarticOfSum ==
  ASSUME NEW a \in Nat, NEW b \in Nat
  PROVE  24 * (ONE * ONE * ONE * ONE) * Quartic(a + b) <= Quartic(a) * Quartic(b)
<1> DEFINE o == ONE
           rest == 24 * (o*o*o*a*b*b*b*b) + 48 * (o*o*o*a*a*b*b*b) + 48 * (o*o*o*a*a*a*b*b)
                   + 24 * (o*o*o*a*a*a*a*b)
                   + 12 * (o*o*a*a*b*b*b*b) + 16 * (o*o*a*a*a*b*b*b) + 12 * (o*o*a*a*a*a*b*b)
                   + 4 * (o*a*a*a*b*b*b*b) + 4 * (o*a*a*a*a*b*b*b) + a*a*a*a*b*b*b*b
<1>o. o \in Nat
  BY OneAssumption
<1>1. Quartic(a) = 24 * (o*o*o*o) + 24 * (o*o*o) * a + 12 * (o*o) * (a*a) + 4 * o * (a*a*a) + a*a*a*a
      /\ Quartic(b) = 24 * (o*o*o*o) + 24 * (o*o*o) * b + 12 * (o*o) * (b*b) + 4 * o * (b*b*b) + b*b*b*b
      /\ Quartic(a + b) = 24 * (o*o*o*o) + 24 * (o*o*o) * (a + b) + 12 * (o*o) * ((a + b)*(a + b))
            + 4 * o * ((a + b)*(a + b)*(a + b)) + (a + b)*(a + b)*(a + b)*(a + b)
  BY DEF Quartic
<1> HIDE DEF o
<1>2. rest \in Nat
  <2>1. /\ o*o*o*a*b*b*b*b \in Nat /\ o*o*o*a*a*b*b*b \in Nat /\ o*o*o*a*a*a*b*b \in Nat
        /\ o*o*o*a*a*a*a*b \in Nat /\ o*o*a*a*b*b*b*b \in Nat /\ o*o*a*a*a*b*b*b \in Nat
        /\ o*o*a*a*a*a*b*b \in Nat /\ o*a*a*a*b*b*b*b \in Nat /\ o*a*a*a*a*b*b*b \in Nat
        /\ a*a*a*a*b*b*b*b \in Nat
    BY <1>o, SMT
  <2> QED
    BY <2>1, SMT
<1>3. Quartic(a) * Quartic(b) = 24 * (o*o*o*o) * Quartic(a + b) + rest
  BY <1>o, <1>1, SMT
<1>4. 24 * (o*o*o*o) * Quartic(a + b) \in Int
  BY <1>o, <1>1, SMT
<1> DEFINE l == 24 * (o*o*o*o) * Quartic(a + b)
<1>5. l = 24 * (ONE * ONE * ONE * ONE) * Quartic(a + b)
  BY DEF o
<1> HIDE DEF rest, l
<1>6. l <= l + rest
  BY <1>2, <1>4, SMT DEF l
<1> QED
  BY <1>3, <1>5, <1>6 DEF l

(* The terms of the logarithm's series after the first are small, as small *)
(* as those of the odd powers they come from.                              *)
LEMMA SeriesTail ==
  ASSUME NEW z \in Nat, 3 * z <= ONE
  PROVE  \E d \in Nat :
           /\ LnSeries(z, Times(z, z)) = 2 * (z + d)
           /\ 9 * (d * (ONE * ONE) * (ONE * ONE))
                <= 3 * (z * (z * z) * (ONE * ONE)) + 2 * (z * (z * z) * (z * z))
           /\ 9 * (z * z) <= ONE * ONE
<1> DEFINE o == ONE
           s == Times(z, z)
           f == Times(s, s)
           g == Times(s, f)
           A == Times(z, s)
           B == Times(z, f)
           C == Times(z, g)
           d == A \div 3 + B \div 5 + C \div 7
           K == o * o
           W == z * z
<1>o. o \in Nat \ {0}
  BY OneAssumption
<1>1. s \in Nat /\ s * o <= W
  BY TimesBelow
<1>2. f \in Nat /\ f * o <= s * s
  BY <1>1, TimesBelow
<1>3. g \in Nat /\ g * o <= s * f
  BY <1>1, <1>2, TimesBelow
<1>4. A \in Nat /\ B \in Nat /\ C \in Nat /\ A * o <= z * s /\ B * o <= z * f /\ C * o <= z * g
  BY <1>1, <1>2, <1>3, TimesBelow
<1>5. LnSeries(z, s) = 2 * (z + A \div 3 + B \div 5 + C \div 7)
  BY DEF LnSeries
<1>6. 3 * z <= o
  BY DEF o
<1>r. ONE * ONE = K
  BY DEF o
<1> HIDE DEF o, s, f, g, A, B, C
<1> DEFINE da == A \div 3
           db == B \div 5
           dc == C \div 7
<1>7. da \in Nat /\ db \in Nat /\ dc \in Nat /\ 3 * da <= A /\ 5 * db <= B /\ 7 * dc <= C
  BY <1>4, SMT
<1>8. d = da + db + dc
  OBVIOUS
<1> HIDE DEF da, db, dc
<1>9. d \in Nat /\ LnSeries(z, s) = 2 * (z + d)
  <2>1. LnSeries(z, s) = 2 * (z + da + db + dc)
    BY <1>5 DEF da, db, dc
  <2> HIDE DEF d
  <2> QED
    BY <1>7, <1>8, <2>1, SMT
<1> HIDE DEF d
<1>10. 9 * W <= K /\ W \in Nat /\ K \in Nat \ {0}
  <2>1. (3 * z) * (3 * z) <= o * (3 * z) /\ o * (3 * z) <= o * o
    BY <1>o, <1>6, SMT
  <2>2. (3 * z) * (3 * z) = 9 * W /\ W \in Nat /\ K \in Nat \ {0} /\ o * (3 * z) \in Nat
    BY <1>o, SMT
  <2> HIDE DEF W, K
  <2> QED
    BY <2>1, <2>2, SMT DEF K
<1>11. 9 * s <= o
  <2>1. (9 * s) * o <= o * o
    <3>1. (9 * s) * o = 9 * (s * o) /\ s * o \in Nat
      BY <1>o, <1>1, SMT
    <3> DEFINE so == s * o
    <3> HIDE DEF so, W
    <3>2. 9 * so <= K
      BY <1>1, <1>10, <3>1, SMT DEF so
    <3> QED
      BY <3>1, <3>2 DEF so, K
  <2> QED
    BY <1>o, <1>1, <2>1, Unscaled
<1>12. 9 * g <= f
  <2>1. (9 * s) * f <= o * f
    BY <1>o, <1>1, <1>2, <1>11, Scaled
  <2>2. (9 * g) * o = 9 * (g * o) /\ (9 * s) * f = 9 * (s * f) /\ o * f = f * o
        /\ g * o \in Nat /\ s * f \in Nat /\ f * o \in Nat
    BY <1>o, <1>1, <1>2, <1>3, SMT
  <2>3. (9 * g) * o <= f * o
    <3> DEFINE x == g * o
               y == s * f
               t == f * o
    <3> HIDE DEF x, y, t
    <3>1. 9 * x <= t
      BY <1>3, <2>1, <2>2, SMT DEF x, y, t
    <3> QED
      BY <2>2, <3>1 DEF x, t
  <2> QED
    BY <1>o, <1>2, <1>3, <2>3, Unscaled
<1>13. 9 * (d * o) <= 3 * (z * s) + 2 * (z * f)
  <2> DEFINE a == A * o
             b == B * o
             c == C * o
             x == z * s
             y == z * f
             v == z * g
             p == da * o
             q == db * o
             r == dc * o
  <2>1. /\ a \in Nat /\ b \in Nat /\ c \in Nat /\ x \in Nat /\ y \in Nat /\ v \in Nat
        /\ p \in Nat /\ q \in Nat /\ r \in Nat
    BY <1>o, <1>1, <1>2, <1>3, <1>4, <1>7, SMT
  <2>2. 3 * p <= a /\ 5 * q <= b /\ 7 * r <= c
    <3>1. (3 * da) * o <= a /\ (5 * db) * o <= b /\ (7 * dc) * o <= c
      BY <1>o, <1>4, <1>7, Scaled
    <3>2. (3 * da) * o = 3 * p /\ (5 * db) * o = 5 * q /\ (7 * dc) * o = 7 * r
      BY <1>o, <1>7, SMT
    <3> QED
      BY <3>1, <3>2
  <2>3. 9 * v <= y
    <3>1. z * (9 * g) <= z * f
      BY <1>2, <1>3, <1>12, Scaled
    <3>2. z * (9 * g) = 9 * v
      BY <1>3, SMT
    <3> QED
      BY <3>1, <3>2
  <2>4. d * o = p + q + r
    BY <1>o, <1>7, <1>8, SMT
  <2>5. a <= x /\ b <= y /\ c <= v
    BY <1>4
  <2> HIDE DEF a, b, c, x, y, v, p, q, r
  <2>6. 9 * (p + q + r) <= 3 * x + 2 * y
    BY <2>1, <2>2, <2>3, <2>5, SMT
  <2> QED
    BY <2>4, <2>6 DEF x, y
<1>14. 9 * (d * K * K) <= 3 * (z * W * K) + 2 * (z * W * W)
  <2> DEFINE o3 == o * K
             so == s * o
             fo == f * o
             do == d * o
  <2>1. o3 \in Nat /\ so \in Nat /\ fo \in Nat /\ do \in Nat /\ z * s \in Nat /\ z * f \in Nat
    BY <1>o, <1>1, <1>2, <1>9, SMT
  <2>2. (9 * do) * o3 <= (3 * (z * s) + 2 * (z * f)) * o3
    <3> DEFINE x == 9 * do
               y == 3 * (z * s) + 2 * (z * f)
    <3>1. x \in Nat /\ y \in Nat /\ x <= y
      BY <1>13, <2>1, SMT
    <3> HIDE DEF x, y, o3
    <3>2. x * o3 <= y * o3
      BY <2>1, <3>1, Scaled
    <3> QED
      BY <3>2 DEF x, y
  <2>3. (9 * do) * o3 = 9 * (d * K * K)
    BY <1>o, <1>9, SMT
  <2>4. (3 * (z * s) + 2 * (z * f)) * o3 = 3 * (z * so * K) + 2 * (z * (fo * K))
    BY <1>o, <1>1, <1>2, SMT
  <2>5. z * so * K <= z * W * K
    <3>1. z * so <= z * W /\ z * so \in Nat /\ z * W \in Nat
      <4> HIDE DEF so, W
      <4> QED
        BY <1>1, <1>10, <2>1, Scaled, SMT DEF so
    <3> DEFINE x == z * so
               y == z * W
    <3> HIDE DEF x, y, K
    <3>2. x * K <= y * K
      BY <1>10, <3>1, Scaled DEF x, y
    <3> QED
      BY <3>2 DEF x, y
  <2>6. fo * K <= W * W
    <3>1. (s * s) * K = so * so /\ s * s \in Nat
      BY <1>o, <1>1, SMT
    <3>2. fo * K <= (s * s) * K
      <4> HIDE DEF K, fo
      <4> QED
        BY <1>2, <1>10, <2>1, <3>1, Scaled DEF fo
    <3>3. so * so <= W * so /\ W * so <= W * W
      <4> HIDE DEF so, W
      <4> QED
        BY <1>1, <1>10, <2>1, Scaled DEF so
    <3>4. fo * K \in Nat /\ so * so \in Nat /\ W * so \in Nat /\ W * W \in Nat
      BY <1>o, <1>1, <1>2, SMT
    <3> DEFINE w == fo * K
               x == so * so
               y == W * so
               v == W * W
    <3>5. w <= x /\ x <= y /\ y <= v /\ w \in Nat /\ x \in Nat /\ y \in Nat /\ v \in Nat
      BY <3>1, <3>2, <3>3, <3>4
    <3> HIDE DEF w, x, y, v
    <3>6. w <= v
      BY <3>5, SMT
    <3> QED
      BY <3>6 DEF w, v
  <2>7. z * (fo * K) <= z * W * W
    <3>1. fo * K \in Nat /\ W * W \in Nat
      BY <1>o, <1>2, SMT
    <3> DEFINE w == fo * K
               v == W * W
    <3> HIDE DEF w, v
    <3>2. z * w <= z * v
      BY <2>6, <3>1, Scaled DEF w, v
    <3>3. z * v = z * W * W
      BY SMT DEF v
    <3> QED
      BY <3>2, <3>3 DEF w
  <2>8. z * so * K \in Nat /\ z * W * K \in Nat /\ z * (fo * K) \in Nat /\ z * W * W \in Nat
        /\ d * K * K \in Nat
    BY <1>o, <1>1, <1>2, <1>9, SMT
  <2> DEFINE aa == z * so * K
             bb == z * W * K
             cc == z * (fo * K)
             dd == z * W * W
             ee == d * K * K
  <2>9. /\ 9 * ee <= 3 * aa + 2 * cc /\ aa <= bb /\ cc <= dd
        /\ aa \in Nat /\ bb \in Nat /\ cc \in Nat /\ dd \in Nat /\ ee \in Nat
    BY <2>2, <2>3, <2>4, <2>5, <2>7, <2>8
  <2> HIDE DEF aa, bb, cc, dd, ee
  <2>10. 9 * ee <= 3 * bb + 2 * dd
    BY <2>9, SMT
  <2> QED
    BY <2>10 DEF bb, dd, ee
<1> QED
  BY <1>9, <1>10, <1>14, <1>r DEF s

LEMMA TailFits ==
  ASSUME NEW z \in Nat, NEW d \in Nat, NEW K \in Nat \ {0}, 9 * (z * z) <= K,
         9 * (d * K * K) <= 3 * (z * (z * z) * K) + 2 * (z * (z * z) * (z * z))
  PROVE  18 * d <= z /\ 3 * (d * K) <= z * ((z + d) * (z + d))
<1> DEFINE W == z * z
           m == 3 * K - 2 * W
           n == 3 * K + 2 * W
<1>1. W \in Nat /\ 9 * W <= K /\ 9 * (d * K * K) <= 3 * (z * W * K) + 2 * (z * W * W)
  BY SMT
<1> HIDE DEF W
<1>2. m \in Nat /\ 2 * K <= m /\ n \in Nat \ {0}
  BY <1>1, SMT
<1>3. d * m <= z * W
  <2>1. (d * m) * n = 9 * (d * K * K) - 4 * (d * W * W)
    BY <1>1, SMT
  <2>2. (z * W) * n = 3 * (z * W * K) + 2 * (z * W * W)
    BY <1>1, SMT
  <2>3. d * W * W \in Nat /\ d * K * K \in Nat /\ z * W * K \in Nat /\ z * W * W \in Nat
    BY <1>1, SMT
  <2> DEFINE a == d * K * K
             b == d * W * W
             c == 3 * (z * W * K) + 2 * (z * W * W)
             l == (d * m) * n
             r == (z * W) * n
  <2>4. l = 9 * a - 4 * b /\ r = c /\ 9 * a <= c /\ a \in Nat /\ b \in Nat /\ c \in Nat
    <3>1. c \in Nat
      BY <2>3, SMT
    <3> QED
      BY <1>1, <2>1, <2>2, <2>3, <3>1
  <2> HIDE DEF a, b, c, l, r
  <2>5. l <= r
    BY <2>4, SMT
  <2>6. d * m \in Int /\ z * W \in Int
    BY <1>1, <1>2, SMT
  <2> HIDE DEF m, n
  <2> QED
    BY <1>2, <2>5, <2>6, Unscaled DEF l, r
<1>4. 18 * d <= z
  <2>1. d * (2 * K) <= d * m
    <3> HIDE DEF m
    <3> QED
      BY <1>2, SMT
  <2>2. z * (9 * W) <= z * K
    BY <1>1, Scaled
  <2>3. d * (2 * K) = 2 * (d * K) /\ z * (9 * W) = 9 * (z * W)
        /\ d * K \in Nat /\ z * W \in Nat /\ z * K \in Nat /\ d * m \in Nat
    BY <1>1, <1>2, SMT
  <2> DEFINE a == d * K
             b == z * W
             c == z * K
             e == d * m
  <2>4. 2 * a <= e /\ e <= b /\ 9 * b <= c /\ a \in Nat /\ b \in Nat /\ c \in Nat /\ e \in Nat
    BY <1>3, <2>1, <2>2, <2>3
  <2> HIDE DEF a, b, c, e
  <2>5. 18 * a <= c
    BY <2>4, SMT
  <2>6. 18 * a = (18 * d) * K
    BY SMT DEF a
  <2> QED
    BY <2>5, <2>6, Unscaled DEF c
<1>5. 3 * (d * K) <= z * ((z + d) * (z + d))
  <2>1. z * ((z + d) * (z + d)) = z * W + 2 * (d * W) + z * d * d
    BY SMT DEF W
  <2>2. d * m = 3 * (d * K) - 2 * (d * W)
    BY <1>1, SMT
  <2>3. z * W \in Nat /\ d * W \in Nat /\ z * d * d \in Nat /\ d * K \in Nat
    BY <1>1, SMT
  <2> DEFINE a == d * K
             b == z * W
             c == d * W
             e == z * d * d
             g == d * m
  <2>4. g = 3 * a - 2 * c /\ g <= b /\ a \in Nat /\ b \in Nat /\ c \in Nat /\ e \in Nat
    BY <1>3, <2>2, <2>3
  <2> HIDE DEF a, b, c, e, g
  <2>5. 3 * a <= b + 2 * c + e
    BY <2>4, SMT
  <2> QED
    BY <2>1, <2>5 DEF a, b, c, e
<1> QED
  BY <1>4, <1>5

(* The first Pade approximations of the exponential and of the logarithm   *)
(* are inverse to each other, and above and below what the series give.    *)
LEMMA LnBelowPade ==
  ASSUME NEW z \in Nat, 3 * z <= ONE
  PROVE  \E x \in Nat : /\ x = LnSeries(z, Times(z, z)) /\ x <= 2 * ONE
                        /\ 6 * (x * (ONE * ONE)) <= z * (12 * (ONE * ONE) + x * x)
<1> DEFINE K == ONE * ONE
<1>o. ONE \in Nat \ {0} /\ K \in Nat \ {0}
  BY OneAssumption, SMT
<1>1. PICK d \in Nat :
        /\ LnSeries(z, Times(z, z)) = 2 * (z + d)
        /\ 9 * (d * K * K) <= 3 * (z * (z * z) * K) + 2 * (z * (z * z) * (z * z))
        /\ 9 * (z * z) <= K
  BY SeriesTail
<1> HIDE DEF K
<1>2. 18 * d <= z /\ 3 * (d * K) <= z * ((z + d) * (z + d))
  BY <1>o, <1>1, TailFits
<1> DEFINE x == 2 * (z + d)
<1>3. x \in Nat /\ x <= 2 * ONE
  BY <1>o, <1>2, SMT
<1>4. 6 * (x * K) <= z * (12 * K + x * x)
  <2>1. 6 * (x * K) = 12 * (z * K) + 12 * (d * K)
    BY <1>o, SMT
  <2>2. z * (12 * K + x * x) = 12 * (z * K) + 4 * (z * ((z + d) * (z + d)))
    BY <1>o, SMT
  <2>3. d * K \in Nat /\ z * K \in Nat /\ z * ((z + d) * (z + d)) \in Nat
    BY <1>o, SMT
  <2> DEFINE a == d * K
             b == z * K
             c == z * ((z + d) * (z + d))
  <2> HIDE DEF a, b, c, x
  <2>4. 12 * b + 12 * a <= 12 * b + 4 * c
    BY <1>2, <2>3, SMT DEF a, b, c
  <2> QED
    BY <2>1, <2>2, <2>4 DEF a, b, c
<1> QED
  BY <1>1, <1>3, <1>4 DEF K

LEMMA ExpBelowPade ==
  ASSUME NEW x \in Nat, x <= 2 * ONE
  PROVE  Quartic(x) * (12 * (ONE * ONE) - 6 * (x * ONE) + x * x)
           <= 24 * (ONE * ONE * ONE * ONE) * (12 * (ONE * ONE) + 6 * (x * ONE) + x * x)
<1> DEFINE o == ONE
           p == x * x * x * x * x
           l == Quartic(x) * (12 * (o*o) - 6 * (x * o) + x * x)
           r == 24 * (o*o*o*o) * (12 * (o*o) + 6 * (x * o) + x * x)
<1>o. o \in Nat /\ x <= 2 * o
  BY OneAssumption
<1>1. Quartic(x) = 24 * (o*o*o*o) + 24 * (o*o*o) * x + 12 * (o*o) * (x*x) + 4 * o * (x*x*x) + x*x*x*x
  BY DEF Quartic
<1>e. l = Quartic(x) * (12 * (ONE * ONE) - 6 * (x * ONE) + x * x)
      /\ r = 24 * (ONE * ONE * ONE * ONE) * (12 * (ONE * ONE) + 6 * (x * ONE) + x * x)
  BY DEF o
<1> HIDE DEF o
<1>2. l = r - (2 * o - x) * p
  BY <1>o, <1>1, SMT
<1>3. (2 * o - x) * p >= 0 /\ (2 * o - x) * p \in Int /\ r \in Int
  <2>1. 2 * o - x \in Nat /\ p \in Nat /\ r \in Int
    BY <1>o, SMT
  <2> DEFINE y == 2 * o - x
  <2> HIDE DEF y, p
  <2>2. y * p \in Nat
    BY <2>1, SMT DEF y
  <2> QED
    BY <2>1, <2>2, SMT DEF y
<1> DEFINE w == (2 * o - x) * p
<1> HIDE DEF l, r, w
<1>4. l <= r
  BY <1>2, <1>3, SMT DEF w
<1> QED
  BY <1>4, <1>e

LEMMA QuarticOfLnBelow2 ==
  ASSUME NEW y \in Nat, ONE <= y, y <= 2 * ONE
  PROVE  LnBelow2(y) \in Nat /\ Quartic(LnBelow2(y)) <= 24 * (ONE * ONE * ONE) * y
<1> DEFINE z == Ratio(y - ONE, y + ONE)
           K == ONE * ONE
<1>o. ONE \in Nat \ {0} /\ K \in Nat \ {0}
  BY OneAssumption, SMT
<1>1. z \in Nat /\ (y + ONE) * z <= (y - ONE) * ONE
  <2>1. (y - ONE) * ONE \in Nat /\ y + ONE \in Nat \ {0}
    BY <1>o, SMT
  <2> QED
    BY <2>1, DivBounds DEF Ratio
<1>2. LnBelow2(y) = LnSeries(z, Times(z, z))
  BY DEF LnBelow2
<1> HIDE DEF z
<1>3. 3 * z <= ONE
  <2>1. (3 * z) * (y + ONE) = 3 * ((y + ONE) * z) /\ (y + ONE) * z \in Nat
    BY <1>o, <1>1, SMT
  <2>2. 3 * ((y - ONE) * ONE) <= ONE * (y + ONE) /\ ONE * (y + ONE) \in Nat /\ (y - ONE) * ONE \in Nat
    <3>1. 3 * (y - ONE) <= y + ONE /\ 3 * (y - ONE) \in Nat /\ y + ONE \in Nat /\ y - ONE \in Nat
      BY <1>o, SMT
    <3>2. (3 * (y - ONE)) * ONE <= (y + ONE) * ONE
      BY <1>o, <3>1, Scaled
    <3>3. (3 * (y - ONE)) * ONE = 3 * ((y - ONE) * ONE) /\ (y + ONE) * ONE = ONE * (y + ONE)
          /\ ONE * (y + ONE) \in Nat /\ (y - ONE) * ONE \in Nat
      BY <1>o, <3>1, SMT
    <3> QED
      BY <3>2, <3>3
  <2> DEFINE a == (y + ONE) * z
             b == (y - ONE) * ONE
             c == ONE * (y + ONE)
  <2>3. a <= b /\ 3 * b <= c /\ a \in Nat /\ b \in Nat /\ c \in Nat
    BY <1>1, <2>1, <2>2
  <2> HIDE DEF a, b, c
  <2>4. 3 * a <= c
    BY <2>3, SMT
  <2>5. (3 * z) * (y + ONE) <= ONE * (y + ONE)
    BY <2>1, <2>4 DEF a, c
  <2>6. 3 * z \in Int /\ ONE \in Int /\ y + ONE \in Nat \ {0}
    BY <1>o, <1>1, SMT
  <2> QED
    BY <2>5, <2>6, Unscaled
<1>4. PICK x \in Nat : /\ x = LnSeries(z, Times(z, z)) /\ x <= 2 * ONE
                       /\ 6 * (x * K) <= z * (12 * K + x * x)
  BY <1>1, <1>3, LnBelowPade
<1> DEFINE S == 12 * K + x * x
           t == 6 * (x * ONE)
           N == S + t
           D == S - t
           g == ONE - z
           h == ONE + z
           Q == Quartic(x)
           c == 24 * (ONE * ONE * ONE)
<1>5. Q * D <= c * (ONE * N) /\ Q \in Nat /\ c \in Nat /\ N \in Nat
  <2>1. Q * (12 * K - 6 * (x * ONE) + x * x)
          <= 24 * (ONE * ONE * ONE * ONE) * (12 * K + 6 * (x * ONE) + x * x)
    BY <1>4, ExpBelowPade
  <2>2. 12 * K - 6 * (x * ONE) + x * x = D /\ 12 * K + 6 * (x * ONE) + x * x = N
    BY <1>o, SMT
  <2>3. N \in Nat /\ c \in Nat
    BY <1>o, SMT
  <2>4. 24 * (ONE * ONE * ONE * ONE) * N = c * (ONE * N)
    <3> HIDE DEF N
    <3> QED
      BY <1>o, <2>3, SMT
  <2>5. Q \in Nat
    BY <1>o, SMT DEF Quartic
  <2> HIDE DEF Q, D, N, c
  <2> QED
    BY <2>1, <2>2, <2>3, <2>4, <2>5
<1>6. D \in Nat \ {0} /\ S \in Nat /\ t \in Nat
  <2>1. D = (3 * ONE - x) * (3 * ONE - x) + 3 * K
    BY <1>o, SMT
  <2>2. (3 * ONE - x) * (3 * ONE - x) \in Nat
    <3> DEFINE v == 3 * ONE - x
    <3>1. v \in Nat
      BY <1>o, <1>4, SMT
    <3> HIDE DEF v
    <3>2. v * v \in Nat
      BY <3>1, SMT
    <3> QED
      BY <3>2 DEF v
  <2>3. S \in Nat /\ t \in Nat
    BY <1>o, SMT
  <2> DEFINE v == (3 * ONE - x) * (3 * ONE - x)
  <2> HIDE DEF v, D, S, t, K
  <2>4. D \in Nat \ {0}
    BY <1>o, <2>1, <2>2, SMT DEF v
  <2> QED
    BY <2>3, <2>4
<1>7. N * g <= D * h
  <2>1. D * h - N * g = 2 * (z * S) - 2 * (t * ONE)
    <3> HIDE DEF S, t
    <3> QED
      BY <1>o, <1>1, <1>6, SMT
  <2>2. t * ONE = 6 * (x * K)
    BY <1>o, SMT
  <2>3. t * ONE <= z * S
    BY <1>4, <2>2
  <2>4. D * h \in Int /\ N * g \in Int /\ z * S \in Int /\ t * ONE \in Int
    <3> HIDE DEF S, t
    <3> QED
      BY <1>o, <1>1, <1>6, SMT
  <2> DEFINE p == D * h
             q == N * g
             u == z * S
             v == t * ONE
  <2> HIDE DEF p, q, u, v
  <2>5. q <= p
    BY <2>1, <2>3, <2>4, SMT DEF p, q, u, v
  <2> QED
    BY <2>5 DEF p, q
<1>8. ONE * h <= y * g
  BY <1>o, <1>1, SMT
<1>9. g \in Nat \ {0} /\ h \in Nat
  BY <1>o, <1>1, <1>3, SMT
<1> HIDE DEF S, t, N, D, g, h, Q, c
<1>10. ONE * N <= y * D
  <2>1. ONE * (N * g) <= ONE * (D * h)
    <3>1. N * g \in Nat /\ D * h \in Nat
      BY <1>5, <1>6, <1>9, SMT
    <3> QED
      BY <1>o, <1>7, <3>1, Scaled
  <2>2. D * (ONE * h) <= D * (y * g)
    <3>1. ONE * h \in Nat /\ y * g \in Nat
      BY <1>o, <1>9, SMT
    <3> QED
      BY <1>6, <1>8, <3>1, Scaled
  <2>3. (ONE * N) * g = ONE * (N * g) /\ ONE * (D * h) = D * (ONE * h) /\ D * (y * g) = (y * D) * g
    BY <1>o, <1>5, <1>6, <1>9, SMT
  <2>4. ONE * (N * g) \in Nat /\ D * (ONE * h) \in Nat /\ D * (y * g) \in Nat
        /\ ONE * N \in Int /\ y * D \in Int
    BY <1>o, <1>5, <1>6, <1>9, SMT
  <2> DEFINE p == ONE * (N * g)
             q == D * (ONE * h)
             r == D * (y * g)
  <2> HIDE DEF p, q, r
  <2>5. p <= r
    BY <2>1, <2>2, <2>3, <2>4, SMT DEF p, q, r
  <2>6. (ONE * N) * g <= (y * D) * g
    BY <2>3, <2>5 DEF p, r
  <2> QED
    BY <1>9, <2>4, <2>6, Unscaled
<1>11. Q <= c * y
  <2>1. c * (ONE * N) <= c * (y * D)
    <3>1. ONE * N \in Nat /\ y * D \in Nat
      BY <1>o, <1>5, <1>6, SMT
    <3> QED
      BY <1>5, <1>10, <3>1, Scaled
  <2>2. c * (y * D) = (c * y) * D
    BY <1>5, <1>6, SMT
  <2>3. Q * D \in Int /\ c * (ONE * N) \in Int /\ c * (y * D) \in Int /\ c * y \in Int
    BY <1>o, <1>5, <1>6, SMT
  <2> DEFINE p == Q * D
             q == c * (ONE * N)
             r == c * (y * D)
  <2> HIDE DEF p, q, r
  <2>4. p <= r
    BY <1>5, <2>1, <2>3, SMT DEF p, q, r
  <2>5. Q * D <= (c * y) * D
    BY <2>2, <2>4 DEF p, r
  <2> QED
    BY <1>5, <1>6, <2>3, <2>5, Unscaled
<1> QED
  BY <1>2, <1>4, <1>11 DEF Q, c

(* Exponentiating a logarithm never gives more than what it was taken of.  *)
LEMMA QuarticOfLn ==
  ASSUME NEW n \in Nat, n >= ONE
  PROVE  Quartic(Ln[n]) <= 24 * (ONE * ONE * ONE) * n
<1> DEFINE c == 24 * (ONE * ONE * ONE)
           Bad == {y \in Nat : y >= ONE /\ ~ (Quartic(Ln[y]) <= c * y)}
<1> SUFFICES ASSUME NEW b \in Bad PROVE FALSE
  BY Zenon
<1>o. ONE \in Nat \ {0} /\ c \in Nat \ {0}
  BY OneAssumption, SMT
<1>1. PICK y \in Bad : \A k \in Bad : y <= k
  <2>1. Bad \in SUBSET Nat
    OBVIOUS
  <2> HIDE DEF Bad
  <2> QED
    BY <2>1, LeastOf
<1>2. y \in Nat /\ y >= ONE /\ ~ (Quartic(Ln[y]) <= c * y) /\ Ln[y] = LnStep(Ln, y)
  BY <1>1, LnUnfolds
<1>3. CASE y >= 2 * ONE
  <2> DEFINE h == y \div 2
             a == LnBelow2(2 * ONE)
             e == Ln[h]
  <2>1. h \in Nat /\ h < y /\ h >= ONE /\ 2 * h <= y
    BY <1>2, <1>3, <1>o, SMT
  <2>2. Ln[y] = a + e
    BY <1>2, <1>3 DEF LnStep
  <2>3. Quartic(e) <= c * h
    <3>1. h \notin Bad
      <4> HIDE DEF Bad
      <4> QED
        BY <1>1, <1>2, <2>1, SMT
    <3> HIDE DEF h
    <3> QED
      BY <2>1, <3>1 DEF h
  <2>4. a \in Nat /\ Quartic(a) <= c * (2 * ONE)
    <3>1. 2 * ONE \in Nat /\ ONE <= 2 * ONE /\ 2 * ONE <= 2 * ONE
      BY <1>o, SMT
    <3> QED
      BY <3>1, QuarticOfLnBelow2
  <2>5. e \in Nat
    <3> HIDE DEF h
    <3> QED
      BY <2>1, LnNat
  <2> HIDE DEF a, e, h
  <2>6. 24 * (ONE * ONE * ONE * ONE) * Quartic(a + e) <= Quartic(a) * Quartic(e)
    BY <2>4, <2>5, QuarticOfSum
  <2>7. 24 * (ONE * ONE * ONE * ONE) = c * ONE /\ c * ONE \in Nat \ {0}
    BY <1>o, SMT
  <2>8. Quartic(a) \in Nat /\ Quartic(e) \in Nat /\ Quartic(a + e) \in Nat
    BY <1>o, <2>4, <2>5, SMT DEF Quartic
  <2> DEFINE k == c * ONE
             p == Quartic(a)
             q == Quartic(e)
             r == Quartic(a + e)
  <2>9. k \in Nat \ {0} /\ p \in Nat /\ q \in Nat /\ r \in Nat /\ k * r <= p * q /\ q <= c * h
    BY <2>3, <2>6, <2>7, <2>8
  <2>10. p <= 2 * k
    <3>1. c * (2 * ONE) = 2 * k
      BY <1>o, SMT
    <3> QED
      BY <2>4, <3>1
  <2>11. Quartic(Ln[y]) = r
    BY <2>2
  <2> HIDE DEF c, k, p, q, r
  <2>12. p * q <= (2 * k) * q
    BY <2>9, <2>10, SMT
  <2>13. r * k <= (2 * q) * k
    <3>1. (2 * k) * q = (2 * q) * k /\ r * k = k * r /\ k * r \in Nat /\ p * q \in Nat /\ (2 * q) * k \in Nat
      BY <2>9, SMT
    <3> DEFINE u == k * r
               v == p * q
               w == (2 * q) * k
    <3> HIDE DEF u, v, w
    <3>2. u <= w
      BY <2>9, <2>12, <3>1, SMT DEF u, v, w
    <3> QED
      BY <3>1, <3>2 DEF u, w
  <2>14. r <= 2 * q
    BY <2>9, <2>13, Unscaled
  <2>15. 2 * (c * h) <= c * y
    <3>1. c * (2 * h) <= c * y
      BY <1>o, <1>2, <2>1, Scaled
    <3>2. c * (2 * h) = 2 * (c * h)
      BY <1>o, <2>1, SMT
    <3> QED
      BY <3>1, <3>2
  <2>16. c * h \in Int /\ c * y \in Int
    BY <1>o, <1>2, <2>1, SMT
  <2> DEFINE u == c * h
             v == c * y
  <2> HIDE DEF u, v
  <2>17. r <= v
    BY <2>9, <2>14, <2>15, <2>16, SMT DEF u, v
  <2> QED
    BY <1>2, <2>11, <2>17 DEF v
<1>4. CASE ~ (y >= 2 * ONE)
  <2>1. y <= 2 * ONE
    BY <1>2, <1>4, <1>o, SMT
  <2>2. Ln[y] = LnBelow2(y)
    BY <1>2, <1>4 DEF LnStep
  <2> QED
    BY <1>2, <2>1, <2>2, QuarticOfLnBelow2
<1> QED
  BY <1>3, <1>4

LEMMA ExpOfLn ==
  ASSUME NEW y \in Nat, y >= ONE
  PROVE  Exp(Ln[y]) <= y
<1> DEFINE c == 24 * (ONE * ONE * ONE)
           e == Exp(Ln[y])
<1>1. Ln[y] \in Nat
  BY LnNat
<1>2. c * e <= Quartic(Ln[y]) /\ e \in Nat /\ Quartic(Ln[y]) <= c * y
  BY <1>1, ExpWithin, QuarticOfLn
<1>3. c \in Nat \ {0} /\ Quartic(Ln[y]) \in Nat
  <2>1. ONE \in Nat \ {0}
    BY OneAssumption
  <2> QED
    BY <1>1, <2>1, SMT DEF Quartic
<1> HIDE DEF c, e
<1>4. c * e \in Int /\ c * y \in Int /\ e * c = c * e /\ y * c = c * y
  BY <1>2, <1>3, SMT
<1> DEFINE u == c * e
           v == c * y
<1> HIDE DEF u, v
<1>5. u <= v
  BY <1>2, <1>3, <1>4, SMT DEF u, v
<1>6. e * c <= y * c
  BY <1>4, <1>5 DEF u, v
<1> QED
  BY <1>2, <1>3, <1>6, Unscaled DEF e

(* The exchange rate of a PT that a pool's stored rate stands for.         *)
Exchange(m) == ExchangeRateFromImpliedRate(m.lastLnImpliedRate, m.expiry - BlockTime)

LEMMA ExchangeAboveOne ==
  ASSUME NEW m \in Market, m.expiry > BlockTime
  PROVE  Exchange(m) \in Nat /\ Exchange(m) >= ONE
<1> DEFINE x == (m.lastLnImpliedRate * (m.expiry - BlockTime)) \div YEAR
<1>1. m.lastLnImpliedRate \in Nat /\ m.expiry - BlockTime \in Nat
  BY SearchAssumption, SMT DEF Market
<1>2. m.lastLnImpliedRate * (m.expiry - BlockTime) \in Nat
  BY <1>1, SMT
<1>3. x \in Nat
  BY <1>2, YearAssumption, DivBounds
<1>4. Exchange(m) = Exp(x)
  BY DEF Exchange, ExchangeRateFromImpliedRate
<1> HIDE DEF x
<1> QED
  BY <1>3, <1>4, ExpAboveOne

(* A purchase is priced below it, and leaves a rate that stands for no     *)
(* more: what the logarithm and the exponential lose only lowers it.       *)
LEMMA PurchaseLowersRate ==
  ASSUME NEW m, Computable(m), NEW n \in Nat \ {0}, Takes(m, n, BlockTime)
  PROVE  LET next == ExecuteTrade(m, n, BlockTime).market
         IN  /\ next.expiry = m.expiry
             /\ Exchange(next) <= Exchange(m)
             /\ ExchangeRate(m, Pre(m), n) <= Exchange(m)
<1> DEFINE next == ExecuteTrade(m, n, BlockTime).market
           comp == Pre(m)
           P    == m.totalPt
           A    == comp.totalAsset
           B    == AssetAfter(m, n)
           E    == Exchange(m)
           R    == CurveRate(comp, P - n, (P - n) + B)
           left == m.expiry - BlockTime
<1>m. m \in Market /\ P \in Nat /\ ONE \in Nat \ {0} /\ YEAR \in Nat \ {0}
  BY OneAssumption, YearAssumption, SMT DEF Computable, Market
<1>1. /\ Open(m, BlockTime) /\ ~ RefusesTrade(m, comp, n) /\ ~ OffCurve(comp, P - n, (P - n) + B)
      /\ next.lastLnImpliedRate = RateAfter(m, n)
  BY <1>m, AfterMeans
<1>2. Computed(comp)
  BY <1>1, PreComputeTyped DEF Computable, Pre
<1>3. next.expiry = m.expiry
  <2> DEFINE t == CalcTrade(m, MarketPreCompute(m, BlockTime), n)
             after == After(m, t, n)
  <2>1. after = [m EXCEPT !.totalPt = @ - n, !.totalSy = @ - t.netSyToAccount]
    BY DEF After
  <2>2. \E r : next = [after EXCEPT !.lastLnImpliedRate = r]
    BY DEF ExecuteTrade
  <2> HIDE DEF t, next
  <2>3. after.expiry = m.expiry /\ "expiry" \in DOMAIN after
    <3> HIDE DEF after
    <3> QED
      BY <1>m, <2>1 DEF Market
  <2> HIDE DEF after
  <2> QED
    BY <2>2, <2>3
<1>4. A = SyToAsset(m.index, m.totalSy) /\ comp.timeToExpiry = left
      /\ comp.rateAnchor = E - Ratio(LogProportion(P, P + A), comp.rateScalar)
  BY DEF Pre, MarketPreCompute, Exchange
<1>5. left \in Nat \ {0} /\ m.lastLnImpliedRate \in Nat /\ m.expiry > BlockTime
  BY <1>1, <1>2, <1>4, <1>m DEF Computed, Open, Market
<1>6. E \in Nat /\ E >= ONE
  BY <1>m, <1>5, ExchangeAboveOne
<1> HIDE DEF comp, next, E
<1>a. A \in Nat \ {0} /\ comp.rateScalar \in Nat \ {0}
  BY <1>2 DEF Computed
<1> HIDE DEF A, P
<1>7. CurveRate(comp, P, P + A) = E
  <2> DEFINE log == LogProportion(P, P + A)
             r   == (log * ONE) \div comp.rateScalar
  <2>0. P \in Nat \ {0}
    BY <1>1, <1>m, SMT DEF Open, P
  <2>1. log \in Int
    <3>1. P < P + A /\ P + A \in Nat
      BY <1>a, <2>0, SMT
    <3> QED
      BY <2>0, <3>1, LogProportionInt
  <2>2. CurveRate(comp, P, P + A) = r + comp.rateAnchor /\ comp.rateAnchor = E - r
    BY <1>4 DEF CurveRate, Ratio
  <2> HIDE DEF log
  <2>3. log * ONE \in Int
    BY <1>m, <2>1, SMT
  <2>4. r \in Int
    BY <1>a, <2>3, IntDiv
  <2> HIDE DEF r
  <2> QED
    BY <1>6, <2>2, <2>4, SMT
<1>8. P - n \in Nat \ {0} /\ ExchangeRate(m, comp, n) >= ONE
  <2> DEFINE w == P + A
  <2>1. ~ OffCurve(comp, P - n, w) /\ ExchangeRate(m, comp, n) = CurveRate(comp, P - n, w)
    BY <1>1 DEF RefusesTrade, ExchangeRate, P, A, comp
  <2>2. P - n \in Int /\ w \in Int
    BY <1>m, <1>a, SMT
  <2> HIDE DEF w
  <2> QED
    BY <1>2, <2>1, <2>2, OnCurve
<1>9. ExchangeRate(m, comp, n) <= E
  <2>1. ExchangeRate(m, comp, 0) = CurveRate(comp, P - 0, P + A) /\ P - 0 = P
    BY <1>m, SMT DEF ExchangeRate, P, A
  <2>2. 0 <= n /\ 0 \in Nat /\ m.totalPt - n > 0
    BY <1>8, SMT DEF P
  <2>3. ExchangeRate(m, comp, n) <= ExchangeRate(m, comp, 0)
    BY <1>m, <1>2, <2>2, CurveFallsWithPurchase
  <2> QED
    BY <1>7, <2>1, <2>3
<1>10. B \in Nat /\ A <= B
  <2>1. m.totalPt - n > 0 /\ n <= n /\ ExchangeRate(m, Pre(m), n) >= ONE
    BY <1>8, SMT DEF P, comp
  <2>2. SyToAsset(m.index, m.totalSy) <= AssetAfter(m, n) /\ AssetAfter(m, n) \in Nat
    BY <1>1, <2>1, PaysMore
  <2> QED
    BY <1>4, <2>2
<1>11. R \in Nat /\ R >= ONE /\ R <= E
  <2> HIDE DEF B
  <2> DEFINE p == P - n
             w == p + B
             v == P + A
  <2>1. p \in Int /\ w \in Int /\ ~ OffCurve(comp, p, w)
    BY <1>1, <1>m, <1>10, SMT
  <2>2. p \in Nat \ {0} /\ p < w /\ CurveRate(comp, p, w) \in Nat /\ CurveRate(comp, p, w) >= ONE
    <3> HIDE DEF p, w
    <3> QED
      BY <1>2, <2>1, OnCurve
  <2>3. P \in Nat \ {0} /\ v \in Nat /\ P < v /\ w \in Nat /\ v - P = A /\ w - p = B
    BY <1>m, <1>8, <1>10, <1>a, SMT
  <2>4. p * A <= P * B
    <3>1. p <= P /\ p \in Nat
      BY <1>m, <1>8, SMT
    <3> HIDE DEF p
    <3>2. p * A <= P * A /\ P * A <= P * B /\ p * A \in Nat /\ P * A \in Nat /\ P * B \in Nat
      BY <1>m, <1>a, <1>10, <3>1, SMT
    <3> DEFINE x == p * A
               y == P * A
               z == P * B
    <3>3. x <= y /\ y <= z /\ x \in Nat /\ y \in Nat /\ z \in Nat
      BY <3>2
    <3> HIDE DEF x, y, z
    <3>4. x <= z
      BY <3>3, SMT
    <3> QED
      BY <3>4 DEF x, z
  <2>5. CurveRate(comp, p, w) <= CurveRate(comp, P, v)
    <3>1. p * (v - P) <= P * (w - p)
      BY <2>3, <2>4
    <3> HIDE DEF p, w, v
    <3> QED
      BY <1>2, <2>2, <2>3, <3>1, CurveRises
  <2> QED
    BY <1>7, <2>2, <2>5
<1>12. Exchange(next) <= R
  <2> DEFINE l == Ln[R]
             r == (l * YEAR) \div left
             x == (r * left) \div YEAR
  <2>1. RateAfter(m, n) = r
    BY <1>4 DEF RateAfter, LnImpliedRateAt, P, comp
  <2>2. Exchange(next) = Exp(x)
    BY <1>1, <1>3, <2>1 DEF Exchange, ExchangeRateFromImpliedRate
  <2> HIDE DEF R
  <2>3. l \in Nat /\ Exp(l) <= R
    BY <1>11, LnNat, ExpOfLn
  <2> HIDE DEF l, left
  <2>4. l * YEAR \in Nat
    BY <1>m, <2>3, SMT
  <2>5. r \in Nat /\ left * r <= l * YEAR
    BY <1>5, <2>4, DivBounds
  <2> HIDE DEF r
  <2>6. r * left \in Nat /\ r * left <= l * YEAR
    BY <1>5, <2>4, <2>5, SMT
  <2>7. x \in Nat /\ x <= l
    <3>1. (l * YEAR) \div YEAR = l
      BY <1>m, <2>3, DivOfProduct
    <3>2. (r * left) \div YEAR <= (l * YEAR) \div YEAR
      BY <1>m, <2>4, <2>6, DivMonotone
    <3>3. (r * left) \div YEAR \in Nat
      BY <1>m, <2>6, DivBounds
    <3> QED
      BY <3>1, <3>2, <3>3
  <2> HIDE DEF x
  <2>8. Exp(x) <= Exp(l) /\ Exp(x) \in Nat /\ Exp(l) \in Nat
    BY <2>3, <2>7, ExpRises, ExpAboveOne
  <2> QED
    BY <1>11, <2>2, <2>3, <2>8, SMT
<1>13. Exchange(next) <= E
  <2>1. Exchange(next) \in Nat
    <3>1. next \in Market /\ next.expiry > BlockTime
      BY <1>3, <1>5, PurchaseKeepsPool DEF next, Computable
    <3> QED
      BY <3>1, ExchangeAboveOne
  <2> HIDE DEF R
  <2> QED
    BY <1>6, <1>11, <1>12, <2>1, SMT
<1> QED
  BY <1>3, <1>9, <1>13 DEF next, comp, E

(* A purchase costs what its PT is worth at the rate of the pool, and more.*)
LEMMA PurchaseCosts ==
  ASSUME NEW m, Computable(m), NEW n \in Nat \ {0}, Takes(m, n, BlockTime)
  PROVE  CostIn(m, n) \in Nat /\ n * ONE <= CostIn(m, n) * Exchange(m)
<1> DEFINE comp == Pre(m)
           rate == ExchangeRate(m, comp, n)
           pre  == Ratio(- n, rate)
           fee  == Fee(pre, comp.feeRate, n)
           E    == Exchange(m)
           cost == CostIn(m, n)
<1>m. m \in Market /\ ONE \in Nat \ {0}
  BY OneAssumption, SMT DEF Computable
<1>1. Open(m, BlockTime) /\ ~ RefusesTrade(m, comp, n)
  BY <1>m, AfterMeans
<1>2. Computed(comp)
  BY <1>1, PreComputeTyped DEF Computable, Pre
<1>3. rate <= E
  BY PurchaseLowersRate
<1>4. rate \in Nat \ {0}
  <2>1. m.totalPt - n \in Int /\ m.totalPt + comp.totalAsset \in Int
    BY <1>m, <1>2, SMT DEF Market, Computed
  <2>2. ~ OffCurve(comp, m.totalPt - n, m.totalPt + comp.totalAsset)
    BY <1>1 DEF RefusesTrade
  <2>3. rate \in Nat /\ rate >= ONE
    BY <1>2, <2>1, <2>2, OnCurve DEF ExchangeRate
  <2> HIDE DEF rate
  <2> QED
    BY <1>m, <2>3, SMT
<1>5. E \in Nat
  <2>1. m.expiry > BlockTime
    <3>1. comp.timeToExpiry = m.expiry - BlockTime
      BY DEF Pre, MarketPreCompute
    <3> HIDE DEF comp
    <3>2. m.expiry - BlockTime \in Nat \ {0} /\ m.expiry \in Nat
      BY <1>m, <1>2, <3>1 DEF Computed, Market
    <3> QED
      BY <3>2, SearchAssumption, SMT
  <2> QED
    BY <1>m, <2>1, ExchangeAboveOne
<1>6. cost = - (pre - fee)
  BY DEF CostIn, CalcTrade, Pre
<1>7. fee = (pre * (ONE - comp.feeRate)) \div ONE
  BY SMT DEF Fee, Times
<1>8. ONE - comp.feeRate \in Int /\ ONE - comp.feeRate <= 0
  BY <1>m, <1>2, SMT DEF Computed
<1> DEFINE f == ONE - comp.feeRate
<1> HIDE DEF comp, rate, E, cost, fee
<1>9. pre \in Int /\ rate * pre <= (- n) * ONE /\ pre <= 0
  <2>1. (- n) * ONE \in Int /\ (- n) * ONE <= 0
    BY <1>m, SMT
  <2> QED
    BY <1>4, <2>1, IntDiv DEF Ratio
<1> HIDE DEF pre
<1>10. fee \in Nat
  <2> HIDE DEF f
  <2> DEFINE x == - pre
             y == - f
  <2>1. x \in Nat /\ y \in Nat /\ pre * f = x * y
    BY <1>8, <1>9, SMT DEF f
  <2>2. x * y \in Nat
    <3> HIDE DEF x, y
    <3> QED
      BY <2>1, SMT
  <2>3. (pre * f) \div ONE \in Nat
    BY <1>m, <2>1, <2>2, DivBounds
  <2> QED
    BY <1>7, <2>3 DEF f
<1> DEFINE paid == - pre
<1>11. paid \in Nat /\ cost \in Nat /\ paid <= cost /\ n * ONE <= paid * rate
  BY <1>m, <1>4, <1>6, <1>9, <1>10, SMT
<1> HIDE DEF paid
<1>12. paid * rate <= cost * rate /\ cost * rate <= cost * E
       /\ paid * rate \in Nat /\ cost * rate \in Nat /\ cost * E \in Nat /\ n * ONE \in Nat
  BY <1>m, <1>3, <1>4, <1>5, <1>11, SMT
<1> DEFINE a == n * ONE
           b == paid * rate
           c == cost * rate
           d == cost * E
<1>13. a <= b /\ b <= c /\ c <= d /\ a \in Nat /\ b \in Nat /\ c \in Nat /\ d \in Nat
  BY <1>11, <1>12
<1> HIDE DEF a, b, c, d
<1>14. a <= d
  BY <1>13, SMT
<1> QED
  BY <1>11, <1>14 DEF a, d, cost, E

(* At the price of a pool the PT its rate exchanges for a unit is worth no *)
(* more than that: quotients round down, the haircut lowers.               *)
LEMMA PriceExchanges ==
  ASSUME NEW m \in Market, m.expiry > BlockTime
  PROVE  MarketImpliedValue(m, BlockTime) * Exchange(m) <= ONE * ONE
<1> DEFINE E   == Exchange(m)
           raw == (ONE * ONE) \div E
           p   == MarketImpliedValue(m, BlockTime)
           sy  == m.syIndex
           py  == m.pyIndex
<1>1. E \in Nat \ {0} /\ ONE * ONE \in Nat /\ sy \in Nat /\ py \in Nat
  <2>1. E \in Nat /\ E >= ONE
    BY ExchangeAboveOne
  <2> HIDE DEF E
  <2> QED
    BY <2>1, OneAssumption, SMT DEF Market
<1>2. ~ (m.expiry - BlockTime <= 0)
  BY SearchAssumption, SMT DEF Market
<1>3. p = IF sy >= py THEN raw ELSE (raw * sy) \div py
  BY <1>2 DEF MarketImpliedValue, PtToAssetRate, PtToAssetRateFromLnImpliedRate, Exchange, Ratio
<1>4. raw \in Nat /\ E * raw <= ONE * ONE
  BY <1>1, DivBounds
<1> HIDE DEF raw, E, p, sy, py
<1>5. p \in Nat /\ p <= raw
  <2>1. CASE sy >= py
    BY <1>3, <1>4, <2>1, SMT
  <2>2. CASE ~ (sy >= py)
    <3>1. py \in Nat \ {0} /\ raw * sy \in Nat /\ raw * py \in Nat /\ raw * sy <= raw * py
      BY <1>1, <1>4, <2>2, SMT
    <3>2. (raw * sy) \div py \in Nat /\ (raw * sy) \div py <= (raw * py) \div py
      BY <3>1, DivBounds, DivMonotone
    <3>3. (raw * py) \div py = raw
      BY <1>4, <3>1, DivOfProduct
    <3> QED
      BY <1>3, <2>2, <3>2, <3>3
  <2> QED
    BY <2>1, <2>2
<1>6. p * E \in Nat /\ p * E <= raw * E /\ raw * E = E * raw
  BY <1>1, <1>4, <1>5, SMT
<1> DEFINE x == ONE * ONE
           y == E * raw
           z == p * E
<1>7. x \in Nat /\ y <= x /\ z <= y /\ z \in Nat /\ y \in Int
  BY <1>1, <1>4, <1>6, SMT
<1> HIDE DEF x, y, z
<1>8. z <= x
  BY <1>7, SMT
<1> QED
  BY <1>8 DEF x, z, p, E

(* PT bought at a rate is paid for at a price that exchanges for no more.  *)
LEMMA PaidAtPrice ==
  ASSUME NEW p \in Nat, NEW n \in Nat, NEW cost \in Nat, NEW e \in Nat, NEW y \in Nat,
         e <= y, p * y <= ONE * ONE, n * ONE <= cost * e
  PROVE  p * n <= cost * ONE
<1> DEFINE a == p * n
           b == cost * ONE
<1>0. ONE \in Nat \ {0} /\ a \in Nat /\ b \in Nat
  BY OneAssumption, SMT
<1>1. p * (n * ONE) <= p * (cost * e)
  BY <1>0, SMT
<1>2. cost * e <= cost * y /\ cost * e \in Nat /\ cost * y \in Nat
  BY SMT
<1>3. p * (cost * e) <= p * (cost * y)
  <2> DEFINE u == cost * e
             v == cost * y
  <2>1. u \in Nat /\ v \in Nat /\ u <= v
    BY <1>2
  <2> HIDE DEF u, v
  <2>2. p * u <= p * v
    BY <2>1, SMT
  <2> QED
    BY <2>2 DEF u, v
<1>4. p * (cost * y) = cost * (p * y)
  BY SMT
<1>5. cost * (p * y) <= cost * (ONE * ONE)
  <2> DEFINE u == p * y
             v == ONE * ONE
  <2>1. u \in Nat /\ v \in Nat /\ u <= v
    BY <1>0, SMT
  <2> HIDE DEF u, v
  <2>2. cost * u <= cost * v
    BY <2>1, SMT
  <2> QED
    BY <2>2 DEF u, v
<1>6. p * (n * ONE) = ONE * a /\ cost * (ONE * ONE) = ONE * b
  BY <1>0, SMT
<1>7. ONE * a <= ONE * b
  <2> DEFINE s == p * (n * ONE)
             t == p * (cost * e)
             u == p * (cost * y)
             v == cost * (ONE * ONE)
  <2>1. s \in Int /\ t \in Int /\ u \in Int /\ v \in Int
    BY <1>0, <1>2, SMT
  <2>2. s <= t /\ t <= u /\ u <= v
    BY <1>1, <1>3, <1>4, <1>5
  <2>3. s = ONE * a /\ v = ONE * b
    BY <1>6
  <2> HIDE DEF s, t, u, v, a, b
  <2>4. s <= v
    BY <2>1, <2>2, SMT
  <2> QED
    BY <2>3, <2>4
<1> HIDE DEF a, b
<1>8. a <= b
  <2>1. ASSUME b + 1 <= a PROVE FALSE
    <3>1. ONE * (b + 1) <= ONE * a
      BY <1>0, <2>1, SMT
    <3> QED
      BY <1>0, <1>7, <3>1, SMT
  <2> QED
    BY <1>0, <2>1, SMT
<1> QED
  BY <1>8 DEF a, b

(* One power more, and what follows the steps up to n.                     *)
PowerStep(g, q, n) == IF n = 0 THEN ONE ELSE Times(g[n - 1], q)
PowerUpTo(g, q, n) == \A k \in 0 .. n : g[k] = PowerStep(g, q, k)

(* The powers of q that the bound of a loop is made of.                    *)
Power(q) == CHOOSE g : g = [n \in Nat |-> PowerStep(g, q, n)]

LEMMA PowerUnique ==
  ASSUME NEW q, NEW g, NEW h, NEW n \in Nat, PowerUpTo(g, q, n), PowerUpTo(h, q, n)
  PROVE  \A k \in 0 .. n : g[k] = h[k]
<1> DEFINE Bad == {k \in 0 .. n : g[k] # h[k]}
<1> SUFFICES ASSUME NEW z \in Bad PROVE FALSE
  OBVIOUS
<1>1. Bad \in SUBSET Nat
  BY SMT
<1>2. PICK y \in Bad : \A k \in Bad : y <= k
  <2> HIDE DEF Bad
  <2> QED
    BY <1>1, LeastOf
<1>3. y \in Nat /\ y <= n /\ g[y] = PowerStep(g, q, y) /\ h[y] = PowerStep(h, q, y) /\ g[y] # h[y]
  BY <1>2, SMT DEF PowerUpTo
<1>4. y # 0 /\ g[y - 1] # h[y - 1]
  BY <1>3 DEF PowerStep
<1>5. y - 1 \in 0 .. n /\ ~ (y <= y - 1)
  BY <1>3, <1>4, SMT
<1>6. y - 1 \in Bad
  BY <1>4, <1>5
<1> QED
  BY <1>2, <1>5, <1>6

LEMMA PowerUpToExists ==
  ASSUME NEW q, NEW n \in Nat
  PROVE  \E g : PowerUpTo(g, q, n)
<1> DEFINE Bad == {k \in Nat : \A g : ~ PowerUpTo(g, q, k)}
<1> SUFFICES ASSUME NEW z \in Bad PROVE FALSE
  BY Zenon
<1>1. PICK k \in Bad : \A j \in Bad : k <= j
  <2>1. Bad \in SUBSET Nat
    OBVIOUS
  <2> HIDE DEF Bad
  <2> QED
    BY <2>1, LeastOf
<1>2. k \in Nat /\ \A g : ~ PowerUpTo(g, q, k)
  BY <1>1
<1>3. PICK g : k > 0 => PowerUpTo(g, q, k - 1)
  <2>1. CASE k = 0
    BY <2>1, SMT
  <2>2. CASE k # 0
    <3>1. k - 1 \in Nat /\ k - 1 < k
      BY <1>2, <2>2, SMT
    <3>2. k - 1 \notin Bad
      <4> HIDE DEF Bad
      <4> QED
        BY <1>1, <1>2, <3>1, SMT
    <3>3. \E g : PowerUpTo(g, q, k - 1)
      BY <3>1, <3>2
    <3> QED
      BY <3>3
  <2> QED
    BY <2>1, <2>2
<1> DEFINE h == [y \in 0 .. k |-> IF y = k THEN PowerStep(g, q, k) ELSE g[y]]
<1>4. ASSUME NEW y \in 0 .. k PROVE PowerStep(h, q, y) = PowerStep(g, q, y)
  <2>1. CASE y # 0
    <3>1. y - 1 \in 0 .. k /\ y - 1 # k
      BY <1>2, <2>1, SMT
    <3>2. h[y - 1] = g[y - 1]
      BY <3>1
    <3> HIDE DEF h
    <3> QED
      BY <3>2 DEF PowerStep
  <2>2. CASE y = 0
    BY <2>2 DEF PowerStep
  <2> QED
    BY <2>1, <2>2
<1>5. ASSUME NEW y \in 0 .. k PROVE h[y] = PowerStep(g, q, y)
  <2>1. CASE y = k
    BY <2>1
  <2>2. CASE y # k
    <3>1. k > 0 /\ y \in 0 .. k - 1
      BY <1>2, <2>2, SMT
    <3>2. g[y] = PowerStep(g, q, y)
      BY <1>3, <3>1 DEF PowerUpTo
    <3>3. h[y] = g[y]
      BY <2>2
    <3> QED
      BY <3>2, <3>3
  <2> QED
    BY <2>1, <2>2
<1> HIDE DEF h
<1>6. PowerUpTo(h, q, k)
  BY <1>4, <1>5 DEF PowerUpTo
<1> QED
  BY <1>2, <1>6

(* The recursion of the bound has a solution.                              *)
LEMMA PowerUnfolds ==
  ASSUME NEW q
  PROVE  Power(q)[0] = ONE /\ \A n \in Nat : Power(q)[n + 1] = Times(Power(q)[n], q)
<1> DEFINE part(n) == CHOOSE g : PowerUpTo(g, q, n)
           whole   == [n \in Nat |-> part(n)[n]]
           P       == Power(q)
<1>1. ASSUME NEW n \in Nat PROVE PowerUpTo(part(n), q, n)
  <2>1. \E g : PowerUpTo(g, q, n)
    BY PowerUpToExists
  <2> QED
    BY <2>1
<1> HIDE DEF part
<1>2. ASSUME NEW y \in Nat PROVE part(y)[y] = PowerStep(whole, q, y)
  <2>1. part(y)[y] = PowerStep(part(y), q, y)
    <3>1. y \in 0 .. y
      BY SMT
    <3> QED
      BY <1>1, <3>1 DEF PowerUpTo
  <2>2. CASE y # 0
    <3>1. y - 1 \in Nat /\ 0 .. y - 1 \subseteq 0 .. y /\ y - 1 \in 0 .. y - 1
      BY <2>2, SMT
    <3>2. PowerUpTo(part(y), q, y - 1)
      BY <1>1, <3>1 DEF PowerUpTo
    <3>3. part(y)[y - 1] = part(y - 1)[y - 1]
      BY <1>1, <3>1, <3>2, PowerUnique
    <3>4. whole[y - 1] = part(y - 1)[y - 1]
      BY <3>1
    <3> HIDE DEF whole
    <3> QED
      BY <2>1, <2>2, <3>3, <3>4 DEF PowerStep
  <2>3. CASE y = 0
    <3> HIDE DEF whole
    <3> QED
      BY <2>1, <2>3 DEF PowerStep
  <2> QED
    BY <2>2, <2>3
<1>3. whole = [n \in Nat |-> PowerStep(whole, q, n)]
  <2>1. [n \in Nat |-> part(n)[n]] = [n \in Nat |-> PowerStep(whole, q, n)]
    <3> HIDE DEF whole
    <3> QED
      BY <1>2
  <2> QED
    BY <2>1 DEF whole
<1>4. \E g : g = [n \in Nat |-> PowerStep(g, q, n)]
  <2> HIDE DEF whole
  <2> QED
    BY <1>3
<1>5. P = [n \in Nat |-> PowerStep(P, q, n)]
  BY <1>4, Zenon DEF Power
<1>6. ASSUME NEW n \in Nat PROVE P[n] = PowerStep(P, q, n)
  <2>1. [z \in Nat |-> PowerStep(P, q, z)][n] = PowerStep(P, q, n)
    OBVIOUS
  <2> HIDE DEF P
  <2> QED
    BY <1>5, <2>1
<1> HIDE DEF P
<1>7. P[0] = ONE
  BY <1>6, SMT DEF PowerStep
<1>8. ASSUME NEW n \in Nat PROVE P[n + 1] = Times(P[n], q)
  <2>1. n + 1 \in Nat /\ n + 1 # 0 /\ (n + 1) - 1 = n
    BY SMT
  <2>2. P[n + 1] = PowerStep(P, q, n + 1)
    BY <1>6, <2>1
  <2> QED
    BY <2>1, <2>2 DEF PowerStep
<1> QED
  BY <1>7, <1>8 DEF P

(* The headroom kept is a fraction, and its powers fall.                   *)
LEMMA KeptFraction ==
  ASSUME NEW lltv \in 0 .. ONE
  PROVE  /\ Times(BORROW_UTILISATION, ONE - lltv) \in 0 .. BORROW_UTILISATION
         /\ HeadroomKept(lltv) \in 0 .. ONE
         /\ HeadroomKept(lltv) = ONE - Times(BORROW_UTILISATION, ONE - lltv)
<1>1. BORROW_UTILISATION \in Nat /\ BORROW_UTILISATION <= ONE /\ ONE - lltv \in 0 .. ONE
      /\ ONE - lltv \in Nat
  BY UtilisationAssumption, OneAssumption, SMT
<1> DEFINE k == Times(BORROW_UTILISATION, ONE - lltv)
<1>2. k \in Nat /\ k <= BORROW_UTILISATION
  BY <1>1, TimesNat, TimesFraction
<1>3. HeadroomKept(lltv) = ONE - k
  BY DEF HeadroomKept
<1> HIDE DEF k
<1>4. k \in 0 .. BORROW_UTILISATION /\ ONE - k \in 0 .. ONE
  BY <1>1, <1>2, OneAssumption, SMT
<1> QED
  BY <1>3, <1>4 DEF k

LEMMA PowerFraction ==
  ASSUME NEW q \in 0 .. ONE
  PROVE  \A n \in Nat : Power(q)[n] \in 0 .. ONE
<1> DEFINE P == Power(q)
           Bad == {n \in Nat : ~ (P[n] \in 0 .. ONE)}
<1> SUFFICES ASSUME NEW z \in Bad PROVE FALSE
  OBVIOUS
<1>1. Bad \in SUBSET Nat
  OBVIOUS
<1>2. PICK n \in Bad : \A k \in Bad : n <= k
  <2> HIDE DEF Bad
  <2> QED
    BY <1>1, LeastOf
<1>3. n \in Nat /\ ~ (P[n] \in 0 .. ONE)
  BY <1>2
<1>4. n # 0
  <2>1. P[0] = ONE /\ ONE \in 0 .. ONE
    BY PowerUnfolds, OneAssumption, SMT
  <2> QED
    BY <1>3, <2>1
<1>5. n - 1 \in Nat /\ ~ (n <= n - 1) /\ (n - 1) + 1 = n
  BY <1>3, <1>4, SMT
<1>6. P[n - 1] \in 0 .. ONE
  BY <1>2, <1>5
<1>7. P[n] = Times(P[n - 1], q)
  BY <1>5, PowerUnfolds
<1> HIDE DEF P, Bad
<1>8. P[n - 1] \in Nat /\ q \in Nat
  BY <1>6, OneAssumption, SMT
<1>9. Times(P[n - 1], q) \in Nat /\ Times(P[n - 1], q) <= P[n - 1]
  BY <1>8, TimesNat, TimesFraction
<1>10. Times(P[n - 1], q) \in 0 .. ONE
  BY <1>6, <1>9, OneAssumption, SMT
<1> QED
  BY <1>3, <1>7, <1>10

LEMMA PowerFalls ==
  ASSUME NEW q \in 0 .. ONE, NEW a \in Nat, NEW b \in Nat, a <= b
  PROVE  Power(q)[b] <= Power(q)[a]
<1> DEFINE P == Power(q)
           Bad == {n \in Nat : a <= n /\ ~ (P[n] <= P[a])}
<1>0. \A n \in Nat : P[n] \in Nat
  <2>1. \A n \in Nat : P[n] \in 0 .. ONE
    BY PowerFraction
  <2>2. \A x \in 0 .. ONE : x \in Nat
    BY OneAssumption, SMT
  <2> QED
    BY <2>1, <2>2
<1> SUFFICES ASSUME NEW z \in Bad PROVE FALSE
  OBVIOUS
<1>1. Bad \in SUBSET Nat
  OBVIOUS
<1>2. PICK n \in Bad : \A k \in Bad : n <= k
  <2> HIDE DEF Bad
  <2> QED
    BY <1>1, LeastOf
<1>3. n \in Nat /\ a <= n /\ ~ (P[n] <= P[a])
  BY <1>2
<1>4. n # a
  <2>1. P[a] <= P[a]
    <3> HIDE DEF P
    <3> QED
      BY <1>0, SMT
  <2> QED
    BY <1>3, <2>1
<1>5. n - 1 \in Nat /\ a <= n - 1 /\ ~ (n <= n - 1) /\ (n - 1) + 1 = n
  BY <1>3, <1>4, SMT
<1>6. P[n - 1] <= P[a]
  BY <1>2, <1>5
<1>7. P[n] = Times(P[n - 1], q)
  BY <1>5, PowerUnfolds
<1> HIDE DEF P, Bad
<1>8. P[n] <= P[n - 1]
  BY <1>0, <1>5, <1>7, TimesFraction
<1> QED
  BY <1>0, <1>3, <1>5, <1>6, <1>8, SMT

(* The bound of a loop, with its powers.                                   *)
LEMMA CeilingIs ==
  ASSUME NEW lltv, NEW depth
  PROVE  GeometricLeverageCeiling(lltv, depth)
           = ONE + ((BORROW_UTILISATION - (ONE - HeadroomKept(lltv)))
                      * (ONE - Power(HeadroomKept(lltv))[depth])) \div (ONE - HeadroomKept(lltv))
BY Zenon DEF GeometricLeverageCeiling, Power, PowerStep

(* A quotient rounded down and scaled is exact or less, in three factors.  *)
LEMMA BorrowBelow ==
  ASSUME NEW v \in Nat, NEW price \in Nat, NEW lltv \in Nat
  PROVE  /\ MaxBorrow(v, price, lltv) \in Nat
         /\ MaxBorrow(v, price, lltv) * (ONE * ONE) <= (v * price) * lltv
<1> DEFINE w == Times(v, price)
           b == Times(w, lltv)
           z == v * price
           o == ONE
<1>o. o \in Nat \ {0}
  BY OneAssumption
<1>1. w \in Nat /\ w * o <= z
  BY TimesBelow
<1>2. b \in Nat /\ b * o <= w * lltv
  BY <1>1, TimesBelow
<1>3. z \in Nat
  BY SMT
<1>m. MaxBorrow(v, price, lltv) = b
  BY DEF MaxBorrow
<1> HIDE DEF w, b, z, o
<1> DEFINE wl == w * lltv
           wo == w * o
           bo == b * o
<1>4. wl \in Nat /\ wo \in Nat /\ bo \in Nat
  BY <1>o, <1>1, <1>2, SMT
<1>5. bo * o <= wl * o
  <2> HIDE DEF bo, wl
  <2> QED
    BY <1>o, <1>2, <1>4, Scaled DEF bo, wl
<1>6. wo * lltv <= z * lltv
  <2> HIDE DEF wo
  <2> QED
    BY <1>1, <1>3, <1>4, Scaled DEF wo
<1>7. wl * o = wo * lltv /\ bo * o = b * (o * o)
  BY <1>o, <1>1, <1>2, SMT
<1>8. b * (o * o) <= z * lltv
  BY <1>5, <1>6, <1>7, <1>o, <1>1, <1>2, <1>3, <1>4, SMT
<1> QED
  BY <1>2, <1>8, <1>m DEF o, z

(* The debt after one loan more, at most what is lent on the PT the loop   *)
(* started with and on what the debt there was has bought.                 *)
LEMMA DebtGrows ==
  ASSUME NEW d \in Nat, NEW mb \in Nat, NEW b \in Nat, NEW u \in Nat, NEW o \in Nat \ {0},
         NEW v \in Nat, NEW w \in Nat, NEW l \in Nat, NEW m \in Nat,
         d <= mb, u <= o,
         b * o <= (mb - d) * u, mb * (o * o) <= v * l, v <= w + d * o, u * l <= m * o
  PROVE  (d + b) * (o * o) <= d * ((o - u + m) * o) + w * m
<1> DEFINE x == mb * (o * o)
           y == v * l
           e == w + d * o
           ul == u * l
           mo == m * o
<1>1. x \in Nat /\ y \in Nat /\ e \in Nat /\ ul \in Nat /\ mo \in Nat
  BY SMT
<1>2. x * u <= y * u
  <2> HIDE DEF x, y
  <2> QED
    BY <1>1, Scaled DEF x, y
<1>3. y * u = v * ul
  BY SMT
<1>4. v * ul <= e * ul
  <2> HIDE DEF e, ul
  <2> QED
    BY <1>1, Scaled DEF e
<1>5. e * ul <= e * mo
  <2> HIDE DEF e, ul, mo
  <2> QED
    BY <1>1, Scaled DEF ul, mo
<1>6. x * u <= e * mo
  <2> DEFINE a1 == x * u
             a2 == y * u
             a3 == v * ul
             a4 == e * ul
             a5 == e * mo
  <2>1. a1 \in Nat /\ a2 \in Nat /\ a3 \in Nat /\ a4 \in Nat /\ a5 \in Nat
    <3> HIDE DEF x, y, e, ul, mo
    <3> QED
      BY <1>1, SMT
  <2>2. a1 <= a2 /\ a2 = a3 /\ a3 <= a4 /\ a4 <= a5
    BY <1>2, <1>3, <1>4, <1>5
  <2> HIDE DEF a1, a2, a3, a4, a5
  <2>3. a1 <= a5
    BY <2>1, <2>2, SMT
  <2> QED
    BY <2>3 DEF a1, a5
<1> DEFINE bo == b * o
           ru == (mb - d) * u
           oo == o * o
<1>7. bo \in Nat /\ ru \in Nat /\ oo \in Nat
  <2>1. mb - d \in Nat
    BY SMT
  <2> QED
    BY <2>1, SMT
<1>8. bo * oo <= ru * oo
  <2> HIDE DEF bo, ru, oo
  <2> QED
    BY <1>7, Scaled DEF bo, ru
<1>9. ru * oo = x * u - (d * u) * oo
  BY SMT
<1>10. e * mo = (w * m + (d * m) * o) * o
  BY SMT
<1> DEFINE left  == (d + b) * oo
           right == d * ((o - u + m) * o) + w * m
<1>11. left * o = (d * o) * oo + bo * oo
  BY SMT
<1>12. right * o = (d * o) * oo - (d * u) * oo + (w * m + (d * m) * o) * o
  BY SMT
<1>13. left * o <= right * o
  <2> DEFINE s == (d * o) * oo
             t == (d * u) * oo
             r == bo * oo
             xu == x * u
             em == e * mo
             rt == ru * oo
             lo == left * o
             ro == right * o
  <2>1. s \in Int /\ t \in Int /\ r \in Int /\ xu \in Int /\ em \in Int /\ rt \in Int
    BY SMT
  <2>2. lo = s + r /\ ro = s - t + em /\ r <= rt /\ rt = xu - t /\ xu <= em
    BY <1>6, <1>8, <1>9, <1>10, <1>11, <1>12
  <2> HIDE DEF s, t, r, xu, em, rt, lo, ro
  <2>3. lo <= ro
    BY <2>1, <2>2, SMT
  <2> QED
    BY <2>3 DEF lo, ro
<1>14. left \in Int /\ right \in Int
  BY SMT
<1>15. left <= right
  <2> HIDE DEF left, right
  <2> QED
    BY <1>13, <1>14, Unscaled
<1> QED
  BY <1>15

(* What the debt grows by stays below the part of the series reached.      *)
LEMMA SeriesGrows ==
  ASSUME NEW d \in Nat, NEW d2 \in Nat, NEW k \in Nat, NEW q \in Nat, NEW o \in Nat \ {0},
         NEW w \in Nat, NEW m \in Nat, NEW pw \in Nat, NEW pw2 \in Nat,
         k + q = o, pw <= o, pw2 * o <= pw * q,
         (d * k) * (o * o) <= (m * w) * (o - pw),
         d2 * (o * o) <= d * (q * o) + w * m
  PROVE  (d2 * k) * (o * o) <= (m * w) * (o - pw2)
<1> DEFINE mw == m * w
           a  == d2 * (o * o)
           c  == d * (q * o) + w * m
           f  == (d * k) * (o * o)
           g  == mw * (o - pw)
           ko == k * o
<1>1. mw \in Nat /\ a \in Nat /\ c \in Nat /\ f \in Nat /\ ko \in Nat
  BY SMT
<1>2. g \in Nat
  <2>1. o - pw \in Nat
    BY SMT
  <2> HIDE DEF mw
  <2> QED
    BY <1>1, <2>1, SMT
<1>3. a * ko <= c * ko
  <2> HIDE DEF a, c, ko
  <2> QED
    BY <1>1, Scaled DEF a, c
<1>4. c * ko = f * q + mw * ko
  BY SMT
<1>5. f * q <= g * q
  <2> HIDE DEF f, g
  <2> QED
    BY <1>1, <1>2, Scaled DEF f, g, mw
<1> DEFINE pq == pw * q
           po == pw2 * o
<1>6. g * q + mw * ko = mw * (o * o - pq)
  <2> HIDE DEF mw
  <2>1. o * o = k * o + q * o
    BY SMT
  <2>2. o * o - pw * q = (o - pw) * q + k * o
    BY <2>1, SMT
  <2>3. mw * ((o - pw) * q + k * o) = (mw * (o - pw)) * q + mw * (k * o)
    BY <1>1, SMT
  <2> QED
    BY <2>2, <2>3
<1>7. mw * (o * o - pq) <= mw * (o * o - po)
  <2> HIDE DEF mw
  <2> DEFINE x == o * o - pq
             y == o * o - po
  <2>1. x <= y /\ x \in Int /\ y \in Int
    <3>1. pq \in Nat /\ po \in Nat /\ po <= pq /\ o * o \in Nat
      BY SMT
    <3> HIDE DEF pq, po
    <3> DEFINE z == o * o
    <3> HIDE DEF z
    <3>2. z - pq <= z - po /\ z - pq \in Int /\ z - po \in Int
      BY <3>1, SMT DEF z
    <3> QED
      BY <3>2 DEF z
  <2> HIDE DEF x, y
  <2>2. mw * x <= mw * y
    BY <1>1, <2>1, SMT
  <2> QED
    BY <2>2 DEF x, y
<1>8. mw * (o * o - po) = (mw * (o - pw2)) * o
  BY <1>1, SMT
<1> DEFINE left  == (d2 * k) * (o * o)
           right == mw * (o - pw2)
<1>9. a * ko = left * o
  BY SMT
<1>10. left * o <= right * o
  <2> DEFINE t1 == left * o
             t2 == c * ko
             t3 == f * q
             t4 == mw * ko
             t5 == g * q
             t6 == mw * (o * o - pq)
             t7 == mw * (o * o - po)
             t8 == right * o
  <2>1. t1 \in Int /\ t2 \in Int /\ t3 \in Int /\ t4 \in Int /\ t5 \in Int /\ t6 \in Int
        /\ t7 \in Int /\ t8 \in Int
    <3> HIDE DEF mw, c, f, g, ko
    <3> QED
      BY <1>1, <1>2, SMT
  <2>2. /\ t1 <= t2 /\ t2 = t3 + t4 /\ t3 <= t5 /\ t5 + t4 = t6 /\ t6 <= t7 /\ t7 = t8
    BY <1>3, <1>4, <1>5, <1>6, <1>7, <1>8, <1>9
  <2> HIDE DEF t1, t2, t3, t4, t5, t6, t7, t8
  <2>3. t1 <= t8
    BY <2>1, <2>2, SMT
  <2> QED
    BY <2>3 DEF t1, t8
<1>11. left \in Int /\ right \in Int
  <2> HIDE DEF mw
  <2> QED
    BY <1>1, SMT
<1>12. left <= right
  <2> HIDE DEF left, right
  <2> QED
    BY <1>10, <1>11, Unscaled
<1> QED
  BY <1>12

(* The room of a position, and what a loan takes off it.                   *)
HeadroomOf(l) == MaxBorrow(l.collateralPt, l.oraclePrice, l.lltv) - l.debt
HeadroomLost(lltv) == ONE - HeadroomKept(lltv)

(* The debt after n loans stays below the first terms of the series, and   *)
(* without a displaced price the PT bought is paid for at that price.      *)
WithinSeries(l) ==
  (l.debt * HeadroomLost(l.lltv)) * (ONE * ONE)
    <= ((BORROW_UTILISATION - HeadroomLost(l.lltv)) * (l.initialPt * l.oraclePrice))
         * (ONE - Power(HeadroomKept(l.lltv))[l.achievedDepth])

PaidFor(l) == l.oraclePrice * (l.collateralPt - l.initialPt) <= l.assetSpent * ONE

Undisplaced(l) == l.oraclePrice = MarketImpliedValue(l.opening, BlockTime)

(* A loop starts with PT of its own; its purchases only lower the rate.    *)
Ideal(l) ==
  /\ l.initialPt \in Nat \ {0} /\ l.depth \in Nat /\ l.achievedDepth \in 0 .. l.depth
  /\ l.lltv \in 1 .. ONE /\ l.opening \in Market /\ l.market.expiry = l.opening.expiry
  /\ l.opening.expiry > BlockTime => Exchange(l.market) <= Exchange(l.opening)
  /\ l.initialPt <= l.collateralPt
  /\ Undisplaced(l) => PaidFor(l) /\ (~ l.fellBack => WithinSeries(l))

(* The loan of a purchase is the part of the headroom that is used.        *)
Loaned(l, b) == b.budget = Times(HeadroomOf(l), BORROW_UTILISATION) /\ l.achievedDepth # l.depth

LoopIdeal ==
  loop = LoopIdle \/ (Ideal(loop) /\ (loop.status \in Sizes => Loaned(loop, buy)))

LEMMA RunIdeal ==
  ASSUME NEW m, Computable(m), NEW pt \in Nat \ {0}, NEW price \in Nat, NEW lltv \in 1 .. ONE,
         NEW depth \in Nat, RunLoop(pt, m, price, lltv, depth)
  PROVE  LoopIdeal'
<1> DEFINE l == loop'
           q == HeadroomKept(lltv)
           k == HeadroomLost(lltv)
<1>1. /\ l.initialPt = pt /\ l.depth = depth /\ l.achievedDepth = 0 /\ l.lltv = lltv
      /\ l.opening = m /\ l.market = m /\ l.collateralPt = pt /\ l.oraclePrice = price
      /\ l.debt = 0 /\ l.assetSpent = 0 /\ l.status = "borrow"
  BY DEF RunLoop
<1>2. Power(q)[0] = ONE /\ ONE - ONE = 0 /\ ONE \in Nat \ {0}
  BY PowerUnfolds, OneAssumption, SMT
<1>3. q \in Int /\ k \in Int /\ BORROW_UTILISATION \in Int
  <2>1. lltv \in 0 .. ONE
    BY OneAssumption, SMT
  <2>2. q \in 0 .. ONE /\ k = ONE - q
    BY <2>1, KeptFraction DEF HeadroomLost
  <2> HIDE DEF q, k
  <2> QED
    BY <2>2, OneAssumption, UtilisationAssumption, SMT
<1>4. WithinSeries(l)
  <2>1. WithinSeries(l)
          <=> (0 * k) * (ONE * ONE)
                <= ((BORROW_UTILISATION - k) * (pt * price)) * (ONE - Power(q)[0])
    BY <1>1, Zenon DEF WithinSeries
  <2> DEFINE x == (BORROW_UTILISATION - k) * (pt * price)
             y == ONE * ONE
  <2> HIDE DEF q, k
  <2>2. x \in Int /\ y \in Int
    BY <1>2, <1>3, SMT
  <2> HIDE DEF x
  <2>3. x * 0 = 0 /\ 0 * k = 0 /\ 0 * y = 0 /\ 0 <= 0
    BY <1>3, <2>2, SMT
  <2>4. (0 * k) * y <= x * (ONE - Power(q)[0])
    BY <1>2, <2>3
  <2> QED
    BY <2>1, <2>4 DEF x
<1>5. PaidFor(l)
  <2>1. price * (pt - pt) <= 0 * ONE
    BY <1>2, SMT
  <2> QED
    BY <1>1, <2>1 DEF PaidFor
<1> HIDE DEF l
<1>6. ASSUME m.expiry > BlockTime PROVE Exchange(m) <= Exchange(m)
  <2>1. m \in Market /\ Exchange(m) \in Nat
    BY <1>6, ExchangeAboveOne DEF Computable
  <2> QED
    BY <2>1, SMT
<1>7. m \in Market /\ pt <= pt /\ 0 \in 0 .. depth
  BY SMT DEF Computable
<1>8. Ideal(l)
  BY <1>1, <1>4, <1>5, <1>6, <1>7 DEF Ideal
<1> QED
  BY <1>1, <1>8 DEF LoopIdeal, Sizes, l

(* A step that only changes where the loop stands keeps all this.          *)
LEMMA StatusIdeal ==
  ASSUME NEW l, Backed(l), Ideal(l), NEW st
  PROVE  /\ Ideal([l EXCEPT !.status = st])
         /\ Ideal([l EXCEPT !.status = st, !.fellBack = TRUE])
         /\ [l EXCEPT !.status = st].status = st
         /\ \A b : Loaned(l, b) => /\ Loaned([l EXCEPT !.status = st], b)
                                   /\ Loaned([l EXCEPT !.status = st, !.fellBack = TRUE], b)
<1> DEFINE next == [l EXCEPT !.status = st]
           fell == [l EXCEPT !.status = st, !.fellBack = TRUE]
<1>1. /\ next.market = l.market /\ next.opening = l.opening /\ next.initialPt = l.initialPt
      /\ next.oraclePrice = l.oraclePrice /\ next.lltv = l.lltv /\ next.depth = l.depth
      /\ next.achievedDepth = l.achievedDepth /\ next.collateralPt = l.collateralPt
      /\ next.debt = l.debt /\ next.assetSpent = l.assetSpent /\ next.fellBack = l.fellBack
      /\ next.status = st
  BY DEF Backed
<1>2. /\ fell.market = l.market /\ fell.opening = l.opening /\ fell.initialPt = l.initialPt
      /\ fell.oraclePrice = l.oraclePrice /\ fell.lltv = l.lltv /\ fell.depth = l.depth
      /\ fell.achievedDepth = l.achievedDepth /\ fell.collateralPt = l.collateralPt
      /\ fell.debt = l.debt /\ fell.assetSpent = l.assetSpent /\ fell.fellBack = TRUE
  BY DEF Backed
<1> HIDE DEF next, fell
<1>3. (Undisplaced(next) <=> Undisplaced(l)) /\ (PaidFor(next) <=> PaidFor(l))
      /\ (WithinSeries(next) <=> WithinSeries(l)) /\ HeadroomOf(next) = HeadroomOf(l)
  BY <1>1, Zenon DEF Undisplaced, PaidFor, WithinSeries, HeadroomOf
<1>4. (Undisplaced(fell) <=> Undisplaced(l)) /\ (PaidFor(fell) <=> PaidFor(l))
      /\ HeadroomOf(fell) = HeadroomOf(l)
  BY <1>2, Zenon DEF Undisplaced, PaidFor, HeadroomOf
<1>5. Ideal(next)
  BY <1>1, <1>3, Zenon DEF Ideal
<1>6. Ideal(fell)
  BY <1>2, <1>4, Zenon DEF Ideal
<1>7. \A b : Loaned(l, b) => Loaned(next, b) /\ Loaned(fell, b)
  BY <1>1, <1>2, <1>3, <1>4, Zenon DEF Loaned
<1> QED
  BY <1>1, <1>5, <1>6, <1>7 DEF next, fell

(* A purchase made with a loan of the headroom, at a price that is not     *)
(* displaced: the PT is paid for, the debt is a term of the series more.   *)
LEMMA LoanWithinSeries ==
  ASSUME NEW c0 \in Nat \ {0}, NEW c \in Nat, c0 <= c, NEW price \in Nat, NEW lltv \in 1 .. ONE,
         NEW debt \in Nat, debt <= MaxBorrow(c, price, lltv), price * (c - c0) <= debt * ONE,
         NEW n \in Nat,
         (debt * HeadroomLost(lltv)) * (ONE * ONE)
           <= ((BORROW_UTILISATION - HeadroomLost(lltv)) * (c0 * price))
                * (ONE - Power(HeadroomKept(lltv))[n])
  PROVE  ((debt + Times(MaxBorrow(c, price, lltv) - debt, BORROW_UTILISATION))
             * HeadroomLost(lltv)) * (ONE * ONE)
           <= ((BORROW_UTILISATION - HeadroomLost(lltv)) * (c0 * price))
                * (ONE - Power(HeadroomKept(lltv))[n + 1])
<1> DEFINE o  == ONE
           u  == BORROW_UTILISATION
           q  == HeadroomKept(lltv)
           k  == HeadroomLost(lltv)
           m  == u - k
           mb == MaxBorrow(c, price, lltv)
           b  == Times(mb - debt, u)
           v  == c * price
           w  == c0 * price
           pw == Power(q)[n]
           pw2 == Power(q)[n + 1]
<1>1. o \in Nat \ {0} /\ u \in Nat /\ u <= o /\ lltv \in Nat /\ lltv <= o
      /\ lltv \in 0 .. o /\ o - lltv \in Nat
  BY OneAssumption, UtilisationAssumption, SMT
<1>2. k = Times(u, o - lltv) /\ k \in 0 .. u /\ q \in 0 .. o /\ k + q = o /\ k \in Nat /\ q \in Nat
  <2>1. /\ Times(u, o - lltv) \in 0 .. u /\ q \in 0 .. o /\ q = o - Times(u, o - lltv)
        /\ k = o - q
    BY <1>1, KeptFraction DEF HeadroomLost
  <2> DEFINE t == Times(u, o - lltv)
  <2> HIDE DEF q, k, o, u, t
  <2>2. t \in 0 .. u /\ q = o - t
    BY <2>1 DEF t
  <2>3. k = t /\ k \in 0 .. u /\ q \in 0 .. o /\ k + q = o /\ k \in Nat /\ q \in Nat
    BY <1>1, <2>1, <2>2, SMT
  <2> QED
    BY <2>3 DEF t
<1>3. mb \in Nat /\ mb * (o * o) <= v * lltv
  BY <1>1, BorrowBelow
<1>4. pw \in 0 .. o /\ pw2 \in 0 .. o /\ pw2 = Times(pw, q)
  <2>1. n + 1 \in Nat
    BY SMT
  <2> QED
    BY <1>2, <2>1, PowerFraction, PowerUnfolds
<1>5. v \in Nat /\ w \in Nat /\ v <= w + debt * o
  <2>1. v = w + price * (c - c0)
    BY SMT
  <2>2. v \in Nat /\ w \in Nat /\ price * (c - c0) \in Int /\ debt * o \in Int
    BY <1>1, SMT
  <2> DEFINE x == price * (c - c0)
             y == debt * o
  <2>3. x <= y /\ v = w + x /\ v \in Nat /\ w \in Nat /\ x \in Int /\ y \in Int
    BY <2>1, <2>2
  <2> HIDE DEF x, y, v, w
  <2>4. v <= w + y
    BY <2>3, SMT
  <2> QED
    BY <2>2, <2>4 DEF y
<1>6. debt <= mb
  OBVIOUS
<1> HIDE DEF mb
<1>7. mb - debt \in Nat
  BY <1>3, <1>6, SMT
<1>8. b \in Nat /\ b * o <= (mb - debt) * u
  BY <1>1, <1>7, TimesBelow
<1>9. pw \in Nat /\ pw2 \in Nat /\ pw <= o /\ pw2 * o <= pw * q
  <2> HIDE DEF pw, pw2, q, o
  <2>1. pw \in Nat /\ pw2 \in Nat /\ pw <= o
    BY <1>1, <1>4, SMT
  <2>2. Times(pw, q) * ONE <= pw * q
    BY <1>2, <2>1, TimesBelow
  <2> QED
    BY <1>4, <2>1, <2>2 DEF o
<1>k. k * o <= u * (o - lltv)
  BY <1>1, <1>2, TimesBelow
<1> HIDE DEF b, v, w, q, k, pw, pw2, o, u
<1>10. m \in Nat
  BY <1>1, <1>2, SMT
<1>11. u * lltv <= m * o
  <2>1. u * (o - lltv) = u * o - u * lltv /\ (u - k) * o = u * o - k * o
        /\ u * o \in Int /\ u * lltv \in Int /\ k * o \in Int
    BY <1>1, <1>2, SMT
  <2> DEFINE a == u * (o - lltv)
             d == u * o
             e == u * lltv
             f == k * o
             g == m * o
  <2>2. a = d - e /\ g = d - f /\ f <= a /\ d \in Int /\ e \in Int /\ f \in Int
    BY <1>k, <2>1
  <2> HIDE DEF a, d, e, f, g
  <2>3. e <= g
    BY <2>2, SMT
  <2> QED
    BY <2>3 DEF e, g
<1>12. o - u + m = q
  <2>1. k + q = o /\ k \in Nat /\ q \in Nat /\ o \in Nat /\ u \in Nat /\ m = u - k
    BY <1>1, <1>2
  <2> HIDE DEF m
  <2> QED
    BY <2>1, SMT
<1> HIDE DEF m
<1>13. (debt + b) * (o * o) <= debt * ((o - u + m) * o) + w * m
  BY <1>1, <1>3, <1>5, <1>6, <1>8, <1>10, <1>11, DebtGrows
<1>14. (debt + b) * (o * o) <= debt * (q * o) + w * m
  BY <1>12, <1>13
<1>15. (debt * k) * (o * o) <= (m * w) * (o - pw)
  BY DEF m, k, q, w, o, pw, u
<1>16. debt + b \in Nat
  BY <1>8, SMT
<1>17. ((debt + b) * k) * (o * o) <= (m * w) * (o - pw2)
  <2> DEFINE d2 == debt + b
  <2>1. d2 \in Nat /\ d2 * (o * o) <= debt * (q * o) + w * m
    BY <1>14, <1>16
  <2> HIDE DEF d2
  <2>2. (d2 * k) * (o * o) <= (m * w) * (o - pw2)
    <3>1. /\ k \in Nat /\ q \in Nat /\ o \in Nat \ {0} /\ w \in Nat /\ m \in Nat /\ pw \in Nat
          /\ pw2 \in Nat /\ k + q = o /\ pw <= o /\ pw2 * o <= pw * q
          /\ (debt * k) * (o * o) <= (m * w) * (o - pw)
      BY <1>1, <1>2, <1>5, <1>9, <1>10, <1>15
    <3> QED
      BY <2>1, <3>1, SeriesGrows
  <2> QED
    BY <2>2 DEF d2
<1> QED
  BY <1>17 DEF m, k, q, w, o, pw2, u, b, mb

LEMMA TakesBeforeExpiry ==
  ASSUME NEW m, Computable(m), NEW n, Takes(m, n, BlockTime)
  PROVE  m.expiry > BlockTime
<1> DEFINE comp == Pre(m)
<1>1. m \in Market
  BY DEF Computable
<1>2. Open(m, BlockTime)
  BY <1>1, AfterMeans
<1>3. Computed(comp)
  BY <1>2, PreComputeTyped DEF Computable, Pre
<1>4. comp.timeToExpiry = m.expiry - BlockTime
  BY DEF Pre, MarketPreCompute
<1> HIDE DEF comp
<1>5. m.expiry - BlockTime \in Nat \ {0} /\ m.expiry \in Nat
  BY <1>1, <1>3, <1>4 DEF Computed, Market
<1> QED
  BY <1>5, SearchAssumption, SMT

LEMMA BuyIdeal ==
  ASSUME Backed(loop), Sizing(loop, buy), LoopTyped(loop), Affords(loop, buy), BuyTyped(buy),
         Ideal(loop), Loaned(loop, buy), Buy, buy.lo # 0
  PROVE  Ideal(loop') /\ loop'.status = "borrow"
<1> DEFINE m    == loop.market
           n    == buy.lo
           exec == ExecuteTrade(m, n, BlockTime)
           net  == exec.trade.netAssetToAccount
           cost == CostIn(m, n)
           next == exec.market
           fees == loop.ammFeesPaid + exec.trade.netAssetFee
           paid == loop.assetSpent - net
           more == loop.collateralPt + n
           owed == loop.debt + buy.budget
           deep == Deeper
           l    == loop'
           p    == loop.oraclePrice
           y    == Exchange(loop.opening)
<1>1. /\ Takes(m, n, BlockTime)
      /\ loop' = [loop EXCEPT !.status = "borrow", !.market = next, !.ammFeesPaid = fees,
                              !.assetSpent = paid, !.collateralPt = more, !.debt = owed,
                              !.achievedDepth = deep]
  BY DEF Buy
<1>2. /\ l.status = "borrow" /\ l.market = next /\ l.assetSpent = paid /\ l.collateralPt = more
      /\ l.debt = owed /\ l.achievedDepth = deep
      /\ l.opening = loop.opening /\ l.fellBack = loop.fellBack /\ l.initialPt = loop.initialPt
      /\ l.oraclePrice = loop.oraclePrice /\ l.lltv = loop.lltv /\ l.depth = loop.depth
  <2> HIDE DEF next, fees, paid, more, owed, deep
  <2> QED
    BY <1>1 DEF Backed
<1>3. n \in Nat \ {0} /\ Computable(m)
  BY SMT DEF BuyTyped, LoopTyped
<1>4. net \in Int /\ cost \in Nat /\ net = - cost
  <2>1. /\ net \in Int /\ - net \in Nat
        /\ exec.trade = CalcTrade(m, MarketPreCompute(m, BlockTime), n)
    BY <1>1, <1>3, PurchaseKeepsPool
  <2>2. cost = - net
    BY <2>1 DEF CostIn
  <2> HIDE DEF cost, net
  <2> QED
    BY <2>1, <2>2, SMT
<1>5. next.expiry = m.expiry /\ Exchange(next) <= Exchange(m)
  BY <1>1, <1>3, PurchaseLowersRate
<1>6. n * ONE <= cost * Exchange(m)
  BY <1>1, <1>3, PurchaseCosts
<1>7. m.expiry > BlockTime
  BY <1>1, <1>3, TakesBeforeExpiry
<1>8. loop.opening.expiry > BlockTime /\ Exchange(m) <= y /\ loop.opening \in Market
      /\ next.expiry = loop.opening.expiry
  BY <1>5, <1>7 DEF Ideal
<1>9. Computable(next)
  BY <1>1, <1>3, PurchaseKeepsPool
<1>10. Exchange(m) \in Nat /\ y \in Nat /\ Exchange(next) \in Nat
  <2>1. m \in Market /\ next \in Market /\ next.expiry > BlockTime
    BY <1>3, <1>5, <1>7, <1>9 DEF Computable
  <2> HIDE DEF next, m
  <2> QED
    BY <1>7, <1>8, <2>1, ExchangeAboveOne
<1>11. Exchange(next) <= y
  <2> HIDE DEF next, m, y
  <2> QED
    BY <1>5, <1>8, <1>10, SMT
<1>12. /\ loop.initialPt \in Nat \ {0} /\ loop.collateralPt \in Nat
       /\ loop.initialPt <= loop.collateralPt /\ loop.achievedDepth \in 0 .. loop.depth
       /\ loop.depth \in Nat /\ loop.lltv \in 1 .. ONE /\ p \in Nat /\ loop.debt \in Nat
       /\ loop.achievedDepth # loop.depth /\ loop.assetSpent \in Nat
       /\ loop.debt <= MaxBorrow(loop.collateralPt, p, loop.lltv)
       /\ (~ loop.fellBack => loop.assetSpent <= loop.debt)
  BY DEF Backed, Ideal, Loaned, LoopTyped
<1>13. deep = loop.achievedDepth + 1 /\ deep \in 0 .. loop.depth /\ loop.achievedDepth \in Nat
  <2>1. deep = loop.achievedDepth + 1
    BY DEF Deeper
  <2> HIDE DEF deep
  <2> QED
    BY <1>12, <2>1, SMT
<1> HIDE DEF m, exec, net, next, deep, cost, fees
<1>14. n \in Nat /\ paid = loop.assetSpent + cost /\ loop.initialPt <= more
  BY <1>3, <1>4, <1>12, SMT
<1>15. Undisplaced(l) <=> Undisplaced(loop)
  BY <1>2, Zenon DEF Undisplaced
<1>16. ASSUME Undisplaced(loop) PROVE PaidFor(l)
  <2>1. p * (loop.collateralPt - loop.initialPt) <= loop.assetSpent * ONE
    BY <1>16 DEF Ideal, PaidFor
  <2>2. p * y <= ONE * ONE
    BY <1>8, <1>16, PriceExchanges DEF Undisplaced
  <2> HIDE DEF p, y
  <2>3. p * n <= cost * ONE
    BY <1>4, <1>6, <1>8, <1>10, <1>12, <1>14, <2>2, PaidAtPrice
  <2>4. p * (more - loop.initialPt) <= paid * ONE
    <3> DEFINE a == p * (loop.collateralPt - loop.initialPt)
               b == p * n
               c == loop.assetSpent * ONE
               d == cost * ONE
    <3>1. p * (more - loop.initialPt) = a + b /\ paid * ONE = c + d
          /\ a \in Int /\ b \in Int /\ c \in Int /\ d \in Int
      BY <1>4, <1>12, <1>14, OneAssumption, SMT
    <3>2. a <= c /\ b <= d
      BY <2>1, <2>3
    <3> HIDE DEF a, b, c, d
    <3>3. a + b <= c + d
      BY <3>1, <3>2, SMT
    <3> QED
      BY <3>1, <3>3
  <2> QED
    BY <1>2, <2>4 DEF PaidFor, p
<1>17. ASSUME Undisplaced(loop), ~ loop.fellBack PROVE WithinSeries(l)
  <2>1. p * (loop.collateralPt - loop.initialPt) <= loop.assetSpent * ONE
        /\ WithinSeries(loop)
    BY <1>17 DEF Ideal, PaidFor
  <2>2. p * (loop.collateralPt - loop.initialPt) <= loop.debt * ONE
    <3>1. loop.assetSpent * ONE <= loop.debt * ONE
      BY <1>12, <1>17, OneAssumption, Scaled
    <3> DEFINE a == p * (loop.collateralPt - loop.initialPt)
               b == loop.assetSpent * ONE
               c == loop.debt * ONE
    <3>2. a \in Int /\ b \in Int /\ c \in Int /\ a <= b /\ b <= c
      <4> HIDE DEF p
      <4>1. a \in Int /\ b \in Int /\ c \in Int
        BY <1>12, OneAssumption, SMT
      <4> QED
        BY <2>1, <3>1, <4>1 DEF p
    <3> HIDE DEF a, b, c
    <3>3. a <= c
      BY <3>2, SMT
    <3> QED
      BY <3>3 DEF a, c
  <2>3. buy.budget = Times(MaxBorrow(loop.collateralPt, p, loop.lltv) - loop.debt,
                           BORROW_UTILISATION)
    BY DEF Loaned, HeadroomOf
  <2>4. (loop.debt * HeadroomLost(loop.lltv)) * (ONE * ONE)
          <= ((BORROW_UTILISATION - HeadroomLost(loop.lltv)) * (loop.initialPt * p))
               * (ONE - Power(HeadroomKept(loop.lltv))[loop.achievedDepth])
    BY <2>1 DEF WithinSeries
  <2> HIDE DEF p
  <2>5. (owed * HeadroomLost(loop.lltv)) * (ONE * ONE)
          <= ((BORROW_UTILISATION - HeadroomLost(loop.lltv)) * (loop.initialPt * p))
               * (ONE - Power(HeadroomKept(loop.lltv))[loop.achievedDepth + 1])
    BY <1>12, <1>13, <2>2, <2>3, <2>4, LoanWithinSeries
  <2> HIDE DEF owed, l
  <2> QED
    BY <1>2, <1>13, <2>5 DEF WithinSeries, p
<1>18. Ideal(l)
  <2>1. l.opening.expiry > BlockTime => Exchange(l.market) <= Exchange(l.opening)
    BY <1>2, <1>11 DEF y
  <2>2. l.market.expiry = l.opening.expiry /\ l.opening \in Market
    BY <1>2, <1>8
  <2>3. l.initialPt \in Nat \ {0} /\ l.depth \in Nat /\ l.lltv \in 1 .. ONE
        /\ l.achievedDepth \in 0 .. l.depth /\ l.initialPt <= l.collateralPt
    BY <1>2, <1>12, <1>13, <1>14
  <2>4. Undisplaced(l) => PaidFor(l) /\ (~ l.fellBack => WithinSeries(l))
    BY <1>2, <1>15, <1>16, <1>17
  <2> HIDE DEF l
  <2> QED
    BY <2>1, <2>2, <2>3, <2>4 DEF Ideal
<1> QED
  BY <1>2, <1>18

LEMMA LoopStepIdeal ==
  ASSUME Backed(loop), loop.status \in Sizes => Sizing(loop, buy), LoopTyped(loop),
         loop.status \in Sizes => Affords(loop, buy), BuyTyped(buy),
         Ideal(loop), loop.status \in Sizes => Loaned(loop, buy), LoopStep
  PROVE  LoopIdeal'
<1>1. ASSUME NEW st, loop' = [loop EXCEPT !.status = st], st \in Sizes => Loaned(loop, buy')
      PROVE  LoopIdeal'
  <2> DEFINE next == [loop EXCEPT !.status = st]
  <2>1. Ideal(next) /\ next.status = st /\ (Loaned(loop, buy') => Loaned(next, buy'))
    BY StatusIdeal
  <2>2. loop' = next
    BY <1>1
  <2> HIDE DEF next
  <2> QED
    BY <1>1, <2>1, <2>2 DEF LoopIdeal
<1>b. ASSUME buy'.budget = buy.budget, Loaned(loop, buy) PROVE Loaned(loop, buy')
  BY <1>b, Zenon DEF Loaned
<1>2. CASE Borrow
  <2>1. CASE loop.achievedDepth = loop.depth \/ Headroom <= 0
    <3>1. loop' = [loop EXCEPT !.status = "done"]
      BY <1>2, <2>1 DEF Borrow
    <3> QED
      BY <1>1, <3>1, Zenon DEF Sizes
  <2>2. CASE ~ (loop.achievedDepth = loop.depth \/ Headroom <= 0)
    <3> DEFINE budget == Times(Headroom, BORROW_UTILISATION)
    <3>1. /\ loop' = [loop EXCEPT !.status = "double"]
          /\ buy' = [budget |-> budget, lo |-> 0, hi |-> budget, rounds |-> 0]
      BY <1>2, <2>2 DEF Borrow
    <3>2. budget = Times(HeadroomOf(loop), BORROW_UTILISATION)
      BY DEF Headroom, HeadroomOf
    <3> HIDE DEF budget
    <3>3. Loaned(loop, buy')
      BY <2>2, <3>1, <3>2 DEF Loaned
    <3> QED
      BY <1>1, <3>1, <3>3, Zenon
  <2> QED
    BY <2>1, <2>2
<1>3. CASE Double
  <2>1. loop.status = "double" /\ Loaned(loop, buy)
    BY <1>3 DEF Double, Sizes
  <2>2. CASE ~ Short(buy.hi)
    <3>1. loop' = [loop EXCEPT !.status = "bisect"] /\ buy' = buy
      BY <1>3, <2>2 DEF Double
    <3> QED
      BY <1>1, <2>1, <3>1, Zenon
  <2>3. CASE Short(buy.hi)
    <3>1. buy' = [buy EXCEPT !.hi = 2 * @]
      BY <1>3, <2>3 DEF Double
    <3>2. buy'.budget = buy.budget
      BY <3>1 DEF BuyTyped
    <3>3. PICK st : loop' = [loop EXCEPT !.status = st]
      BY <1>3, <2>1, <2>3 DEF Double
    <3> QED
      BY <1>1, <1>b, <2>1, <3>2, <3>3, Zenon
  <2> QED
    BY <2>2, <2>3
<1>4. CASE Fallback
  <2>1. PICK st : loop' = [loop EXCEPT !.status = st, !.fellBack = TRUE]
    BY <1>4, Zenon DEF Fallback
  <2>2. loop.status = "fallback" /\ Loaned(loop, buy)
    BY <1>4 DEF Fallback, Sizes
  <2>3. buy'.budget = buy.budget
    <3>1. PICK lo, hi : \/ buy' = [buy EXCEPT !.lo = lo, !.hi = hi, !.rounds = @ + 1]
                        \/ buy' = [buy EXCEPT !.hi = hi, !.rounds = @ + 1]
      BY <1>4, Zenon DEF Fallback
    <3> QED
      BY <3>1 DEF BuyTyped
  <2>4. Loaned(loop, buy')
    BY <1>b, <2>2, <2>3
  <2> DEFINE next == [loop EXCEPT !.status = st, !.fellBack = TRUE]
  <2>5. Ideal(next) /\ (Loaned(loop, buy') => Loaned(next, buy'))
    BY StatusIdeal
  <2>6. loop' = next
    BY <2>1
  <2> HIDE DEF next
  <2> QED
    BY <2>4, <2>5, <2>6 DEF LoopIdeal
<1>5. CASE BisectBudget
  <2>1. loop.status = "bisect" /\ Loaned(loop, buy)
    BY <1>5 DEF BisectBudget, Sizes
  <2>2. PICK st : loop' = [loop EXCEPT !.status = st]
    BY <1>5 DEF BisectBudget
  <2>3. PICK mid : buy' = [buy EXCEPT !.lo = mid] \/ buy' = [buy EXCEPT !.hi = mid]
    BY <1>5, Zenon DEF BisectBudget
  <2>4. buy'.budget = buy.budget
    BY <2>3 DEF BuyTyped
  <2> QED
    BY <1>1, <1>b, <2>1, <2>2, <2>4, Zenon
<1>6. CASE Buy
  <2>1. loop.status = "sized" /\ Sizing(loop, buy) /\ Affords(loop, buy) /\ Loaned(loop, buy)
    BY <1>6 DEF Buy, Sizes
  <2>2. CASE buy.lo = 0
    <3>1. loop' = [loop EXCEPT !.status = "done"]
      BY <1>6, <2>2 DEF Buy
    <3> QED
      BY <1>1, <3>1, Zenon DEF Sizes
  <2>3. CASE buy.lo # 0
    <3>1. Ideal(loop') /\ loop'.status = "borrow"
      BY <1>6, <2>1, <2>3, BuyIdeal
    <3> QED
      BY <3>1 DEF LoopIdeal, Sizes
  <2> QED
    BY <2>2, <2>3
<1> QED
  BY <1>2, <1>3, <1>4, <1>5, <1>6 DEF LoopStep

(* A row of a loop: how its leverage, and what bounds it, came about.      *)
Levered(r) ==
  /\ Ideal(r.loop) /\ r.loop.lltv = r.lltv /\ r.loop.depth = r.depth
  /\ r.effectiveLeverage = Ratio(r.loop.collateralPt, r.loop.initialPt)
  /\ r.loop.collateralPt \in Nat /\ r.loop.debt \in Nat /\ r.loop.assetSpent \in Nat
  /\ r.loop.oraclePrice \in Nat \ {0}
  /\ ~ r.loop.fellBack => r.loop.assetSpent <= r.loop.debt
  /\ r.oracleDisplacement = 0 => Undisplaced(r.loop)

IdealInv == LoopIdeal /\ (row.sweep \in {"leverage", "stress"} => Levered(row))

LEMMA IdealInit == Init => IdealInv
BY DEF Init, IdealInv, LoopIdeal, NoRow

LEMMA NotDisplaced ==
  ASSUME NEW l, Opened(l, 0)
  PROVE  Undisplaced(l)
<1> DEFINE v == MarketImpliedValue(l.opening, BlockTime)
<1>1. v \in Nat /\ l.oraclePrice = (v * (ONE + 0)) \div ONE
  BY DEF Opened, Displaced, Times
<1> HIDE DEF v
<1>2. v * (ONE + 0) = v * ONE
  BY <1>1, OneAssumption, SMT
<1>3. (v * ONE) \div ONE = v
  BY <1>1, OneAssumption, DivOfProduct
<1> QED
  BY <1>1, <1>2, <1>3 DEF Undisplaced, v

LEMMA LoopRowLevered ==
  ASSUME Backed(loop), LoopTyped(loop), Ideal(loop), NEW d, Opened(loop, d), NEW sweep,
         NEW displacement
  PROVE  Levered(LoopRow(sweep, d, displacement))
<1> DEFINE r == LoopRow(sweep, d, displacement)
<1>1. /\ r.loop = loop /\ r.lltv = loop.lltv /\ r.depth = loop.depth
      /\ r.oracleDisplacement = d /\ r.effectiveLeverage = Ratio(loop.collateralPt, loop.initialPt)
  BY DEF LoopRow, EffectiveLeverage
<1> HIDE DEF r
<1>2. loop.oraclePrice \in Nat \ {0}
  BY DisplacedPositive DEF Opened, Displaced
<1>3. d = 0 => Undisplaced(loop)
  BY NotDisplaced
<1>4. /\ loop.collateralPt \in Nat /\ loop.debt \in Nat /\ loop.assetSpent \in Nat
      /\ (~ loop.fellBack => loop.assetSpent <= loop.debt)
  BY DEF Backed, LoopTyped
<1>5. Levered(r)
  BY <1>1, <1>2, <1>3, <1>4 DEF Levered
<1> QED
  BY <1>5 DEF r

(* A loop starts with a hundredth of the pool and more.                    *)
LEMMA OwnPositive ==
  ASSUME NEW m \in Market, m.totalPt >= 100, NEW share \in Nat \ {0}
  PROVE  OwnPt(m, share) \in Nat \ {0}
<1> DEFINE a == m.totalPt * share
<1>1. a \in Nat /\ a >= 100
  <2>1. m.totalPt \in Nat
    BY DEF Market
  <2> QED
    BY <2>1, SMT
<1> HIDE DEF a
<1>2. a \div 100 \in Nat \ {0}
  BY <1>1, SMT
<1> QED
  BY <1>2 DEF OwnPt, a

LEMMA StartIdeal ==
  ASSUME NEW m, Computable(m), m.totalPt >= 100, NEW share \in OWN_SHARES \cup {1},
         NEW dP \in DISPLACEMENTS, NEW lltv \in 1 .. ONE, NEW depth \in LOOP_DEPTHS,
         RunLoop(OwnPt(m, share), m, Displaced(m, dP), lltv, depth)
  PROVE  LoopIdeal'
<1>1. share \in Nat \ {0} /\ dP \in Nat /\ depth \in Nat
  BY GridAssumption, ListsAssumption, SMT
<1>2. m \in Market /\ Priced(m)
  BY MarketPriced DEF Computable
<1>3. OwnPt(m, share) \in Nat \ {0}
  BY <1>1, <1>2, OwnPositive
<1>4. Displaced(m, dP) \in Nat
  <2>1. ONE + dP \in Nat
    BY <1>1, OneAssumption, SMT
  <2> QED
    BY <1>2, <2>1, PriceNat, TimesNat DEF Displaced
<1> QED
  BY <1>1, <1>3, <1>4, RunIdeal

LEMMA IdealStep == Inv /\ RowsInv /\ TypedInv /\ IdealInv /\ [Next]_vars => IdealInv'
<1> SUFFICES ASSUME Inv, RowsInv, TypedInv, IdealInv, [Next]_vars PROVE IdealInv'
  OBVIOUS
<1>0. GridInv /\ LoopInv /\ LoopBooks /\ LoopIdeal
  BY DEF Inv, TypedInv, IdealInv
<1>1. ASSUME UNCHANGED <<loop, buy, row>> PROVE IdealInv'
  BY <1>1 DEF IdealInv, LoopIdeal
<1>2. ASSUME UNCHANGED row, LoopIdeal' PROVE IdealInv'
  BY <1>2 DEF IdealInv
<1>3. ASSUME NEW made, NEW n, RowsMade(made, n), ~ (made.sweep \in {"leverage", "stress"})
      PROVE  IdealInv'
  <2>1. row' = made /\ loop' = LoopIdle
    BY <1>3 DEF RowsMade
  <2> QED
    BY <1>3, <2>1 DEF IdealInv, LoopIdeal
<1>4. CASE NextSweep \/ StartDisplacement \/ StartTransmission \/ StressSearch \/ Searching
           \/ UNCHANGED vars
  BY <1>1, <1>4, Zenon DEF NextSweep, StartDisplacement, StartTransmission, StressSearch,
       Searching, vars
<1>5. CASE PortValidationRow
  <2>1. Sweep = "portValidation"
    BY <1>5 DEF PortValidationRow
  <2>2. CASE RowsMade(row, 0)
    <3>1. row' = row /\ loop' = LoopIdle
      BY <2>2 DEF RowsMade
    <3> QED
      BY <3>1 DEF IdealInv, LoopIdeal
  <2>3. CASE \E modelled, onChain :
               RowsMade([sweep |-> Sweep, modelled |-> modelled, onChain |-> onChain], 1)
    BY <1>3, <2>1, <2>3
  <2> QED
    BY <1>5, <2>2, <2>3, Zenon DEF PortValidationRow
<1>6. CASE MaturityRow
  <2>1. PICK market, twap, linear :
          RowsMade([sweep |-> Sweep, market |-> market, twap |-> twap, linear |-> linear], 1)
    BY <1>6, Zenon DEF MaturityRow
  <2>2. Sweep = "maturity"
    BY <1>6 DEF MaturityRow
  <2> QED
    BY <1>3, <2>1, <2>2
<1>7. CASE DisplacementRow
  <2>1. RowsMade(SearchRow(Sweep), 1) /\ Sweep = "displacement"
    BY <1>7 DEF DisplacementRow
  <2>2. SearchRow(Sweep).sweep = "displacement"
    BY <2>1 DEF SearchRow
  <2> QED
    BY <1>3, <2>1, <2>2
<1>8. CASE TransmissionRow
  <2>1. Sweep = "transmission"
    BY <1>8 DEF TransmissionRow
  <2>2. CASE RowsMade([sweep |-> Sweep, achievable |-> FALSE], 1)
    BY <1>3, <2>1, <2>2
  <2>3. CASE \E base, displaced, achieved, transmitted, n :
               RowsMade([sweep |-> Sweep, achievable |-> TRUE, base |-> base,
                         displaced |-> displaced, achieved |-> achieved,
                         transmitted |-> transmitted], n)
    BY <1>3, <2>1, <2>3
  <2> QED
    BY <1>8, <2>2, <2>3, Zenon DEF TransmissionRow
<1>9. CASE PropagationRow
  <2>1. PICK lltv, d, base, allowed, capacity :
          RowsMade([sweep |-> Sweep, lltv |-> lltv, oracleDisplacement |-> d, basePrice |-> base,
                    baseCapacity |-> allowed, borrowCapacity |-> capacity], 1)
    BY <1>9, Zenon DEF PropagationRow
  <2>2. Sweep = "propagation"
    BY <1>9 DEF PropagationRow
  <2> QED
    BY <1>3, <2>1, <2>2
<1>10. CASE LeverageRow \/ StressRow
  <2>1. loop.status = "done" /\ loop # LoopIdle
    BY <1>10, SMT DEF LeverageRow, StressRow, LoopIdle
  <2>2. Backed(loop) /\ LoopTyped(loop) /\ Ideal(loop) /\ Opened(loop, Asked)
    BY <1>0, <2>1 DEF LoopInv, LoopBooks, LoopIdeal, RowsInv
  <2>3. ASSUME NEW displacement, NEW n, RowsMade(LoopRow(Sweep, Asked, displacement), n)
        PROVE  IdealInv'
    <3> DEFINE r == LoopRow(Sweep, Asked, displacement)
    <3>1. Levered(r)
      BY <2>2, LoopRowLevered
    <3>2. row' = r /\ loop' = LoopIdle
      BY <2>3 DEF RowsMade
    <3> HIDE DEF r
    <3> QED
      BY <3>1, <3>2 DEF IdealInv, LoopIdeal
  <2>4. CASE LeverageRow
    <3>1. Sweep = "leverage" /\ RowsMade(LoopRow(Sweep, Combination[1], NoRow), 1)
      BY <2>4 DEF LeverageRow
    <3>2. Asked = Combination[1]
      BY <3>1 DEF Asked
    <3> QED
      BY <2>3, <3>1, <3>2, Zenon
  <2>5. CASE StressRow
    <3>1. PICK columns : Sweep = "stress" /\ RowsMade(LoopRow(Sweep, Combination[5], columns), 1)
      BY <2>5, Zenon DEF StressRow
    <3>2. Asked = Combination[5]
      BY <3>1 DEF Asked
    <3> QED
      BY <2>3, <3>1, <3>2, Zenon
  <2> QED
    BY <1>10, <2>4, <2>5
<1>11. CASE StartLeverage
  <2>1. /\ todo # {} /\ Sweep = "leverage" /\ UNCHANGED row
        /\ RunLoop(OwnPt(anchor.market, Combination[3]), anchor.market,
                   Displaced(anchor.market, Combination[1]), anchor.lltv, Combination[2])
    BY <1>11 DEF StartLeverage
  <2>2. Combination[1] \in DISPLACEMENTS /\ Combination[3] \in OWN_SHARES
        /\ Combination[2] \in LOOP_DEPTHS
    BY <1>0, <2>1, OpeningStarts, DepthListed
  <2>3. anchor \in Anchors /\ Computable(anchor.market)
    BY <1>0, AnchorPool DEF GridInv
  <2>4. anchor.market.totalPt >= 100 /\ anchor.lltv \in 1 .. ONE
    BY <2>3, FineAssumption, GridAssumption DEF Fine
  <2> QED
    BY <1>2, <2>1, <2>2, <2>3, <2>4, StartIdeal
<1>12. CASE StartStress
  <2> DEFINE m == Reshape(anchor.market, Combination[1], Combination[2])
  <2>1. /\ todo # {} /\ Sweep = "stress" /\ UNCHANGED row
        /\ RunLoop(OwnPt(m, 1), m, Displaced(m, Combination[5]), Combination[3], Combination[4])
    BY <1>12 DEF StartStress
  <2>2. /\ Combination[1] \in HORIZONS /\ Combination[2] \in LIQUIDITY_SCALES
        /\ Combination[3] \in LLTVS /\ Combination[5] \in DISPLACEMENTS
        /\ Combination[4] \in LOOP_DEPTHS
    BY <1>0, <2>1, OpeningStarts, DepthListed
  <2>3. Combination[3] \in 1 .. ONE
    BY <2>2, GridAssumption
  <2>4. Computable(m) /\ anchor \in Anchors
    BY <1>0, <2>2, ReshapedWorth DEF GridInv
  <2>5. m.totalPt >= 100
    BY <2>2, <2>4, FineAssumption DEF Fine
  <2> HIDE DEF m
  <2> QED
    BY <1>2, <2>1, <2>2, <2>3, <2>4, <2>5, StartIdeal
<1>13. CASE Looping
  <2>1. LoopStep /\ UNCHANGED row
    BY <1>13 DEF Looping
  <2>2. loop # LoopIdle
    BY <2>1 DEF LoopStep, Borrow, Double, Fallback, BisectBudget, Buy, LoopIdle
  <2>3. /\ Backed(loop) /\ (loop.status \in Sizes => Sizing(loop, buy))
        /\ LoopTyped(loop) /\ (loop.status \in Sizes => Affords(loop, buy)) /\ BuyTyped(buy)
        /\ Ideal(loop) /\ (loop.status \in Sizes => Loaned(loop, buy))
    BY <1>0, <2>2 DEF LoopInv, LoopBooks, LoopIdeal, Sizes
  <2> QED
    BY <1>2, <2>1, <2>3, LoopStepIdeal
<1> QED
  BY <1>4, <1>5, <1>6, <1>7, <1>8, <1>9, <1>10, <1>11, <1>12, <1>13, Zenon DEF Next

IdealAll == Inv /\ RowsInv /\ TypedInv /\ IdealInv

LEMMA IdealAlways == Spec => []IdealAll
<1>1. Init => IdealAll
  BY InvInit, RowsInit, TypedInit, IdealInit DEF IdealAll
<1>2. IdealAll /\ [Next]_vars => IdealAll'
  BY InvStep, RowsStep, TypedStep, IdealStep DEF IdealAll
<1> QED
  BY <1>1, <1>2, PTL DEF Spec

(* PT bought within the series, as a part of what the loop started with.   *)
LEMMA LeverageBounded ==
  ASSUME NEW c0 \in Nat \ {0}, NEW c \in Nat, c0 <= c, NEW p \in Nat \ {0}, NEW d \in Nat,
         NEW k \in Nat \ {0}, NEW m \in Nat, NEW t \in Nat,
         p * (c - c0) <= d * ONE,
         (d * k) * (ONE * ONE) <= (m * (c0 * p)) * t
  PROVE  Ratio(c, c0) <= ONE + (m * t) \div k
<1> DEFINE o == ONE
           x == c - c0
           a == (x * o) \div c0
<1>o. o \in Nat \ {0} /\ x \in Nat /\ c = c0 + x
  BY OneAssumption, SMT
<1>1. (p * x) * (k * o) <= (d * o) * (k * o)
  <2> DEFINE u == p * x
             v == d * o
             w == k * o
  <2>1. u \in Nat /\ v \in Nat /\ w \in Nat
    <3> HIDE DEF x, o
    <3> QED
      BY <1>o, SMT
  <2>2. u <= v
    OBVIOUS
  <2> HIDE DEF u, v, w
  <2>3. u * w <= v * w
    BY <2>1, <2>2, Scaled
  <2> QED
    BY <2>3 DEF u, v, w
<1>h. (d * k) * (o * o) <= (m * (c0 * p)) * t
  OBVIOUS
<1> HIDE DEF o, x
<1>2. (p * x) * (k * o) = ((x * k) * o) * p /\ (d * o) * (k * o) = (d * k) * (o * o)
      /\ (m * (c0 * p)) * t = ((m * c0) * t) * p
  BY <1>o, SMT
<1>3. (x * k) * o <= (m * c0) * t
  <2> DEFINE e == (x * k) * o
             f == (m * c0) * t
             g == (d * k) * (o * o)
  <2>1. e \in Int /\ f \in Int /\ g \in Int /\ e * p \in Int /\ f * p \in Int
    BY <1>o, SMT
  <2>2. e * p <= g /\ g <= f * p
    BY <1>1, <1>2, <1>h
  <2> HIDE DEF e, f, g
  <2>3. e * p <= f * p
    <3> DEFINE r == e * p
               s == f * p
    <3>1. r \in Int /\ s \in Int /\ r <= g /\ g <= s
      BY <2>1, <2>2
    <3> HIDE DEF r, s
    <3>2. r <= s
      BY <2>1, <3>1, SMT
    <3> QED
      BY <3>2 DEF r, s
  <2>4. e <= f
    BY <2>1, <2>3, Unscaled
  <2> QED
    BY <2>4 DEF e, f
<1>4. a \in Nat /\ c0 * a <= x * o
  <2>1. x * o \in Nat
    BY <1>o, SMT
  <2> QED
    BY <2>1, DivBounds
<1>5. Ratio(c, c0) = o + a
  <2>1. (c * o) \div c0 = o + a
    <3> DEFINE y == x * o
    <3>1. c * o = y + c0 * o /\ y \in Nat
      BY <1>o, SMT
    <3>2. a = y \div c0
      OBVIOUS
    <3> HIDE DEF y, a
    <3> DEFINE b == (c * o) \div c0
    <3>3. c * o \in Nat
      BY <1>o, SMT
    <3>4. b \in Nat /\ c0 * b <= c * o /\ c * o < c0 * b + c0
      BY <3>3, DivBounds
    <3>5. a \in Nat /\ c0 * a <= y /\ y < c0 * a + c0
      BY <3>1, <3>2, DivBounds
    <3> HIDE DEF b
    <3>6. c0 * b < c0 * (a + o + 1) /\ c0 * (a + o) < c0 * (b + 1)
      BY <1>o, <3>1, <3>4, <3>5, SMT
    <3>7. b < a + o + 1
      <4>1. ASSUME a + o + 1 <= b PROVE FALSE
        <5>1. (a + o + 1) * c0 <= b * c0
          BY <1>o, <3>4, <3>5, <4>1, Scaled
        <5> QED
          BY <1>o, <3>4, <3>5, <3>6, <5>1, SMT
      <4> QED
        BY <1>o, <3>4, <3>5, <4>1, SMT
    <3>8. a + o < b + 1
      <4>1. ASSUME b + 1 <= a + o PROVE FALSE
        <5>1. (b + 1) * c0 <= (a + o) * c0
          BY <1>o, <3>4, <3>5, <4>1, Scaled
        <5> QED
          BY <1>o, <3>4, <3>5, <3>6, <5>1, SMT
      <4> QED
        BY <1>o, <3>4, <3>5, <4>1, SMT
    <3>9. b = o + a
      BY <1>o, <3>4, <3>5, <3>7, <3>8, SMT
    <3> QED
      BY <3>9 DEF b
  <2> QED
    BY <2>1 DEF Ratio, o
<1> HIDE DEF a
<1>6. a * k <= m * t
  <2>1. (c0 * a) * k <= (x * o) * k
    <3> DEFINE u == c0 * a
               v == x * o
    <3>1. u \in Nat /\ v \in Nat /\ u <= v
      BY <1>o, <1>4, SMT
    <3> HIDE DEF u, v
    <3>2. u * k <= v * k
      BY <3>1, Scaled
    <3> QED
      BY <3>2 DEF u, v
  <2>2. (c0 * a) * k = (a * k) * c0 /\ (x * o) * k = (x * k) * o /\ (m * c0) * t = (m * t) * c0
    BY <1>o, <1>4, SMT
  <2> DEFINE e == a * k
             f == m * t
             g == (x * k) * o
  <2>3. e \in Int /\ f \in Int /\ g \in Int /\ e * c0 <= g /\ g <= f * c0
    <3>1. e \in Int /\ f \in Int /\ g \in Int
      BY <1>o, <1>4, SMT
    <3> QED
      BY <1>3, <2>1, <2>2, <3>1
  <2> HIDE DEF e, f, g
  <2>4. e * c0 <= f * c0
    BY <2>3, SMT
  <2>5. e <= f
    BY <2>3, <2>4, Unscaled
  <2> QED
    BY <2>5 DEF e, f
<1>7. a <= (m * t) \div k
  <2>1. (a * k) \div k = a
    BY <1>4, DivOfProduct
  <2>2. a * k \in Nat /\ m * t \in Nat
    BY <1>4, SMT
  <2>3. (a * k) \div k <= (m * t) \div k
    BY <1>6, <2>2, DivMonotone
  <2> QED
    BY <2>1, <2>3
<1>8. (m * t) \div k \in Nat
  <2>1. m * t \in Nat
    BY SMT
  <2> QED
    BY <2>1, DivBounds
<1> DEFINE z == (m * t) \div k
<1> HIDE DEF z
<1>9. o + a <= o + z
  BY <1>o, <1>4, <1>7, <1>8, SMT DEF z
<1> QED
  BY <1>5, <1>9 DEF o, z

(* geometricLeverageCeiling and runLoop: for every pool, LLTV, depth and   *)
(* utilisation, what a loop started with grows by no more than the series  *)
(* of its loans, where the oracle is not displaced and no purchase fell    *)
(* back on the largest one the pool takes: fees, slippage and rounding     *)
(* only take away, and a deeper loop has the larger bound.                 *)
THEOREM LeverageAlwaysBelowIdeal == Spec => []LeverageBelowIdeal
<1>1. IdealAll => LeverageBelowIdeal
  <2> SUFFICES ASSUME IdealAll, row.sweep \in {"leverage", "stress"},
                      row.oracleDisplacement = 0, ~ row.loop.fellBack, ~ Unlimited(row.lltv)
               PROVE  row.effectiveLeverage <= GeometricLeverageCeiling(row.lltv, row.depth)
    BY DEF LeverageBelowIdeal
  <2> DEFINE l  == row.loop
             q  == HeadroomKept(l.lltv)
             k  == HeadroomLost(l.lltv)
             u  == BORROW_UTILISATION
             m  == u - k
             c0 == l.initialPt
             c  == l.collateralPt
             p  == l.oraclePrice
             t  == ONE - Power(q)[l.achievedDepth]
             s  == ONE - Power(q)[l.depth]
  <2>1. Levered(row)
    BY DEF IdealAll, IdealInv
  <2>2. /\ Ideal(l) /\ row.lltv = l.lltv /\ row.depth = l.depth
        /\ row.effectiveLeverage = Ratio(c, c0) /\ Undisplaced(l)
        /\ c \in Nat /\ l.debt \in Nat /\ l.assetSpent \in Nat /\ p \in Nat \ {0}
        /\ l.assetSpent <= l.debt
    BY <2>1 DEF Levered
  <2>3. /\ c0 \in Nat \ {0} /\ c0 <= c /\ l.lltv \in 1 .. ONE /\ l.depth \in Nat
        /\ l.achievedDepth \in 0 .. l.depth /\ PaidFor(l) /\ WithinSeries(l)
    BY <2>2 DEF Ideal
  <2>4. ONE \in Nat \ {0} /\ l.lltv \in 0 .. ONE /\ u \in Nat
        /\ l.achievedDepth \in Nat /\ l.achievedDepth <= l.depth
    <3> HIDE DEF l
    <3> QED
      BY <2>3, OneAssumption, UtilisationAssumption, SMT
  <2>5. q \in 0 .. ONE /\ k \in Nat \ {0} /\ m \in Nat /\ k = ONE - q
    <3>1. Times(u, ONE - l.lltv) \in 0 .. u /\ q \in 0 .. ONE
          /\ q = ONE - Times(u, ONE - l.lltv) /\ k = ONE - q
      BY <2>4, KeptFraction DEF HeadroomLost
    <3>2. ~ (q >= ONE)
      BY <2>2 DEF Unlimited
    <3> DEFINE x == Times(u, ONE - l.lltv)
    <3>3. x \in 0 .. u /\ q = ONE - x
      BY <3>1
    <3> HIDE DEF q, k, u, x, l
    <3>4. k \in Nat \ {0} /\ k <= u
      BY <2>4, <3>1, <3>2, <3>3, SMT
    <3>5. m \in Nat
      BY <2>4, <3>4, SMT
    <3> QED
      BY <3>1, <3>4, <3>5
  <2>6. t \in Nat /\ s \in Nat /\ t <= s
    <3> DEFINE a == Power(q)[l.achievedDepth]
               b == Power(q)[l.depth]
    <3>1. a \in 0 .. ONE /\ b \in 0 .. ONE /\ b <= a
      BY <2>3, <2>4, <2>5, PowerFraction, PowerFalls
    <3>2. t = ONE - a /\ s = ONE - b
      OBVIOUS
    <3> HIDE DEF a, b, t, s
    <3> QED
      BY <2>4, <3>1, <3>2, SMT
  <2>7. p * (c - c0) <= l.debt * ONE
    <3>1. p * (c - c0) <= l.assetSpent * ONE
      BY <2>3 DEF PaidFor
    <3>2. l.assetSpent * ONE <= l.debt * ONE
      <4> HIDE DEF l
      <4> QED
        BY <2>2, <2>4, Scaled
    <3> DEFINE x == p * (c - c0)
               y == l.assetSpent * ONE
               z == l.debt * ONE
    <3>3. x \in Int /\ y \in Int /\ z \in Int
      <4> HIDE DEF p, c, c0, l
      <4> QED
        BY <2>2, <2>3, <2>4, SMT
    <3>4. x <= y /\ y <= z
      BY <3>1, <3>2
    <3> HIDE DEF x, y, z
    <3>5. x <= z
      BY <3>3, <3>4, SMT
    <3> QED
      BY <3>5 DEF x, z
  <2>8. (l.debt * k) * (ONE * ONE) <= (m * (c0 * p)) * t
    BY <2>3 DEF WithinSeries
  <2>9. GeometricLeverageCeiling(row.lltv, row.depth) = ONE + (m * s) \div k
    BY <2>2, <2>5, CeilingIs
  <2>d. l.debt \in Nat
    BY <2>2
  <2> HIDE DEF l, q, k, m, c0, c, p, t, s, u
  <2>10. Ratio(c, c0) <= ONE + (m * t) \div k
    <3> DEFINE d == l.debt
    <3>1. d \in Nat /\ p * (c - c0) <= d * ONE /\ (d * k) * (ONE * ONE) <= (m * (c0 * p)) * t
      BY <2>7, <2>8, <2>d
    <3> HIDE DEF d
    <3> QED
      BY <2>2, <2>3, <2>5, <2>6, <3>1, LeverageBounded
  <2>11. (m * t) \div k <= (m * s) \div k /\ (m * t) \div k \in Nat /\ (m * s) \div k \in Nat
    <3>1. m * t <= m * s /\ m * t \in Nat /\ m * s \in Nat
      BY <2>5, <2>6, SMT
    <3> QED
      BY <2>5, <3>1, DivMonotone, DivBounds
  <2>12. Ratio(c, c0) \in Int
    <3>1. c * ONE \in Nat
      BY <2>2, <2>4, SMT
    <3>2. (c * ONE) \div c0 \in Nat
      BY <2>3, <3>1, DivBounds
    <3> QED
      BY <3>2, SMT DEF Ratio
  <2> DEFINE e == Ratio(c, c0)
             f == (m * t) \div k
             g == (m * s) \div k
  <2>13. e \in Int /\ f \in Nat /\ g \in Nat /\ f <= g /\ e <= ONE + f
    BY <2>10, <2>11, <2>12
  <2> HIDE DEF e, f, g
  <2>14. e <= ONE + g
    BY <2>4, <2>13, SMT
  <2> QED
    BY <2>2, <2>9, <2>14 DEF e, g
<1> QED
  BY <1>1, IdealAlways, PTL
================================================================================
