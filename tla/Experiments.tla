------------------------------ MODULE Experiments ------------------------------
(***************************************************************************)
(* The sweeps of scripts/phase5/run-experiments.js: seven of them, one     *)
(* after the other, each a row for every combination of its parameters.    *)
(* A row that needs the displacement search or the leverage loop runs it   *)
(* to its end first.  The rows of a sweep do not depend on each other and  *)
(* are made in some fixed order.                                           *)
(***************************************************************************)
EXTENDS LeverageLoop, Functions

CONSTANTS Anchors,              \* the live markets a sweep may be anchored to
          HORIZONS, LIQUIDITY_SCALES, TARGETS, LLTVS, LOOP_DEPTHS, DISPLACEMENTS,
          HELD,                 \* holding times, in quarters of the window
          TWAP_DURATION,
          OWN_SHARES,           \* own PT of a loop, in percent of the reserve: 1, and the
                                \* 50 of test/phase5/recursive-leverage.js
          DISCOUNTS,            \* yearly discounts of the linear feeds
          PROBES                \* trial sizes of the properties of a failed search

ASSUME GridAssumption ==
  /\ \A a \in Anchors : a.market \in Market /\ a.lltv \in 1 .. ONE
  /\ HORIZONS \subseteq Nat /\ LIQUIDITY_SCALES \subseteq Nat /\ LLTVS \subseteq 1 .. ONE
  /\ DISPLACEMENTS \subseteq Nat /\ OWN_SHARES \subseteq Nat \ {0}

(* The parameters are lists of the driver, that of the depths not empty.   *)
ASSUME ListsAssumption ==
  /\ IsFiniteSet(Anchors) /\ IsFiniteSet(HORIZONS) /\ IsFiniteSet(LIQUIDITY_SCALES)
  /\ IsFiniteSet(TARGETS) /\ IsFiniteSet(LLTVS) /\ IsFiniteSet(DISPLACEMENTS)
  /\ IsFiniteSet(OWN_SHARES) /\ IsFiniteSet(LOOP_DEPTHS)
  /\ LOOP_DEPTHS # {} /\ LOOP_DEPTHS \subseteq Nat

(* Durations and yearly discounts are positive or zero, a window is not    *)
(* empty, and a target is a rise of the price.                             *)
ASSUME WindowAssumption ==
  /\ TWAP_DURATION \in Nat \ {0} /\ HELD \subseteq Nat
  /\ DISCOUNTS \subseteq Nat /\ TARGETS \subseteq Nat \ {0}
  /\ PROBES \in Nat \ {0}

VARIABLES anchor,
          phase,                \* the sweep under way
          todo,                 \* its combinations still without a row
          row,                  \* the row made last
          rows                  \* how many rows each sweep has

vars == <<search, loop, buy, anchor, phase, todo, row, rows>>

PHASES == << "portValidation", "maturity", "displacement", "transmission",
             "propagation", "leverage", "stress", "written" >>

NoRow == [sweep |-> "none"]
LoopIdle == [status |-> "idle"]

Reshape(market, timeToMaturity, scale) ==
  [market EXCEPT !.totalPt = @ * scale, !.totalSy = @ * scale,
                 !.expiry = BlockTime + timeToMaturity]

(* The units are fine enough for every pool: its PT is worth one of them   *)
(* and more, the first purchase tried is of two and more, a hundredth of   *)
(* its PT of one and more, its rate scalar is not rounded to zero.  Its    *)
(* indexes are positive, an SY is worth up to three of its asset.  A       *)
(* target raises the price of a live market by a unit and more.            *)
Fine(market) ==
  /\ MarketImpliedValue(market, BlockTime) > 0
  /\ market.totalPt >= 2 * FIRST_SIZE /\ market.totalPt >= 100
  /\ market.scalarRoot * YEAR >= market.expiry - BlockTime
  /\ market.index \in 1 .. 3 * ONE /\ market.pyIndex > 0

ASSUME FineAssumption ==
  \A a \in Anchors :
    /\ Fine(a.market)
    /\ \A f \in TARGETS : MarketImpliedValue(a.market, BlockTime)
                             < Times(MarketImpliedValue(a.market, BlockTime), ONE + f)
    /\ \A t \in HORIZONS, scale \in LIQUIDITY_SCALES \cup {1} : Fine(Reshape(a.market, t, scale))

Combinations(sweep) ==
  CASE sweep = "portValidation" -> Anchors
    [] sweep = "maturity"       -> HORIZONS
    [] sweep = "displacement"   -> HORIZONS \X LIQUIDITY_SCALES \X TARGETS
    [] sweep = "transmission"   -> TARGETS
    [] sweep = "propagation"    -> LLTVS \X (TARGETS \cup {0})
    [] sweep = "leverage"       -> DISPLACEMENTS \X LOOP_DEPTHS \X OWN_SHARES
    [] sweep = "stress"         ->
         HORIZONS \X LIQUIDITY_SCALES \X LLTVS \X LOOP_DEPTHS \X DISPLACEMENTS
    [] OTHER -> {}

MaxDepth == Max(LOOP_DEPTHS)

Combination == CHOOSE c \in todo : TRUE

Sweep == PHASES[phase]

Init ==
  /\ search = SearchIdle /\ loop = LoopIdle /\ buy = BuyIdle
  /\ anchor \in Anchors
  /\ phase = 1 /\ todo = Combinations(PHASES[1])
  /\ row = NoRow /\ rows = [i \in 1 .. 7 |-> 0]

Idle == search.status = "idle" /\ loop.status = "idle"

(* A finished row ends the work on its combination.                        *)
RowsMade(made, n) ==
  /\ row' = made
  /\ rows' = [rows EXCEPT ![phase] = @ + n]
  /\ todo' = todo \ {Combination}
  /\ search' = SearchIdle /\ loop' = LoopIdle /\ buy' = BuyIdle
  /\ UNCHANGED <<anchor, phase>>

NextSweep ==
  /\ phase < 8 /\ todo = {} /\ Idle
  /\ phase' = phase + 1 /\ todo' = Combinations(PHASES[phase + 1])
  /\ UNCHANGED <<search, loop, buy, anchor, row, rows>>

------------------------------------------------------------------------------
(* The local price against the answer of the deployed feed, for the live   *)
(* markets that have one and its window and have not expired.              *)
PortValidationRow ==
  /\ Sweep = "portValidation" /\ todo # {}
  /\ LET s == Combination
     IN  IF s.answer = 0 \/ s.twapDuration = 0 \/ s.market.expiry <= BlockTime
         THEN RowsMade(row, 0)
         ELSE RowsMade([sweep |-> Sweep,
                        modelled |-> MarketImpliedValue(s.market, BlockTime),
                        onChain |-> s.answer], 1)

(* One hundredth of the pool is the size sold.                             *)
MaturityRow ==
  /\ Sweep = "maturity" /\ todo # {}
  /\ LET market == Reshape(anchor.market, Combination, 1)
         size   == market.totalPt \div 100
         linear(d) == ValuationSnapshot(market, BlockTime,
                        [kind |-> "PendleSparkLinearDiscountOracle",
                         baseDiscountPerYear |-> d], size)
     IN  RowsMade([sweep |-> Sweep, market |-> market,
                   twap |-> ValuationSnapshot(market, BlockTime,
                              [kind |-> "PendleChainlinkOracle",
                               twapLnImpliedRate |-> market.lastLnImpliedRate], size),
                   linear |-> [d \in DISCOUNTS |-> linear(d)]], 1)

StartDisplacement ==
  /\ Sweep = "displacement" /\ todo # {} /\ Idle
  /\ Solve(Reshape(anchor.market, Combination[1], Combination[2]), Combination[3])
  /\ UNCHANGED <<loop, buy, anchor, phase, todo, row, rows>>

(* The cost columns are null where the round trip is not feasible.         *)
SearchRow(sweep) ==
  [sweep |-> sweep, achievable |-> Achievable,
   trip  |-> IF Achievable /\ RoundTripFeasible(search.market, search.hi)
             THEN RoundTrip(search.market, search.hi)
             ELSE [capitalRequired |-> 0, cost |-> 0, feePaid |-> 0]]

DisplacementRow ==
  /\ Sweep = "displacement" /\ Answered
  /\ RowsMade(SearchRow(Sweep), 1)

(* Sweep 4 searches once a target and then holds what it found.            *)
StartTransmission ==
  /\ Sweep = "transmission" /\ todo # {} /\ Idle
  /\ Solve(anchor.market, Combination)
  /\ UNCHANGED <<loop, buy, anchor, phase, todo, row, rows>>

HeldSeconds(held) == (TWAP_DURATION * held) \div 4

TransmissionRow ==
  /\ Sweep = "transmission" /\ Answered
  /\ IF ~ Achievable THEN RowsMade([sweep |-> Sweep, achievable |-> FALSE], 1)
     ELSE RowsMade([sweep |-> Sweep, achievable |-> TRUE,
                    base |-> anchor.market.lastLnImpliedRate,
                    displaced |-> DisplacedLnImpliedRate,
                    achieved |-> AchievedFraction,
                    transmitted |-> [h \in HELD |->
                      TwapTransmitted(anchor.market, DisplacedLnImpliedRate,
                                      HeldSeconds(h), TWAP_DURATION)]], Cardinality(HELD))

PropagationRow ==
  /\ Sweep = "propagation" /\ todo # {}
  /\ LET base  == MarketImpliedValue(anchor.market, BlockTime)
         price == Times(base, ONE + Combination[2])
     IN  RowsMade([sweep |-> Sweep, lltv |-> Combination[1], oracleDisplacement |-> Combination[2],
                   basePrice |-> base, baseCapacity |-> MaxBorrow(ONE, base, Combination[1]),
                   borrowCapacity |-> MaxBorrow(ONE, price, Combination[1])], 1)

------------------------------------------------------------------------------
Displaced(market, dP) == Times(MarketImpliedValue(market, BlockTime), ONE + dP)
OwnPt(market, share) == (market.totalPt * share) \div 100

StartLeverage ==
  /\ Sweep = "leverage" /\ todo # {} /\ Idle
  /\ RunLoop(OwnPt(anchor.market, Combination[3]), anchor.market,
             Displaced(anchor.market, Combination[1]), anchor.lltv, Combination[2])
  /\ UNCHANGED <<search, anchor, phase, todo, row, rows>>

ReferencePrice == MarketImpliedValue(loop.opening, BlockTime)
InitialPtCost == Times(loop.initialPt, ReferencePrice)

LoopRow(sweep, dP, displacement) ==
  [sweep |-> sweep, oracleDisplacement |-> dP, lltv |-> loop.lltv, depth |-> loop.depth,
   referencePrice |-> ReferencePrice, oraclePrice |-> loop.oraclePrice,
   effectiveLeverage |-> EffectiveLeverage, loop |-> loop,
   settled |-> Settle(ReferencePrice, InitialPtCost), displacement |-> displacement]

LeverageRow ==
  /\ Sweep = "leverage" /\ loop.status = "done"
  /\ RowsMade(LoopRow(Sweep, Combination[1], NoRow), 1)

(* Sweep 7 runs the loop, then asks what its displacement would cost.      *)
StartStress ==
  /\ Sweep = "stress" /\ todo # {} /\ Idle
  /\ LET market == Reshape(anchor.market, Combination[1], Combination[2])
     IN  RunLoop(OwnPt(market, 1), market, Displaced(market, Combination[5]),
                 Combination[3], Combination[4])
  /\ UNCHANGED <<search, anchor, phase, todo, row, rows>>

StressSearch ==
  /\ Sweep = "stress" /\ loop.status = "done" /\ search.status = "idle"
  /\ Combination[5] # 0
  /\ Solve(loop.opening, Combination[5])
  /\ UNCHANGED <<loop, buy, anchor, phase, todo, row, rows>>

StressRow ==
  /\ Sweep = "stress" /\ loop.status = "done"
  /\ Answered \/ Combination[5] = 0
  /\ RowsMade(LoopRow(Sweep, Combination[5],
                 [achievable |-> Combination[5] = 0 \/ Achievable,
                  required   |-> InsolvencyDisplacementThreshold(loop.lltv),
                  insolvencyReachable |->
                    DisplacementInsolvencyReachable(ReferencePrice, loop.lltv, ONE)]), 1)

Searching == SearchStep /\ UNCHANGED <<loop, buy, anchor, phase, todo, row, rows>>
Looping == LoopStep /\ UNCHANGED <<search, anchor, phase, todo, row, rows>>

Next ==
  \/ NextSweep \/ PortValidationRow \/ MaturityRow
  \/ StartDisplacement \/ DisplacementRow \/ StartTransmission \/ TransmissionRow
  \/ PropagationRow \/ StartLeverage \/ LeverageRow
  \/ StartStress \/ StressSearch \/ StressRow \/ Searching \/ Looping

(* One synchronous program: it takes its next step as long as it has one.  *)
Spec == Init /\ [][Next]_vars /\ WF_vars(Next)

------------------------------------------------------------------------------
(* Types: amounts and prices never go negative, whatever was traded.       *)
TypeOK ==
  /\ phase \in 1 .. 8 /\ todo \subseteq Combinations(Sweep)
  /\ search.status # "idle" => search.market \in Market /\ search.lo < search.hi
  /\ loop.status # "idle" =>
       /\ loop.market \in Market
       /\ {loop.collateralPt, loop.debt, loop.ammFeesPaid, loop.assetSpent} \subseteq Nat
  /\ {buy.budget, buy.lo, buy.hi, buy.rounds} \subseteq Nat

(* The sizes below n that are tried: PROBES spread over them, and the      *)
(* largest.                                                                *)
Probes(n) == {(n * k) \div PROBES : k \in 1 .. PROBES - 1} \cup {n - 1}

(* What the bisection leaves: a size that reaches the price, next to one   *)
(* that does not.                                                          *)
EdgeFound ==
  search.status = "found" =>
    Reaches(search.hi) /\ (search.hi > 1 => ~ Reaches(search.hi - 1))

(* solveDisplacement answers with the minimum purchase: it raises the      *)
(* price by the fraction asked for, and no smaller one does.  Where it     *)
(* answers that the par ceiling is in the way, no purchase of any size and *)
(* cost would have done (unless the target is above one by less than its   *)
(* rounding).                                                              *)
FoundSizeMinimal ==
  /\ EdgeFound
  /\ search.status = "found" => \A size \in 1 .. search.hi - 1 : ~ Reaches(size)
  /\ search.status = "aboveCeiling" /\ TargetPrice # ONE =>
       \A size \in Probes(search.market.totalPt) : ~ Reaches(size)

(* What it answers when the doubling ran out: the target is unreachable on *)
(* this curve.                                                             *)
UnreachableMeansNone ==
  search.status = "unreachable" =>
    \A size \in Probes(search.market.totalPt) : ~ Reaches(size)

(* Buying and selling back never earns anything: the pool keeps at least   *)
(* the fees of both trades, but for the rounding of four quotients.        *)
RoundTripLoses ==
  row.sweep = "displacement" /\ row.achievable =>
    row.trip.cost >= row.trip.feePaid - 4 /\ row.trip.feePaid >= 0

(* A loop of any depth stays within what the market lends at the price     *)
(* Morpho reads, and its PT came out of the pool.                          *)
LoopCovered ==
  loop.status # "idle" =>
    /\ IsHealthy(loop.collateralPt, loop.oraclePrice, loop.lltv, loop.debt)
    /\ loop.market.totalPt + loop.collateralPt = loop.opening.totalPt + loop.initialPt

(* Moreover it spends no more than it borrowed, unless a purchase fell back*)
(* on the largest one the pool takes, and what was spent on the PT went    *)
(* into the pool, within a token for the rounding of each quotient of a    *)
(* purchase.                                                               *)
LoopBacked ==
  /\ LoopCovered
  /\ loop.status # "idle" =>
    /\ ~ loop.fellBack => loop.assetSpent <= loop.debt
    /\ LET paidIn == SyToAsset(loop.market.index, loop.market.totalSy)
                       - SyToAsset(loop.opening.index, loop.opening.totalSy)
       IN  paidIn - loop.assetSpent \in 0 .. 3 * loop.achievedDepth

(* Without a displaced oracle a loop does not beat the frictionless bound  *)
(* of its depth: the curve and the fees only take away.  A purchase that   *)
(* fell back is not bound by the loan it is made with.                     *)
LeverageBelowIdeal ==
  row.sweep \in {"leverage", "stress"} /\ row.oracleDisplacement = 0 /\ ~ row.loop.fellBack =>
    \/ Unlimited(row.lltv)
    \/ row.effectiveLeverage <= GeometricLeverageCeiling(row.lltv, row.depth)

(* The loan a displaced price allows is worth more than its collateral at  *)
(* the true one just where the displacement exceeds the threshold, by what *)
(* the three quotients may round off.                                      *)
CapacityCrosses ==
  row.sweep = "propagation" =>
    LET over == row.oracleDisplacement - InsolvencyDisplacementThreshold(row.lltv)
    IN  /\ over <= 0 => row.borrowCapacity <= row.basePrice
        /\ Times(over - 1, row.basePrice) >= 2 + ONE \div row.lltv
             => row.borrowCapacity > row.basePrice

(* The haircut of the LLTV is a deductible: a loop within the threshold is *)
(* covered by the reference price.                                         *)
CoveredWithinDeductible ==
  row.sweep = "stress" /\ row.oracleDisplacement <= row.displacement.required
    => row.settled.solventUnderReferenceMark

(* Where the rows call the threshold out of reach no price below the       *)
(* redemption ceiling exceeds it, but for one more and a unit of the price.*)
OutOfReachMeansNone ==
  row.sweep = "stress" /\ ~ row.displacement.insolvencyReachable
                       /\ ~ row.settled.oraclePriceExceedsRedemptionCeiling
    => (row.oracleDisplacement - row.displacement.required - 1) * row.referencePrice < ONE

(* A loan worth more than its collateral takes a displacement of the price *)
(* beyond what the LLTV holds back.                                        *)
InsolvencyNeedsDisplacement ==
  CapacityCrosses /\ CoveredWithinDeductible /\ OutOfReachMeansNone

(* A liquidator who pays the price less the incentive sells for more.      *)
PaysAt(price) ==
  row.settled.realizableValuePerPt > Ratio(price, LiquidationIncentiveFactor(row.lltv))

(* What a liquidation at a price leaves of the debt: all of it where it    *)
(* does not pay, else what the whole collateral would not repay at it.     *)
LeftAt(price) ==
  IF PaysAt(price)
  THEN Larger(0, row.loop.debt - RepaidForSeized(row.loop.collateralPt, price, row.lltv))
  ELSE row.loop.debt

(* What a loan market loses is debt the collateral does not repay, at the  *)
(* displaced price in one liquidation and at the reference price in the    *)
(* other; neither creates nor destroys collateral.  Liquidators who take   *)
(* part while the price is displaced do so once it reverts, and a loan     *)
(* above what its collateral sells for leaves a shortfall in both.         *)
ShortfallIsReal ==
  row.sweep \in {"leverage", "stress"} =>
    LET displaced == row.settled.liquidation
        reverted  == row.settled.liquidationAfterOracleReverts
    IN  /\ \A l \in {displaced, reverted} :
             l.seized + l.collateralRemaining = row.loop.collateralPt
        /\ displaced.debtRemaining = LeftAt(row.oraclePrice)
        /\ reverted.debtRemaining = LeftAt(row.referencePrice)
        /\ row.settled.protocolShortfall = reverted.debtRemaining
        /\ displaced.liquidationProfitable => reverted.liquidationProfitable
        /\ ~ row.settled.solventUnderRealizableMark /\ row.loop.debt > 0
             => displaced.debtRemaining > 0 /\ reverted.debtRemaining > 0

(* A window passes on no more than the displacement of the pool, the more  *)
(* of it the longer it is held, nothing if it is not held, all of it at a  *)
(* full window and no more beyond; and it weighs as the accumulator does.  *)
(* The fraction of the pool is that of prices with the haircut of an SY    *)
(* that lost value, rounded by one more and a unit of the price.           *)
TransmissionBounded ==
  row.sweep = "transmission" /\ row.achievable =>
    /\ \A h \in HELD :
         LET over == row.transmitted[h] - row.achieved
         IN  /\ row.transmitted[h] >= 0
             /\ over > 0 => /\ anchor.market.syIndex < anchor.market.pyIndex
                            /\ (over - 1) * MarketImpliedValue(anchor.market, BlockTime) < ONE
    /\ \A g, h \in HELD :
         /\ g <= h => row.transmitted[g] <= row.transmitted[h]
         /\ g >= 4 /\ h >= 4 => row.transmitted[g] = row.transmitted[h]
    /\ 0 \in HELD => row.transmitted[0] = 0
    /\ \A h \in HELD :
         DilutedTwap(row.base, row.displaced, HeldSeconds(h), TWAP_DURATION)
           = TwapLnImpliedRate(<< [rate |-> row.base, seconds |-> TWAP_DURATION],
                                  [rate |-> row.displaced, seconds |-> HeldSeconds(h)] >>,
                               TWAP_DURATION)

(* The four prices are in order: nothing is worth more than it redeems     *)
(* for, the TWAP feed reports the pool's price while that does not move,   *)
(* and selling returns less than the pool implies unless the SY lost value *)
(* (what a sale returns has no haircut).  PT priced in SY and the SY at its *)
(* index come to PT priced in the asset, haircut or not, but for a unit of  *)
(* the SY.  A smallest-of feed does not rise while its lower leg stays.    *)
PricesOrdered ==
  row.sweep = "maturity" =>
    LET t == row.twap
    IN  /\ t.oracleValue = t.marketImpliedValue
        /\ row.market.syIndex >= row.market.pyIndex
             => t.realizableValue <= t.marketImpliedValue
        /\ t.marketImpliedValue <= t.redemptionValue
        /\ t.marketImpliedValue
             - Times(PtToSyRate(row.market.lastLnImpliedRate, row.market.expiry - BlockTime,
                                row.market.syIndex, row.market.pyIndex),
                     row.market.syIndex) \in 0 .. 1 + row.market.syIndex \div ONE
        /\ \A d \in DISCOUNTS :
             /\ row.linear[d].oracleValue <= REDEMPTION_CEILING
             /\ row.linear[d].oracleValue \in 1 .. t.oracleValue - 1
                  => MinTransmitted(<<row.linear[d].oracleValue, t.oracleValue>>, {2}, 300) = 0

(* What is left to do: sweeps, combinations of this one, then what the     *)
(* depth of the loop, the search under way and its bracket leave.          *)
Left ==
  << 8 - phase, Cardinality(todo),
     IF loop.status = "idle" THEN MaxDepth + 2
     ELSE IF loop.status = "done" THEN 0 ELSE 1 + loop.depth - loop.achievedDepth,
     CASE loop.status = "borrow" -> 4 [] loop.status = "double" -> 3
       [] loop.status \in {"fallback", "bisect"} -> 2 [] loop.status = "sized" -> 1 [] OTHER -> 0,
     CASE loop.status = "double" -> Larger(0, 2 * loop.market.totalPt - buy.hi)
       [] loop.status = "bisect" -> buy.hi - buy.lo
       [] loop.status = "fallback" -> MaxIter - buy.rounds [] OTHER -> 0,
     CASE search.status = "idle" -> 3 [] search.status = "bracket" -> 2
       [] search.status = "bisect" -> 1 [] OTHER -> 0,
     CASE search.status = "bracket" -> 2 * search.market.totalPt - search.hi
       [] search.status = "bisect" -> search.hi - search.lo [] OTHER -> 0 >>

(* Every step of the program leaves less to do, so that neither doubling   *)
(* nor bisecting nor borrowing goes on for ever, and the results are       *)
(* written once both crossed sweeps have a row for every combination.      *)
Less(a, b) ==
  /\ \A i \in DOMAIN a : a[i] >= 0
  /\ \E i \in DOMAIN a : a[i] < b[i] /\ \A j \in 1 .. i - 1 : a[j] = b[j]

Advances ==
  [][/\ Less(Left', Left)
     /\ Sweep' = "written" =>
          /\ rows[3] = Cardinality(HORIZONS) * Cardinality(LIQUIDITY_SCALES) * Cardinality(TARGETS)
          /\ rows[7] = Cardinality(HORIZONS) * Cardinality(LIQUIDITY_SCALES)
                         * Cardinality(LLTVS) * Cardinality(LOOP_DEPTHS)
                         * Cardinality(DISPLACEMENTS)]_vars
===============================================================================
