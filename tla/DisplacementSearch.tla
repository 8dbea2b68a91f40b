-------------------------- MODULE DisplacementSearch --------------------------
(***************************************************************************)
(* solveDisplacement of models/pt-displacement-cost.js: the smallest PT    *)
(* purchase that raises the pool's PT price by a fraction.  It doubles a   *)
(* size until the price is reached and then bisects, one trial trade a     *)
(* step.  Sizes are whole tokens, so the bisection ends at neighbours.     *)
(***************************************************************************)
EXTENDS MorphoMarket

CONSTANTS BlockTime,        \* scenarioBlockTime of the anchor
          FIRST_SIZE        \* the first size is one FIRST_SIZE-th of the PT reserve

ASSUME SearchAssumption == BlockTime \in Nat /\ FIRST_SIZE \in Nat \ {0}

VARIABLE search

SearchIdle == [status |-> "idle"]

(* The displacement above which even a price of one is no match.           *)
MaxUpwardDisplacement(p0) == Ratio(ONE, p0) - ONE

BasePrice == MarketImpliedValue(search.market, BlockTime)
TargetPrice == Times(BasePrice, ONE + search.fraction)

PriceAfter(market, ptAmount) ==
  MarketImpliedValue(ExecuteTrade(market, ptAmount, BlockTime).market, BlockTime)

Reaches(ptAmount) ==
  /\ Takes(search.market, ptAmount, BlockTime)
  /\ PriceAfter(search.market, ptAmount) >= TargetPrice

Solve(market, fraction) ==
  search' = [market |-> market, fraction |-> fraction,
             lo |-> 0, hi |-> market.totalPt \div FIRST_SIZE,
             status |-> IF fraction > MaxUpwardDisplacement(MarketImpliedValue(market, BlockTime))
                        THEN "aboveCeiling" ELSE "bracket"]

TooLarge(size) == size * 1000 > search.market.totalPt * 999

Bracket ==
  /\ search.status = "bracket"
  /\ \/ /\ ~ Takes(search.market, search.hi, BlockTime)
        /\ search' = [search EXCEPT !.status = "unreachable"]
     \/ /\ Takes(search.market, search.hi, BlockTime)
        /\ search' = IF PriceAfter(search.market, search.hi) >= TargetPrice
                     THEN [search EXCEPT !.status = "bisect"]
                     ELSE [search EXCEPT !.hi = 2 * @,
                                         !.status = IF TooLarge(2 * search.hi)
                                                    THEN "unreachable" ELSE @]

(* A slip: the half without the answer is kept.                            *)
HalfKept(size) == IF Reaches(size) THEN <<size, search.hi>> ELSE <<search.lo, size>>

Half(size) == IF Reaches(size) THEN <<search.lo, size>> ELSE <<size, search.hi>>

Bisect ==
  /\ search.status = "bisect"
  /\ LET half == Half((search.lo + search.hi) \div 2)
     IN  search' = [search EXCEPT !.lo = half[1], !.hi = half[2],
                                  !.status = IF half[2] - half[1] <= 1 THEN "found" ELSE @]

SearchStep == Bracket \/ Bisect

Answered == search.status \in {"aboveCeiling", "unreachable", "found"}
Achievable == search.status = "found"

------------------------------------------------------------------------------
(* What the purchase costs when it is sold back at once, and what of it    *)
(* are fees.                                                               *)
RoundTripFeasible(market, ptAmount) ==
  /\ Takes(market, ptAmount, BlockTime)
  /\ Takes(ExecuteTrade(market, ptAmount, BlockTime).market, - ptAmount, BlockTime)

RoundTrip(market, ptAmount) ==
  LET both(bought, sold) ==
        [capitalRequired |-> - bought.netAssetToAccount,
         cost            |-> - bought.netAssetToAccount - sold.netAssetToAccount,
         feePaid         |-> bought.netAssetFee + sold.netAssetFee]
      sellBack(bought) ==
        both(bought.trade, ExecuteTrade(bought.market, - ptAmount, BlockTime).trade)
  IN  sellBack(ExecuteTrade(market, ptAmount, BlockTime))

DisplacedLnImpliedRate ==
  ExecuteTrade(search.market, search.hi, BlockTime).market.lastLnImpliedRate

AchievedFraction == Ratio(PriceAfter(search.market, search.hi), BasePrice) - ONE

------------------------------------------------------------------------------
(* What of a displaced pool each oracle design reports: a window held for  *)
(* a part of it, and the smallest of some legs, of which some move.        *)
TwapTransmitted(market, displacedRate, heldSeconds, twapDuration) ==
  LET left == market.expiry - BlockTime
      twap == DilutedTwap(market.lastLnImpliedRate, displacedRate, heldSeconds, twapDuration)
  IN  Ratio(TwapOracleValue(twap, left, ONE, ONE),
            TwapOracleValue(market.lastLnImpliedRate, left, ONE, ONE)) - ONE

MinTransmitted(legAnswers, manipulable, fraction) ==
  LET moved == {IF i \in manipulable THEN Times(legAnswers[i], ONE + fraction)
                ELSE legAnswers[i] : i \in DOMAIN legAnswers}
  IN  Ratio(MinAggregatedOracleValue(moved),
            MinAggregatedOracleValue({legAnswers[i] : i \in DOMAIN legAnswers})) - ONE
================================================================================
