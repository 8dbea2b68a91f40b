-------------------------- MODULE InterestRatesProofs --------------------------
(***************************************************************************)
(* What the growth factors and the strategy's rates are for every amount,    *)
(* rate and length of time, and for every strategy the contract can be deployed    *)
(* with.                                                                             *)
(***************************************************************************)
EXTENDS InterestRates, ProtocolMathProofs

LEMMA RayPositive == RAY \in Nat /\ RAY > 0
  BY PrecisionAssumption

\* Quotients and products rounded half up are monotone in the dividend and the factors.
LEMMA DivMonotone ==
    ASSUME NEW m \in Nat, NEW n \in Nat, NEW d \in Nat \ {0}, m <= n
    PROVE  m \div d <= n \div d
  <1> DEFINE p == m \div d
             q == n \div d
  <1>1. p \in Nat /\ q \in Nat /\ d * p <= m /\ n < d * q + d
    BY DivBounds
  <1> HIDE DEF p, q
  <1>2. d * p < d * (q + 1)
    BY <1>1
  <1>3. p < q + 1
    BY <1>1, <1>2
  <1> QED
    BY <1>1, <1>3 DEF p, q

LEMMA ProductMonotone ==
    ASSUME NEW a \in Nat, NEW b \in Nat, NEW c \in Nat, NEW d \in Nat, a <= c, b <= d
    PROVE  a * b \in Nat /\ c * d \in Nat /\ a * b <= c * d
  <1>1. a * b \in Nat /\ a * d \in Nat /\ c * d \in Nat
    OBVIOUS
  <1>2. a * b <= a * d
    OBVIOUS
  <1>3. a * d <= c * d
    OBVIOUS
  <1> QED
    BY <1>1, <1>2, <1>3

LEMMA RayMulMonotone ==
    ASSUME NEW a \in Nat, NEW b \in Nat, NEW c \in Nat, NEW d \in Nat, a <= c, b <= d
    PROVE  RayMul(a, b) <= RayMul(c, d)
  <1>1. a * b \in Nat /\ c * d \in Nat /\ a * b <= c * d
    BY ProductMonotone
  <1> QED
    BY <1>1, PrecisionAssumption, RoundHalfUpMonotone DEF RayMul

\* Multiplying by one ray, and dividing by what is divided.
LEMMA RayMulOne ==
    ASSUME NEW a \in Nat PROVE RayMul(a, RAY) = a
  <1>1. RAY \div 2 \in Nat /\ 2 * (RAY \div 2) <= RAY
    BY PrecisionAssumption, HalfBounds
  <1>2. a * RAY \in Nat /\ RAY \in Nat \ {0} /\ a * RAY = RAY * a
    BY PrecisionAssumption
  <1> DEFINE h == RAY \div 2
             n == a * RAY
  <1>3. h < RAY
    <2> HIDE DEF h
    <2> QED
      BY <1>1, <1>2 DEF h
  <1>4. RAY * a <= n + h /\ n + h < RAY * a + RAY
    <2> HIDE DEF h, n
    <2> QED
      BY <1>1, <1>2, <1>3 DEF h, n
  <1> QED
    BY <1>2, <1>4, RoundHalfUpUnique DEF RayMul

LEMMA RayMulOneLeft ==
    ASSUME NEW a \in Nat PROVE RayMul(RAY, a) = a
  <1>1. RAY * a = a * RAY
    BY PrecisionAssumption
  <1>2. RayMul(a, RAY) = a
    BY RayMulOne
  <1> QED
    BY <1>1, <1>2 DEF RayMul

LEMMA RayMulZero ==
    ASSUME NEW a \in Nat PROVE RayMul(0, a) = 0
  <1>1. RAY \in Nat \ {0} /\ 0 * a = 0
    BY PrecisionAssumption
  <1>2. RAY \div 2 \in Nat /\ 2 * (RAY \div 2) <= RAY
    BY <1>1, HalfBounds
  <1>3. RAY * 0 = 0 /\ RAY \div 2 < RAY
    BY <1>1, <1>2
  <1>4. RoundHalfUp(0, RAY) = 0
    BY <1>1, <1>2, <1>3, RoundHalfUpUnique
  <1> QED
    BY <1>1, <1>4 DEF RayMul

LEMMA RayDivSelf ==
    ASSUME NEW a \in Nat \ {0} PROVE RayDiv(a, a) = RAY
  <1> DEFINE h == a \div 2
             n == a * RAY
  <1>1. h \in Nat /\ 2 * h <= a /\ n \in Nat /\ RAY \in Nat
    BY PrecisionAssumption, HalfBounds
  <1>2. a * RAY <= n + h /\ n + h < a * RAY + a
    <2>1. n = a * RAY
      OBVIOUS
    <2> HIDE DEF h, n
    <2> QED
      BY <1>1, <2>1
  <1> QED
    BY <1>1, <1>2, RoundHalfUpUnique DEF RayDiv

-----------------------------------------------------------------------------
\* Interest never shrinks a balance, and the longer it runs the less so.
LEMMA LinearInterestBounds ==
    ASSUME NEW rate \in Nat, NEW elapsed \in Nat
    PROVE  LinearInterest(rate, elapsed) \in Nat /\ LinearInterest(rate, elapsed) >= RAY
  <1>1. (rate * elapsed) \div SECONDS_PER_YEAR \in Nat
    <2>1. rate * elapsed \in Nat
      OBVIOUS
    <2> QED
      BY <2>1, DivBounds, InterestAssumption
  <1> QED
    BY <1>1, RayPositive DEF LinearInterest

\* The factors of the binomial terms.
Pairs(elapsed) == elapsed * (elapsed - 1)
Triples(elapsed) == IF elapsed > 2 THEN Pairs(elapsed) * (elapsed - 2) ELSE 0

LEMMA BinomialFactors ==
    ASSUME NEW s \in Nat, NEW t \in Nat, s <= t
    PROVE  /\ Pairs(s) \in Nat /\ Pairs(t) \in Nat /\ Pairs(s) <= Pairs(t)
           /\ Triples(s) \in Nat /\ Triples(t) \in Nat /\ Triples(s) <= Triples(t)
  <1>1. Pairs(s) \in Nat /\ Pairs(t) \in Nat /\ Pairs(s) <= Pairs(t)
    <2>1. CASE s = 0
      <3>1. Pairs(s) = 0
        BY <2>1 DEF Pairs
      <3>2. CASE t = 0
        BY <2>1, <3>1, <3>2
      <3>3. CASE t > 0
        <4>1. t - 1 \in Nat
          BY <3>3
        <4>2. t * (t - 1) \in Nat
          BY <4>1
        <4> QED
          BY <3>1, <4>2 DEF Pairs
      <3> QED
        BY <3>2, <3>3
    <2>2. CASE s > 0
      <3>1. s - 1 \in Nat /\ t - 1 \in Nat /\ s - 1 <= t - 1
        BY <2>2
      <3> QED
        BY <3>1, ProductMonotone DEF Pairs
    <2> QED
      BY <2>1, <2>2
  <1>2. ASSUME NEW u \in Nat, u > 2, Pairs(u) \in Nat PROVE Triples(u) \in Nat
    <2>1. u - 2 \in Nat
      BY <1>2
    <2>2. Pairs(u) * (u - 2) \in Nat
      BY <1>2, <2>1
    <2> QED
      BY <1>2, <2>2 DEF Triples
  <1>3. Triples(s) \in Nat /\ Triples(t) \in Nat
    BY <1>1, <1>2 DEF Triples
  <1>4. Triples(s) <= Triples(t)
    <2>1. CASE s > 2
      <3>1. s - 2 \in Nat /\ t - 2 \in Nat /\ s - 2 <= t - 2 /\ t > 2
        BY <2>1
      <3> QED
        BY <1>1, <2>1, <3>1, ProductMonotone DEF Triples
    <2>2. CASE ~(s > 2)
      <3>1. Triples(s) = 0
        BY <2>2 DEF Triples
      <3> QED
        BY <1>3, <3>1
    <2> QED
      BY <2>1, <2>2
  <1> QED
    BY <1>1, <1>3, <1>4

\* The compounded interest as a sum of named terms.
PerSecond(rate) == rate \div SECONDS_PER_YEAR
Square(rate)    == RayMul(PerSecond(rate), PerSecond(rate))
Cube(rate)      == RayMul(Square(rate), PerSecond(rate))

LEMMA CompoundedTerms ==
    ASSUME NEW rate \in Nat, NEW elapsed \in Nat
    PROVE  /\ CompoundedInterest(rate, elapsed) =
                  RAY + PerSecond(rate) * elapsed + (Pairs(elapsed) * Square(rate)) \div 2
                    + (Triples(elapsed) * Cube(rate)) \div 6
           /\ PerSecond(rate) \in Nat /\ Square(rate) \in Nat /\ Cube(rate) \in Nat
  <1>1. PerSecond(rate) \in Nat
    BY DivBounds, InterestAssumption DEF PerSecond
  <1>2. Square(rate) \in Nat
    BY <1>1, RayMulType DEF Square
  <1>3. Cube(rate) \in Nat
    BY <1>1, <1>2, RayMulType DEF Cube
  <1> QED
    BY <1>1, <1>2, <1>3 DEF CompoundedInterest, PerSecond, Square, Cube, Pairs, Triples

LEMMA CompoundedInterestMonotone ==
    ASSUME NEW rate \in Nat, NEW s \in Nat, NEW t \in Nat, s <= t
    PROVE  /\ CompoundedInterest(rate, s) \in Nat /\ CompoundedInterest(rate, t) \in Nat
           /\ RAY <= CompoundedInterest(rate, s)
           /\ CompoundedInterest(rate, s) <= CompoundedInterest(rate, t)
  <1> DEFINE one(e)   == PerSecond(rate) * e
             two(e)   == (Pairs(e) * Square(rate)) \div 2
             three(e) == (Triples(e) * Cube(rate)) \div 6
  <1>1. PerSecond(rate) \in Nat /\ Square(rate) \in Nat /\ Cube(rate) \in Nat
    BY CompoundedTerms
  <1>2. one(s) \in Nat /\ one(t) \in Nat /\ one(s) <= one(t)
    BY <1>1, ProductMonotone
  <1>3. two(s) \in Nat /\ two(t) \in Nat /\ two(s) <= two(t)
    <2>1. /\ Pairs(s) * Square(rate) \in Nat /\ Pairs(t) * Square(rate) \in Nat
          /\ Pairs(s) * Square(rate) <= Pairs(t) * Square(rate)
      <3>1. Pairs(s) \in Nat /\ Pairs(t) \in Nat /\ Pairs(s) <= Pairs(t)
        BY BinomialFactors
      <3> QED
        BY <1>1, <3>1, ProductMonotone
    <2>2. 2 \in Nat \ {0}
      OBVIOUS
    <2> QED
      BY <2>1, <2>2, DivBounds, DivMonotone
  <1>4. three(s) \in Nat /\ three(t) \in Nat /\ three(s) <= three(t)
    <2>1. /\ Triples(s) * Cube(rate) \in Nat /\ Triples(t) * Cube(rate) \in Nat
          /\ Triples(s) * Cube(rate) <= Triples(t) * Cube(rate)
      <3>1. Triples(s) \in Nat /\ Triples(t) \in Nat /\ Triples(s) <= Triples(t)
        BY BinomialFactors
      <3> QED
        BY <1>1, <3>1, ProductMonotone
    <2>2. 6 \in Nat \ {0}
      OBVIOUS
    <2> QED
      BY <2>1, <2>2, DivBounds, DivMonotone
  <1>5. /\ CompoundedInterest(rate, s) = RAY + one(s) + two(s) + three(s)
        /\ CompoundedInterest(rate, t) = RAY + one(t) + two(t) + three(t)
    BY CompoundedTerms
  <1> HIDE DEF one, two, three
  <1> QED
    BY <1>2, <1>3, <1>4, <1>5, RayPositive

LEMMA CompoundedInterestType ==
    ASSUME NEW rate \in Nat, NEW elapsed \in Nat
    PROVE  /\ CompoundedInterest(rate, elapsed) \in Nat
           /\ RAY <= CompoundedInterest(rate, elapsed)
  <1>1. elapsed <= elapsed
    OBVIOUS
  <1> QED
    BY <1>1, CompoundedInterestMonotone

\* No time, no interest.
LEMMA CompoundedInterestAtOnce ==
    ASSUME NEW rate \in Nat PROVE CompoundedInterest(rate, 0) = RAY
  <1>1. Pairs(0) = 0 /\ Triples(0) = 0
    BY DEF Pairs, Triples
  <1>2. /\ PerSecond(rate) * 0 = 0
        /\ (Pairs(0) * Square(rate)) \div 2 = 0
        /\ (Triples(0) * Cube(rate)) \div 6 = 0
    <2>1. /\ PerSecond(rate) \in Nat /\ Square(rate) \in Nat /\ Cube(rate) \in Nat
      BY CompoundedTerms
    <2>2. PerSecond(rate) * 0 = 0 /\ 0 * Square(rate) = 0 /\ 0 * Cube(rate) = 0
      BY <2>1
    <2>3. 0 \div 2 = 0 /\ 0 \div 6 = 0
      OBVIOUS
    <2> QED
      BY <1>1, <2>2, <2>3
  <1>3. CompoundedInterest(rate, 0) =
            RAY + PerSecond(rate) * 0 + (Pairs(0) * Square(rate)) \div 2
              + (Triples(0) * Cube(rate)) \div 6
    BY CompoundedTerms
  <1> QED
    BY <1>2, <1>3, RayPositive

-----------------------------------------------------------------------------
\* No more than everything is borrowed.
LEMMA UtilizationBounds ==
    ASSUME NEW liquidity \in Nat, NEW debt \in Nat
    PROVE  UtilizationRate(liquidity, debt) \in 0 .. RAY
  <1>1. CASE debt = 0
    BY <1>1, RayPositive DEF UtilizationRate
  <1>2. CASE debt # 0
    <2>1. liquidity + debt \in Nat \ {0} /\ debt <= liquidity + debt
      BY <1>2
    <2>2. RayDiv(debt, liquidity + debt) \in Nat
      BY <2>1, RayDivType
    <2>3. RayDiv(debt, liquidity + debt) <= RayDiv(liquidity + debt, liquidity + debt)
      BY <2>1, RayDivMonotone
    <2>4. RayDiv(liquidity + debt, liquidity + debt) = RAY
      BY <2>1, RayDivSelf
    <2> QED
      BY <1>2, <2>2, <2>3, <2>4, RayPositive DEF UtilizationRate
  <1> QED
    BY <1>1, <1>2

LEMMA StrategyTypes ==
    /\ Strategy.optimal \in Nat \ {0} /\ RAY - Strategy.optimal \in Nat \ {0}
    /\ Strategy.baseVariable \in Nat
    /\ Strategy.variableSlope1 \in Nat /\ Strategy.variableSlope2 \in Nat
    /\ Strategy.stableSlope1 \in Nat /\ Strategy.stableSlope2 \in Nat
    /\ MarketBorrowRate \in Nat
  <1>1. Strategy.optimal \in 1 .. RAY - 1
    BY InterestAssumption
  <1>2. Strategy.optimal \in Nat \ {0} /\ RAY - Strategy.optimal \in Nat \ {0}
    BY <1>1, RayPositive
  <1> QED
    BY <1>2, InterestAssumption

LEMMA BorrowRateTypes ==
    ASSUME NEW utilization \in Nat
    PROVE  VariableBorrowRate(utilization) \in Nat /\ StableBorrowRate(utilization) \in Nat
  <1> DEFINE excess == RayDiv(utilization - Strategy.optimal, RAY - Strategy.optimal)
  <1>1. CASE utilization > Strategy.optimal
    <2>1. utilization - Strategy.optimal \in Nat
      BY <1>1, StrategyTypes
    <2>2. excess \in Nat
      BY <2>1, StrategyTypes, RayDivType
    <2>3. /\ RayMul(Strategy.variableSlope2, excess) \in Nat
          /\ RayMul(Strategy.stableSlope2, excess) \in Nat
      BY <2>2, StrategyTypes, RayMulType
    <2> QED
      BY <1>1, <2>3, StrategyTypes DEF VariableBorrowRate, StableBorrowRate
  <1>2. CASE ~(utilization > Strategy.optimal)
    <2>1. RayMul(utilization, Strategy.variableSlope1) \in Nat
      BY StrategyTypes, RayMulType
    <2>2. RayDiv(RayMul(utilization, Strategy.variableSlope1), Strategy.optimal) \in Nat
      BY <2>1, StrategyTypes, RayDivType
    <2>3. RayDiv(utilization, Strategy.optimal) \in Nat
      BY StrategyTypes, RayDivType
    <2>4. RayMul(Strategy.stableSlope1, RayDiv(utilization, Strategy.optimal)) \in Nat
      BY <2>3, StrategyTypes, RayMulType
    <2> QED
      BY <1>2, <2>2, <2>4, StrategyTypes DEF VariableBorrowRate, StableBorrowRate
  <1> QED
    BY <1>1, <1>2

LEMMA WadToRayType ==
    ASSUME NEW a \in Nat
    PROVE  WadToRay(a) \in Nat /\ (a # 0 => WadToRay(a) # 0)
  <1>1. WAD_RAY_RATIO \in Nat \ {0}
    BY InterestAssumption
  <1> QED
    BY <1>1 DEF WadToRay

LEMMA OverallBorrowRateType ==
    ASSUME NEW stable \in Nat, NEW variable \in Nat, NEW rate \in Nat, NEW average \in Nat
    PROVE  OverallBorrowRate(stable, variable, rate, average) \in Nat
  <1>1. CASE stable + variable = 0
    BY <1>1 DEF OverallBorrowRate
  <1>2. CASE stable + variable # 0
    <2>1. WadToRay(stable + variable) \in Nat \ {0}
      BY <1>2, WadToRayType
    <2>2. /\ RayMul(WadToRay(variable), rate) \in Nat
          /\ RayMul(WadToRay(stable), average) \in Nat
      BY WadToRayType, RayMulType
    <2>3. RayMul(WadToRay(variable), rate) + RayMul(WadToRay(stable), average) \in Nat
      BY <2>2
    <2> QED
      BY <1>2, <2>1, <2>3, RayDivType DEF OverallBorrowRate
  <1> QED
    BY <1>1, <1>2

LEMMA PercentMulType ==
    ASSUME NEW value \in Nat, NEW percentage \in Nat
    PROVE  PercentMul(value, percentage) \in Nat
  <1>1. value * percentage \in Nat
    OBVIOUS
  <1> QED
    BY <1>1, RoundHalfUpBounds DEF PercentMul, PERCENTAGE_FACTOR

(***************************************************************************)
(* The strategy always answers, with rates that are not negative, as long as  *)
(* the reserve factor is at most 100%: none of its divisions is by zero and none      *)
(* of its subtractions below it.                                                         *)
(***************************************************************************)
LEMMA InterestRatesType ==
    ASSUME NEW liquidity \in Nat, NEW stable \in Nat, NEW variable \in Nat,
           NEW average \in Nat, NEW factor \in 0 .. PERCENTAGE_FACTOR
    PROVE  CalculateInterestRates(liquidity, stable, variable, average, factor)
               \in [liquidity : Nat, stable : Nat, variable : Nat]
  <1> DEFINE utilization == UtilizationRate(liquidity, stable + variable)
             rate        == VariableBorrowRate(utilization)
             overall     == OverallBorrowRate(stable, variable, rate, average)
  <1>1. utilization \in Nat
    <2>1. stable + variable \in Nat
      OBVIOUS
    <2>2. utilization \in 0 .. RAY
      BY <2>1, UtilizationBounds
    <2> QED
      BY <2>2, RayPositive
  <1>2. rate \in Nat /\ StableBorrowRate(utilization) \in Nat
    BY <1>1, BorrowRateTypes
  <1>3. overall \in Nat
    BY <1>2, OverallBorrowRateType
  <1>4. RayMul(overall, utilization) \in Nat
    BY <1>1, <1>3, RayMulType
  <1>5. PERCENTAGE_FACTOR - factor \in Nat
    BY DEF PERCENTAGE_FACTOR
  <1>6. PercentMul(RayMul(overall, utilization), PERCENTAGE_FACTOR - factor) \in Nat
    BY <1>4, <1>5, PercentMulType
  <1> QED
    BY <1>2, <1>6 DEF CalculateInterestRates
==============================================================================
