-------------------------- MODULE ProtocolMathProofs --------------------------
(***************************************************************************)
(* What the fixed point arithmetic guarantees for every amount, index and  *)
(* percentage, and for every precision; and what a sum over the accounts of  *)
(* a ledger is, however many there are: the tokens' total supplies.            *)
(***************************************************************************)
EXTENDS ProtocolMath, FiniteSetsExt, FiniteSetTheorems, TLAPS

\* Integer division, the only fact about it the rest needs: the quotient is the
\* natural number whose multiple of d is the last one not above n.
LEMMA DivBounds ==
    ASSUME NEW n \in Nat, NEW d \in Nat \ {0}
    PROVE  /\ n \div d \in Nat
           /\ d * (n \div d) <= n
           /\ n < d * (n \div d) + d
  BY SMT

\* A quotient is determined by its bounds.
LEMMA DivUnique ==
    ASSUME NEW n \in Nat, NEW d \in Nat \ {0}, NEW q \in Nat,
           d * q <= n, n < d * q + d
    PROVE  n \div d = q
  BY SMT

\* Halving, as the code's halfRAY, halfWAD and b / 2 do it.
LEMMA HalfBounds ==
    ASSUME NEW n \in Nat
    PROVE  /\ n \div 2 \in Nat
           /\ 2 * (n \div 2) <= n
           /\ n <= 2 * (n \div 2) + 1
  BY SMT

\* The quotient rounded half up stays within half a divisor of the exact one.
LEMMA RoundHalfUpBounds ==
    ASSUME NEW n \in Nat, NEW d \in Nat \ {0}
    PROVE  /\ RoundHalfUp(n, d) \in Nat
           /\ d * RoundHalfUp(n, d) <= n + (d \div 2)
           /\ n + (d \div 2) < d * RoundHalfUp(n, d) + d
  <1>1. n + (d \div 2) \in Nat
    BY HalfBounds
  <1>2. QED
    BY <1>1, DivBounds DEF RoundHalfUp

LEMMA RoundHalfUpUnique ==
    ASSUME NEW n \in Nat, NEW d \in Nat \ {0}, NEW q \in Nat,
           d * q <= n + (d \div 2), n + (d \div 2) < d * q + d
    PROVE  RoundHalfUp(n, d) = q
  <1>1. n + (d \div 2) \in Nat
    BY HalfBounds
  <1>2. QED
    BY <1>1, DivUnique DEF RoundHalfUp

\* A larger dividend never rounds to a smaller quotient.
LEMMA RoundHalfUpMonotone ==
    ASSUME NEW m \in Nat, NEW n \in Nat, NEW d \in Nat \ {0}, m <= n
    PROVE  RoundHalfUp(m, d) <= RoundHalfUp(n, d)
  <1> DEFINE p == RoundHalfUp(m, d)
             q == RoundHalfUp(n, d)
             h == d \div 2
  <1>1. p \in Nat /\ q \in Nat /\ h \in Nat
    BY RoundHalfUpBounds, HalfBounds
  <1>2. d * p <= m + h /\ n + h < d * q + d
    BY RoundHalfUpBounds
  <1> HIDE DEF p, q, h
  <1>3. d * p < d * q + d
    BY <1>1, <1>2
  <1>4. p < q + 1
    BY <1>1, <1>3
  <1>5. p <= q
    BY <1>1, <1>4
  <1>6. QED
    BY <1>5 DEF p, q

-----------------------------------------------------------------------------
\* Type and order of the token conversions.
LEMMA RayMulType ==
    ASSUME NEW a \in Nat, NEW b \in Nat
    PROVE  RayMul(a, b) \in Nat
  <1>1. a * b \in Nat
    OBVIOUS
  <1>2. QED
    BY <1>1, RoundHalfUpBounds, PrecisionAssumption DEF RayMul

LEMMA RayDivType ==
    ASSUME NEW a \in Nat, NEW b \in Nat \ {0}
    PROVE  RayDiv(a, b) \in Nat
  <1>1. a * RAY \in Nat
    BY PrecisionAssumption
  <1>2. QED
    BY <1>1, RoundHalfUpBounds DEF RayDiv

\* Converting a larger amount never yields a smaller scaled amount.
LEMMA RayDivMonotone ==
    ASSUME NEW a \in Nat, NEW c \in Nat, NEW b \in Nat \ {0}, a <= c
    PROVE  RayDiv(a, b) <= RayDiv(c, b)
  <1>1. a * RAY \in Nat /\ c * RAY \in Nat /\ a * RAY <= c * RAY
    BY PrecisionAssumption
  <1>2. QED
    BY <1>1, RoundHalfUpMonotone DEF RayDiv

\* A scaled balance that is not zero never reads as zero: an index is at least RAY.
LEMMA RayMulAtLeast ==
    ASSUME NEW s \in Nat, NEW i \in Nat, i >= RAY
    PROVE  RayMul(s, i) >= s
  <1> DEFINE m == RayMul(s, i)
             h == RAY \div 2
  <1>1. RAY \in Nat \ {0} /\ s * i \in Nat
    BY PrecisionAssumption
  <1>2. m \in Nat /\ h \in Nat /\ s * i + h < RAY * m + RAY /\ 2 * h <= RAY /\ RAY <= 2 * h + 1
    BY <1>1, RoundHalfUpBounds, HalfBounds DEF RayMul
  <1> HIDE DEF m, h
  <1>3. s * i >= s * RAY
    BY <1>1
  <1>4. RAY * s < RAY * (m + 1)
    BY <1>1, <1>2, <1>3
  <1>5. s < m + 1
    BY <1>1, <1>2, <1>4
  <1>6. QED
    BY <1>2, <1>5 DEF m

-----------------------------------------------------------------------------
(***************************************************************************)
(* Whatever the precision, the scaled balance and the index: the amount a  *)
(* user sees converts back to the scaled balance the token stores. This is  *)
(* what lets LendingPool.repay, withdraw and liquidationCall close a         *)
(* position with burn(user, balanceOf(user), index): the burn removes the     *)
(* whole scaled balance, and never more than it.                             *)
(***************************************************************************)
THEOREM RayRoundTrip ==
    ASSUME NEW s \in Nat, NEW i \in Nat, i >= RAY
    PROVE  RayDiv(RayMul(s, i), i) = s
  <1> DEFINE m  == RayMul(s, i)
             hr == RAY \div 2
             hi == i \div 2
  <1>1. RAY \in Nat \ {0} /\ i \in Nat \ {0} /\ s * i \in Nat
    BY PrecisionAssumption
  <1>2. /\ hr \in Nat /\ 2 * hr <= RAY /\ RAY <= 2 * hr + 1
        /\ hi \in Nat /\ 2 * hi <= i /\ i <= 2 * hi + 1
    BY <1>1, HalfBounds
  <1>3. m \in Nat /\ RAY * m <= s * i + hr /\ s * i + hr < RAY * m + RAY
    BY <1>1, RoundHalfUpBounds DEF RayMul
  <1>4. i * s = s * i /\ m * RAY = RAY * m /\ m * RAY \in Nat
    BY <1>1, <1>3
  <1>5. i * s <= m * RAY + hi
    <2> HIDE DEF m, hr, hi
    <2>1. hr <= hi
      BY <1>1, <1>2
    <2>2. QED
      BY <1>1, <1>2, <1>3, <1>4, <2>1
  <1>6. m * RAY + hi < i * s + i
    <2>1. CASE i = RAY
      <3>1. m = s
        <4>1. RAY * s <= s * i + hr /\ s * i + hr < RAY * s + RAY
          BY <1>1, <1>2, <2>1
        <4>2. QED
          BY <1>1, <4>1, RoundHalfUpUnique DEF RayMul
      <3>2. QED
        BY <1>1, <1>2, <2>1, <3>1
    <2>2. CASE i > RAY
      <3> HIDE DEF m, hr, hi
      <3>1. hr + hi < i
        BY <1>1, <1>2, <2>2
      <3>2. QED
        BY <1>1, <1>2, <1>3, <1>4, <3>1
    <2>3. QED
      BY <1>1, <2>1, <2>2
  <1>7. QED
    BY <1>1, <1>3, <1>4, <1>5, <1>6, RoundHalfUpUnique DEF RayDiv

\* A conversion there and back is within half a scaled unit (index / RAY tokens)
\* and half a token of the amount that went in: the most one deposit, loan or
\* repayment can shift between a user and the reserve by rounding.
THEOREM ScalingError ==
    ASSUME NEW a \in Nat, NEW i \in Nat \ {0}
    PROVE  /\ 2 * RAY * RayMul(RayDiv(a, i), i) <= 2 * RAY * a + i + RAY
           /\ 2 * RAY * a <= 2 * RAY * RayMul(RayDiv(a, i), i) + i + RAY
  <1> DEFINE s  == RayDiv(a, i)
             m  == RayMul(s, i)
             hr == RAY \div 2
             hi == i \div 2
  <1>1. RAY \in Nat \ {0} /\ a * RAY \in Nat
    BY PrecisionAssumption
  <1>2. hr \in Nat /\ 2 * hr <= RAY /\ RAY <= 2 * hr + 1
    BY <1>1, HalfBounds
  <1>3. hi \in Nat /\ 2 * hi <= i /\ i <= 2 * hi + 1
    BY HalfBounds
  <1>4. s \in Nat /\ i * s <= a * RAY + hi /\ a * RAY + hi < i * s + i
    BY <1>1, RoundHalfUpBounds DEF RayDiv
  <1>5. s * i \in Nat
    BY <1>4
  <1>6. m \in Nat /\ RAY * m <= s * i + hr /\ s * i + hr < RAY * m + RAY
    BY <1>1, <1>5, RoundHalfUpBounds DEF RayMul
  <1> HIDE DEF s, m, hr, hi
  <1>7. i * s = s * i /\ a * RAY = RAY * a
    BY <1>1, <1>4
  <1>8. 2 * (RAY * m) <= 2 * (RAY * a) + i + RAY
    BY <1>1, <1>2, <1>3, <1>4, <1>5, <1>6, <1>7
  <1>9. 2 * (RAY * a) <= 2 * (RAY * m) + i + RAY
    BY <1>1, <1>2, <1>3, <1>4, <1>5, <1>6, <1>7
  <1>10. 2 * RAY * m = 2 * (RAY * m) /\ 2 * RAY * a = 2 * (RAY * a)
    BY <1>1, <1>6
  <1>11. QED
    BY <1>8, <1>9, <1>10 DEF m, s

\* A larger scaled balance reads as more, at any index.
LEMMA RayMulStrict ==
    ASSUME NEW s \in Nat, NEW t \in Nat, s < t, NEW i \in Nat, i >= RAY
    PROVE  RayMul(s, i) < RayMul(t, i)
  <1> DEFINE m == RayMul(s, i)
             n == RayMul(t, i)
             h == RAY \div 2
  <1>1. RAY \in Nat \ {0} /\ s * i \in Nat /\ t * i \in Nat
    BY PrecisionAssumption
  <1>2. /\ m \in Nat /\ RAY * m <= s * i + h
        /\ n \in Nat /\ t * i + h < RAY * n + RAY
        /\ h \in Nat
    BY <1>1, RoundHalfUpBounds, HalfBounds DEF RayMul
  <1> HIDE DEF m, n, h
  <1>3. t * i >= s * i + RAY
    <2>1. t * i >= (s + 1) * i
      OBVIOUS
    <2>2. (s + 1) * i = s * i + i
      OBVIOUS
    <2>3. QED
      BY <1>1, <2>1, <2>2
  <1>4. RAY * (m + 1) < RAY * (n + 1)
    BY <1>1, <1>2, <1>3
  <1>5. m < n
    BY <1>1, <1>2, <1>4
  <1>6. QED
    BY <1>5 DEF m, n

\* What a balance reads moves by the amount converted, plus half a scaled unit and
\* both readings' rounding: at most the quotient below.
LEMMA ConversionStep ==
    ASSUME NEW v \in Nat, NEW a \in Nat, NEW i \in Nat \ {0}
    PROVE  RayMul(v + RayDiv(a, i), i) <= RayMul(v, i) + a + ((i + 2 * RAY) \div (2 * RAY))
  <1> DEFINE s == RayDiv(a, i)
             m == RayMul(v, i)
             n == RayMul(v + s, i)
             h == RAY \div 2
             e == i \div 2
             q == (i + 2 * RAY) \div (2 * RAY)
  <1>1. RAY \in Nat \ {0} /\ a * RAY \in Nat /\ v * i \in Nat
    BY PrecisionAssumption
  <1>2. e \in Nat /\ 2 * e <= i /\ h \in Nat
    BY <1>1, HalfBounds
  <1>3. s \in Nat /\ i * s <= a * RAY + e
    BY <1>1, RoundHalfUpBounds DEF RayDiv
  <1>4. (v + s) * i \in Nat /\ (v + s) * i = v * i + i * s
    <2> HIDE DEF s
    <2>1. s \in Nat
      BY <1>3
    <2>2. (v + s) * i = v * i + i * s
      BY <2>1
    <2>3. v + s \in Nat
      BY <2>1
    <2>4. QED
      BY <2>2, <2>3
  <1>5. m \in Nat /\ v * i + h < RAY * m + RAY
    BY <1>1, RoundHalfUpBounds DEF RayMul
  <1>6. n \in Nat /\ RAY * n <= (v + s) * i + h
    BY <1>1, <1>4, RoundHalfUpBounds DEF RayMul
  <1>7. q \in Nat /\ i + 2 * RAY < 2 * RAY * q + 2 * RAY
    <2>1. i + 2 * RAY \in Nat /\ 2 * RAY \in Nat \ {0}
      BY <1>1
    <2>2. QED
      BY <2>1, DivBounds
  <1> HIDE DEF s, m, n, h, e, q
  <1>8. RAY * n < RAY * m + RAY + a * RAY + e
    BY <1>1, <1>2, <1>3, <1>4, <1>5, <1>6
  <1>9. 2 * (RAY * n) < 2 * (RAY * m) + 2 * RAY + 2 * (RAY * a) + i
    BY <1>1, <1>2, <1>5, <1>6, <1>8
  <1>10. 2 * RAY * q = 2 * (RAY * q)
    BY <1>1, <1>7
  <1>11. RAY * n < RAY * (m + a + q + 1)
    <2>1. /\ RAY * n \in Nat /\ RAY * m \in Nat /\ RAY * a \in Nat /\ RAY * q \in Nat
          /\ 2 * RAY * q + 2 * RAY = 2 * (RAY * q) + 2 * RAY
      BY <1>1, <1>5, <1>6, <1>7, <1>10
    <2>2. RAY * n < RAY * m + RAY * a + RAY * q + RAY
      BY <1>1, <1>7, <1>9, <2>1
    <2>3. RAY * (m + a + q + 1) = RAY * m + RAY * a + RAY * q + RAY
      BY <1>1, <1>5, <1>7
    <2>4. QED
      BY <2>2, <2>3
  <1>12. n < m + a + q + 1
    BY <1>1, <1>5, <1>6, <1>7, <1>11
  <1>13. n <= m + a + q
    BY <1>5, <1>6, <1>7, <1>12
  <1>14. QED
    BY <1>13 DEF n, m, q, s

\* ... and by no less than the amount converted, short of the same roundings.
LEMMA ConversionStepBack ==
    ASSUME NEW v \in Nat, NEW a \in Nat, NEW i \in Nat \ {0}
    PROVE  RayMul(v, i) + a <= RayMul(v + RayDiv(a, i), i) + ((i + 2 * RAY) \div (2 * RAY))
  <1> DEFINE s == RayDiv(a, i)
             m == RayMul(v, i)
             n == RayMul(v + s, i)
             h == RAY \div 2
             e == i \div 2
             q == (i + 2 * RAY) \div (2 * RAY)
  <1>1. RAY \in Nat \ {0} /\ a * RAY \in Nat /\ v * i \in Nat
    BY PrecisionAssumption
  <1>2. e \in Nat /\ i <= 2 * e + 1 /\ h \in Nat
    BY <1>1, HalfBounds
  <1>3. s \in Nat /\ a * RAY + e < i * s + i
    BY <1>1, RoundHalfUpBounds DEF RayDiv
  <1>4. (v + s) * i \in Nat /\ (v + s) * i = v * i + i * s
    <2> HIDE DEF s
    <2>1. s \in Nat
      BY <1>3
    <2>2. (v + s) * i = v * i + i * s
      BY <2>1
    <2>3. v + s \in Nat
      BY <2>1
    <2>4. QED
      BY <2>2, <2>3
  <1>5. m \in Nat /\ RAY * m <= v * i + h
    BY <1>1, RoundHalfUpBounds DEF RayMul
  <1>6. n \in Nat /\ (v + s) * i + h < RAY * n + RAY
    BY <1>1, <1>4, RoundHalfUpBounds DEF RayMul
  <1>7. q \in Nat /\ i + 2 * RAY < 2 * RAY * q + 2 * RAY
    <2>1. i + 2 * RAY \in Nat /\ 2 * RAY \in Nat \ {0}
      BY <1>1
    <2>2. QED
      BY <2>1, DivBounds
  <1> HIDE DEF s, m, n, h, e, q
  <1>8. i * s \in Nat /\ RAY * m \in Nat /\ RAY * n \in Nat /\ RAY * q \in Nat
        /\ a * RAY = RAY * a /\ RAY * a \in Nat
        /\ 2 * RAY * q = 2 * (RAY * q)
    BY <1>1, <1>3, <1>5, <1>6, <1>7
  <1>9. RAY * m + RAY * a + e < RAY * n + RAY + i
    BY <1>1, <1>2, <1>3, <1>4, <1>5, <1>6, <1>8
  <1>10. 2 * (RAY * m) + 2 * (RAY * a) < 2 * (RAY * n) + 2 * RAY + i
    BY <1>1, <1>2, <1>4, <1>3, <1>5, <1>6, <1>8
  <1>11. RAY * m + RAY * a < RAY * n + RAY * q + RAY
    BY <1>1, <1>7, <1>8, <1>10
  <1>12. RAY * (m + a) < RAY * (n + q + 1)
    <2>1. RAY * (m + a) = RAY * m + RAY * a /\ RAY * (n + q + 1) = RAY * n + RAY * q + RAY
      BY <1>1, <1>5, <1>6, <1>7
    <2>2. QED
      BY <1>11, <2>1
  <1>13. m + a < n + q + 1
    BY <1>1, <1>5, <1>6, <1>7, <1>12
  <1>14. m + a <= n + q
    BY <1>5, <1>6, <1>7, <1>13
  <1>15. QED
    BY <1>14 DEF n, m, q, s

-----------------------------------------------------------------------------
(***************************************************************************)
(* A loan validateBorrow lets through at LTV p is covered by the same       *)
(* collateral at every threshold t from p up: the configurator's             *)
(* ltv <= liquidationThreshold is enough for a fresh position to start with  *)
(* a health factor of at least one, both roundings included.                  *)
(***************************************************************************)
THEOREM BorrowPower ==
    ASSUME NEW debt \in Nat, NEW collateral \in Nat,
           NEW p \in 1 .. PERCENTAGE_FACTOR, NEW t \in Nat, p <= t,
           PercentDiv(debt, p) <= collateral
    PROVE  debt <= PercentMul(collateral, t)
  <1> DEFINE q == PercentDiv(debt, p)
             m == PercentMul(collateral, t)
             h == p \div 2
  <1>1. p \in Nat \ {0} /\ p <= 10000
    BY DEF PERCENTAGE_FACTOR
  <1>2. h \in Nat /\ 2 * h <= p /\ p <= 2 * h + 1
    BY <1>1, HalfBounds
  <1>3. q \in Nat /\ debt * 10000 + h < p * q + p
    BY <1>1, RoundHalfUpBounds DEF PercentDiv, PERCENTAGE_FACTOR
  <1>4. m \in Nat /\ collateral * t + 5000 < 10000 * m + 10000
    <2>1. collateral * t \in Nat /\ 10000 \div 2 = 5000
      OBVIOUS
    <2> DEFINE n == collateral * t
    <2>2. m = RoundHalfUp(n, 10000)
      BY DEF PercentMul, PERCENTAGE_FACTOR
    <2> HIDE DEF n, m
    <2>3. m \in Nat /\ n + 5000 < 10000 * m + 10000
      BY <2>1, <2>2, RoundHalfUpBounds DEF n
    <2>4. QED
      BY <2>3 DEF n
  <1>5. q <= collateral
    OBVIOUS
  <1> HIDE DEF q, m, h
  <1>6. p * q <= p * collateral
    BY <1>1, <1>3, <1>5
  <1>7. p * collateral <= collateral * t
    BY <1>1
  <1>8. debt * 10000 < 10000 * m + 10000
    BY <1>1, <1>2, <1>3, <1>4, <1>6, <1>7
  <1>9. QED
    BY <1>4, <1>8 DEF m

-----------------------------------------------------------------------------
(***************************************************************************)
(* Sums over a finite set. The library defines them by a recursive function  *)
(* over the subsets; that there is one, and that the order of the elements does   *)
(* not matter, is shown by induction over the subsets.                              *)
(***************************************************************************)
\* Induction over the subsets of a finite set, by the least counterexample: a set of
\* subsets that holds T wherever it holds every T \ {x} holds them all.
LEMMA SubsetInduction ==
    ASSUME NEW S, IsFiniteSet(S), NEW G,
           ASSUME NEW T \in SUBSET S, \A x \in T : T \ {x} \in G
           PROVE  T \in G
    PROVE  \A T \in SUBSET S : T \in G
  <1> SUFFICES ASSUME NEW V \in SUBSET S, V \notin G PROVE FALSE
    OBVIOUS
  <1> DEFINE Bad == {T \in SUBSET S : T \notin G}
  <1>1. Bad \subseteq FiniteSubsetsOf(S) /\ Bad # {}
    BY FS_FiniteSubsetsOfFinite
  <1>2. PICK T \in Bad : \A U \in Bad : ~(<<U, T>> \in StrictSubsetOrdering(S))
    BY <1>1, FS_StrictSubsetOrderingWellFounded, WFMin
  <1>3. \A x \in T : T \ {x} \in G
    <2> SUFFICES ASSUME NEW x \in T, T \ {x} \notin G PROVE FALSE
      OBVIOUS
    <2>1. T \ {x} \in Bad /\ T \ {x} \subseteq T /\ T \ {x} # T
      BY <1>2
    <2>2. <<T \ {x}, T>> \in StrictSubsetOrdering(S)
      BY <2>1, <1>2 DEF StrictSubsetOrdering
    <2> QED
      BY <2>1, <2>2, <1>2
  <1> QED
    BY <1>2, <1>3

\* What SumFunctionOnSet adds up, one chosen index after the other.
Chosen(s) == CHOOSE x \in s : TRUE
SumStep(f, g, s) == IF s = {} THEN 0 ELSE f[Chosen(s)] + g[s \ {Chosen(s)}]
Summing(f, S) == CHOOSE g : g = [s \in SUBSET S |-> SumStep(f, g, s)]

\* g is the running sum of f on the subsets of T.
SumsOn(f, T, g) == \A s \in SUBSET T : g[s] = SumStep(f, g, s)

LEMMA ChosenIn ==
    ASSUME NEW s, s # {} PROVE Chosen(s) \in s
  BY DEF Chosen

\* Two running sums agree where both are defined.
LEMMA SumsAgree ==
    ASSUME NEW f, NEW T, IsFiniteSet(T), NEW g, NEW h, SumsOn(f, T, g), SumsOn(f, T, h)
    PROVE  \A s \in SUBSET T : g[s] = h[s]
  <1> DEFINE G == {s \in SUBSET T : g[s] = h[s]}
  <1>1. ASSUME NEW s \in SUBSET T, \A x \in s : s \ {x} \in G
        PROVE  s \in G
    <2>1. CASE s = {}
      BY <2>1 DEF SumsOn, SumStep
    <2>2. CASE s # {}
      <3>1. s \ {Chosen(s)} \in G
        BY <1>1, <2>2, ChosenIn
      <3>2. g[s \ {Chosen(s)}] = h[s \ {Chosen(s)}]
        BY <3>1
      <3>3. g[s] = f[Chosen(s)] + g[s \ {Chosen(s)}] /\ h[s] = f[Chosen(s)] + h[s \ {Chosen(s)}]
        BY <2>2 DEF SumsOn, SumStep
      <3> QED
        BY <3>2, <3>3
    <2> QED
      BY <2>1, <2>2
  <1>2. \A s \in SUBSET T : s \in G
    <2> HIDE DEF G
    <2> QED
      BY <1>1, SubsetInduction
  <1> QED
    BY <1>2

\* There is a running sum on every subset of a finite set, and so on the whole set.
LEMMA SumsExist ==
    ASSUME NEW f, NEW S, IsFiniteSet(S)
    PROVE  \E g : g = [s \in SUBSET S |-> SumStep(f, g, s)]
  <1> DEFINE G == {T \in SUBSET S : \E g : SumsOn(f, T, g)}
  <1>1. ASSUME NEW T \in SUBSET S, \A x \in T : T \ {x} \in G
        PROVE  T \in G
    \* With one running sum for each subset that lacks an element, the sum of a subset is
    \* read from any of them that knows it.
    <2> DEFINE Part(x) == CHOOSE g : SumsOn(f, T \ {x}, g)
               below(s) == Part(CHOOSE x \in T : x \notin s)[s]
               whole == f[Chosen(T)] + Part(Chosen(T))[T \ {Chosen(T)}]
               sum == [s \in SUBSET T |-> IF s = {} THEN 0
                                          ELSE IF s = T THEN whole ELSE below(s)]
    <2>1. \A x \in T : SumsOn(f, T \ {x}, Part(x))
      <3> TAKE x \in T
      <3>1. \E g : SumsOn(f, T \ {x}, g)
        BY <1>1
      <3> QED
        BY <3>1
    <2>2. \A x, y \in T : \A s \in SUBSET (T \ {x}) : s \subseteq T \ {y} => Part(x)[s] = Part(y)[s]
      <3> SUFFICES ASSUME NEW x \in T, NEW y \in T, NEW s \in SUBSET (T \ {x}), s \subseteq T \ {y}
                   PROVE  Part(x)[s] = Part(y)[s]
        OBVIOUS
      <3>1. IsFiniteSet(s)
        BY FS_Subset
      <3>2. SumsOn(f, s, Part(x)) /\ SumsOn(f, s, Part(y))
        <4> HIDE DEF Part
        <4> QED
          BY <2>1 DEF SumsOn
      <3> HIDE DEF Part
      <3> QED
        BY <3>1, <3>2, SumsAgree
    <2>3. \A x \in T : \A s \in SUBSET (T \ {x}) : sum[s] = Part(x)[s]
      <3> SUFFICES ASSUME NEW x \in T, NEW s \in SUBSET (T \ {x})
                   PROVE  sum[s] = Part(x)[s]
        OBVIOUS
      <3>1. s \in SUBSET T /\ s # T
        OBVIOUS
      <3>2. CASE s = {}
        <4>1. Part(x)[s] = 0
          <5> HIDE DEF Part
          <5> QED
            BY <2>1, <3>2 DEF SumsOn, SumStep
        <4> QED
          BY <3>1, <3>2, <4>1
      <3>3. CASE s # {}
        <4> DEFINE y == CHOOSE z \in T : z \notin s
        <4>1. y \in T /\ y \notin s
          BY <3>1
        <4>2. sum[s] = Part(y)[s]
          BY <3>1, <3>3
        <4> HIDE DEF y, Part, sum
        <4> QED
          BY <2>2, <4>1, <4>2
      <3> QED
        BY <3>2, <3>3
    <2>4. SumsOn(f, T, sum)
      <3> SUFFICES ASSUME NEW s \in SUBSET T PROVE sum[s] = SumStep(f, sum, s)
        BY DEF SumsOn
      <3>1. CASE s = {}
        BY <3>1 DEF SumStep
      <3>2. CASE s = T /\ s # {}
        <4>1. Chosen(s) \in T
          BY <3>2, ChosenIn
        <4>2. sum[s \ {Chosen(s)}] = Part(Chosen(s))[s \ {Chosen(s)}]
          <5> HIDE DEF sum, Part
          <5> QED
            BY <2>3, <3>2, <4>1
        <4>3. sum[s] = f[Chosen(s)] + Part(Chosen(s))[s \ {Chosen(s)}]
          BY <3>2
        <4> HIDE DEF sum, Part
        <4> QED
          BY <3>2, <4>2, <4>3 DEF SumStep
      <3>3. CASE s # T
        <4>1. PICK x \in T : x \notin s
          BY <3>3
        <4>2. s \in SUBSET (T \ {x}) /\ s \ {Chosen(s)} \in SUBSET (T \ {x})
          BY <4>1
        <4>3. Part(x)[s] = SumStep(f, Part(x), s)
          <5> HIDE DEF Part
          <5> QED
            BY <2>1, <4>2 DEF SumsOn
        <4> HIDE DEF sum, Part
        <4> QED
          BY <2>3, <4>2, <4>3 DEF SumStep
      <3> QED
        BY <3>1, <3>2, <3>3
    <2> HIDE DEF sum
    <2> QED
      BY <2>4
  <1>2. \A T \in SUBSET S : T \in G
    <2> HIDE DEF G
    <2> QED
      BY <1>1, SubsetInduction
  <1>3. PICK g : SumsOn(f, S, g)
    BY <1>2
  <1> DEFINE sums == [s \in SUBSET S |-> g[s]]
  <1>4. ASSUME NEW s \in SUBSET S
        PROVE  SumStep(f, sums, s) = SumStep(f, g, s)
    BY DEF SumStep
  <1>5. sums = [s \in SUBSET S |-> SumStep(f, sums, s)]
    <2> HIDE DEF sums
    <2> SUFFICES [s \in SUBSET S |-> g[s]] = [s \in SUBSET S |-> SumStep(f, sums, s)]
      BY DEF sums
    <2> QED
      BY <1>3, <1>4 DEF SumsOn
  <1> HIDE DEF sums
  <1> QED
    BY <1>5

\* A sum over nothing, and over a set with one chosen element taken out.
LEMMA SumIsSumming ==
    ASSUME NEW f, NEW S, IsFiniteSet(S)
    PROVE  /\ SumFunctionOnSet(f, S) = Summing(f, S)[S]
           /\ SumsOn(f, S, Summing(f, S))
  <1>1. SumFunctionOnSet(f, S) = Summing(f, S)[S]
    BY SMT DEF SumFunctionOnSet, FoldFunctionOnSet, MapThenFoldSet, Summing, SumStep, Chosen
  <1>2. Summing(f, S) = [s \in SUBSET S |-> SumStep(f, Summing(f, S), s)]
    BY SumsExist, Zenon DEF Summing
  <1> DEFINE g == Summing(f, S)
  <1>3. ASSUME NEW s \in SUBSET S PROVE g[s] = SumStep(f, g, s)
    <2>1. g = [t \in SUBSET S |-> SumStep(f, g, t)]
      BY <1>2
    <2> HIDE DEF g
    <2> QED
      BY <2>1
  <1> QED
    BY <1>1, <1>3 DEF SumsOn

LEMMA SumEmpty ==
    ASSUME NEW f PROVE SumFunctionOnSet(f, {}) = 0
  <1>1. IsFiniteSet({})
    BY FS_EmptySet
  <1> QED
    BY <1>1, SumIsSumming DEF SumsOn, SumStep

LEMMA SumChosen ==
    ASSUME NEW f, NEW S, IsFiniteSet(S), S # {}
    PROVE  SumFunctionOnSet(f, S) = f[Chosen(S)] + SumFunctionOnSet(f, S \ {Chosen(S)})
  <1> DEFINE T == S \ {Chosen(S)}
             g == Summing(f, S)
             h == Summing(f, T)
  <1>1. IsFiniteSet(T) /\ T \in SUBSET S
    BY FS_Subset
  <1>2. SumsOn(f, S, g) /\ SumsOn(f, T, h)
    BY <1>1, SumIsSumming
  <1>3. SumsOn(f, T, g)
    BY <1>1, <1>2 DEF SumsOn
  <1>4. g[T] = h[T]
    <2> HIDE DEF g, h
    <2> QED
      BY <1>1, <1>2, <1>3, SumsAgree
  <1>5. g[S] = f[Chosen(S)] + g[T]
    <2> HIDE DEF g, h
    <2> QED
      BY <1>2 DEF SumsOn, SumStep
  <1> QED
    BY <1>1, <1>4, <1>5, SumIsSumming

LEMMA SumInt ==
    ASSUME NEW f, NEW S, IsFiniteSet(S), \A x \in S : f[x] \in Int
    PROVE  SumFunctionOnSet(f, S) \in Int
  <1> DEFINE G == {T \in SUBSET S : SumFunctionOnSet(f, T) \in Int}
  <1>1. ASSUME NEW T \in SUBSET S, \A x \in T : T \ {x} \in G
        PROVE  T \in G
    <2>1. CASE T = {}
      BY <2>1, SumEmpty
    <2>2. CASE T # {}
      <3>1. IsFiniteSet(T) /\ Chosen(T) \in T
        BY <2>2, ChosenIn, FS_Subset
      <3>2. SumFunctionOnSet(f, T) = f[Chosen(T)] + SumFunctionOnSet(f, T \ {Chosen(T)})
        BY <2>2, <3>1, SumChosen
      <3>3. SumFunctionOnSet(f, T \ {Chosen(T)}) \in Int /\ f[Chosen(T)] \in Int
        BY <1>1, <3>1
      <3> QED
        BY <3>2, <3>3
    <2> QED
      BY <2>1, <2>2
  <1>2. \A T \in SUBSET S : T \in G
    <2> HIDE DEF G
    <2> QED
      BY <1>1, SubsetInduction
  <1> QED
    BY <1>2

\* Any element may be taken out first.
LEMMA SumTakeOut ==
    ASSUME NEW f, NEW S, IsFiniteSet(S), \A x \in S : f[x] \in Int, NEW e \in S
    PROVE  SumFunctionOnSet(f, S) = f[e] + SumFunctionOnSet(f, S \ {e})
  <1> DEFINE Sum(T) == SumFunctionOnSet(f, T)
             G == {T \in SUBSET S : \A x \in T : Sum(T) = f[x] + Sum(T \ {x})}
  <1>1. ASSUME NEW T \in SUBSET S, \A x \in T : T \ {x} \in G
        PROVE  T \in G
    <2> SUFFICES ASSUME NEW x \in T PROVE Sum(T) = f[x] + Sum(T \ {x})
      OBVIOUS
    <2> DEFINE c == Chosen(T)
    <2>1. c \in T /\ IsFiniteSet(T)
      BY ChosenIn, FS_Subset
    <2>2. Sum(T) = f[c] + Sum(T \ {c})
      BY <2>1, SumChosen
    <2>3. CASE x = c
      BY <2>2, <2>3
    <2>4. CASE x # c
      <3> DEFINE U == (T \ {c}) \ {x}
      <3>1. U = (T \ {x}) \ {c} /\ x \in T \ {c} /\ c \in T \ {x}
        BY <2>1, <2>4
      <3>2. T \ {c} \in G /\ T \ {x} \in G
        BY <1>1, <2>1
      <3>3. Sum(T \ {c}) = f[x] + Sum(U) /\ Sum(T \ {x}) = f[c] + Sum(U)
        <4> HIDE DEF Sum, c
        <4> QED
          BY <3>1, <3>2
      <3>4. Sum(U) \in Int /\ f[x] \in Int /\ f[c] \in Int
        <4>1. IsFiniteSet(U) /\ \A y \in U : f[y] \in Int
          BY <2>1, FS_Subset
        <4> QED
          BY <2>1, <4>1, SumInt
      <3> HIDE DEF Sum, c, U
      <3> QED
        BY <2>2, <3>3, <3>4
    <2> QED
      BY <2>3, <2>4
  <1>2. \A T \in SUBSET S : T \in G
    <2> HIDE DEF G
    <2> QED
      BY <1>1, SubsetInduction
  <1> QED
    BY <1>2

\* A sum of nothing below zero, and none of its parts above it.
LEMMA SumNat ==
    ASSUME NEW f, NEW S, IsFiniteSet(S), \A x \in S : f[x] \in Nat
    PROVE  /\ SumFunctionOnSet(f, S) \in Nat
           /\ \A x \in S : f[x] <= SumFunctionOnSet(f, S)
  <1> DEFINE G == {T \in SUBSET S : SumFunctionOnSet(f, T) \in Nat}
  <1>1. ASSUME NEW T \in SUBSET S, \A x \in T : T \ {x} \in G
        PROVE  T \in G
    <2>1. CASE T = {}
      BY <2>1, SumEmpty
    <2>2. CASE T # {}
      <3>1. IsFiniteSet(T) /\ Chosen(T) \in T
        BY <2>2, ChosenIn, FS_Subset
      <3>2. SumFunctionOnSet(f, T) = f[Chosen(T)] + SumFunctionOnSet(f, T \ {Chosen(T)})
        BY <2>2, <3>1, SumChosen
      <3>3. SumFunctionOnSet(f, T \ {Chosen(T)}) \in Nat /\ f[Chosen(T)] \in Nat
        BY <1>1, <3>1
      <3> QED
        BY <3>2, <3>3
    <2> QED
      BY <2>1, <2>2
  <1>2. \A T \in SUBSET S : T \in G
    <2> HIDE DEF G
    <2> QED
      BY <1>1, SubsetInduction
  <1>3. ASSUME NEW x \in S PROVE f[x] <= SumFunctionOnSet(f, S)
    <2>1. SumFunctionOnSet(f, S) = f[x] + SumFunctionOnSet(f, S \ {x})
      BY SumTakeOut
    <2>2. SumFunctionOnSet(f, S \ {x}) \in Nat
      BY <1>2
    <2> QED
      BY <2>1, <2>2
  <1> QED
    BY <1>2, <1>3

\* Term by term: a sum of smaller terms is smaller, of the same terms the same.
LEMMA SumMonotone ==
    ASSUME NEW f, NEW g, NEW S, IsFiniteSet(S),
           \A x \in S : f[x] \in Int /\ g[x] \in Int /\ f[x] <= g[x]
    PROVE  SumFunctionOnSet(f, S) <= SumFunctionOnSet(g, S)
  <1> DEFINE Smaller(T) == SumFunctionOnSet(f, T) <= SumFunctionOnSet(g, T)
             G == {T \in SUBSET S : Smaller(T)}
  <1>1. ASSUME NEW T \in SUBSET S, \A x \in T : T \ {x} \in G
        PROVE  T \in G
    <2>1. CASE T = {}
      BY <2>1, SumEmpty
    <2>2. CASE T # {}
      <3>1. PICK x \in T : TRUE
        BY <2>2
      <3>2. IsFiniteSet(T) /\ IsFiniteSet(T \ {x})
        BY FS_Subset
      <3>3. /\ SumFunctionOnSet(f, T) = f[x] + SumFunctionOnSet(f, T \ {x})
            /\ SumFunctionOnSet(g, T) = g[x] + SumFunctionOnSet(g, T \ {x})
        BY <3>2, SumTakeOut
      <3>4. SumFunctionOnSet(f, T \ {x}) \in Int /\ SumFunctionOnSet(g, T \ {x}) \in Int
        BY <3>2, SumInt
      <3>5. Smaller(T \ {x})
        BY <1>1
      <3> QED
        BY <3>3, <3>4, <3>5
    <2> QED
      BY <2>1, <2>2
  <1>2. \A T \in SUBSET S : T \in G
    <2> HIDE DEF G
    <2> QED
      BY <1>1, SubsetInduction
  <1> QED
    BY <1>2

LEMMA SumSame ==
    ASSUME NEW f, NEW g, NEW S, IsFiniteSet(S),
           \A x \in S : f[x] \in Int /\ g[x] = f[x]
    PROVE  SumFunctionOnSet(g, S) = SumFunctionOnSet(f, S)
  <1>1. SumFunctionOnSet(f, S) \in Int /\ SumFunctionOnSet(g, S) \in Int
    BY SumInt
  <1>2. /\ SumFunctionOnSet(f, S) <= SumFunctionOnSet(g, S)
        /\ SumFunctionOnSet(g, S) <= SumFunctionOnSet(f, S)
    BY SumMonotone
  <1> QED
    BY <1>1, <1>2

\* A sum moves by what one of its terms moves.
LEMMA SumOneMoved ==
    ASSUME NEW f, NEW g, NEW S, IsFiniteSet(S), NEW e \in S,
           \A x \in S : f[x] \in Int /\ g[x] \in Int,
           \A x \in S \ {e} : g[x] = f[x]
    PROVE  SumFunctionOnSet(g, S) = SumFunctionOnSet(f, S) + (g[e] - f[e])
  <1>1. IsFiniteSet(S \ {e})
    BY FS_Subset
  <1>2. SumFunctionOnSet(g, S \ {e}) = SumFunctionOnSet(f, S \ {e})
    BY <1>1, SumSame
  <1>3. /\ SumFunctionOnSet(f, S) = f[e] + SumFunctionOnSet(f, S \ {e})
        /\ SumFunctionOnSet(g, S) = g[e] + SumFunctionOnSet(g, S \ {e})
    BY SumTakeOut
  <1>4. SumFunctionOnSet(f, S \ {e}) \in Int
    BY <1>1, SumInt
  <1> QED
    BY <1>2, <1>3, <1>4

\* Term by term but for e, whose term may be k larger.
LEMMA SumAlmost ==
    ASSUME NEW f, NEW g, NEW S, IsFiniteSet(S), NEW e \in S, NEW k \in Int,
           \A x \in S : f[x] \in Int /\ g[x] \in Int,
           \A x \in S \ {e} : f[x] <= g[x],
           f[e] <= g[e] + k
    PROVE  SumFunctionOnSet(f, S) <= SumFunctionOnSet(g, S) + k
  <1>1. IsFiniteSet(S \ {e})
    BY FS_Subset
  <1>2. SumFunctionOnSet(f, S \ {e}) <= SumFunctionOnSet(g, S \ {e})
    BY <1>1, SumMonotone
  <1>3. /\ SumFunctionOnSet(f, S) = f[e] + SumFunctionOnSet(f, S \ {e})
        /\ SumFunctionOnSet(g, S) = g[e] + SumFunctionOnSet(g, S \ {e})
    BY SumTakeOut
  <1>4. SumFunctionOnSet(f, S \ {e}) \in Int /\ SumFunctionOnSet(g, S \ {e}) \in Int
    BY <1>1, SumInt
  <1> QED
    BY <1>2, <1>3, <1>4

\* Term by term at most k times as large.
LEMMA SumAtMost ==
    ASSUME NEW f, NEW g, NEW S, IsFiniteSet(S), NEW k \in Nat,
           \A x \in S : f[x] \in Int /\ g[x] \in Int /\ f[x] <= k * g[x]
    PROVE  SumFunctionOnSet(f, S) <= k * SumFunctionOnSet(g, S)
  <1> DEFINE AtMost(T) == SumFunctionOnSet(f, T) <= k * SumFunctionOnSet(g, T)
             G == {T \in SUBSET S : AtMost(T)}
  <1>1. ASSUME NEW T \in SUBSET S, \A x \in T : T \ {x} \in G
        PROVE  T \in G
    <2>1. CASE T = {}
      BY <2>1, SumEmpty
    <2>2. CASE T # {}
      <3>1. PICK x \in T : TRUE
        BY <2>2
      <3>2. IsFiniteSet(T) /\ IsFiniteSet(T \ {x})
        BY FS_Subset
      <3>3. /\ SumFunctionOnSet(f, T) = f[x] + SumFunctionOnSet(f, T \ {x})
            /\ SumFunctionOnSet(g, T) = g[x] + SumFunctionOnSet(g, T \ {x})
        BY <3>2, SumTakeOut
      <3>4. SumFunctionOnSet(f, T \ {x}) \in Int /\ SumFunctionOnSet(g, T \ {x}) \in Int
        BY <3>2, SumInt
      <3>5. AtMost(T \ {x})
        BY <1>1
      <3> DEFINE a == SumFunctionOnSet(f, T \ {x})
                 b == SumFunctionOnSet(g, T \ {x})
      <3>6. /\ a \in Int /\ b \in Int /\ a <= k * b
            /\ f[x] \in Int /\ g[x] \in Int /\ f[x] <= k * g[x]
        BY <3>4, <3>5
      <3> HIDE DEF a, b
      <3>7. f[x] + a <= k * (g[x] + b)
        BY <3>6
      <3> QED
        BY <3>3, <3>7 DEF a, b
    <2> QED
      BY <2>1, <2>2
  <1>2. \A T \in SUBSET S : T \in G
    <2> HIDE DEF G
    <2> QED
      BY <1>1, SubsetInduction
  <1> QED
    BY <1>2

\* A sum over some of a set, as a sum over the set with the other terms zero.
LEMMA SumMasked ==
    ASSUME NEW f, NEW R, IsFiniteSet(R), NEW S \in SUBSET R, \A x \in R : f[x] \in Int
    PROVE  SumFunctionOnSet(f, S) =
               SumFunctionOnSet([x \in R |-> IF x \in S THEN f[x] ELSE 0], R)
  <1> DEFINE g == [x \in R |-> IF x \in S THEN f[x] ELSE 0]
  <1>1. \A y \in R : g[y] = (IF y \in S THEN f[y] ELSE 0) /\ g[y] \in Int
    OBVIOUS
  <1> HIDE DEF g
  <1> DEFINE Same(T) == SumFunctionOnSet(g, T) = SumFunctionOnSet(f, T \cap S)
             G == {T \in SUBSET R : Same(T)}
  <1>2. ASSUME NEW T \in SUBSET R, \A x \in T : T \ {x} \in G
        PROVE  T \in G
    <2>1. CASE T = {}
      <3>1. T \cap S = {}
        BY <2>1
      <3>2. Same(T)
        BY <2>1, <3>1, SumEmpty
      <3> QED
        BY <3>2
    <2>2. CASE T # {}
      <3>1. PICK x \in T : TRUE
        BY <2>2
      <3>2. IsFiniteSet(T) /\ IsFiniteSet(T \cap S)
        BY FS_Subset
      <3>3. Same(T \ {x})
        BY <1>2
      <3>4. SumFunctionOnSet(g, T) = g[x] + SumFunctionOnSet(g, T \ {x})
        BY <1>1, <3>2, SumTakeOut
      <3>5. CASE x \in S
        <4>1. (T \ {x}) \cap S = (T \cap S) \ {x} /\ x \in T \cap S
          BY <3>5
        <4>2. SumFunctionOnSet(f, T \cap S) = f[x] + SumFunctionOnSet(f, (T \cap S) \ {x})
          BY <3>2, <4>1, SumTakeOut
        <4> QED
          BY <1>1, <3>3, <3>4, <3>5, <4>1, <4>2
      <3>6. CASE x \notin S
        <4>1. (T \ {x}) \cap S = T \cap S
          BY <3>6
        <4>2. SumFunctionOnSet(f, T \cap S) \in Int
          BY <3>2, SumInt
        <4>3. g[x] = 0
          BY <1>1, <3>6
        <4>4. SumFunctionOnSet(g, T \ {x}) = SumFunctionOnSet(f, T \cap S)
          BY <3>3, <4>1
        <4>5. SumFunctionOnSet(g, T) = SumFunctionOnSet(f, T \cap S)
          BY <3>4, <4>2, <4>3, <4>4
        <4> QED
          BY <4>5
      <3>7. Same(T)
        BY <3>5, <3>6
      <3> HIDE DEF Same
      <3> QED
        BY <3>7 DEF G
    <2> QED
      BY <2>1, <2>2
  <1>3. \A T \in SUBSET R : T \in G
    <2> HIDE DEF G
    <2> QED
      BY <1>2, SubsetInduction
  <1>4. R \cap S = S
    OBVIOUS
  <1>5. Same(R)
    BY <1>3
  <1> QED
    BY <1>4, <1>5 DEF g
==============================================================================
