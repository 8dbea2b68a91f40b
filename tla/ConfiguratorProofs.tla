--------------------------- MODULE ConfiguratorProofs ---------------------------
(***************************************************************************)
(* What holds of the configuration for every set of assets, every limit on   *)
(* their number up to 128 and whatever percentages are asked for.              *)
(***************************************************************************)
EXTENDS Configurator, InterestRatesProofs

-----------------------------------------------------------------------------
(***************************************************************************)
(* The list of reserves. Inductive once it is added that an asset which was   *)
(* never initialized has no id: AlreadyAdded reads zero as "not added".          *)
(***************************************************************************)
ListInv ==
    /\ initialized \subseteq Assets
    /\ reservesList \in Seq(Assets)
    /\ id \in [Assets -> Nat]
    /\ \A a \in Assets \ initialized : id[a] = 0
    /\ ListsAgree

\* A new reserve gets the next index, which fits in eight bits, and the entry at it.
LEMMA AddedAtTheEnd ==
    ASSUME ListInv, NEW a \in Assets \ initialized, AddReserveToList(a)
    PROVE  /\ Len(reservesList) < MAX_NUMBER_RESERVES
           /\ id' = [id EXCEPT ![a] = Len(reservesList)]
           /\ reservesList' = Append(reservesList, a)
  <1>1. Len(reservesList) \in Nat /\ Len(reservesList) < MAX_NUMBER_RESERVES
    BY DEF ListInv, AddReserveToList
  <1>2. NextId = Len(reservesList)
    BY <1>1, MaxReservesAssumption DEF NextId
  <1>3. ~AlreadyAdded(a)
    <2>1. id[a] = 0
      BY DEF ListInv
    <2>2. ASSUME reservesList # <<>> PROVE reservesList[1] # a
      <3>1. 1 \in 1 .. Len(reservesList)
        BY <2>2 DEF ListInv
      <3>2. QED
        BY <3>1 DEF ListInv, ListsAgree
    <2>3. QED
      BY <2>1, <2>2 DEF AlreadyAdded
  <1>4. QED
    BY <1>1, <1>2, <1>3 DEF AddReserveToList

LEMMA InitReserveKeepsLists ==
    ASSUME ListInv, NEW a \in Assets, InitReserve(a)
    PROVE  ListInv'
  <1> DEFINE n == Len(reservesList)
  <1>1. a \notin initialized /\ initialized' = initialized \cup {a} /\ AddReserveToList(a)
    BY DEF InitReserve
  <1>2. /\ n < MAX_NUMBER_RESERVES
        /\ id' = [id EXCEPT ![a] = n]
        /\ reservesList' = Append(reservesList, a)
    BY <1>1, AddedAtTheEnd
  <1>3. n \in Nat /\ MAX_NUMBER_RESERVES \in Nat
    BY MaxReservesAssumption DEF ListInv
  <1>4. /\ reservesList' \in Seq(Assets)
        /\ Len(reservesList') = n + 1
        /\ \A i \in 1 .. n : reservesList'[i] = reservesList[i]
        /\ reservesList'[n + 1] = a
    BY <1>2 DEF ListInv
  <1>5. /\ initialized' \subseteq Assets
        /\ id' \in [Assets -> Nat]
        /\ \A b \in Assets \ initialized' : id'[b] = 0
    BY <1>1, <1>2, <1>3 DEF ListInv
  <1>6. Len(reservesList') <= MAX_NUMBER_RESERVES
    BY <1>2, <1>3, <1>4
  <1>7. ASSUME NEW b \in initialized'
        PROVE  id'[b] < Len(reservesList') /\ reservesList'[id'[b] + 1] = b
    <2>1. CASE b = a
      <3>1. id'[b] = n
        BY <2>1, <1>2 DEF ListInv
      <3>2. QED
        BY <2>1, <3>1, <1>3, <1>4
    <2>2. CASE b # a
      <3>1. b \in initialized /\ b \in Assets /\ id'[b] = id[b]
        BY <2>2, <1>1, <1>2 DEF ListInv
      <3>2. id[b] \in Nat /\ id[b] < n /\ reservesList[id[b] + 1] = b
        BY <3>1 DEF ListInv, ListsAgree
      <3>3. id[b] + 1 \in 1 .. n
        BY <3>2, <1>3
      <3>4. QED
        BY <3>1, <3>2, <3>3, <1>3, <1>4
    <2>3. QED
      BY <2>1, <2>2
  <1>8. ASSUME NEW i \in 1 .. Len(reservesList')
        PROVE  reservesList'[i] \in initialized'
    <2>1. i \in 1 .. n \/ i = n + 1
      BY <1>3, <1>4
    <2>2. CASE i \in 1 .. n
      BY <2>2, <1>1, <1>4 DEF ListInv, ListsAgree
    <2>3. CASE i = n + 1
      BY <2>3, <1>1, <1>4
    <2>4. QED
      BY <2>1, <2>2, <2>3
  <1>9. QED
    BY <1>4, <1>5, <1>6, <1>7, <1>8 DEF ListInv, ListsAgree

\* Every other transaction only changes one reserve's configuration, or moves its
\* liquidity under the configuration it has.
LEMMA OtherSteps ==
    ASSUME NEW a \in Assets, Administration(a) \/ Use(a), ~InitReserve(a)
    PROVE  UNCHANGED listVars
BY DEF Administration, Use, Deposit, Withdraw, Borrow, Repay, Moved, EnableBorrowingOnReserve,
       DisableBorrowingOnReserve, ConfigureReserveAsCollateral, SetStableRate, ActivateReserve,
       DeactivateReserve, SetFrozen, SetReserveFactor, SetConfiguration

LEMMA ListInvStep ==
    ASSUME ListInv, [Next]_vars
    PROVE  ListInv'
  <1>1. ASSUME UNCHANGED listVars PROVE ListInv'
    BY <1>1 DEF ListInv, ListsAgree, listVars
  <1>2. CASE UNCHANGED vars
    BY <1>1, <1>2 DEF vars
  <1>3. ASSUME NEW a \in Assets, InitReserve(a) PROVE ListInv'
    BY <1>3, InitReserveKeepsLists
  <1>4. ASSUME NEW a \in Assets, Administration(a) \/ Use(a), ~InitReserve(a) PROVE ListInv'
    BY <1>1, <1>4, OtherSteps
  <1>5. QED
    BY <1>2, <1>3, <1>4 DEF Next

\* The list of reserves and their ids are inverse to each other in every reachable state:
\* initReserve and _addReserveToList never give two reserves one id, and the uint8 the id
\* is narrowed to never wraps.
THEOREM ListsAlwaysAgree == Spec => []ListsAgree
  <1>1. Init => ListInv
    <2> SUFFICES ASSUME Init PROVE ListInv
      OBVIOUS
    <2>1. reservesList = <<>> /\ Len(reservesList) = 0
      BY DEF Init
    <2>2. QED
      BY <2>1, MaxReservesAssumption DEF Init, ListInv, ListsAgree
  <1>2. ListInv /\ [Next]_vars => ListInv'
    BY ListInvStep
  <1>3. ListInv => ListsAgree
    BY DEF ListInv
  <1>4. QED
    BY <1>1, <1>2, <1>3, PTL DEF Spec
-----------------------------------------------------------------------------
(***************************************************************************)
(* The liquidation bonus. Whatever a transaction does, the collateral           *)
(* parameters of a reserve are zero or passed configureReserveAsCollateral; the     *)
(* rest is about the rounding of percentMul and percentDiv.                           *)
(***************************************************************************)
CollateralOf(c) ==
    /\ c.ltv \in Nat /\ c.liquidationThreshold \in Nat /\ c.liquidationBonus \in Nat
    /\ c.ltv > 0 => ValidCollateral(c.ltv, c.liquidationThreshold, c.liquidationBonus)

\* The configuration is a function on the assets whose every member is a record that can
\* be changed field by field.
CollateralInv ==
    /\ config \in [Assets -> [ltv : Nat, liquidationThreshold : Nat, liquidationBonus : Nat,
                               active : BOOLEAN, frozen : BOOLEAN, borrowingEnabled : BOOLEAN,
                               stableEnabled : BOOLEAN, reserveFactor : Nat]]
    /\ \A a \in Assets : CollateralOf(config[a])

LEMMA TimesMonotone ==
    ASSUME NEW x \in Nat, NEW y \in Nat, NEW k \in Nat, x <= y
    PROVE  k * x \in Nat /\ k * x <= k * y
  BY SMT

\* The rounded product and the rounded quotient, in whole numbers.
LEMMA PercentMulBounds ==
    ASSUME NEW v \in Nat, NEW p \in Nat
    PROVE  /\ PercentMul(v, p) \in Nat
           /\ 10000 * PercentMul(v, p) <= v * p + 5000
           /\ v * p + 5000 < 10000 * PercentMul(v, p) + 10000
  <1>1. v * p \in Nat
    OBVIOUS
  <1>2. 10000 \in Nat \ {0} /\ 10000 \div 2 = 5000
    BY SMT
  <1>3. QED
    BY <1>1, <1>2, RoundHalfUpBounds DEF PercentMul, PERCENTAGE_FACTOR

LEMMA PercentDivBounds ==
    ASSUME NEW v \in Nat, NEW p \in Nat \ {0}
    PROVE  /\ PercentDiv(v, p) \in Nat
           /\ 20000 * v <= p * (2 * PercentDiv(v, p) + 1)
  <1> DEFINE c == PercentDiv(v, p)
             h == p \div 2
  <1>1. v * 10000 \in Nat
    OBVIOUS
  <1>2. c \in Nat /\ h \in Nat /\ v * 10000 + h < p * c + p /\ p <= 2 * h + 1
    BY <1>1, RoundHalfUpBounds, HalfBounds DEF PercentDiv, PERCENTAGE_FACTOR
  <1> HIDE DEF c, h
  <1>3. p * c \in Nat /\ p * (2 * c + 1) = 2 * (p * c) + p
    BY <1>2
  <1>4. 20000 * v <= 2 * (p * c) + p
    BY <1>2, <1>3
  <1>5. QED
    BY <1>2, <1>3, <1>4 DEF c

LEMMA PercentTypes ==
    ASSUME NEW v \in Nat, NEW p \in Nat
    PROVE  /\ PercentMul(v, p) \in Nat
           /\ p # 0 => PercentDiv(v, p) \in Nat
  <1>1. PercentMul(v, p) \in Nat
    BY PercentMulBounds
  <1>2. p # 0 => PercentDiv(v, p) \in Nat
    BY PercentDivBounds
  <1>3. QED
    BY <1>1, <1>2

\* Parameters that pass configureReserveAsCollateral leave a fresh loan covered with its
\* bonus, to one part in 20000 of the collateral and one unit.
LEMMA FreshLoanCovered ==
    ASSUME NEW ltv \in Nat \ {0}, NEW threshold \in Nat, NEW bonus \in Nat, NEW loan \in Nat,
           ValidCollateral(ltv, threshold, bonus)
    PROVE  PercentMul(loan, bonus)
               <= PercentDiv(loan, ltv) + 1
                    + PercentDiv(loan, ltv) \div (2 * PERCENTAGE_FACTOR)
  <1>1. PercentDiv(loan, ltv) \in Nat
    BY PercentTypes
  <1>2. PercentMul(loan, bonus) \in Nat
    BY PercentTypes
  <1>3. 10000 * PercentMul(loan, bonus) <= loan * bonus + 5000
    BY PercentMulBounds
  <1>4. PercentMul(threshold, bonus) \in Nat
    BY PercentMulBounds
  <1>5. threshold * bonus + 5000 < 10000 * PercentMul(threshold, bonus) + 10000
    BY PercentMulBounds
  <1> DEFINE c == PercentDiv(loan, ltv)
             x == PercentMul(loan, bonus)
             k == 2 * c + 1
             d == loan * bonus
             tb == threshold * bonus
             q == c \div 20000
  <1>6. /\ ltv <= threshold
        /\ PercentMul(threshold, bonus) <= 10000
    BY DEF ValidCollateral, PERCENTAGE_FACTOR
  <1>7. c \in Nat /\ k \in Nat /\ d \in Nat /\ tb \in Nat
    <2>1. c \in Nat
      BY <1>1
    <2> HIDE DEF c
    <2>2. QED
      BY <2>1
  <1>8. 2 * tb <= 10000 * 20001
    <2>1. tb + 5000 < 10000 * PercentMul(threshold, bonus) + 10000
      BY <1>5
    <2> HIDE DEF tb
    <2>2. QED
      BY <1>6, <1>7, <1>4, <2>1
  <1>9. 20000 * loan <= ltv * k
    BY PercentDivBounds
  <1>10. ltv * k <= threshold * k
    <2> HIDE DEF k
    <2>1. k * ltv <= k * threshold
      BY <1>6, <1>7, TimesMonotone
    <2>2. QED
      BY <1>7, <2>1
  <1>11. bonus * (20000 * loan) <= bonus * (threshold * k)
    <2> HIDE DEF k
    <2>1. ltv * k \in Nat /\ threshold * k \in Nat /\ 20000 * loan \in Nat
      BY <1>7
    <2>2. 20000 * loan <= threshold * k
      BY <2>1, <1>9, <1>10
    <2>3. QED
      BY <2>1, <2>2, TimesMonotone
  <1>12. 20000 * d <= k * tb
    <2> HIDE DEF k
    <2>1. bonus * (20000 * loan) = 20000 * d
      OBVIOUS
    <2>2. bonus * (threshold * k) = k * tb
      BY <1>7
    <2>3. QED
      BY <1>11, <2>1, <2>2
  <1>13. k * (2 * tb) <= k * (10000 * 20001)
    <2> HIDE DEF k, tb
    <2>1. 2 * tb \in Nat /\ 10000 * 20001 \in Nat
      BY <1>7
    <2>2. QED
      BY <1>7, <1>8, <2>1, TimesMonotone
  <1>14. 40000 * d <= k * (10000 * 20001)
    <2> HIDE DEF k, tb, d
    <2>1. k * tb \in Nat /\ k * (2 * tb) = 2 * (k * tb)
      BY <1>7
    <2>2. QED
      BY <1>7, <1>12, <1>13, <2>1
  <1>15. x \in Nat /\ 10000 * x <= d + 5000
    BY <1>2, <1>3
  <1>16. q \in Nat /\ c < 20000 * q + 20000
    <2> HIDE DEF c
    <2>1. 20000 \in Nat \ {0}
      OBVIOUS
    <2>2. QED
      BY <1>7, <2>1, DivBounds
  <1>17. x <= c + 1 + q
    <2> HIDE DEF x, q, d, c
    <2>1. 4 * d <= 20001 * (2 * c + 1)
      BY <1>7, <1>14
    <2>2. 40000 * x <= 20001 * (2 * c + 1) + 20000
      BY <1>7, <1>15, <2>1
    <2>3. QED
      BY <1>7, <1>15, <1>16, <2>2
  <1>18. 2 * PERCENTAGE_FACTOR = 20000
    BY DEF PERCENTAGE_FACTOR
  <1>19. QED
    BY <1>17, <1>18

-----------------------------------------------------------------------------
\* The parameters a transaction writes are those it found, or were checked.
LEMMA CollateralInvStep ==
    ASSUME CollateralInv, [Next]_vars
    PROVE  CollateralInv'
  <1>1. ASSUME UNCHANGED config PROVE CollateralInv'
    BY <1>1 DEF CollateralInv, CollateralOf, ValidCollateral
  <1>2. CASE UNCHANGED vars
    BY <1>1, <1>2 DEF vars
  <1> DEFINE Types == [ltv : Nat, liquidationThreshold : Nat, liquidationBonus : Nat,
                       active : BOOLEAN, frozen : BOOLEAN, borrowingEnabled : BOOLEAN,
                       stableEnabled : BOOLEAN, reserveFactor : Nat]
  <1>3. ASSUME NEW a \in Assets, NEW c \in Types, CollateralOf(c), SetConfiguration(a, c)
        PROVE  CollateralInv'
    <2>1. config' = [config EXCEPT ![a] = c]
      BY <1>3 DEF SetConfiguration
    <2>2. config' \in [Assets -> Types]
      BY <2>1 DEF CollateralInv
    <2>3. ASSUME NEW b \in Assets PROVE CollateralOf(config'[b])
      <3>1. config'[b] = IF b = a THEN c ELSE config[b]
        BY <2>1 DEF CollateralInv
      <3>2. CollateralOf(config[b])
        BY DEF CollateralInv
      <3>3. QED
        BY <1>3, <3>1, <3>2
    <2>4. QED
      BY <2>2, <2>3 DEF CollateralInv
  <1>4. ASSUME NEW a \in Assets, InitReserve(a) PROVE CollateralInv'
    <2>1. config' \in [Assets -> Types]
      BY <1>4 DEF InitReserve, CollateralInv
    <2>2. ASSUME NEW b \in Assets
          PROVE  /\ config'[b].ltv = config[b].ltv
                 /\ config'[b].liquidationThreshold = config[b].liquidationThreshold
                 /\ config'[b].liquidationBonus = config[b].liquidationBonus
      BY <1>4 DEF InitReserve, CollateralInv
    <2>3. QED
      BY <2>1, <2>2 DEF CollateralInv, CollateralOf, ValidCollateral
  <1>5. ASSUME NEW a \in Assets, Use(a) PROVE CollateralInv'
    BY <1>1, <1>5 DEF Use, Deposit, Withdraw, Borrow, Repay, Moved
  <1>6. ASSUME NEW a \in Assets, NEW ltv \in Percentages, NEW threshold \in Percentages,
               NEW bonus \in Percentages, ConfigureReserveAsCollateral(a, ltv, threshold, bonus)
        PROVE  CollateralInv'
    <2> DEFINE c == [config[a] EXCEPT !.ltv = ltv, !.liquidationThreshold = threshold,
                                      !.liquidationBonus = bonus]
    <2>1. ltv \in Nat /\ threshold \in Nat /\ bonus \in Nat
      BY RequestsAssumption
    <2>2. config[a] \in Types
      BY DEF CollateralInv
    <2>3. c \in Types /\ c.ltv = ltv /\ c.liquidationThreshold = threshold
                      /\ c.liquidationBonus = bonus
      BY <2>1, <2>2
    <2>4. ltv > 0 => ValidCollateral(ltv, threshold, bonus)
      BY <1>6, <2>1 DEF ConfigureReserveAsCollateral
    <2>5. CollateralOf(c)
      BY <2>1, <2>3, <2>4 DEF CollateralOf
    <2>6. SetConfiguration(a, c)
      BY <1>6 DEF ConfigureReserveAsCollateral
    <2>7. QED
      BY <1>3, <2>3, <2>5, <2>6
  <1>7. ASSUME NEW a \in Assets, NEW on \in BOOLEAN,
               \/ EnableBorrowingOnReserve(a, on)
               \/ DisableBorrowingOnReserve(a)
               \/ SetStableRate(a, on)
               \/ ActivateReserve(a)
               \/ DeactivateReserve(a)
               \/ SetFrozen(a, on)
               \/ \E factor \in ReserveFactors : SetReserveFactor(a, factor)
        PROVE  CollateralInv'
    <2>1. config[a] \in Types /\ CollateralOf(config[a])
      BY DEF CollateralInv
    <2> DEFINE Kept(c) == /\ c \in Types
                          /\ c.ltv = config[a].ltv
                          /\ c.liquidationThreshold = config[a].liquidationThreshold
                          /\ c.liquidationBonus = config[a].liquidationBonus
    <2>2. ASSUME NEW c, Kept(c), SetConfiguration(a, c) PROVE CollateralInv'
      <3>1. CollateralOf(c)
        BY <2>1, <2>2 DEF CollateralOf
      <3>2. QED
        BY <1>3, <2>2, <3>1
    <2>3. /\ Kept([config[a] EXCEPT !.borrowingEnabled = TRUE, !.stableEnabled = on])
          /\ Kept([config[a] EXCEPT !.borrowingEnabled = FALSE])
          /\ Kept([config[a] EXCEPT !.stableEnabled = on])
          /\ Kept([config[a] EXCEPT !.active = TRUE])
          /\ Kept([config[a] EXCEPT !.active = FALSE])
          /\ Kept([config[a] EXCEPT !.frozen = on])
      BY <2>1
    <2>4. ASSUME NEW factor \in ReserveFactors
          PROVE  Kept([config[a] EXCEPT !.reserveFactor = factor])
      BY <2>1, RequestsAssumption
    <2> HIDE DEF Kept
    <2>5. CASE \E factor \in ReserveFactors : SetReserveFactor(a, factor)
      BY <2>2, <2>4, <2>5 DEF SetReserveFactor
    <2>6. QED
      BY <1>7, <2>2, <2>3, <2>5
         DEF EnableBorrowingOnReserve, DisableBorrowingOnReserve, SetStableRate,
             ActivateReserve, DeactivateReserve, SetFrozen
  <1>8. QED
    <2>1. ASSUME NEW a \in Assets, Administration(a) PROVE CollateralInv'
      BY <1>4, <1>6, <1>7, <2>1 DEF Administration
    <2>2. QED
      BY <1>2, <1>5, <2>1 DEF Next

LEMMA CollateralCovers ==
    ASSUME CollateralInv
    PROVE  LoansCoverBonus
  <1> SUFFICES ASSUME NEW a \in Assets, NEW loan \in Loans, config[a].ltv > 0
               PROVE  LET least == PercentDiv(loan, config[a].ltv)
                      IN  PercentMul(loan, config[a].liquidationBonus)
                              <= least + 1 + least \div (2 * PERCENTAGE_FACTOR)
    BY DEF LoansCoverBonus
  <1>1. CollateralOf(config[a]) /\ loan \in Nat
    BY RequestsAssumption DEF CollateralInv
  <1>2. QED
    BY <1>1, FreshLoanCovered DEF CollateralOf

\* What configureReserveAsCollateral promises of threshold and bonus, for every percentage
\* an administrator asks for and every loan: at the moment it is taken its collateral
\* covers the liquidation bonus, up to the rounding.
THEOREM BonusAlwaysCovered == Spec => []LoansCoverBonus
  <1>1. Init => CollateralInv
    BY DEF Init, CollateralInv, CollateralOf, Unconfigured
  <1>2. CollateralInv /\ [Next]_vars => CollateralInv'
    BY CollateralInvStep
  <1>3. CollateralInv => LoansCoverBonus
    BY CollateralCovers
  <1>4. QED
    BY <1>1, <1>2, <1>3, PTL DEF Spec

-----------------------------------------------------------------------------
(***************************************************************************)
(* The types of every variable. The configuration word's fields only ever     *)
(* receive values that fit, and the rate of a reserve is computed where its          *)
(* factor is at most 100%.                                                             *)
(***************************************************************************)
LEMMA MaxValidType == MAX_VALID \in Nat
BY DEF MAX_VALID

LEMMA FittingField ==
    ASSUME NEW value \in Nat, Fits(value)
    PROVE  value \in Field
BY MaxValidType DEF Fits, Field

LEMMA ConfigTypeStep ==
    ASSUME TypeOK, [Next]_vars
    PROVE  config' \in [Assets -> Configuration]
  <1>1. config \in [Assets -> Configuration]
    BY DEF TypeOK
  <1>2. CASE UNCHANGED vars
    BY <1>1, <1>2 DEF vars
  <1>3. ASSUME NEW a \in Assets, NEW c \in Configuration, SetConfiguration(a, c)
        PROVE  config' \in [Assets -> Configuration]
    BY <1>1, <1>3 DEF SetConfiguration
  <1>4. ASSUME NEW a \in Assets, InitReserve(a)
        PROVE  config' \in [Assets -> Configuration]
    BY <1>1, <1>4 DEF InitReserve, Configuration
  <1>5. ASSUME NEW a \in Assets, Use(a)
        PROVE  config' \in [Assets -> Configuration]
    BY <1>1, <1>5 DEF Use, Deposit, Withdraw, Borrow, Repay, Moved
  <1>6. ASSUME NEW a \in Assets, NEW ltv \in Percentages, NEW threshold \in Percentages,
               NEW bonus \in Percentages, ConfigureReserveAsCollateral(a, ltv, threshold, bonus)
        PROVE  config' \in [Assets -> Configuration]
    <2> DEFINE c == [config[a] EXCEPT !.ltv = ltv, !.liquidationThreshold = threshold,
                                      !.liquidationBonus = bonus]
    <2>1. ltv \in Field /\ threshold \in Field /\ bonus \in Field
      <3>1. Fits(ltv) /\ Fits(threshold) /\ Fits(bonus)
        BY <1>6 DEF ConfigureReserveAsCollateral
      <3> QED
        BY <3>1, FittingField, RequestsAssumption
    <2>2. c \in Configuration
      BY <1>1, <2>1 DEF Configuration
    <2>3. SetConfiguration(a, c)
      BY <1>6 DEF ConfigureReserveAsCollateral
    <2> QED
      BY <1>3, <2>2, <2>3
  <1>7. ASSUME NEW a \in Assets, NEW factor \in ReserveFactors, SetReserveFactor(a, factor)
        PROVE  config' \in [Assets -> Configuration]
    <2>1. factor \in Field
      BY <1>7, FittingField, RequestsAssumption DEF SetReserveFactor
    <2>2. [config[a] EXCEPT !.reserveFactor = factor] \in Configuration
      BY <1>1, <2>1 DEF Configuration
    <2> QED
      BY <1>3, <1>7, <2>2 DEF SetReserveFactor
  <1>8. ASSUME NEW a \in Assets, NEW on \in BOOLEAN,
               \/ EnableBorrowingOnReserve(a, on)
               \/ DisableBorrowingOnReserve(a)
               \/ SetStableRate(a, on)
               \/ ActivateReserve(a)
               \/ DeactivateReserve(a)
               \/ SetFrozen(a, on)
        PROVE  config' \in [Assets -> Configuration]
    <2>1. config[a] \in Configuration
      BY <1>1
    <2>2. /\ [config[a] EXCEPT !.borrowingEnabled = TRUE, !.stableEnabled = on] \in Configuration
          /\ [config[a] EXCEPT !.borrowingEnabled = FALSE] \in Configuration
          /\ [config[a] EXCEPT !.stableEnabled = on] \in Configuration
          /\ [config[a] EXCEPT !.active = TRUE] \in Configuration
          /\ [config[a] EXCEPT !.active = FALSE] \in Configuration
          /\ [config[a] EXCEPT !.frozen = on] \in Configuration
      BY <2>1 DEF Configuration
    <2> QED
      BY <1>3, <1>8, <2>2
         DEF EnableBorrowingOnReserve, DisableBorrowingOnReserve, SetStableRate,
             ActivateReserve, DeactivateReserve, SetFrozen
  <1>9. ASSUME NEW a \in Assets, Administration(a)
        PROVE  config' \in [Assets -> Configuration]
    BY <1>4, <1>6, <1>7, <1>8, <1>9 DEF Administration
  <1> QED
    BY <1>2, <1>5, <1>9 DEF Next

\* What a user's transaction does to the liquidity of its reserve: the books move
\* together and the rate is the strategy's for where they end up.
LiquidityTypes ==
    /\ cash \in [Assets -> Nat] /\ deposits \in [Assets -> Nat] /\ debt \in [Assets -> Nat]
    /\ liquidityRate \in [Assets -> Nat]

RateOf(a) == CalculateInterestRates(cash[a], 0, debt[a], 0, config[a].reserveFactor).liquidity

LEMMA UseMovesLiquidity ==
    ASSUME TypeOK, NEW a \in Assets, Use(a)
    PROVE  /\ cash' \in [Assets -> Nat] /\ deposits' \in [Assets -> Nat]
           /\ debt' \in [Assets -> Nat]
           /\ deposits'[a] - cash'[a] - debt'[a] = deposits[a] - cash[a] - debt[a]
           /\ \A b \in Assets \ {a} :
                  cash'[b] = cash[b] /\ deposits'[b] = deposits[b] /\ debt'[b] = debt[b]
           /\ config[a].reserveFactor \in 0 .. PERCENTAGE_FACTOR
           /\ liquidityRate' = [liquidityRate EXCEPT ![a] = RateOf(a)']
  <1>1. PICK amount \in Amounts :
           Deposit(a, amount) \/ Withdraw(a, amount) \/ Borrow(a, amount) \/ Repay(a, amount)
    BY DEF Use
  <1>2. amount \in Nat
    BY RequestsAssumption
  <1>3. LiquidityTypes /\ config \in [Assets -> Configuration]
    BY DEF TypeOK, LiquidityTypes
  <1>4. Moved(a)
    BY <1>1 DEF Deposit, Withdraw, Borrow, Repay
  <1>5. config[a].reserveFactor \in 0 .. PERCENTAGE_FACTOR
    <2>1. config[a].reserveFactor \in Field
      BY <1>3 DEF Configuration
    <2>2. config[a].reserveFactor \in Nat
      BY <2>1, MaxValidType DEF Field
    <2>3. config[a].reserveFactor <= PERCENTAGE_FACTOR
      BY <1>4 DEF Moved
    <2>4. PERCENTAGE_FACTOR \in Nat
      BY DEF PERCENTAGE_FACTOR
    <2> QED
      BY <2>2, <2>3, <2>4
  <1>6. liquidityRate' = [liquidityRate EXCEPT ![a] = RateOf(a)']
    BY <1>3, <1>4 DEF Moved, RateOf
  <1>7. /\ cash' \in [Assets -> Nat] /\ deposits' \in [Assets -> Nat]
        /\ debt' \in [Assets -> Nat]
        /\ deposits'[a] - cash'[a] - debt'[a] = deposits[a] - cash[a] - debt[a]
        /\ \A b \in Assets \ {a} :
               cash'[b] = cash[b] /\ deposits'[b] = deposits[b] /\ debt'[b] = debt[b]
    <2>1. CASE Deposit(a, amount)
      BY <1>2, <1>3, <2>1 DEF Deposit, LiquidityTypes
    <2>2. CASE Withdraw(a, amount)
      BY <1>2, <1>3, <2>2 DEF Withdraw, LiquidityTypes
    <2>3. CASE Borrow(a, amount)
      BY <1>2, <1>3, <2>3 DEF Borrow, LiquidityTypes
    <2>4. CASE Repay(a, amount)
      BY <1>2, <1>3, <2>4 DEF Repay, LiquidityTypes
    <2> QED
      BY <1>1, <2>1, <2>2, <2>3, <2>4
  <1> QED
    BY <1>5, <1>6, <1>7

\* The administrator moves no liquidity.
LEMMA AdministrationKeepsLiquidity ==
    ASSUME NEW a \in Assets, Administration(a)
    PROVE  UNCHANGED liquidityVars
BY DEF Administration, InitReserve, EnableBorrowingOnReserve, DisableBorrowingOnReserve,
       ConfigureReserveAsCollateral, SetStableRate, ActivateReserve, DeactivateReserve,
       SetFrozen, SetReserveFactor, SetConfiguration

LEMMA LiquidityTypeStep ==
    ASSUME TypeOK, [Next]_vars
    PROVE  LiquidityTypes'
  <1>1. LiquidityTypes
    BY DEF TypeOK, LiquidityTypes
  <1>2. ASSUME UNCHANGED liquidityVars PROVE LiquidityTypes'
    BY <1>1, <1>2 DEF LiquidityTypes, liquidityVars
  <1>3. ASSUME NEW a \in Assets, Use(a) PROVE LiquidityTypes'
    <2>1. cash' \in [Assets -> Nat] /\ deposits' \in [Assets -> Nat] /\ debt' \in [Assets -> Nat]
      BY <1>3, UseMovesLiquidity
    <2>2. RateOf(a)' \in Nat
      <3>1. cash'[a] \in Nat /\ debt'[a] \in Nat /\ 0 \in Nat
        BY <2>1
      <3>2. config'[a].reserveFactor \in 0 .. PERCENTAGE_FACTOR
        <4>1. config' = config
          BY <1>3 DEF Use, Deposit, Withdraw, Borrow, Repay, Moved
        <4> QED
          BY <1>3, <4>1, UseMovesLiquidity
      <3>3. CalculateInterestRates(cash'[a], 0, debt'[a], 0, config'[a].reserveFactor)
                \in [liquidity : Nat, stable : Nat, variable : Nat]
        BY <3>1, <3>2, InterestRatesType
      <3> QED
        BY <3>3 DEF RateOf
    <2>3. liquidityRate' = [liquidityRate EXCEPT ![a] = RateOf(a)']
      BY <1>3, UseMovesLiquidity
    <2>4. liquidityRate' \in [Assets -> Nat]
      BY <1>1, <2>2, <2>3 DEF LiquidityTypes
    <2> QED
      BY <2>1, <2>4 DEF LiquidityTypes
  <1> QED
    BY <1>2, <1>3, AdministrationKeepsLiquidity DEF Next, vars

LEMMA ListTypeStep ==
    ASSUME TypeOK, [Next]_vars
    PROVE  /\ initialized' \subseteq Assets
           /\ reservesList' \in Seq(Assets)
           /\ id' \in [Assets -> Nat]
           /\ steps' \in Nat
  <1>1. CASE UNCHANGED vars
    BY <1>1 DEF vars, listVars, TypeOK
  <1>2. ASSUME NEW a \in Assets, Administration(a) \/ Use(a) PROVE steps' = steps + 1
    BY <1>2 DEF Administration, Use, Deposit, Withdraw, Borrow, Repay, Moved,
           EnableBorrowingOnReserve, DisableBorrowingOnReserve, ConfigureReserveAsCollateral,
           SetStableRate, ActivateReserve, DeactivateReserve, SetFrozen, SetReserveFactor,
           SetConfiguration, InitReserve, Transaction
  <1>3. ASSUME NEW a \in Assets, InitReserve(a)
        PROVE  /\ initialized' \subseteq Assets
               /\ reservesList' \in Seq(Assets)
               /\ id' \in [Assets -> Nat]
    <2>1. NextId \in Nat
      BY DEF TypeOK, NextId
    <2>2. /\ initialized \subseteq Assets /\ reservesList \in Seq(Assets)
          /\ id \in [Assets -> Nat]
      BY DEF TypeOK
    <2>3. \/ UNCHANGED <<id, reservesList>>
          \/ id' = [id EXCEPT ![a] = NextId] /\ reservesList' = Append(reservesList, a)
      BY <1>3 DEF InitReserve, AddReserveToList
    <2>4. Append(reservesList, a) \in Seq(Assets)
      BY <2>2
    <2>5. [id EXCEPT ![a] = NextId] \in [Assets -> Nat]
      BY <2>1, <2>2
    <2>6. reservesList' \in Seq(Assets) /\ id' \in [Assets -> Nat]
      BY <2>2, <2>3, <2>4, <2>5
    <2> QED
      BY <1>3, <2>2, <2>6 DEF InitReserve
  <1>4. ASSUME NEW a \in Assets, Administration(a) \/ Use(a), ~InitReserve(a)
        PROVE  UNCHANGED listVars
    BY <1>4, OtherSteps
  <1>5. ASSUME NEW a \in Assets, Administration(a) \/ Use(a)
        PROVE  /\ initialized' \subseteq Assets
               /\ reservesList' \in Seq(Assets)
               /\ id' \in [Assets -> Nat]
    BY <1>3, <1>4, <1>5 DEF listVars, TypeOK
  <1>6. steps \in Nat
    BY DEF TypeOK
  <1> QED
    BY <1>1, <1>2, <1>5, <1>6 DEF Next

(***************************************************************************)
(* In every reachable state every field of a configuration word fits its bits *)
(* and no sum of a reserve went below zero, for every set of assets and whatever      *)
(* percentages, factors and amounts are asked for.                                      *)
(***************************************************************************)
THEOREM TypeCorrect == Spec => []TypeOK
  <1>1. Init => TypeOK
    BY DEF Init, TypeOK, Unconfigured, Configuration, Field, MAX_VALID
  <1>2. TypeOK /\ [Next]_vars => TypeOK'
    BY ConfigTypeStep, LiquidityTypeStep, ListTypeStep DEF TypeOK, LiquidityTypes
  <1> QED
    BY <1>1, <1>2, PTL DEF Spec

-----------------------------------------------------------------------------
(***************************************************************************)
(* Switching a reserve off. The configurator looks at cash and at the stored  *)
(* rate; what it means to know is in the books. The two agree because a reserve        *)
(* that is lent out to the last token pays its depositors a rate that is not zero:      *)
(* this needs a factor below 100% and a strategy whose highest rate outweighs the         *)
(* rounding of a debt of one unit, half a wad of rays per year in the code.                 *)
(***************************************************************************)
RatesVisible ==
    RAY + PERCENTAGE_FACTOR * WAD_RAY_RATIO <= 2 * WAD_RAY_RATIO * MaxVariableBorrowRate

BooksInv ==
    \A a \in Assets :
        /\ deposits[a] = cash[a] + debt[a]
        /\ cash[a] = 0 /\ liquidityRate[a] = 0 => debt[a] = 0
        /\ config[a].reserveFactor # PERCENTAGE_FACTOR

\* With nothing left to borrow the utilization is one and the rate the highest.
LEMMA FullyLentRate ==
    ASSUME NEW d \in Nat \ {0}
    PROVE  /\ UtilizationRate(0, d) = RAY
           /\ VariableBorrowRate(RAY) = MaxVariableBorrowRate
  <1>1. UtilizationRate(0, d) = RAY
    BY RayDivSelf DEF UtilizationRate
  <1>2. RAY > Strategy.optimal
    BY StrategyTypes, RayPositive
  <1>3. RayDiv(RAY - Strategy.optimal, RAY - Strategy.optimal) = RAY
    BY StrategyTypes, RayDivSelf
  <1>4. RayMul(Strategy.variableSlope2, RAY) = Strategy.variableSlope2
    BY StrategyTypes, RayMulOne
  <1> QED
    BY <1>1, <1>2, <1>3, <1>4 DEF VariableBorrowRate, MaxVariableBorrowRate

\* The borrowers' rate survives the rounding of the smallest debt.
LEMMA OverallRateVisible ==
    ASSUME RatesVisible, NEW d \in Nat \ {0}
    PROVE  OverallBorrowRate(0, d, MaxVariableBorrowRate, 0) >= 5000
  <1> DEFINE m == MaxVariableBorrowRate
             w == WAD_RAY_RATIO
             a == WadToRay(d)
             x == RayMul(a, m)
             o == RayDiv(x, a)
             h == RAY \div 2
             e == a \div 2
  <1>1. m \in Nat /\ w \in Nat \ {0} /\ RAY \in Nat \ {0}
    BY StrategyTypes, InterestAssumption, PrecisionAssumption DEF MaxVariableBorrowRate
  <1>2. a \in Nat \ {0} /\ a >= w
    <2>1. d * w >= w /\ d * w \in Nat
      BY <1>1
    <2> QED
      BY <2>1, <1>1 DEF WadToRay
  <1>3. RAY + 10000 * w <= 2 * w * m
    BY DEF RatesVisible, PERCENTAGE_FACTOR
  <1>4. OverallBorrowRate(0, d, m, 0) = o
    <2>1. WadToRay(0) = 0 /\ 0 + d = d /\ d # 0
      BY <1>1 DEF WadToRay
    <2>2. RayMul(0, 0) = 0
      <3>1. h \in Nat /\ 2 * h <= RAY
        BY <1>1, HalfBounds
      <3>2. RAY * 0 <= 0 + h /\ 0 + h < RAY * 0 + RAY
        <4> HIDE DEF h
        <4> QED
          BY <1>1, <3>1
      <3> QED
        BY <1>1, <3>2, RoundHalfUpUnique DEF RayMul
    <2>3. x + 0 = x
      BY <1>1, <1>2, RayMulType
    <2> HIDE DEF m
    <2> QED
      BY <2>1, <2>2, <2>3 DEF OverallBorrowRate
  <1>5. a * m \in Nat
    <2> HIDE DEF a, m
    <2> QED
      BY <1>1, <1>2
  <1>6. h \in Nat /\ RAY <= 2 * h + 1 /\ x \in Nat /\ a * m + h < RAY * x + RAY
    <2> HIDE DEF a, m
    <2> QED
      BY <1>1, <1>5, HalfBounds, RoundHalfUpBounds DEF RayMul
  <1>7. x * RAY \in Nat
    <2> HIDE DEF x
    <2> QED
      BY <1>1, <1>6
  <1>8. e \in Nat /\ a <= 2 * e + 1 /\ o \in Nat /\ x * RAY + e < a * o + a
    <2> HIDE DEF a, x
    <2> QED
      BY <1>2, <1>7, HalfBounds, RoundHalfUpBounds DEF RayDiv
  <1> HIDE DEF m, w, a, x, o, h, e
  <1>9. RAY + 10000 * a <= 2 * (a * m)
    <2>1. 2 * w * m - 10000 * w >= RAY
      BY <1>1, <1>3
    <2>2. w * (2 * m - 10000) = 2 * w * m - 10000 * w
      BY <1>1
    <2> DEFINE n == 2 * m - 10000
    <2>3. n \in Int /\ w * n >= RAY
      BY <1>1, <2>1, <2>2
    <2>4. n >= 0
      <3> HIDE DEF n
      <3> SUFFICES ASSUME n < 0 PROVE FALSE
        BY <2>3
      <3>1. w * n <= 0
        BY <1>1, <2>3
      <3> QED
        BY <1>1, <2>3, <3>1
    <2>5. a * n >= w * n
      <3> HIDE DEF n
      <3> QED
        BY <1>1, <1>2, <2>3, <2>4
    <2>6. a * n = 2 * (a * m) - 10000 * a
      BY <1>1, <1>2
    <2>7. a * n >= RAY
      <3>1. a * n \in Int /\ w * n \in Int
        BY <1>1, <1>2, <2>3
      <3> HIDE DEF n
      <3> QED
        BY <1>1, <2>3, <2>5, <3>1
    <2> QED
      BY <1>1, <1>2, <1>5, <2>6, <2>7
  <1>10. 2 * (a * m) - RAY < 2 * (a * o) + a
    <2>1. a * o \in Nat /\ x * RAY = RAY * x
      BY <1>1, <1>2, <1>6, <1>8
    <2> QED
      BY <1>1, <1>2, <1>5, <1>6, <1>7, <1>8, <2>1
  <1>11. o >= 5000
    <2> SUFFICES ASSUME o <= 4999 PROVE FALSE
      BY <1>8
    <2>1. a * o <= a * 4999
      BY <1>2, <1>8
    <2>2. a * o \in Nat
      BY <1>2, <1>8
    <2> QED
      BY <1>1, <1>2, <1>5, <1>9, <1>10, <2>1, <2>2
  <1> QED
    BY <1>4, <1>11 DEF m

LEMMA ShareEarned ==
    ASSUME NEW rate \in Nat, NEW share \in Nat, rate >= 5000, share >= 1
    PROVE  PercentMul(rate, share) # 0
  <1> DEFINE earned == PercentMul(rate, share)
  <1>1. earned \in Nat /\ rate * share + 5000 < 10000 * earned + 10000
    BY PercentMulBounds
  <1>2. rate * share >= 5000 /\ rate * share \in Nat
    OBVIOUS
  <1> HIDE DEF earned
  <1> QED
    BY <1>1, <1>2 DEF earned

LEMMA DepositorsSeeDebt ==
    ASSUME RatesVisible, NEW d \in Nat \ {0}, NEW factor \in 0 .. PERCENTAGE_FACTOR,
           factor # PERCENTAGE_FACTOR
    PROVE  CalculateInterestRates(0, 0, d, 0, factor).liquidity # 0
  <1> DEFINE overall == OverallBorrowRate(0, d, MaxVariableBorrowRate, 0)
             share   == PERCENTAGE_FACTOR - factor
             earned  == PercentMul(overall, share)
  <1>1. 0 + d = d
    OBVIOUS
  <1>2. MaxVariableBorrowRate \in Nat
    BY StrategyTypes DEF MaxVariableBorrowRate
  <1>3. overall \in Nat /\ overall >= 5000
    <2>1. 0 \in Nat /\ d \in Nat
      OBVIOUS
    <2>2. overall \in Nat
      BY <1>2, <2>1, OverallBorrowRateType
    <2>3. overall >= 5000
      BY OverallRateVisible
    <2> QED
      BY <2>2, <2>3
  <1>4. RayMul(overall, RAY) = overall
    BY <1>3, RayMulOne
  <1>5. CalculateInterestRates(0, 0, d, 0, factor).liquidity = earned
    <2> HIDE DEF share
    <2> QED
      BY <1>1, <1>4, FullyLentRate DEF CalculateInterestRates, share
  <1>6. share \in Nat /\ share >= 1
    BY DEF PERCENTAGE_FACTOR
  <1>7. earned # 0
    <2> HIDE DEF overall, share
    <2> QED
      BY <1>3, <1>6, ShareEarned
  <1> QED
    BY <1>5, <1>7

\* What each of the administrator's transactions leaves of a reserve's configuration.
KeepsFactor(a)     == config'[a].reserveFactor = config[a].reserveFactor
KeepsCollateral(a) == config'[a].liquidationThreshold = config[a].liquidationThreshold
StaysActive(a)     == config[a].active => config'[a].active

LEMMA FieldsKept ==
    ASSUME TypeOK, NEW a \in Assets, NEW b \in Assets, NEW on \in BOOLEAN,
           \/ EnableBorrowingOnReserve(a, on)
           \/ DisableBorrowingOnReserve(a)
           \/ SetStableRate(a, on)
           \/ ActivateReserve(a)
           \/ SetFrozen(a, on)
           \/ InitReserve(a)
    PROVE  KeepsFactor(b) /\ KeepsCollateral(b) /\ StaysActive(b)
  <1>1. config \in [Assets -> Configuration]
    BY DEF TypeOK
  <1> DEFINE c == config[a]
  <1>2. /\ [c EXCEPT !.borrowingEnabled = TRUE, !.stableEnabled = on].reserveFactor
               = c.reserveFactor
        /\ [c EXCEPT !.borrowingEnabled = TRUE, !.stableEnabled = on].liquidationThreshold
               = c.liquidationThreshold
        /\ [c EXCEPT !.borrowingEnabled = TRUE, !.stableEnabled = on].active = c.active
    BY <1>1 DEF Configuration
  <1>3. /\ [c EXCEPT !.active = TRUE].reserveFactor = c.reserveFactor
        /\ [c EXCEPT !.active = TRUE].liquidationThreshold = c.liquidationThreshold
        /\ [c EXCEPT !.active = TRUE].active
    BY <1>1 DEF Configuration
  <1>4. CASE EnableBorrowingOnReserve(a, on)
    BY <1>1, <1>2, <1>4 DEF EnableBorrowingOnReserve, SetConfiguration, KeepsFactor,
           KeepsCollateral, StaysActive
  <1>5. CASE DisableBorrowingOnReserve(a)
    BY <1>1, <1>5 DEF DisableBorrowingOnReserve, SetConfiguration, KeepsFactor,
           KeepsCollateral, StaysActive, Configuration
  <1>6. CASE SetStableRate(a, on)
    BY <1>1, <1>6 DEF SetStableRate, SetConfiguration, KeepsFactor, KeepsCollateral,
           StaysActive, Configuration
  <1>7. CASE ActivateReserve(a)
    BY <1>1, <1>3, <1>7 DEF ActivateReserve, SetConfiguration, KeepsFactor, KeepsCollateral,
           StaysActive
  <1>8. CASE SetFrozen(a, on)
    BY <1>1, <1>8 DEF SetFrozen, SetConfiguration, KeepsFactor, KeepsCollateral, StaysActive,
           Configuration
  <1>9. CASE InitReserve(a)
    BY <1>1, <1>9 DEF InitReserve, KeepsFactor, KeepsCollateral, StaysActive, Configuration
  <1> QED
    BY <1>4, <1>5, <1>6, <1>7, <1>8, <1>9

LEMMA BooksStep ==
    ASSUME RatesVisible, PERCENTAGE_FACTOR \notin ReserveFactors,
           TypeOK, TypeOK', BooksInv, [Next]_vars
    PROVE  BooksInv'
  <1>1. CASE UNCHANGED vars
    BY <1>1 DEF vars, liquidityVars, BooksInv
  <1>2. ASSUME NEW b \in Assets
        PROVE  config'[b].reserveFactor # PERCENTAGE_FACTOR
    <2>1. config[b].reserveFactor # PERCENTAGE_FACTOR
      BY DEF BooksInv
    <2>2. config'[b].reserveFactor = config[b].reserveFactor
            \/ config'[b].reserveFactor \in ReserveFactors
      <3>1. config \in [Assets -> Configuration]
        BY DEF TypeOK
      <3>2. CASE UNCHANGED vars
        BY <3>2 DEF vars
      <3>3. ASSUME NEW a \in Assets, Use(a) PROVE config' = config
        BY <3>3 DEF Use, Deposit, Withdraw, Borrow, Repay, Moved
      <3>4. ASSUME NEW a \in Assets, DeactivateReserve(a) PROVE KeepsFactor(b)
        BY <3>1, <3>4 DEF DeactivateReserve, SetConfiguration, KeepsFactor, Configuration
      <3>5. ASSUME NEW a \in Assets, NEW ltv \in Percentages, NEW threshold \in Percentages,
                   NEW bonus \in Percentages,
                   ConfigureReserveAsCollateral(a, ltv, threshold, bonus)
            PROVE  KeepsFactor(b)
        BY <3>1, <3>5 DEF ConfigureReserveAsCollateral, SetConfiguration, KeepsFactor,
               Configuration
      <3>6. ASSUME NEW a \in Assets, NEW factor \in ReserveFactors, SetReserveFactor(a, factor)
            PROVE  config'[b].reserveFactor \in {config[b].reserveFactor, factor}
        BY <3>1, <3>6 DEF SetReserveFactor, SetConfiguration, Configuration
      <3>7. ASSUME NEW a \in Assets, Administration(a)
            PROVE  KeepsFactor(b) \/ config'[b].reserveFactor \in ReserveFactors
        BY <3>4, <3>5, <3>6, <3>7, FieldsKept DEF Administration, KeepsFactor
      <3> QED
        BY <3>2, <3>3, <3>7 DEF Next, KeepsFactor
    <2> QED
      BY <2>1, <2>2
  <1>3. ASSUME NEW a \in Assets, Administration(a) PROVE BooksInv'
    BY <1>2, <1>3, AdministrationKeepsLiquidity DEF BooksInv, liquidityVars
  <1>4. ASSUME NEW a \in Assets, Use(a) PROVE BooksInv'
    <2> SUFFICES ASSUME NEW b \in Assets
                 PROVE  /\ deposits'[b] = cash'[b] + debt'[b]
                        /\ cash'[b] = 0 /\ liquidityRate'[b] = 0 => debt'[b] = 0
      BY <1>2 DEF BooksInv
    <2>1. /\ deposits[b] = cash[b] + debt[b]
          /\ cash[b] = 0 /\ liquidityRate[b] = 0 => debt[b] = 0
      BY DEF BooksInv
    <2>2. /\ cash \in [Assets -> Nat] /\ deposits \in [Assets -> Nat] /\ debt \in [Assets -> Nat]
          /\ cash' \in [Assets -> Nat] /\ deposits' \in [Assets -> Nat]
          /\ debt' \in [Assets -> Nat]
          /\ liquidityRate \in [Assets -> Nat]
      BY DEF TypeOK
    <2>3. liquidityRate' = [liquidityRate EXCEPT ![a] = RateOf(a)']
      BY <1>4, UseMovesLiquidity
    <2>4. CASE b # a
      <3>1. cash'[b] = cash[b] /\ deposits'[b] = deposits[b] /\ debt'[b] = debt[b]
        BY <1>4, <2>4, UseMovesLiquidity
      <3>2. liquidityRate'[b] = liquidityRate[b]
        BY <2>2, <2>3, <2>4
      <3> QED
        BY <2>1, <3>1, <3>2
    <2>5. CASE b = a
      <3>1. deposits'[b] - cash'[b] - debt'[b] = deposits[b] - cash[b] - debt[b]
        BY <1>4, <2>5, UseMovesLiquidity
      <3>2. deposits'[b] = cash'[b] + debt'[b]
        BY <2>1, <2>2, <3>1
      <3>3. ASSUME cash'[b] = 0, debt'[b] # 0 PROVE liquidityRate'[b] # 0
        <4>1. config[a].reserveFactor \in 0 .. PERCENTAGE_FACTOR /\ config' = config
          BY <1>4, UseMovesLiquidity DEF Use, Deposit, Withdraw, Borrow, Repay, Moved
        <4>2. debt'[b] \in Nat \ {0}
          BY <2>2, <3>3
        <4>3. config'[a].reserveFactor # PERCENTAGE_FACTOR
          BY <1>2
        <4>4. CalculateInterestRates(0, 0, debt'[b], 0, config'[a].reserveFactor).liquidity # 0
          BY <4>1, <4>2, <4>3, DepositorsSeeDebt
        <4>5. RateOf(a)' # 0
          BY <2>5, <3>3, <4>4 DEF RateOf
        <4> QED
          BY <2>2, <2>3, <2>5, <4>5
      <3> QED
        BY <3>2, <3>3
    <2> QED
      BY <2>4, <2>5
  <1> QED
    BY <1>1, <1>3, <1>4 DEF Next

\* Only the two transactions that ask for an empty reserve switch one off.
LEMMA OnlyEmptySwitchedOff ==
    ASSUME TypeOK, BooksInv, [Next]_vars, NEW a \in Assets, SwitchedOff(a)
    PROVE  deposits[a] = 0 /\ debt[a] = 0
  <1>1. CheckNoLiquidity(a)
    <2>1. config \in [Assets -> Configuration]
      BY DEF TypeOK
    <2>2. config' # config
      BY DEF SwitchedOff
    <2>3. PICK b \in Assets : Administration(b)
      BY <2>2 DEF Next, vars, Use, Deposit, Withdraw, Borrow, Repay, Moved
    <2>4. CASE DeactivateReserve(b)
      BY <2>1, <2>4 DEF DeactivateReserve, SetConfiguration, SwitchedOff, Configuration
    <2>5. ASSUME NEW ltv \in Percentages, NEW threshold \in Percentages,
                 NEW bonus \in Percentages,
                 ConfigureReserveAsCollateral(b, ltv, threshold, bonus)
          PROVE  CheckNoLiquidity(a)
      <3> DEFINE c == [config[b] EXCEPT !.ltv = ltv, !.liquidationThreshold = threshold,
                                        !.liquidationBonus = bonus]
      <3>1. config' = [config EXCEPT ![b] = c]
        BY <2>5 DEF ConfigureReserveAsCollateral, SetConfiguration
      <3>2. c.active = config[b].active /\ c.liquidationThreshold = threshold
        BY <2>1 DEF Configuration
      <3>3. a = b /\ threshold = 0
        <4> HIDE DEF c
        <4> QED
          BY <2>1, <3>1, <3>2 DEF SwitchedOff
      <3> QED
        BY <2>5, <3>3 DEF ConfigureReserveAsCollateral
    <2>6. ASSUME NEW factor \in ReserveFactors, SetReserveFactor(b, factor) PROVE FALSE
      <3>1. KeepsCollateral(a) /\ StaysActive(a)
        BY <2>1, <2>6 DEF SetReserveFactor, SetConfiguration, KeepsCollateral, StaysActive,
               Configuration
      <3> QED
        BY <3>1 DEF KeepsCollateral, StaysActive, SwitchedOff
    <2>7. ASSUME KeepsCollateral(a), StaysActive(a) PROVE FALSE
      BY <2>7 DEF KeepsCollateral, StaysActive, SwitchedOff
    <2>8. CASE InitReserve(b) \/ DisableBorrowingOnReserve(b) \/ ActivateReserve(b)
      BY <2>7, <2>8, FieldsKept
    <2>9. CASE \E on \in BOOLEAN : EnableBorrowingOnReserve(b, on) \/ SetStableRate(b, on)
                                     \/ SetFrozen(b, on)
      BY <2>7, <2>9, FieldsKept
    <2> QED
      BY <2>3, <2>4, <2>5, <2>6, <2>8, <2>9 DEF Administration
  <1>2. cash[a] = 0 /\ liquidityRate[a] = 0
    BY <1>1 DEF CheckNoLiquidity
  <1>3. debt[a] = 0
    BY <1>2 DEF BooksInv
  <1>4. deposits[a] = cash[a] + debt[a]
    BY DEF BooksInv
  <1> QED
    BY <1>2, <1>3, <1>4

(***************************************************************************)
(* A reserve is deactivated, or disabled as collateral, only when nobody has  *)
(* a deposit or a debt in it, although the configurator looks at its cash and its      *)
(* rate alone. This holds for every strategy whose highest borrow rate is above the     *)
(* rounding of one unit of debt, as long as no reserve keeps 100% of the interest for    *)
(* the treasury: with that factor the run over ReserveFactors = {10000} shows it fail.    *)
(***************************************************************************)
THEOREM SwitchedOffEmpty ==
    ASSUME RatesVisible, PERCENTAGE_FACTOR \notin ReserveFactors
    PROVE  Spec => OffWhenEmpty
  <1>1. Init => BooksInv
    <2>1. PERCENTAGE_FACTOR # 0
      BY DEF PERCENTAGE_FACTOR
    <2> QED
      BY <2>1 DEF Init, BooksInv, Unconfigured
  <1>2. TypeOK /\ TypeOK' /\ BooksInv /\ [Next]_vars => BooksInv'
    BY BooksStep
  <1>3. TypeOK /\ BooksInv /\ [Next]_vars
            => [\A a \in Assets : SwitchedOff(a) => deposits[a] = 0 /\ debt[a] = 0]_vars
    BY OnlyEmptySwitchedOff
  <1> QED
    BY <1>1, <1>2, <1>3, TypeCorrect, PTL DEF Spec, OffWhenEmpty
==============================================================================
