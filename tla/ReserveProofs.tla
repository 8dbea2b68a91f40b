----------------------------- MODULE ReserveProofs -----------------------------
(***************************************************************************)
(* What holds of a reserve for every instance of Reserve.tla.                *)
(***************************************************************************)
EXTENDS Reserve, InterestRatesProofs

-----------------------------------------------------------------------------
(***************************************************************************)
(* The order of the timestamps is inductive once their types are known.      *)
(***************************************************************************)
StampTypes ==
    /\ now \in Nat /\ lastUpdate \in Nat
    /\ token.totalStamp \in Nat
    /\ token.stamp \in [Users -> Nat]

StampInv == StampTypes /\ StampsOrdered

\* A mint and a burn of stable debt stamp the total with the time of the call, the user
\* with that time or with zero, and nobody else.
StampedAt(t, v, time) ==
    /\ v.totalStamp = time
    /\ v.stamp \in [Users -> Nat]
    /\ \A u \in Users : v.stamp[u] \in {t.stamp[u], time, 0}

\* StableDebtToken.mint, for whatever amount and rate.
LEMMA MintStamps ==
    ASSUME NEW t, t.stamp \in [Users -> Nat], NEW u \in Users, NEW amount, NEW rate,
           NEW time \in Nat
    PROVE  StampedAt(t, StableMint(t, u, amount, rate, time), time)
BY SMT DEF StableMint, StampedAt

\* StableDebtToken.burn, for whatever amount.
LEMMA BurnStamps ==
    ASSUME NEW t, t.stamp \in [Users -> Nat], NEW u \in Users, NEW amount,
           NEW time \in Nat
    PROVE  StampedAt(t, StableBurn(t, u, amount, time), time)
<1> DEFINE cleared == amount = StableBalanceOf(t, u, time)
<1> HIDE DEF cleared
<1>1. /\ StableBurn(t, u, amount, time).totalStamp = time
      /\ StableBurn(t, u, amount, time).stamp
             = [t.stamp EXCEPT ![u] = IF cleared THEN 0 ELSE time]
  BY DEF StableBurn, cleared
<1> QED
  BY <1>1, SMT DEF StampedAt

\* A transaction that updates the reserve, and leaves the stable token alone or changes
\* it by calls stamped now, keeps the timestamps in order.
LEMMA UpdatedStamps ==
    ASSUME StampInv, UpdateState, UNCHANGED now,
           token' = token \/ StampedAt(token, token', now)
    PROVE  StampInv'
BY SMT DEF StampInv, StampTypes, StampsOrdered, UpdateState, StampedAt

\* The two ways debt moves in a transaction.
LEMMA MovedDebtStamps ==
    ASSUME StampInv, NEW u \in Users, NEW amount, NEW mode,
           MintDebt(u, amount, mode) \/ BurnDebt(u, amount, mode)
    PROVE  token' = token \/ StampedAt(token, token', now)
BY MintStamps, BurnStamps DEF MintDebt, BurnDebt, StampInv, StampTypes

\* Every transaction keeps the timestamps in order.
LEMMA StampStep ==
    ASSUME StampInv, [Next]_vars
    PROVE  StampInv'
<1> USE DEF StampInv, StampTypes
<1>1. CASE \E amount \in Amounts : Deposit(amount) \/ Withdraw(amount)
  BY <1>1, UpdatedStamps DEF Deposit, Withdraw, Transaction
<1>2. CASE \E amount \in Amounts : FlashLoanPaid(amount)
  BY <1>2 DEF FlashLoanPaid, Transaction, indexVars, StampsOrdered
<1>3. ASSUME NEW u \in Users, UserStep(u)
      PROVE  StampInv'
  <2>1. CASE \E amount \in Amounts, mode \in Modes : Borrow(u, amount, mode)
    BY <2>1, UpdatedStamps, MovedDebtStamps DEF Borrow, Transaction
  <2>2. CASE \E amount \in Amounts \cup {MaxUint}, mode \in Modes : Repay(u, amount, mode)
    <3>1. PICK amount \in Amounts \cup {MaxUint}, mode \in Modes : Repay(u, amount, mode)
      BY <2>2
    <3>2. /\ UNCHANGED now /\ UpdateState
          /\ BurnDebt(u, PaybackAmount(DebtOf(u, mode), amount), mode)
      BY <3>1 DEF Repay, Transaction
    <3> QED
      BY <3>2, UpdatedStamps, MovedDebtStamps
  <2>3. CASE \E mode \in Modes : SwapBorrowRateMode(u, mode)
    BY <2>3, UpdatedStamps, MintStamps, BurnStamps DEF SwapBorrowRateMode, Transaction
  <2>4. CASE RebalanceStableBorrowRate(u)
    <3> DEFINE burned == StableBurn(token, u, StableDebt(u), now)
               minted == StableMint(burned, u, StableDebt(u), rates.stable, now)
    <3>1. UNCHANGED now /\ UpdateState /\ token' = minted
      BY <2>4 DEF RebalanceStableBorrowRate, Transaction
    <3>2. StampedAt(token, burned, now)
      BY BurnStamps
    <3>3. StampedAt(burned, minted, now)
      BY <3>2, MintStamps DEF StampedAt
    <3>4. StampedAt(token, minted, now)
      BY <3>2, <3>3 DEF StampedAt
    <3> QED
      BY <3>1, <3>4, UpdatedStamps
  <2>5. CASE \E cover \in Amounts, paidOut \in PaidOut : LiquidationCall(u, cover, paidOut)
    <3>1. PICK cover \in Amounts, paidOut \in PaidOut : LiquidationCall(u, cover, paidOut)
      BY <2>5
    <3>2. /\ UNCHANGED now /\ UpdateState
          /\ \/ UNCHANGED token
             \/ \E amount : token' = StableBurn(token, u, amount, now)
      BY <3>1 DEF LiquidationCall, Transaction
    <3> QED
      BY <3>2, UpdatedStamps, BurnStamps
  <2>6. CASE \E mode \in Modes : FlashLoanBorrowed(u, mode)
    BY <2>6, UpdatedStamps, MovedDebtStamps DEF FlashLoanBorrowed, Transaction
  <2> QED
    BY <1>3, <2>1, <2>2, <2>3, <2>4, <2>5, <2>6 DEF UserStep
<1>4. CASE FlashLoanReturned
  BY <1>4, UpdatedStamps DEF FlashLoanReturned, Transaction
<1>5. CASE \E delay \in Delays : Tick(delay)
  BY <1>5, AmountsAssumption, SMT DEF Tick, indexVars, StampsOrdered
<1>6. CASE \E factor \in ReserveFactors : SetReserveFactor(factor)
  BY <1>6 DEF SetReserveFactor, indexVars, StampsOrdered
<1>7. CASE UNCHANGED vars
  BY <1>7 DEF vars, indexVars, StampsOrdered
<1> QED
  BY <1>1, <1>2, <1>3, <1>4, <1>5, <1>6, <1>7 DEF Next

(***************************************************************************)
(* In every reachable state no timestamp of the stable debt token is ahead of *)
(* the reserve's last update, nor that of the clock: the subtractions of          *)
(* timestamps in MathUtils and _mintToTreasury never underflow, so time alone       *)
(* never makes a reserve's operations revert.                                         *)
(***************************************************************************)
THEOREM StampsStayOrdered == Spec => []StampsOrdered
<1>1. Init => StampInv
  BY DEF Init, StampInv, StampTypes, StampsOrdered, NoStableDebt
<1>2. StampInv /\ [Next]_vars => StampInv'
  BY StampStep
<1>3. StampInv => StampsOrdered
  BY DEF StampInv
<1> QED
  BY <1>1, <1>2, <1>3, PTL DEF Spec

-----------------------------------------------------------------------------
(***************************************************************************)
(* A transaction that computes the rates last, from the liquidity it is about *)
(* to leave the reserve with, leaves them fresh: the stable supply is counted at    *)
(* the time of the update, and the variable debt at the index it set.                *)
(***************************************************************************)
LEMMA UpdatedRates ==
    ASSUME UpdateState, UNCHANGED <<now, reserveFactor>>, UpdateInterestRates(cash')
    PROVE  RatesFresh'
BY DEF UpdateState, UpdateInterestRates, RatesFresh

\* Every transaction leaves the rates fresh where no liquidation pays out underlying of
\* the reserve it repays.
LEMMA RatesStep ==
    ASSUME TRUE \notin PaidOut, RatesFresh, [Next]_vars
    PROVE  RatesFresh'
<1>1. CASE \E amount \in Amounts : Deposit(amount) \/ Withdraw(amount)
  BY <1>1, UpdatedRates DEF Deposit, Withdraw, Transaction
<1>2. CASE \E amount \in Amounts : FlashLoanPaid(amount)
  BY <1>2, AmountsAssumption DEF FlashLoanPaid, RatesFresh
<1>3. ASSUME NEW u \in Users, UserStep(u)
      PROVE  RatesFresh'
  <2>1. CASE \E amount \in Amounts, mode \in Modes : Borrow(u, amount, mode)
    BY <2>1, UpdatedRates DEF Borrow, Transaction
  <2>2. CASE \E amount \in Amounts \cup {MaxUint}, mode \in Modes : Repay(u, amount, mode)
    BY <2>2, UpdatedRates DEF Repay, Transaction
  <2>3. CASE \E mode \in Modes : SwapBorrowRateMode(u, mode)
    BY <2>3, UpdatedRates DEF SwapBorrowRateMode, Transaction
  <2>4. CASE RebalanceStableBorrowRate(u)
    BY <2>4, UpdatedRates DEF RebalanceStableBorrowRate, Transaction
  <2>5. CASE \E cover \in Amounts, paidOut \in PaidOut : LiquidationCall(u, cover, paidOut)
    <3>1. PICK cover \in Amounts : LiquidationCall(u, cover, FALSE)
      BY <2>5, LiquidationAssumption
    <3>2. /\ UpdateState /\ UNCHANGED <<now, reserveFactor>>
          /\ UpdateInterestRates(cash')
      BY <3>1 DEF LiquidationCall, Transaction
    <3> QED
      BY <3>2, UpdatedRates
  <2>6. CASE \E mode \in Modes : FlashLoanBorrowed(u, mode)
    BY <2>6, UpdatedRates DEF FlashLoanBorrowed, Transaction
  <2> QED
    BY <1>3, <2>1, <2>2, <2>3, <2>4, <2>5, <2>6 DEF UserStep
<1>4. CASE FlashLoanReturned
  BY <1>4, UpdatedRates DEF FlashLoanReturned, FlashLiquidity, Transaction
<1>5. CASE \E delay \in Delays : Tick(delay)
  BY <1>5 DEF Tick, indexVars, RatesFresh, VSupply
<1>6. CASE \E factor \in ReserveFactors : SetReserveFactor(factor)
  BY <1>6 DEF SetReserveFactor, indexVars, RatesFresh, VSupply
<1>7. CASE UNCHANGED vars
  BY <1>7 DEF vars, indexVars, RatesFresh, VSupply
<1> QED
  BY <1>1, <1>2, <1>3, <1>4, <1>5, <1>6, <1>7 DEF Next

(***************************************************************************)
(* Between transactions the stored rates are the strategy's for the liquidity *)
(* and the debt the reserve holds, whatever the strategy and whatever is nested in  *)
(* flash loans. The hypothesis leaves out the liquidation that is paid out of the     *)
(* reserve it repays, where the run of RatesFresh with PaidOut = BOOLEAN shows it      *)
(* to fail.                                                                              *)
(***************************************************************************)
THEOREM RatesStayFresh ==
    ASSUME TRUE \notin PaidOut
    PROVE  Spec => []RatesFresh
<1>1. Init => RatesFresh
  BY DEF Init, RatesFresh
<1>2. RatesFresh /\ [Next]_vars => RatesFresh'
  BY RatesStep
<1> QED
  BY <1>1, <1>2, PTL DEF Spec

-----------------------------------------------------------------------------
(***************************************************************************)
(* The stable debt token's storage: what mint and burn compute from it has   *)
(* its type when every stamp lies in the past, when something is minted, and when   *)
(* no more is burned than is owed.                                                    *)
(***************************************************************************)
StampedBefore(t, time) ==
    t.totalStamp <= time /\ \A u \in Users : t.stamp[u] <= time

LEMMA BalanceType ==
    ASSUME NEW t \in TokenStorage, NEW u \in Users, NEW time \in Nat, StampedBefore(t, time)
    PROVE  StableBalanceOf(t, u, time) \in Nat
<1>1. t.principal[u] \in Nat /\ t.rate[u] \in Nat /\ time - t.stamp[u] \in Nat
  BY DEF TokenStorage, StampedBefore
<1>2. CompoundedInterest(t.rate[u], time - t.stamp[u]) \in Nat
  BY <1>1, CompoundedInterestType
<1> QED
  BY <1>1, <1>2, RayMulType DEF StableBalanceOf

LEMMA SupplyType ==
    ASSUME NEW t \in TokenStorage, NEW s \in Nat, NEW time \in Nat,
           t.totalStamp <= s, s <= time
    PROVE  /\ StableSupply(t, s) \in Nat /\ StableSupply(t, time) \in Nat
           /\ StableSupply(t, s) <= StableSupply(t, time)
<1> DEFINE c == CompoundedInterest(t.average, s - t.totalStamp)
           d == CompoundedInterest(t.average, time - t.totalStamp)
<1>1. /\ t.total \in Nat /\ t.average \in Nat
      /\ s - t.totalStamp \in Nat /\ time - t.totalStamp \in Nat
      /\ s - t.totalStamp <= time - t.totalStamp
  BY DEF TokenStorage
<1>2. c \in Nat /\ d \in Nat /\ c <= d
  BY <1>1, CompoundedInterestMonotone
<1>3. RayMul(t.total, c) \in Nat /\ RayMul(t.total, d) \in Nat
  BY <1>1, <1>2, RayMulType
<1>4. RayMul(t.total, c) <= RayMul(t.total, d)
  BY <1>1, <1>2, RayMulMonotone
<1> QED
  BY <1>3, <1>4 DEF StableSupply

LEMMA WeightedType ==
    ASSUME NEW rate \in Nat, NEW amount \in Nat
    PROVE  Weighted(rate, amount) \in Nat
BY WadToRayType, RayMulType DEF Weighted

\* The average of two rates, weighted with amounts that are not both zero.
LEMMA AverageType ==
    ASSUME NEW x \in Nat, NEW amount \in Nat, amount # 0
    PROVE  RayDiv(x, WadToRay(amount)) \in Nat
BY WadToRayType, RayDivType

LEMMA MintType ==
    ASSUME NEW t \in TokenStorage, NEW u \in Users, NEW amount \in Nat \ {0}, NEW rate \in Nat,
           NEW time \in Nat, StampedBefore(t, time)
    PROVE  StableMint(t, u, amount, rate, time) \in TokenStorage
<1> DEFINE current  == StableBalanceOf(t, u, time)
           previous == StableSupply(t, time)
           userRate == RayDiv(Weighted(t.rate[u], current) + Weighted(rate, amount),
                              WadToRay(current + amount))
           average  == RayDiv(Weighted(t.average, previous) + Weighted(rate, amount),
                              WadToRay(previous + amount))
<1>1. /\ t.principal \in [Users -> Nat] /\ t.rate \in [Users -> Nat]
      /\ t.stamp \in [Users -> Nat] /\ t.average \in Nat /\ t.totalStamp \in Nat
  BY DEF TokenStorage
<1>2. current \in Nat
  BY BalanceType
<1>3. previous \in Nat
  <2>1. t.totalStamp <= time /\ time <= time
    BY <1>1 DEF StampedBefore
  <2> QED
    BY <2>1, SupplyType
<1> HIDE DEF current, previous
<1>4. /\ Weighted(rate, amount) \in Nat
      /\ Weighted(t.rate[u], current) \in Nat
      /\ Weighted(t.average, previous) \in Nat
  BY <1>1, <1>2, <1>3, WeightedType
<1>5. userRate \in Nat
  <2>1. current + amount \in Nat /\ current + amount # 0
    BY <1>2
  <2>2. Weighted(t.rate[u], current) + Weighted(rate, amount) \in Nat
    BY <1>4
  <2> QED
    BY <2>1, <2>2, AverageType
<1>6. average \in Nat
  <2>1. previous + amount \in Nat /\ previous + amount # 0
    BY <1>3
  <2>2. Weighted(t.average, previous) + Weighted(rate, amount) \in Nat
    BY <1>4
  <2> QED
    BY <2>1, <2>2, AverageType
<1>7. StableMint(t, u, amount, rate, time) =
          [principal  |-> [t.principal EXCEPT ![u] = current + amount],
           rate       |-> [t.rate EXCEPT ![u] = userRate],
           stamp      |-> [t.stamp EXCEPT ![u] = time],
           total      |-> previous + amount,
           average    |-> average,
           totalStamp |-> time]
  BY DEF StableMint, current, previous
<1> HIDE DEF userRate, average
<1> QED
  BY <1>1, <1>2, <1>3, <1>5, <1>6, <1>7 DEF TokenStorage

LEMMA SupplyAfterBurnType ==
    ASSUME NEW previous \in Nat, NEW average \in Nat, NEW amount \in Nat, NEW rate \in Nat
    PROVE  SupplyAfterBurn(previous, average, amount, rate) \in [total : Nat, average : Nat]
<1> DEFINE paid    == Weighted(average, previous)
           leaving == Weighted(rate, amount)
<1>1. paid \in Nat /\ leaving \in Nat
  BY WeightedType
<1>2. CASE previous <= amount \/ leaving >= paid
  BY <1>2 DEF SupplyAfterBurn
<1>3. CASE ~(previous <= amount \/ leaving >= paid)
  <2>1. /\ previous - amount \in Nat /\ previous - amount # 0
        /\ paid - leaving \in Nat
    <3> HIDE DEF paid, leaving
    <3> QED
      BY <1>1, <1>3
  <2>2. RayDiv(paid - leaving, WadToRay(previous - amount)) \in Nat
    BY <2>1, AverageType
  <2> QED
    BY <1>3, <2>1, <2>2 DEF SupplyAfterBurn
<1> QED
  BY <1>2, <1>3

LEMMA BurnType ==
    ASSUME NEW t \in TokenStorage, NEW u \in Users, NEW time \in Nat, StampedBefore(t, time),
           NEW amount \in Nat, amount <= StableBalanceOf(t, u, time)
    PROVE  StableBurn(t, u, amount, time) \in TokenStorage
<1> DEFINE current == StableBalanceOf(t, u, time)
           cleared == amount = current
           supply  == SupplyAfterBurn(StableSupply(t, time), t.average, amount, t.rate[u])
<1>1. /\ t.principal \in [Users -> Nat] /\ t.rate \in [Users -> Nat]
      /\ t.stamp \in [Users -> Nat] /\ t.average \in Nat /\ t.totalStamp \in Nat
  BY DEF TokenStorage
<1>2. current \in Nat /\ amount <= current
  BY BalanceType
<1>3. StableSupply(t, time) \in Nat
  <2>1. t.totalStamp <= time /\ time <= time
    BY <1>1 DEF StampedBefore
  <2> QED
    BY <2>1, SupplyType
<1>4. supply \in [total : Nat, average : Nat]
  BY <1>1, <1>3, SupplyAfterBurnType
<1>5. supply.total \in Nat /\ supply.average \in Nat
  <2> HIDE DEF supply
  <2> QED
    BY <1>4
<1>6. StableBurn(t, u, amount, time) =
          [principal  |-> [t.principal EXCEPT ![u] = current - amount],
           rate       |-> [t.rate EXCEPT ![u] = IF cleared THEN 0 ELSE @],
           stamp      |-> [t.stamp EXCEPT ![u] = IF cleared THEN 0 ELSE time],
           total      |-> supply.total,
           average    |-> supply.average,
           totalStamp |-> time]
  BY DEF StableBurn
<1> HIDE DEF current, cleared, supply
<1>7. current - amount \in Nat
  BY <1>2
<1>8. /\ [t.rate EXCEPT ![u] = IF cleared THEN 0 ELSE @] \in [Users -> Nat]
      /\ [t.stamp EXCEPT ![u] = IF cleared THEN 0 ELSE time] \in [Users -> Nat]
      /\ [t.principal EXCEPT ![u] = current - amount] \in [Users -> Nat]
  BY <1>1, <1>7
<1> QED
  BY <1>5, <1>6, <1>8 DEF TokenStorage

-----------------------------------------------------------------------------
(***************************************************************************)
(* What the operations read off a reserve whose types are right and whose    *)
(* timestamps are in order: no time runs backwards, no index shrinks, and the       *)
(* interest accrued is never negative, although _mintToTreasury subtracts.           *)
(***************************************************************************)
TypeInv == TypeOK /\ StampsOrdered

LEMMA FactorType ==
    ASSUME TypeOK
    PROVE  reserveFactor \in 0 .. PERCENTAGE_FACTOR /\ reserveFactor \in Nat
BY ReserveFactorsAssumption DEF TypeOK

LEMMA TimesType ==
    ASSUME TypeInv
    PROVE  /\ Elapsed \in Nat /\ now \in Nat /\ lastUpdate \in Nat
           /\ StampedBefore(token, now) /\ StampedBefore(token, lastUpdate)
<1>1. /\ now \in Nat /\ lastUpdate \in Nat /\ token \in TokenStorage
      /\ lastUpdate <= now /\ token.totalStamp <= lastUpdate
      /\ \A u \in Users : token.stamp[u] <= token.totalStamp
  BY DEF TypeInv, TypeOK, StampsOrdered
<1>2. token.totalStamp \in Nat /\ \A u \in Users : token.stamp[u] \in Nat
  BY <1>1 DEF TokenStorage
<1> QED
  BY <1>1, <1>2 DEF Elapsed, StampedBefore

\* The scaled supply of variable debt, which is never less than one user's part of it.
LEMMA VSupplyType ==
    ASSUME vBal \in [Users -> Nat]
    PROVE  VSupply \in Nat /\ \A u \in Users : vBal[u] <= VSupply
<1>1. VSupply = SumFunctionOnSet(vBal, Users)
  BY DEF VSupply, SumFunction
<1>2. \A u \in Users : vBal[u] \in Nat
  OBVIOUS
<1> QED
  BY <1>1, <1>2, UsersAssumption, SumNat

\* What grows by a factor of at least one ray does not shrink.
LEMMA GrowthKeeps ==
    ASSUME NEW factor \in Nat, RAY <= factor, NEW index \in Nat
    PROVE  RayMul(factor, index) \in Nat /\ RayMul(factor, index) >= index
<1>1. RAY \in Nat /\ index <= index
  BY RayPositive
<1>2. RayMul(RAY, index) \in Nat /\ RayMul(factor, index) \in Nat
  BY <1>1, RayMulType
<1>3. RayMul(RAY, index) <= RayMul(factor, index)
  BY <1>1, RayMulMonotone
<1>4. RayMul(RAY, index) = index
  BY RayMulOneLeft
<1> QED
  BY <1>2, <1>3, <1>4

LEMMA IndicesType ==
    ASSUME TypeInv
    PROVE  /\ NormalizedIncome \in Nat /\ NormalizedIncome >= liquidityIndex
           /\ NormalizedDebt \in Nat /\ NormalizedDebt >= variableBorrowIndex
           /\ NewLiquidityIndex \in Nat \ {0} /\ NewLiquidityIndex >= RAY
           /\ NewVariableBorrowIndex \in Nat \ {0}
           /\ NewVariableBorrowIndex >= variableBorrowIndex /\ NewVariableBorrowIndex >= RAY
<1>1. /\ liquidityIndex \in Nat /\ variableBorrowIndex \in Nat
      /\ liquidityIndex >= RAY /\ variableBorrowIndex >= RAY
      /\ rates.liquidity \in Nat /\ rates.variable \in Nat
  BY DEF TypeInv, TypeOK
<1>2. RAY \in Nat /\ RAY > 0 /\ Elapsed \in Nat
  BY RayPositive, TimesType
<1>3. /\ LinearInterest(rates.liquidity, Elapsed) \in Nat
      /\ RAY <= LinearInterest(rates.liquidity, Elapsed)
  BY <1>1, <1>2, LinearInterestBounds
<1>4. /\ CompoundedInterest(rates.variable, Elapsed) \in Nat
      /\ RAY <= CompoundedInterest(rates.variable, Elapsed)
  BY <1>1, <1>2, CompoundedInterestType
<1>5. NormalizedIncome \in Nat /\ NormalizedIncome >= liquidityIndex
  <2>1. /\ RayMul(LinearInterest(rates.liquidity, Elapsed), liquidityIndex) \in Nat
        /\ RayMul(LinearInterest(rates.liquidity, Elapsed), liquidityIndex) >= liquidityIndex
    BY <1>1, <1>2, <1>3, GrowthKeeps
  <2> QED
    BY <2>1 DEF NormalizedIncome
<1>6. NormalizedDebt \in Nat /\ NormalizedDebt >= variableBorrowIndex
  <2>1. /\ RayMul(CompoundedInterest(rates.variable, Elapsed), variableBorrowIndex) \in Nat
        /\ RayMul(CompoundedInterest(rates.variable, Elapsed), variableBorrowIndex)
              >= variableBorrowIndex
    BY <1>1, <1>2, <1>4, GrowthKeeps
  <2> QED
    BY <2>1 DEF NormalizedDebt
<1> QED
  BY <1>1, <1>2, <1>5, <1>6 DEF NewLiquidityIndex, NewVariableBorrowIndex

LEMMA DebtsType ==
    ASSUME TypeInv, NEW u \in Users
    PROVE  StableDebt(u) \in Nat /\ VariableDebt(u) \in Nat
<1>1. token \in TokenStorage /\ vBal[u] \in Nat
  BY DEF TypeInv, TypeOK
<1>2. StableDebt(u) \in Nat
  BY <1>1, TimesType, BalanceType DEF StableDebt
<1>3. VariableDebt(u) \in Nat
  BY <1>1, IndicesType, RayMulType DEF VariableDebt
<1> QED
  BY <1>2, <1>3

LEMMA TreasuryType ==
    ASSUME TypeInv
    PROVE  DebtAccrued \in Nat /\ TreasuryShare \in Nat
<1>1. /\ vBal \in [Users -> Nat] /\ token \in TokenStorage
      /\ variableBorrowIndex \in Nat /\ token.totalStamp \in Nat
  BY DEF TypeInv, TypeOK, TokenStorage
<1>2. VSupply \in Nat
  BY <1>1, VSupplyType
<1>3. NewVariableBorrowIndex \in Nat /\ variableBorrowIndex <= NewVariableBorrowIndex
  BY <1>1, IndicesType
<1>4. /\ RayMul(VSupply, variableBorrowIndex) \in Nat
      /\ RayMul(VSupply, NewVariableBorrowIndex) \in Nat
  BY <1>1, <1>2, <1>3, RayMulType
<1>5. RayMul(VSupply, variableBorrowIndex) <= RayMul(VSupply, NewVariableBorrowIndex)
  <2>1. VSupply <= VSupply
    BY <1>2
  <2> QED
    BY <1>1, <1>2, <1>3, <2>1, RayMulMonotone
<1>6. /\ StableSupply(token, lastUpdate) \in Nat /\ StableSupply(token, now) \in Nat
      /\ StableSupply(token, lastUpdate) <= StableSupply(token, now)
  <2>1. /\ now \in Nat /\ lastUpdate \in Nat
        /\ token.totalStamp <= lastUpdate /\ lastUpdate <= now
    BY DEF TypeInv, TypeOK, StampsOrdered
  <2> QED
    BY <1>1, <2>1, SupplyType
<1>7. DebtAccrued \in Nat
  BY <1>4, <1>5, <1>6 DEF DebtAccrued
<1>8. TreasuryShare \in Nat
  <2>1. PercentMul(DebtAccrued, reserveFactor) \in Nat
    BY <1>7, FactorType, PercentMulType DEF TypeInv
  <2> QED
    BY <2>1, IndicesType, RayDivType DEF TreasuryShare
<1> QED
  BY <1>7, <1>8

-----------------------------------------------------------------------------
(***************************************************************************)
(* One lemma for each way debt moves, and one for what the rest of a         *)
(* transaction does to the types.                                               *)
(***************************************************************************)
LEMMA MintVariableType ==
    ASSUME TypeInv, NEW u \in Users, NEW amount \in Nat, MintVariable(u, amount)
    PROVE  vBal' \in [Users -> Nat]
<1> DEFINE scaled == RayDiv(amount, NewVariableBorrowIndex)
<1>1. scaled \in Nat
  BY IndicesType, RayDivType
<1>2. vBal' = [vBal EXCEPT ![u] = @ + scaled]
  BY DEF MintVariable
<1>3. vBal \in [Users -> Nat]
  BY DEF TypeInv, TypeOK
<1> HIDE DEF scaled
<1> QED
  BY <1>1, <1>2, <1>3

LEMMA BurnVariableType ==
    ASSUME TypeInv, NEW u \in Users, NEW amount \in Nat, BurnVariable(u, amount)
    PROVE  vBal' \in [Users -> Nat]
<1> DEFINE scaled == RayDiv(amount, NewVariableBorrowIndex)
<1>1. scaled \in Nat
  BY IndicesType, RayDivType
<1>2. scaled <= vBal[u] /\ vBal' = [vBal EXCEPT ![u] = @ - scaled]
  BY DEF BurnVariable
<1>3. vBal \in [Users -> Nat]
  BY DEF TypeInv, TypeOK
<1> HIDE DEF scaled
<1>4. vBal[u] - scaled \in Nat
  BY <1>1, <1>2, <1>3
<1> QED
  BY <1>2, <1>3, <1>4

LEMMA MintStableType ==
    ASSUME TypeInv, NEW u \in Users, NEW amount \in Nat \ {0},
           token' = StableMint(token, u, amount, rates.stable, now)
    PROVE  token' \in TokenStorage
<1>1. token \in TokenStorage /\ rates.stable \in Nat /\ now \in Nat
  BY DEF TypeInv, TypeOK
<1>2. StampedBefore(token, now)
  BY TimesType
<1> QED
  BY <1>1, <1>2, MintType

LEMMA BurnStableType ==
    ASSUME TypeInv, NEW u \in Users, NEW amount \in Nat, amount <= StableDebt(u)
    PROVE  StableBurn(token, u, amount, now) \in TokenStorage
<1>1. token \in TokenStorage /\ now \in Nat
  BY DEF TypeInv, TypeOK
<1>2. StampedBefore(token, now)
  BY TimesType
<1> QED
  BY <1>1, <1>2, BurnType DEF StableDebt

LEMMA MintDebtType ==
    ASSUME TypeInv, NEW u \in Users, NEW amount \in Nat \ {0}, NEW mode,
           MintDebt(u, amount, mode)
    PROVE  token' \in TokenStorage /\ vBal' \in [Users -> Nat]
<1>1. token \in TokenStorage /\ vBal \in [Users -> Nat]
  BY DEF TypeInv, TypeOK
<1>2. CASE token' = StableMint(token, u, amount, rates.stable, now) /\ UNCHANGED vBal
  BY <1>1, <1>2, MintStableType
<1>3. CASE MintVariable(u, amount) /\ UNCHANGED token
  BY <1>1, <1>3, MintVariableType
<1> QED
  BY <1>2, <1>3 DEF MintDebt

LEMMA BurnDebtType ==
    ASSUME TypeInv, NEW u \in Users, NEW mode \in Modes, NEW amount \in Nat,
           amount <= DebtOf(u, mode), BurnDebt(u, amount, mode)
    PROVE  token' \in TokenStorage /\ vBal' \in [Users -> Nat]
<1>1. token \in TokenStorage /\ vBal \in [Users -> Nat]
  BY DEF TypeInv, TypeOK
<1>2. CASE /\ mode = "stable" /\ UNCHANGED vBal
           /\ token' = StableBurn(token, u, amount, now)
  <2>1. amount <= StableDebt(u)
    BY <1>2 DEF DebtOf
  <2> QED
    BY <1>1, <1>2, <2>1, BurnStableType
<1>3. CASE BurnVariable(u, amount) /\ UNCHANGED token
  BY <1>1, <1>3, BurnVariableType
<1> QED
  BY <1>2, <1>3 DEF BurnDebt

LEMMA RatesType ==
    ASSUME TypeInv, StampsOrdered', UNCHANGED <<now, reserveFactor>>,
           UpdateState, token' \in TokenStorage, vBal' \in [Users -> Nat],
           NEW liquidity \in Nat, UpdateInterestRates(liquidity)
    PROVE  rates' \in [liquidity : Nat, stable : Nat, variable : Nat]
<1> DEFINE variable == RayMul(VSupply', variableBorrowIndex')
<1>1. StableSupply(token, now)' \in Nat
  <2>1. token'.totalStamp <= now' /\ now' \in Nat /\ now' <= now'
    <3>1. /\ token'.totalStamp <= lastUpdate' /\ lastUpdate' <= now'
          /\ now' \in Nat /\ lastUpdate' \in Nat /\ token'.totalStamp \in Nat
      BY DEF StampsOrdered, TypeInv, TypeOK, UpdateState, TokenStorage
    <3> QED
      BY <3>1
  <2> QED
    BY <2>1, SupplyType
<1>2. variable \in Nat
  <2>1. VSupply' \in Nat
    <3>1. VSupply' = SumFunctionOnSet(vBal', Users)
      BY DEF VSupply, SumFunction
    <3>2. \A u \in Users : vBal'[u] \in Nat
      OBVIOUS
    <3> QED
      BY <3>1, <3>2, UsersAssumption, SumNat
  <2>2. variableBorrowIndex' \in Nat
    BY IndicesType DEF UpdateState
  <2> QED
    BY <2>1, <2>2, RayMulType
<1>3. token'.average \in Nat /\ reserveFactor \in 0 .. PERCENTAGE_FACTOR
  BY FactorType DEF TokenStorage, TypeInv
<1>4. rates' = CalculateInterestRates(liquidity, StableSupply(token, now)', variable,
                                      token'.average, reserveFactor)
  BY DEF UpdateInterestRates
<1> HIDE DEF variable
<1> QED
  BY <1>1, <1>2, <1>3, <1>4, InterestRatesType

LEMMA TransactionType ==
    ASSUME TypeInv, StampsOrdered', Transaction, UpdateState,
           token' \in TokenStorage, vBal' \in [Users -> Nat],
           cash' \in Nat, aSupply' \in Nat, flash' \in Nat,
           NEW liquidity \in Nat, UpdateInterestRates(liquidity)
    PROVE  TypeOK'
<1>1. rates' \in [liquidity : Nat, stable : Nat, variable : Nat]
  BY RatesType DEF Transaction
<1>2. /\ liquidityIndex' \in Nat /\ variableBorrowIndex' \in Nat
      /\ liquidityIndex' >= RAY /\ variableBorrowIndex' >= RAY
      /\ lastUpdate' = now
  BY IndicesType DEF UpdateState
<1>3. /\ now' = now /\ reserveFactor' = reserveFactor /\ steps' = steps + 1
      /\ ratedFactor' = reserveFactor
  BY DEF Transaction, UpdateInterestRates
<1>4. now \in Nat /\ reserveFactor \in ReserveFactors /\ steps \in Nat
  BY DEF TypeInv, TypeOK
<1> QED
  BY <1>1, <1>2, <1>3, <1>4 DEF TypeOK

-----------------------------------------------------------------------------
(***************************************************************************)
(* One lemma for each transaction.                                           *)
(***************************************************************************)
LEMMA DepositType ==
    ASSUME TypeInv, StampsOrdered', NEW amount \in Amounts, Deposit(amount)
    PROVE  TypeOK'
<1>1. /\ cash \in Nat /\ aSupply \in Nat /\ flash \in Nat /\ amount \in Nat
      /\ token \in TokenStorage /\ vBal \in [Users -> Nat]
  BY AmountsAssumption DEF TypeInv, TypeOK
<1>2. TreasuryShare \in Nat /\ RayDiv(amount, NewLiquidityIndex) \in Nat
  BY <1>1, TreasuryType, IndicesType, RayDivType
<1>3. /\ aSupply' = aSupply + TreasuryShare + RayDiv(amount, NewLiquidityIndex)
      /\ cash' = cash + amount /\ UNCHANGED <<vBal, token, flash>>
      /\ Transaction /\ UpdateState /\ UpdateInterestRates(cash + amount)
  BY DEF Deposit
<1>4. cash + amount \in Nat /\ aSupply' \in Nat
  BY <1>1, <1>2, <1>3
<1> QED
  BY <1>1, <1>3, <1>4, TransactionType

LEMMA WithdrawType ==
    ASSUME TypeInv, StampsOrdered', NEW amount \in Amounts, Withdraw(amount)
    PROVE  TypeOK'
<1> DEFINE scaled == RayDiv(amount, NewLiquidityIndex)
<1>1. /\ cash \in Nat /\ aSupply \in Nat /\ flash \in Nat /\ amount \in Nat
      /\ token \in TokenStorage /\ vBal \in [Users -> Nat]
  BY AmountsAssumption DEF TypeInv, TypeOK
<1>2. TreasuryShare \in Nat /\ scaled \in Nat
  BY <1>1, TreasuryType, IndicesType, RayDivType
<1>3. /\ scaled <= aSupply /\ aSupply' = aSupply + TreasuryShare - scaled
      /\ amount <= cash /\ cash' = cash - amount /\ UNCHANGED <<vBal, token, flash>>
      /\ Transaction /\ UpdateState /\ UpdateInterestRates(cash - amount)
  BY DEF Withdraw
<1> HIDE DEF scaled
<1>4. cash - amount \in Nat /\ aSupply' \in Nat
  BY <1>1, <1>2, <1>3
<1> QED
  BY <1>1, <1>3, <1>4, TransactionType

LEMMA BorrowType ==
    ASSUME TypeInv, StampsOrdered', NEW u \in Users, NEW amount \in Amounts,
           NEW mode \in Modes, Borrow(u, amount, mode)
    PROVE  TypeOK'
<1>1. /\ cash \in Nat /\ aSupply \in Nat /\ flash \in Nat /\ amount \in Nat \ {0}
      /\ TreasuryShare \in Nat
  BY AmountsAssumption, TreasuryType DEF TypeInv, TypeOK
<1>2. /\ aSupply' = aSupply + TreasuryShare /\ MintDebt(u, amount, mode)
      /\ amount <= cash /\ cash' = cash - amount /\ UNCHANGED flash
      /\ Transaction /\ UpdateState /\ UpdateInterestRates(cash - amount)
  BY DEF Borrow
<1>3. token' \in TokenStorage /\ vBal' \in [Users -> Nat]
  BY <1>1, <1>2, MintDebtType
<1>4. cash - amount \in Nat /\ aSupply' \in Nat
  BY <1>1, <1>2
<1> QED
  BY <1>1, <1>2, <1>3, <1>4, TransactionType

LEMMA RepayType ==
    ASSUME TypeInv, StampsOrdered', NEW u \in Users, NEW amount \in Amounts \cup {MaxUint},
           NEW mode \in Modes, Repay(u, amount, mode)
    PROVE  TypeOK'
<1> DEFINE paid == PaybackAmount(DebtOf(u, mode), amount)
<1>1. /\ cash \in Nat /\ aSupply \in Nat /\ flash \in Nat /\ amount \in Nat
      /\ TreasuryShare \in Nat
  BY AmountsAssumption, TreasuryType DEF TypeInv, TypeOK
<1>2. DebtOf(u, mode) \in Nat
  BY DebtsType DEF DebtOf
<1>3. paid \in Nat /\ paid <= DebtOf(u, mode)
  BY <1>1, <1>2 DEF PaybackAmount
<1>4. /\ aSupply' = aSupply + TreasuryShare /\ BurnDebt(u, paid, mode)
      /\ cash' = cash + paid /\ UNCHANGED flash
      /\ Transaction /\ UpdateState /\ UpdateInterestRates(cash + paid)
  BY DEF Repay
<1> HIDE DEF paid
<1>5. token' \in TokenStorage /\ vBal' \in [Users -> Nat]
  BY <1>3, <1>4, BurnDebtType
<1>6. cash + paid \in Nat /\ aSupply' \in Nat
  BY <1>1, <1>3, <1>4
<1> QED
  BY <1>1, <1>4, <1>5, <1>6, TransactionType

LEMMA SwapType ==
    ASSUME TypeInv, StampsOrdered', NEW u \in Users, NEW mode \in Modes,
           SwapBorrowRateMode(u, mode)
    PROVE  TypeOK'
<1>1. cash \in Nat /\ aSupply \in Nat /\ flash \in Nat /\ TreasuryShare \in Nat
  BY TreasuryType DEF TypeInv, TypeOK
<1>2. /\ aSupply' = aSupply + TreasuryShare /\ UNCHANGED <<cash, flash>>
      /\ DebtOf(u, mode) > 0
      /\ Transaction /\ UpdateState /\ UpdateInterestRates(cash)
  BY DEF SwapBorrowRateMode
<1>3. token' \in TokenStorage /\ vBal' \in [Users -> Nat]
  <2>1. StableDebt(u) \in Nat /\ VariableDebt(u) \in Nat
    BY DebtsType
  <2>2. CASE /\ token' = StableBurn(token, u, StableDebt(u), now)
             /\ MintVariable(u, StableDebt(u))
    <3>1. StableDebt(u) <= StableDebt(u)
      BY <2>1
    <3> QED
      BY <2>1, <2>2, <3>1, BurnStableType, MintVariableType
  <2>3. CASE /\ mode = "variable"
             /\ token' = StableMint(token, u, VariableDebt(u), rates.stable, now)
             /\ BurnVariable(u, VariableDebt(u))
    <3>1. VariableDebt(u) \in Nat \ {0}
      BY <1>2, <2>1, <2>3 DEF DebtOf
    <3> QED
      BY <2>3, <3>1, MintStableType, BurnVariableType
  <2> QED
    BY <2>2, <2>3 DEF SwapBorrowRateMode
<1>4. aSupply' \in Nat
  BY <1>1, <1>2
<1> QED
  BY <1>1, <1>2, <1>3, <1>4, TransactionType

LEMMA RebalanceType ==
    ASSUME TypeInv, StampsOrdered', NEW u \in Users, RebalanceStableBorrowRate(u)
    PROVE  TypeOK'
<1> DEFINE debt   == StableDebt(u)
           burned == StableBurn(token, u, debt, now)
<1>1. /\ cash \in Nat /\ aSupply \in Nat /\ flash \in Nat /\ TreasuryShare \in Nat
      /\ vBal \in [Users -> Nat] /\ rates.stable \in Nat /\ now \in Nat
      /\ token \in TokenStorage
  BY TreasuryType DEF TypeInv, TypeOK
<1>2. /\ aSupply' = aSupply + TreasuryShare /\ UNCHANGED <<cash, vBal, flash>>
      /\ debt > 0 /\ token' = StableMint(burned, u, debt, rates.stable, now)
      /\ Transaction /\ UpdateState /\ UpdateInterestRates(cash)
  BY DEF RebalanceStableBorrowRate
<1>3. debt \in Nat \ {0}
  BY <1>2, DebtsType
<1>4. burned \in TokenStorage
  <2>1. debt <= debt
    BY <1>3
  <2> QED
    BY <1>3, <2>1, BurnStableType
<1>5. StampedBefore(burned, now)
  <2>1. /\ token.stamp \in [Users -> Nat] /\ \A v \in Users : token.stamp[v] <= now
    BY <1>1, TimesType DEF TokenStorage, StampedBefore
  <2>2. StampedAt(token, burned, now)
    BY <1>1, <2>1, BurnStamps
  <2> HIDE DEF burned
  <2>3. burned.totalStamp <= now
    BY <1>1, <2>2 DEF StampedAt
  <2>4. ASSUME NEW v \in Users PROVE burned.stamp[v] <= now
    BY <1>1, <2>1, <2>2 DEF StampedAt
  <2> QED
    BY <2>3, <2>4 DEF StampedBefore
<1> HIDE DEF debt, burned
<1>6. token' \in TokenStorage
  BY <1>1, <1>2, <1>3, <1>4, <1>5, MintType
<1>7. aSupply' \in Nat
  BY <1>1, <1>2
<1> QED
  BY <1>1, <1>2, <1>6, <1>7, TransactionType

\* Half of a debt is no more than the debt.
LEMMA CloseFactorBounds ==
    ASSUME NEW debt \in Nat
    PROVE  /\ PercentMul(debt, LIQUIDATION_CLOSE_FACTOR_PERCENT) \in Nat
           /\ PercentMul(debt, LIQUIDATION_CLOSE_FACTOR_PERCENT) <= debt
<1> DEFINE half == RoundHalfUp(debt * 5000, 10000)
<1>1. debt * 5000 \in Nat /\ 10000 \in Nat \ {0} /\ 10000 \div 2 = 5000
  OBVIOUS
<1>2. half \in Nat /\ 10000 * half <= debt * 5000 + (10000 \div 2)
  BY <1>1, RoundHalfUpBounds
<1>3. PercentMul(debt, LIQUIDATION_CLOSE_FACTOR_PERCENT) = half
  BY DEF PercentMul, LIQUIDATION_CLOSE_FACTOR_PERCENT, PERCENTAGE_FACTOR
<1> HIDE DEF half
<1>4. 10000 * half <= debt * 5000 + 5000
  BY <1>1, <1>2
<1>5. half <= debt
  BY <1>2, <1>4
<1> QED
  BY <1>2, <1>3, <1>5

LEMMA LiquidationType ==
    ASSUME TypeInv, StampsOrdered', NEW u \in Users, NEW cover \in Amounts,
           NEW paidOut \in BOOLEAN, LiquidationCall(u, cover, paidOut)
    PROVE  TypeOK'
<1> DEFINE variable == VariableDebt(u)
           most     == PercentMul(StableDebt(u) + variable, LIQUIDATION_CLOSE_FACTOR_PERCENT)
           repaid   == IF cover > most THEN most ELSE cover
           seized   == IF paidOut
                       THEN (repaid * LiquidationBonus) \div PERCENTAGE_FACTOR
                       ELSE 0
           scaled   == RayDiv(seized, NewLiquidityIndex)
           left     == IF paidOut THEN cash - seized ELSE cash
           seen     == IF paidOut THEN left ELSE left + repaid
<1>1. /\ cash \in Nat /\ aSupply \in Nat /\ flash \in Nat /\ TreasuryShare \in Nat
      /\ token \in TokenStorage /\ vBal \in [Users -> Nat] /\ cover \in Nat
  BY AmountsAssumption, TreasuryType DEF TypeInv, TypeOK
<1>2. StableDebt(u) \in Nat /\ variable \in Nat
  BY DebtsType
<1>3. /\ Transaction /\ UpdateState /\ UpdateInterestRates(seen) /\ UNCHANGED flash
      /\ seized <= cash /\ scaled <= aSupply
      /\ aSupply' = aSupply + TreasuryShare - scaled /\ cash' = left + repaid
      /\ \/ BurnVariable(u, repaid) /\ UNCHANGED token
         \/ /\ variable < repaid
            /\ BurnVariable(u, variable) \/ UNCHANGED vBal
            /\ token' = StableBurn(token, u, repaid - variable, now)
  BY DEF LiquidationCall
<1>4. most \in Nat /\ most <= StableDebt(u) + variable
  <2>1. StableDebt(u) + variable \in Nat
    BY <1>2
  <2> QED
    BY <2>1, CloseFactorBounds
<1> HIDE DEF variable, most
<1>5. repaid \in Nat /\ repaid <= StableDebt(u) + variable
  BY <1>1, <1>2, <1>4
<1> HIDE DEF repaid
<1>6. seized \in Nat
  <2>1. repaid * LiquidationBonus \in Nat
    BY <1>5, LiquidationAssumption
  <2>2. PERCENTAGE_FACTOR \in Nat \ {0}
    BY DEF PERCENTAGE_FACTOR
  <2>3. (repaid * LiquidationBonus) \div PERCENTAGE_FACTOR \in Nat
    BY <2>1, <2>2, DivBounds
  <2> QED
    BY <2>3
<1> HIDE DEF seized
<1>7. scaled \in Nat
  BY <1>6, IndicesType, RayDivType
<1> HIDE DEF scaled
<1>8. left \in Nat /\ seen \in Nat /\ cash' \in Nat /\ aSupply' \in Nat
  BY <1>1, <1>3, <1>5, <1>6, <1>7
<1> HIDE DEF left, seen
<1>9. token' \in TokenStorage /\ vBal' \in [Users -> Nat]
  <2>1. CASE BurnVariable(u, repaid) /\ UNCHANGED token
    BY <1>1, <1>5, <2>1, BurnVariableType
  <2>2. CASE /\ variable < repaid
             /\ BurnVariable(u, variable) \/ UNCHANGED vBal
             /\ token' = StableBurn(token, u, repaid - variable, now)
    <3>1. repaid - variable \in Nat /\ repaid - variable <= StableDebt(u)
      BY <1>2, <1>5, <2>2
    <3>2. token' \in TokenStorage
      BY <2>2, <3>1, BurnStableType
    <3>3. vBal' \in [Users -> Nat]
      BY <1>1, <1>2, <2>2, BurnVariableType
    <3> QED
      BY <3>2, <3>3
  <2> QED
    BY <1>3, <2>1, <2>2
<1> QED
  BY <1>1, <1>3, <1>8, <1>9, TransactionType

LEMMA FlashLoanBorrowedType ==
    ASSUME TypeInv, StampsOrdered', NEW u \in Users, NEW mode \in Modes,
           FlashLoanBorrowed(u, mode)
    PROVE  TypeOK'
<1>1. cash \in Nat /\ aSupply \in Nat /\ flash \in Nat /\ TreasuryShare \in Nat
  BY TreasuryType DEF TypeInv, TypeOK
<1>2. /\ flash > 0 /\ MintDebt(u, flash, mode)
      /\ aSupply' = aSupply + TreasuryShare /\ flash' = 0 /\ UNCHANGED cash
      /\ Transaction /\ UpdateState /\ UpdateInterestRates(cash)
  BY DEF FlashLoanBorrowed
<1>3. flash \in Nat \ {0}
  BY <1>1, <1>2
<1>4. token' \in TokenStorage /\ vBal' \in [Users -> Nat]
  BY <1>2, <1>3, MintDebtType
<1>5. aSupply' \in Nat /\ flash' \in Nat
  BY <1>1, <1>2
<1> QED
  BY <1>1, <1>2, <1>4, <1>5, TransactionType

LEMMA FlashLoanReturnedType ==
    ASSUME TypeInv, StampsOrdered', FlashLoanReturned
    PROVE  TypeOK'
<1>1. /\ cash \in Nat /\ aSupply \in Nat /\ flash \in Nat /\ TreasuryShare \in Nat
      /\ token \in TokenStorage /\ vBal \in [Users -> Nat]
  BY TreasuryType DEF TypeInv, TypeOK
<1>2. /\ aSupply' = aSupply + TreasuryShare /\ flash' = 0 /\ cash' = cash + flash
      /\ UNCHANGED <<vBal, token>>
      /\ Transaction /\ UpdateState /\ UpdateInterestRates(cash + flash)
  BY DEF FlashLoanReturned, FlashLiquidity
<1>3. aSupply' \in Nat /\ flash' \in Nat /\ cash + flash \in Nat
  BY <1>1, <1>2
<1> QED
  BY <1>1, <1>2, <1>3, TransactionType

LEMMA TypeStep ==
    ASSUME TypeInv, StampsOrdered', [Next]_vars
    PROVE  TypeOK'
<1>1. CASE \E amount \in Amounts : Deposit(amount) \/ Withdraw(amount)
  BY <1>1, DepositType, WithdrawType
<1>2. ASSUME NEW amount \in Amounts, FlashLoanPaid(amount)
      PROVE  TypeOK'
  <2>1. /\ cash \in Nat /\ amount \in Nat /\ amount <= cash /\ steps \in Nat
        /\ cash' = cash - amount /\ flash' = amount /\ steps' = steps + 1
    BY <1>2, AmountsAssumption DEF FlashLoanPaid, Transaction, TypeInv, TypeOK
  <2>2. cash' \in Nat /\ flash' \in Nat /\ steps' \in Nat
    BY <2>1
  <2>3. UNCHANGED <<now, reserveFactor, aSupply, vBal, token, indexVars, ratedFactor>>
    BY <1>2 DEF FlashLoanPaid, Transaction
  <2> QED
    BY <2>2, <2>3 DEF TypeInv, TypeOK, indexVars
<1>3. ASSUME NEW u \in Users, UserStep(u)
      PROVE  TypeOK'
  <2>1. CASE \E amount \in Amounts, mode \in Modes : Borrow(u, amount, mode)
    BY <2>1, BorrowType
  <2>2. CASE \E amount \in Amounts \cup {MaxUint}, mode \in Modes : Repay(u, amount, mode)
    BY <2>2, RepayType
  <2>3. CASE \E mode \in Modes : SwapBorrowRateMode(u, mode)
    BY <2>3, SwapType
  <2>4. CASE RebalanceStableBorrowRate(u)
    BY <2>4, RebalanceType
  <2>5. CASE \E cover \in Amounts, paidOut \in PaidOut : LiquidationCall(u, cover, paidOut)
    BY <2>5, LiquidationType, LiquidationAssumption
  <2>6. CASE \E mode \in Modes : FlashLoanBorrowed(u, mode)
    BY <2>6, FlashLoanBorrowedType
  <2> QED
    BY <1>3, <2>1, <2>2, <2>3, <2>4, <2>5, <2>6 DEF UserStep
<1>4. CASE FlashLoanReturned
  BY <1>4, FlashLoanReturnedType
<1>5. ASSUME NEW delay \in Delays, Tick(delay)
      PROVE  TypeOK'
  <2>1. now' \in Nat
    BY <1>5, AmountsAssumption DEF Tick, TypeInv, TypeOK
  <2> QED
    BY <1>5, <2>1 DEF Tick, indexVars, TypeInv, TypeOK
<1>6. ASSUME NEW factor \in ReserveFactors, SetReserveFactor(factor)
      PROVE  TypeOK'
  BY <1>6 DEF SetReserveFactor, indexVars, TypeInv, TypeOK
<1>7. CASE UNCHANGED vars
  BY <1>7 DEF vars, indexVars, TypeInv, TypeOK
<1> QED
  BY <1>1, <1>2, <1>3, <1>4, <1>5, <1>6, <1>7 DEF Next

\* The types are inductive together with the order of the timestamps.
LEMMA TypeInvAlways == Spec => []TypeInv
<1>1. Init => TypeInv
  <2>1. ASSUME Init PROVE TypeOK
    <3>1. token \in TokenStorage
      BY <2>1 DEF Init, NoStableDebt, TokenStorage
    <3>2. /\ vBal \in [Users -> Nat]
          /\ rates \in [liquidity : Nat, stable : Nat, variable : Nat]
      BY <2>1 DEF Init
    <3>3. /\ liquidityIndex \in Nat /\ variableBorrowIndex \in Nat
          /\ liquidityIndex >= RAY /\ variableBorrowIndex >= RAY
      BY <2>1, RayPositive DEF Init
    <3> QED
      BY <2>1, <3>1, <3>2, <3>3 DEF Init, TypeOK
  <2>2. Init => StampsOrdered
    BY DEF Init, StampsOrdered, NoStableDebt
  <2> QED
    BY <2>1, <2>2 DEF TypeInv
<1>2. TypeInv /\ [Next]_vars => TypeInv'
  <2> SUFFICES ASSUME TypeInv, [Next]_vars PROVE TypeInv'
    OBVIOUS
  <2>1. StampInv
    BY DEF StampInv, StampTypes, TypeInv, TypeOK, TokenStorage
  <2>2. StampsOrdered'
    BY <2>1, StampStep DEF StampInv
  <2> QED
    BY <2>2, TypeStep DEF TypeInv
<1> QED
  BY <1>1, <1>2, PTL DEF Spec

(***************************************************************************)
(* For every strategy, every interest rate and every schedule no amount, no  *)
(* index and no balance of the reserve is ever negative, and no index falls below  *)
(* one: none of the subtractions of the code, of timestamps, of debts, of scaled     *)
(* balances or of the interest accrued, underflows in a transaction that its guards   *)
(* let through. The types are inductive together with the order of the timestamps.     *)
(***************************************************************************)
THEOREM TypeCorrect == Spec => []TypeOK
<1>1. Spec => []TypeInv
  BY TypeInvAlways
<1>2. TypeInv => TypeOK
  BY DEF TypeInv
<1> QED
  BY <1>1, <1>2, PTL

-----------------------------------------------------------------------------
(***************************************************************************)
(* The debt at the variable rate. updateIndexes stores the interest of the   *)
(* debt only where depositors earn something. The index that is read may fall back  *)
(* to the stored one where they do not, and then only at an update.                    *)
(***************************************************************************)
Kept(u) == IF InterestDropped THEN StoredDebt(u) ELSE VariableDebt(u)

VariableDebtStep == \A u \in Users : vBal'[u] >= vBal[u] => VariableDebt(u)' >= Kept(u)

\* A step updates the reserve within its block, or leaves its debt alone.
Updating == UpdateState /\ UNCHANGED now
Waiting  == UNCHANGED <<vBal, variableBorrowIndex, rates, lastUpdate>> /\ now' >= now

LEMMA StepKinds ==
    ASSUME TypeOK, [Next]_vars
    PROVE  Updating \/ Waiting
<1>1. CASE \E amount \in Amounts : Deposit(amount) \/ Withdraw(amount)
  BY <1>1 DEF Deposit, Withdraw, Transaction, Updating
<1>2. CASE \E amount \in Amounts : FlashLoanPaid(amount)
  BY <1>2 DEF FlashLoanPaid, Transaction, indexVars, Waiting, TypeOK
<1>3. ASSUME NEW u \in Users, UserStep(u)
      PROVE  Updating
  BY <1>3 DEF UserStep, Borrow, Repay, SwapBorrowRateMode, RebalanceStableBorrowRate,
              LiquidationCall, FlashLoanBorrowed, Transaction, Updating
<1>4. CASE FlashLoanReturned
  BY <1>4 DEF FlashLoanReturned, Transaction, Updating
<1>5. CASE \E delay \in Delays : Tick(delay)
  BY <1>5, AmountsAssumption DEF Tick, indexVars, Waiting, TypeOK
<1>6. CASE \E factor \in ReserveFactors : SetReserveFactor(factor)
  BY <1>6 DEF SetReserveFactor, indexVars, Waiting, TypeOK
<1>7. CASE UNCHANGED vars
  BY <1>7 DEF vars, indexVars, Waiting, TypeOK
<1> QED
  BY <1>1, <1>2, <1>3, <1>4, <1>5, <1>6, <1>7 DEF Next

\* Right after an update the debt is read at the index that was stored.
LEMMA ReadAtOnce ==
    ASSUME TypeInv, TypeInv', Updating
    PROVE  NormalizedDebt' = NewVariableBorrowIndex
<1>1. /\ now' = now /\ lastUpdate' = now /\ now \in Nat /\ rates'.variable \in Nat
      /\ variableBorrowIndex' = NewVariableBorrowIndex
  BY DEF Updating, UpdateState, TypeInv, TypeOK
<1>2. Elapsed' = 0
  BY <1>1 DEF Elapsed
<1>3. CompoundedInterest(rates'.variable, Elapsed') = RAY
  BY <1>1, <1>2, CompoundedInterestAtOnce
<1>4. NewVariableBorrowIndex \in Nat
  BY IndicesType
<1>5. RayMul(RAY, NewVariableBorrowIndex) = NewVariableBorrowIndex
  BY <1>4, RayMulOneLeft
<1> QED
  BY <1>1, <1>3, <1>5 DEF NormalizedDebt

\* Interest that an update does not store was not read yet, or nobody owed it, or the
\* depositors earn nothing.
LEMMA WhatIsStored ==
    ASSUME TypeInv, Updating
    PROVE  \/ ~ InterestDropped /\ NewVariableBorrowIndex = NormalizedDebt
           \/ ~ InterestDropped /\ VSupply = 0
           \/ InterestDropped /\ NewVariableBorrowIndex = variableBorrowIndex
<1>1. /\ rates.liquidity \in Nat /\ rates.variable \in Nat /\ variableBorrowIndex \in Nat
      /\ lastUpdate' = now /\ now \in Nat /\ lastUpdate \in Nat
  BY DEF TypeInv, TypeOK, Updating, UpdateState
<1>2. CASE rates.liquidity > 0
  BY <1>1, <1>2 DEF NewVariableBorrowIndex, InterestDropped
<1>3. CASE rates.liquidity = 0 /\ lastUpdate # now
  BY <1>1, <1>3 DEF NewVariableBorrowIndex, InterestDropped
<1>4. CASE rates.liquidity = 0 /\ lastUpdate = now
  <2>1. NewVariableBorrowIndex = variableBorrowIndex /\ ~ InterestDropped
    BY <1>1, <1>4 DEF NewVariableBorrowIndex, InterestDropped
  <2>2. Elapsed = 0
    BY <1>1, <1>4 DEF Elapsed
  <2>3. CompoundedInterest(rates.variable, Elapsed) = RAY
    BY <1>1, <2>2, CompoundedInterestAtOnce
  <2>4. RayMul(RAY, variableBorrowIndex) = variableBorrowIndex
    BY <1>1, RayMulOneLeft
  <2> QED
    BY <2>1, <2>3, <2>4 DEF NormalizedDebt
<1> QED
  BY <1>1, <1>2, <1>3, <1>4

LEMMA LaterIsLonger ==
    ASSUME NEW r \in Nat, NEW s \in Nat, NEW t \in Nat, r <= s, t >= s
    PROVE  s - r \in Nat /\ t - r \in Nat /\ s - r <= t - r
OBVIOUS

\* Between updates the debt grows with time.
LEMMA LaterDebt ==
    ASSUME TypeInv, TypeInv', Waiting
    PROVE  NormalizedDebt' \in Nat /\ NormalizedDebt <= NormalizedDebt'
<1>1. /\ rates' = rates /\ variableBorrowIndex' = variableBorrowIndex
      /\ rates.variable \in Nat /\ variableBorrowIndex \in Nat
  BY DEF Waiting, TypeInv, TypeOK
<1>2. Elapsed \in Nat /\ Elapsed' \in Nat /\ Elapsed <= Elapsed'
  <2>1. /\ now \in Nat /\ lastUpdate \in Nat /\ now' \in Nat /\ lastUpdate' = lastUpdate
        /\ now' >= now /\ lastUpdate <= now
    BY DEF Waiting, TypeInv, TypeOK, StampsOrdered
  <2>2. Elapsed = now - lastUpdate /\ Elapsed' = now' - lastUpdate
    BY <2>1 DEF Elapsed
  <2>3. /\ now - lastUpdate \in Nat /\ now' - lastUpdate \in Nat
        /\ now - lastUpdate <= now' - lastUpdate
    BY <2>1, LaterIsLonger
  <2> QED
    BY <2>2, <2>3
<1>3. /\ CompoundedInterest(rates.variable, Elapsed) \in Nat
      /\ CompoundedInterest(rates.variable, Elapsed') \in Nat
      /\ CompoundedInterest(rates.variable, Elapsed)
            <= CompoundedInterest(rates.variable, Elapsed')
  BY <1>1, <1>2, CompoundedInterestMonotone
<1>4. variableBorrowIndex <= variableBorrowIndex
  BY <1>1
<1>5. RayMul(CompoundedInterest(rates.variable, Elapsed), variableBorrowIndex)
        <= RayMul(CompoundedInterest(rates.variable, Elapsed'), variableBorrowIndex)
  BY <1>1, <1>3, <1>4, RayMulMonotone
<1>6. RayMul(CompoundedInterest(rates.variable, Elapsed'), variableBorrowIndex) \in Nat
  BY <1>1, <1>3, RayMulType
<1> QED
  BY <1>1, <1>5, <1>6 DEF NormalizedDebt

LEMMA DebtKeptStep ==
    ASSUME TypeInv, TypeInv', [Next]_vars
    PROVE  VariableDebtStep
<1> SUFFICES ASSUME NEW u \in Users, vBal'[u] >= vBal[u]
             PROVE  VariableDebt(u)' >= Kept(u)
  BY DEF VariableDebtStep
<1>1. /\ vBal[u] \in Nat /\ vBal'[u] \in Nat /\ variableBorrowIndex \in Nat
      /\ lastUpdate \in Nat
  BY DEF TypeInv, TypeOK
<1>2. NormalizedDebt \in Nat /\ NewVariableBorrowIndex \in Nat
  BY IndicesType
<1>3. ASSUME NEW index \in Nat, NormalizedDebt' \in Nat, index <= NormalizedDebt'
      PROVE  VariableDebt(u)' >= RayMul(vBal[u], index)
  BY <1>1, <1>3, RayMulMonotone DEF VariableDebt
<1>4. CASE Waiting
  <2>1. ~ InterestDropped
    BY <1>4 DEF Waiting, InterestDropped
  <2> QED
    BY <1>2, <1>3, <1>4, <2>1, LaterDebt DEF Kept, VariableDebt
<1>5. CASE Updating
  <2>1. NormalizedDebt' = NewVariableBorrowIndex
    BY <1>5, ReadAtOnce
  <2>2. CASE ~ InterestDropped /\ NewVariableBorrowIndex = NormalizedDebt
    BY <1>2, <1>3, <2>1, <2>2 DEF Kept, VariableDebt
  <2>3. CASE ~ InterestDropped /\ VSupply = 0
    <3>1. vBal[u] <= VSupply
      BY VSupplyType DEF TypeInv, TypeOK
    <3>2. vBal[u] = 0
      BY <1>1, <2>3, <3>1
    <3>3. RayMul(0, NormalizedDebt) = 0
      BY <1>2, RayMulZero
    <3>4. RayMul(vBal'[u], NormalizedDebt') \in Nat
      BY <1>1, <1>2, <2>1, RayMulType
    <3> QED
      BY <2>3, <3>2, <3>3, <3>4 DEF Kept, VariableDebt
  <2>4. CASE InterestDropped /\ NewVariableBorrowIndex = variableBorrowIndex
    BY <1>1, <1>3, <2>1, <2>4 DEF Kept, StoredDebt
  <2> QED
    BY <1>5, <2>2, <2>3, <2>4, WhatIsStored
<1> QED
  BY <1>4, <1>5, StepKinds DEF TypeInv

(***************************************************************************)
(* What a user owes at the variable rate never shrinks but by being burned,  *)
(* in any schedule of transactions and delays, for every strategy and every         *)
(* reserve factor, 100% included: there, and wherever the liquidity rate is rounded    *)
(* to zero, an update takes back what was read but never stored, and nothing else       *)
(* does (getNormalizedDebt and the condition of _updateIndexes).                          *)
(***************************************************************************)
THEOREM VariableDebtStays == Spec => VariableDebtKept
<1>1. Spec => []TypeInv
  BY TypeInvAlways
<1>2. TypeInv /\ TypeInv' /\ [Next]_vars => [VariableDebtStep]_vars
  BY DebtKeptStep
<1> QED
  BY <1>1, <1>2, PTL DEF Spec, VariableDebtKept, VariableDebtStep, Kept
==============================================================================
