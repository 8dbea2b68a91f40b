--------------------------- MODULE LendingPoolProofs ---------------------------
(***************************************************************************)
(* Theorems about the pool, for every set of users, reserves, amounts,      *)
(* prices, configurations and accruals and for every precision.             *)
(***************************************************************************)
EXTENDS LendingPool, ProtocolMathProofs

-----------------------------------------------------------------------------
(***************************************************************************)
(* The balance tables: what an entry is after Plus and Minus.               *)
(***************************************************************************)
Tables == [Users -> [Reserves -> Nat]]

LEMMA TableEntry ==
    ASSUME NEW b \in Tables, NEW u \in Users, NEW r \in Reserves
    PROVE  b[u][r] \in Nat
  BY DEF Tables

LEMMA PlusTable ==
    ASSUME NEW b \in Tables, NEW u \in Users, NEW r \in Reserves, NEW x \in Nat
    PROVE  /\ Plus(b, u, r, x) \in Tables
           /\ \A v \in Users, s \in Reserves :
                Plus(b, u, r, x)[v][s] = IF v = u /\ s = r THEN b[u][r] + x ELSE b[v][s]
  BY DEF Plus, Tables

LEMMA MinusTable ==
    ASSUME NEW b \in Tables, NEW u \in Users, NEW r \in Reserves, NEW x \in Nat, x <= b[u][r]
    PROVE  /\ Minus(b, u, r, x) \in Tables
           /\ \A v \in Users, s \in Reserves :
                /\ Minus(b, u, r, x)[v][s] = IF v = u /\ s = r THEN b[u][r] - x ELSE b[v][s]
                /\ Minus(b, u, r, x)[v][s] <= b[v][s]
  BY DEF Minus, Tables

\* Nobody else's entries move.
LEMMA OtherEntries ==
    ASSUME NEW b \in Tables, NEW u \in Users, NEW r \in Reserves, NEW x \in Nat
    PROVE  \A v \in Users \ {u}, s \in Reserves :
                Plus(b, u, r, x)[v][s] = b[v][s] /\ Minus(b, u, r, x)[v][s] = b[v][s]
  BY DEF Plus, Minus, Tables

\* The bits of a user are a set of reserves, and only one of them changes at a time.
LEMMA FlagTables ==
    ASSUME NEW f \in [Users -> SUBSET Reserves], NEW u \in Users, NEW r \in Reserves
    PROVE  /\ Flagged(f, u, r) \in [Users -> SUBSET Reserves]
           /\ Unflagged(f, u, r) \in [Users -> SUBSET Reserves]
           /\ \A v \in Users, s \in Reserves :
                /\ s \in Flagged(f, u, r)[v] <=> s \in f[v] \/ (v = u /\ s = r)
                /\ s \in Unflagged(f, u, r)[v] <=> s \in f[v] /\ ~(v = u /\ s = r)
  BY DEF Flagged, Unflagged

LEMMA FirstBalanceTables ==
    ASSUME NEW f \in [Users -> SUBSET Reserves], NEW u \in Users, NEW r \in Reserves, NEW b
    PROVE  /\ OnFirstBalance(f, u, r, b) \in [Users -> SUBSET Reserves]
           /\ \A v \in Users, s \in Reserves :
                s \in OnFirstBalance(f, u, r, b)[v] <=>
                    s \in f[v] \/ (v = u /\ s = r /\ b = 0)
  BY FlagTables DEF OnFirstBalance

LEMMA CollateralBitsTables ==
    ASSUME NEW f \in [Users -> SUBSET Reserves], NEW u \in Users, NEW r \in Reserves,
           NEW e \in BOOLEAN
    PROVE  /\ CollateralBits(f, u, r, e) \in [Users -> SUBSET Reserves]
           /\ \A v \in Users, s \in Reserves :
                s \in CollateralBits(f, u, r, e)[v] => s \in f[v]
  BY FlagTables DEF CollateralBits

-----------------------------------------------------------------------------
(***************************************************************************)
(* What the balances read, given the types.                                 *)
(***************************************************************************)
\* Nothing scaled reads as nothing, something scaled reads as something.
LEMMA RayMulZero ==
    ASSUME NEW s \in Nat, NEW i \in Nat, i >= RAY
    PROVE  RayMul(s, i) = 0 <=> s = 0
  <1>1. CASE s = 0
    <2>1. RAY \in Nat \ {0} /\ RAY \div 2 \in Nat /\ 2 * (RAY \div 2) <= RAY
      BY PrecisionAssumption, HalfBounds
    <2>2. RoundHalfUp(0, RAY) = 0
      BY <2>1, RoundHalfUpUnique
    <2>3. s * i = 0
      BY <1>1
    <2>4. QED
      BY <1>1, <2>2, <2>3 DEF RayMul
  <1>2. CASE s # 0
    BY <1>2, RayMulAtLeast, RayMulType, PrecisionAssumption
  <1>3. QED
    BY <1>1, <1>2

LEMMA IndexPositive ==
    ASSUME TypeOK, NEW r \in Reserves
    PROVE  /\ income[r] \in Nat \ {0} /\ income[r] >= RAY
           /\ debtIndex[r] \in Nat \ {0} /\ debtIndex[r] >= RAY
  BY PrecisionAssumption DEF TypeOK

LEMMA BalanceTypes ==
    ASSUME TypeOK, NEW u \in Users, NEW r \in Reserves
    PROVE  /\ BalanceOf(u, r) \in Nat
           /\ VariableDebt(u, r) \in Nat
           /\ StableDebt(u, r) \in Nat
           /\ TotalDebt(u, r) \in Nat
           /\ \A mode \in Modes : DebtOf(u, r, mode) \in Nat
  <1>1. aBal[u][r] \in Nat /\ vBal[u][r] \in Nat /\ sBal[u][r] \in Nat
    BY DEF TypeOK
  <1>2. BalanceOf(u, r) \in Nat /\ VariableDebt(u, r) \in Nat
    BY <1>1, IndexPositive, RayMulType DEF BalanceOf, VariableDebt
  <1>3. QED
    BY <1>1, <1>2 DEF StableDebt, TotalDebt, DebtOf, Modes

LEMMA MintedTable ==
    ASSUME TypeOK, NEW rs
    PROVE  /\ Minted(rs) \in Tables
           /\ \A u \in Users, r \in Reserves : Minted(rs)[u][r] >= aBal[u][r]
  <1> DEFINE fee == [r \in Reserves |->
                        IF r \in rs THEN RayDiv(toTreasury[r], income[r]) ELSE 0]
             row == [r \in Reserves |-> aBal[Treasury][r] + fee[r]]
  <1>1. fee \in [Reserves -> Nat]
    <2>1. SUFFICES ASSUME NEW r \in Reserves
                   PROVE  RayDiv(toTreasury[r], income[r]) \in Nat
      OBVIOUS
    <2>2. toTreasury[r] \in Nat
      BY DEF TypeOK
    <2>3. QED
      BY <2>2, IndexPositive, RayDivType
  <1>2. aBal \in Tables /\ Treasury \in Users
    BY TreasuryAssumption DEF TypeOK, Tables
  <1>3. Minted(rs) = [aBal EXCEPT ![Treasury] = row]
    BY <1>1, <1>2 DEF Minted
  <1> HIDE DEF fee
  <1>4. row \in [Reserves -> Nat] /\ \A r \in Reserves : row[r] >= aBal[Treasury][r]
    BY <1>1, <1>2 DEF Tables
  <1> HIDE DEF row
  <1>5. QED
    BY <1>2, <1>3, <1>4 DEF Tables

LEMMA UpdateStateType ==
    ASSUME TypeOK, NEW rs, UpdateState(rs)
    PROVE  toTreasury' \in [Reserves -> Nat]
  BY DEF TypeOK, UpdateState

-----------------------------------------------------------------------------
(***************************************************************************)
(* Liquidation: the amounts are natural numbers, no more is repaid than is   *)
(* owed and no more is seized than the user holds.                           *)
(***************************************************************************)
\* Half of a debt, rounded half up, is never more than the debt.
LEMMA CloseFactorBound ==
    ASSUME NEW debt \in Nat
    PROVE  /\ PercentMul(debt, LIQUIDATION_CLOSE_FACTOR_PERCENT) \in Nat
           /\ PercentMul(debt, LIQUIDATION_CLOSE_FACTOR_PERCENT) <= debt
  <1> DEFINE most == PercentMul(debt, LIQUIDATION_CLOSE_FACTOR_PERCENT)
             n    == debt * 5000
  <1>1. n \in Nat /\ 10000 \div 2 = 5000 /\ 10000 \in Nat \ {0}
    OBVIOUS
  <1>2. most = RoundHalfUp(n, 10000)
    BY DEF PercentMul, PERCENTAGE_FACTOR, LIQUIDATION_CLOSE_FACTOR_PERCENT
  <1> HIDE DEF n, most
  <1>3. most \in Nat /\ 10000 * most <= n + 5000
    BY <1>1, <1>2, RoundHalfUpBounds
  <1>4. most <= debt
    BY <1>3 DEF n
  <1>5. QED
    BY <1>3, <1>4 DEF most

\* A percentage of a value, when the divisor is not zero.
LEMMA PercentTypes ==
    ASSUME NEW value \in Nat, NEW p \in Nat
    PROVE  /\ PercentMul(value, p) \in Nat
           /\ p = 0 => PercentMul(value, p) = 0
           /\ p # 0 => PercentDiv(value, p) \in Nat
  <1>1. value * p \in Nat /\ value * PERCENTAGE_FACTOR \in Nat /\ PERCENTAGE_FACTOR \in Nat \ {0}
    BY DEF PERCENTAGE_FACTOR
  <1>2. PercentMul(value, p) \in Nat
    BY <1>1, RoundHalfUpBounds DEF PercentMul
  <1>3. p = 0 => PercentMul(value, p) = 0
    <2>1. (0 + (10000 \div 2)) \div 10000 = 0
      OBVIOUS
    <2>2. QED
      BY <2>1 DEF PercentMul, RoundHalfUp, PERCENTAGE_FACTOR
  <1>4. p # 0 => PercentDiv(value, p) \in Nat
    BY <1>1, RoundHalfUpBounds DEF PercentDiv
  <1>5. QED
    BY <1>2, <1>3, <1>4

LEMMA LiquidationAmountsBound ==
    ASSUME TypeOK, NEW u \in Users, NEW c \in Reserves, NEW d \in Reserves, NEW cover \in Nat
    PROVE  LET amounts == LiquidationAmounts(u, c, d, cover)
           IN  /\ amounts.repaid \in Nat /\ amounts.repaid <= TotalDebt(u, d)
               /\ amounts.seized \in Nat /\ amounts.seized <= BalanceOf(u, c)
  <1> DEFINE balance == BalanceOf(u, c)
             bonus   == config[c].liquidationBonus
             most    == PercentMul(TotalDebt(u, d), LIQUIDATION_CLOSE_FACTOR_PERCENT)
             asked   == Least(cover, most)
             value   == price[d] * asked * Unit[c]
             base    == price[c] * Unit[d]
             worth   == PercentMul(value, bonus) \div base
             share   == (price[c] * balance * Unit[d]) \div (price[d] * Unit[c])
             needed  == PercentDiv(share, bonus)
  <1>1. /\ price[c] \in Nat \ {0} /\ price[d] \in Nat \ {0}
        /\ Unit[c] \in Nat \ {0} /\ Unit[d] \in Nat \ {0}
        /\ bonus \in Nat
    BY UnitAssumption DEF TypeOK, Configuration
  <1>2. balance \in Nat /\ TotalDebt(u, d) \in Nat
    BY BalanceTypes
  <1>3. most \in Nat /\ most <= TotalDebt(u, d)
    BY <1>2, CloseFactorBound
  <1>4. asked \in Nat /\ asked <= most
    BY <1>3 DEF Least
  <1>5. LiquidationAmounts(u, c, d, cover) =
            IF worth > balance
            THEN [seized |-> balance, repaid |-> Least(needed, asked)]
            ELSE [seized |-> worth, repaid |-> asked]
    BY DEF LiquidationAmounts
  <1> HIDE DEF balance, bonus, most, asked
  <1>6. value \in Nat /\ base \in Nat \ {0}
    BY <1>1, <1>4
  <1> HIDE DEF value, base
  <1>7. worth \in Nat
    BY <1>1, <1>6, PercentTypes, DivBounds
  <1>8. share \in Nat
    <2>1. price[c] * balance * Unit[d] \in Nat /\ price[d] * Unit[c] \in Nat \ {0}
      BY <1>1, <1>2
    <2>2. QED
      BY <2>1, DivBounds
  <1>9. bonus = 0 => worth = 0
    <2>1. SUFFICES ASSUME bonus = 0 PROVE worth = 0
      OBVIOUS
    <2>2. PercentMul(value, bonus) = 0
      BY <1>1, <1>6, <2>1, PercentTypes
    <2>3. 0 \div base = 0
      BY <1>6, DivUnique
    <2>4. QED
      BY <2>2, <2>3
  <1> HIDE DEF share, worth
  <1>10. bonus # 0 => needed \in Nat
    BY <1>1, <1>8, PercentTypes
  <1> HIDE DEF needed
  <1>11. CASE worth > balance
    <2>1. needed \in Nat
      BY <1>2, <1>9, <1>10, <1>11
    <2>2. Least(needed, asked) \in Nat /\ Least(needed, asked) <= asked
      BY <1>4, <2>1 DEF Least
    <2>3. LiquidationAmounts(u, c, d, cover) =
              [seized |-> balance, repaid |-> Least(needed, asked)]
      BY <1>5, <1>11
    <2>4. QED
      BY <1>2, <1>3, <1>4, <2>2, <2>3 DEF balance
  <1>12. CASE ~(worth > balance)
    <2>1. LiquidationAmounts(u, c, d, cover) = [seized |-> worth, repaid |-> asked]
      BY <1>5, <1>12
    <2>2. QED
      BY <1>2, <1>3, <1>4, <1>7, <1>12, <2>1 DEF balance
  <1>13. QED
    BY <1>11, <1>12

\* Paying off debt leaves both kinds of it at least zero, and neither larger.
LEMMA BurnDebtTables ==
    ASSUME TypeOK, NEW u \in Users, NEW d \in Reserves, NEW repaid \in Nat,
           repaid <= TotalDebt(u, d), BurnDebt(u, d, repaid)
    PROVE  /\ vBal' \in Tables /\ sBal' \in Tables
           /\ \A v \in Users, s \in Reserves :
                vBal'[v][s] <= vBal[v][s] /\ sBal'[v][s] <= sBal[v][s]
  <1> DEFINE first  == Least(VariableDebt(u, d), repaid)
             scaled == RayDiv(first, debtIndex[d])
  <1>1. VariableDebt(u, d) \in Nat /\ sBal[u][d] \in Nat /\ vBal \in Tables /\ sBal \in Tables
    BY BalanceTypes DEF TypeOK, Tables
  <1>2. first \in Nat /\ repaid - first \in Nat /\ repaid - first <= sBal[u][d]
    BY <1>1 DEF Least, TotalDebt, StableDebt
  <1> HIDE DEF first
  <1>3. scaled \in Nat
    BY <1>2, IndexPositive, RayDivType
  <1>4. /\ scaled <= vBal[u][d]
        /\ vBal' = Minus(vBal, u, d, scaled)
        /\ sBal' = Minus(sBal, u, d, repaid - first)
    BY DEF BurnDebt, first
  <1> HIDE DEF scaled
  <1>5. /\ vBal' \in Tables
        /\ \A v \in Users, s \in Reserves : vBal'[v][s] <= vBal[v][s]
    BY <1>1, <1>3, <1>4, MinusTable
  <1>6. /\ sBal' \in Tables
        /\ \A v \in Users, s \in Reserves : sBal'[v][s] <= sBal[v][s]
    BY <1>1, <1>2, <1>4, MinusTable
  <1>7. QED
    BY <1>5, <1>6

-----------------------------------------------------------------------------
(***************************************************************************)
(* Type correctness.                                                        *)
(***************************************************************************)
LEMMA InitialConfigType ==
    ASSUME NEW r \in Reserves
    PROVE  InitialConfig(r) \in Configuration
  <1>1. PICK c \in Configs[r] : c.active /\ ~c.frozen
    BY ConfigsAssumption
  <1>2. InitialConfig(r) \in Configs[r]
    BY <1>1 DEF InitialConfig
  <1>3. QED
    BY <1>2, ConfigsAssumption

LEMMA TypeInit == Init => TypeOK
  <1> SUFFICES ASSUME Init PROVE TypeOK
    OBVIOUS
  <1>1. price \in [Reserves -> Nat \ {0}]
    BY PricesAssumption DEF Init
  <1>2. config \in [Reserves -> Configuration]
    BY InitialConfigType DEF Init
  <1>3. /\ income \in [Reserves -> Nat] /\ debtIndex \in [Reserves -> Nat]
        /\ \A r \in Reserves : income[r] >= RAY /\ debtIndex[r] >= RAY
    BY PrecisionAssumption DEF Init
  <1>4. QED
    BY <1>1, <1>2, <1>3 DEF Init, TypeOK

\* A step signed by a user or by nobody.
LEMMA SignedType ==
    ASSUME TypeOK, NEW m \in Users \cup {Environment}, Signed(m)
    PROVE  sender' \in Users \cup {Environment} /\ steps' \in Nat
  BY DEF TypeOK, Signed

LEMMA DepositType ==
    ASSUME TypeOK, NEW m \in Users, NEW u \in Users, NEW r \in Reserves,
           NEW amount \in Amounts, Deposit(m, u, r, amount)
    PROVE  TypeOK'
  <1> DEFINE minted == Minted({r})
             scaled == RayDiv(amount, income[r])
  <1>1. amount \in Nat /\ scaled \in Nat
    BY AmountsAssumption, IndexPositive, RayDivType
  <1>2. minted \in Tables
    BY MintedTable
  <1>3. aBal' = Plus(minted, u, r, scaled)
    BY DEF Deposit
  <1>4. aBal' \in Tables
    BY <1>1, <1>2, <1>3, PlusTable
  <1>5. usingAsCollateral' \in [Users -> SUBSET Reserves]
    BY FirstBalanceTables DEF Deposit, TypeOK
  <1>6. toTreasury' \in [Reserves -> Nat]
    BY UpdateStateType DEF Deposit
  <1>7. sender' \in Users \cup {Environment} /\ steps' \in Nat
    BY SignedType DEF Deposit
  <1>8. cash' \in [Reserves -> Nat]
    <2>1. cash' = [cash EXCEPT ![r] = @ + amount]
      BY DEF Deposit
    <2>2. QED
      BY <1>1, <2>1 DEF TypeOK
  <1>9. QED
    BY <1>4, <1>5, <1>6, <1>7, <1>8
       DEF Deposit, TypeOK, Tables, marketVars, indexVars, debtVars, approvalVars

LEMMA WithdrawType ==
    ASSUME TypeOK, NEW m \in Users, NEW r \in Reserves,
           NEW asked \in AmountsOrMax, Withdraw(m, r, asked)
    PROVE  TypeOK'
  <1> DEFINE balance == BalanceOf(m, r)
             amount  == IF asked = MaxUint THEN balance ELSE asked
             minted  == Minted({r})
             scaled  == RayDiv(amount, income[r])
  <1>1. amount \in Nat
    BY BalanceTypes, AmountsAssumption DEF AmountsOrMax
  <1>2. scaled \in Nat
    BY <1>1, IndexPositive, RayDivType
  <1>3. minted \in Tables
    BY MintedTable
  <1>4. /\ scaled <= minted[m][r] /\ aBal' = Minus(minted, m, r, scaled)
        /\ amount <= cash[r] /\ cash' = [cash EXCEPT ![r] = @ - amount]
    BY DEF Withdraw
  <1>5. aBal' \in Tables
    BY <1>2, <1>3, <1>4, MinusTable
  <1>6. cash' \in [Reserves -> Nat]
    BY <1>1, <1>4 DEF TypeOK
  <1>7. usingAsCollateral' \in [Users -> SUBSET Reserves]
    BY FlagTables DEF Withdraw, TypeOK
  <1>8. toTreasury' \in [Reserves -> Nat]
    BY UpdateStateType DEF Withdraw
  <1>9. sender' \in Users \cup {Environment} /\ steps' \in Nat
    BY SignedType DEF Withdraw
  <1>10. QED
    BY <1>5, <1>6, <1>7, <1>8, <1>9
       DEF Withdraw, TypeOK, Tables, marketVars, indexVars, debtVars, approvalVars

\* Both kinds of a new debt, and the bit it sets.
LEMMA BorrowTables ==
    ASSUME TypeOK, NEW u \in Users, NEW r \in Reserves, NEW amount \in Nat,
           BorrowVariable(u, r, amount) \/ BorrowStable(u, r, amount)
    PROVE  /\ vBal' \in Tables /\ sBal' \in Tables
           /\ borrowing' \in [Users -> SUBSET Reserves]
  <1>1. /\ vBal \in Tables /\ sBal \in Tables
        /\ borrowing \in [Users -> SUBSET Reserves]
    BY DEF TypeOK, Tables
  <1>2. RayDiv(amount, debtIndex[r]) \in Nat
    BY IndexPositive, RayDivType
  <1>3. CASE BorrowVariable(u, r, amount)
    BY <1>1, <1>2, <1>3, PlusTable, FlagTables DEF BorrowVariable
  <1>4. CASE BorrowStable(u, r, amount)
    BY <1>1, <1>4, PlusTable, FlagTables DEF BorrowStable
  <1>5. QED
    BY <1>3, <1>4

LEMMA BorrowType ==
    ASSUME TypeOK, NEW m \in Users, NEW u \in Users, NEW r \in Reserves,
           NEW amount \in Amounts, NEW mode \in Modes, Borrow(m, u, r, amount, mode)
    PROVE  TypeOK'
  <1>1. amount \in Nat
    BY AmountsAssumption
  <1>2. /\ vBal' \in Tables /\ sBal' \in Tables
        /\ borrowing' \in [Users -> SUBSET Reserves]
    BY <1>1, BorrowTables DEF Borrow
  <1>3. aBal' \in Tables
    BY MintedTable DEF Borrow
  <1>4. borrowAllowance' \in [Reserves -> [Modes -> [Users -> [Users -> Nat]]]]
    <2>1. /\ m # u => amount <= borrowAllowance[r][mode][u][m]
          /\ borrowAllowance' = CreditSpent(m, u, r, mode, amount)
      BY DEF Borrow
    <2>2. QED
      BY <1>1, <2>1 DEF CreditSpent, TypeOK
  <1>5. cash' \in [Reserves -> Nat]
    <2>1. amount <= cash[r] /\ cash' = [cash EXCEPT ![r] = @ - amount]
      BY DEF Borrow
    <2>2. QED
      BY <1>1, <2>1 DEF TypeOK
  <1>6. toTreasury' \in [Reserves -> Nat]
    BY UpdateStateType DEF Borrow
  <1>7. sender' \in Users \cup {Environment} /\ steps' \in Nat
    BY SignedType DEF Borrow
  <1>8. QED
    BY <1>2, <1>3, <1>4, <1>5, <1>6, <1>7 DEF Borrow, TypeOK, Tables, marketVars, indexVars

LEMMA RepayType ==
    ASSUME TypeOK, NEW m \in Users, NEW u \in Users, NEW r \in Reserves,
           NEW sent \in AmountsOrMax, NEW mode \in Modes, Repay(m, u, r, sent, mode)
    PROVE  TypeOK'
  <1> DEFINE owed   == DebtOf(u, r, mode)
             paid   == Least(sent, owed)
             scaled == RayDiv(paid, debtIndex[r])
  <1>1. sent \in Nat /\ owed \in Nat
    BY BalanceTypes, AmountsAssumption, MaxUintAssumption DEF AmountsOrMax
  <1>2. paid \in Nat /\ paid <= owed
    BY <1>1 DEF Least
  <1>3. scaled \in Nat
    BY <1>2, IndexPositive, RayDivType
  <1>4. vBal \in Tables /\ sBal \in Tables
    BY DEF TypeOK, Tables
  <1>5. vBal' \in Tables /\ sBal' \in Tables
    <2>1. CASE mode = "stable" /\ sBal' = Minus(sBal, u, r, paid) /\ UNCHANGED vBal
      <3>1. paid <= sBal[u][r]
        BY <1>2, <2>1 DEF DebtOf, StableDebt
      <3>2. QED
        BY <1>2, <1>4, <2>1, <3>1, MinusTable
    <2>2. CASE /\ mode = "variable" /\ scaled <= vBal[u][r]
               /\ vBal' = Minus(vBal, u, r, scaled) /\ UNCHANGED sBal
      BY <1>3, <1>4, <2>2, MinusTable
    <2>3. QED
      BY <2>1, <2>2 DEF Repay
  <1>6. borrowing' \in [Users -> SUBSET Reserves]
    BY FlagTables DEF Repay, TypeOK
  <1>7. cash' \in [Reserves -> Nat]
    <2>1. cash' = [cash EXCEPT ![r] = @ + paid]
      BY DEF Repay
    <2>2. QED
      BY <1>2, <2>1 DEF TypeOK
  <1>8. aBal' \in Tables
    BY MintedTable DEF Repay
  <1>9. toTreasury' \in [Reserves -> Nat]
    BY UpdateStateType DEF Repay
  <1>10. sender' \in Users \cup {Environment} /\ steps' \in Nat
    BY SignedType DEF Repay
  <1>11. QED
    BY <1>5, <1>6, <1>7, <1>8, <1>9, <1>10
       DEF Repay, TypeOK, Tables, marketVars, indexVars, approvalVars

LEMMA SwapType ==
    ASSUME TypeOK, NEW m \in Users, NEW r \in Reserves, NEW mode \in Modes,
           SwapBorrowRateMode(m, r, mode)
    PROVE  TypeOK'
  <1> DEFINE stable   == StableDebt(m, r)
             variable == VariableDebt(m, r)
             scaledIn == RayDiv(stable, debtIndex[r])
             scaled   == RayDiv(variable, debtIndex[r])
  <1>1. stable \in Nat /\ variable \in Nat /\ scaledIn \in Nat /\ scaled \in Nat
    BY BalanceTypes, IndexPositive, RayDivType
  <1>2. vBal \in Tables /\ sBal \in Tables /\ stable <= sBal[m][r]
    BY <1>1 DEF TypeOK, Tables, StableDebt
  <1>3. vBal' \in Tables /\ sBal' \in Tables
    <2>1. CASE sBal' = Minus(sBal, m, r, stable) /\ vBal' = Plus(vBal, m, r, scaledIn)
      BY <1>1, <1>2, <2>1, MinusTable, PlusTable
    <2>2. CASE /\ scaled <= vBal[m][r]
               /\ vBal' = Minus(vBal, m, r, scaled) /\ sBal' = Plus(sBal, m, r, variable)
      BY <1>1, <1>2, <2>2, MinusTable, PlusTable
    <2>3. QED
      BY <2>1, <2>2 DEF SwapBorrowRateMode
  <1>4. aBal' \in Tables
    BY MintedTable DEF SwapBorrowRateMode
  <1>5. toTreasury' \in [Reserves -> Nat]
    BY UpdateStateType DEF SwapBorrowRateMode
  <1>6. sender' \in Users \cup {Environment} /\ steps' \in Nat
    BY SignedType DEF SwapBorrowRateMode
  <1>7. QED
    BY <1>3, <1>4, <1>5, <1>6
       DEF SwapBorrowRateMode, TypeOK, Tables, marketVars, indexVars, flagVars, approvalVars
LEMMA SetCollateralType ==
    ASSUME TypeOK, NEW m \in Users, NEW r \in Reserves, NEW use \in BOOLEAN,
           SetUserUseReserveAsCollateral(m, r, use)
    PROVE  TypeOK'
  <1>1. usingAsCollateral' \in [Users -> SUBSET Reserves]
    BY FlagTables DEF SetUserUseReserveAsCollateral, TypeOK
  <1>2. sender' \in Users \cup {Environment} /\ steps' \in Nat
    BY SignedType DEF SetUserUseReserveAsCollateral
  <1>3. QED
    BY <1>1, <1>2 DEF SetUserUseReserveAsCollateral, TypeOK, marketVars, indexVars,
                      debtVars, approvalVars

LEMMA LiquidationCallType ==
    ASSUME TypeOK, NEW m \in Users, NEW u \in Users, NEW c \in Reserves, NEW d \in Reserves,
           NEW cover \in AmountsOrMax, NEW receiveAToken \in BOOLEAN,
           LiquidationCall(m, u, c, d, cover, receiveAToken)
    PROVE  TypeOK'
  <1> DEFINE amounts == LiquidationAmounts(u, c, d, cover)
             updated == IF receiveAToken THEN {d} ELSE {c, d}
             minted  == Minted(updated)
             scaled  == RayDiv(amounts.seized, income[c])
             emptied == amounts.seized = BalanceOf(u, c)
             flags   == OnFirstBalance(usingAsCollateral, m, c, RayMul(minted[m][c], income[c]))
  <1>1. cover \in Nat
    BY AmountsAssumption, MaxUintAssumption DEF AmountsOrMax
  <1>2. /\ amounts.repaid \in Nat /\ amounts.repaid <= TotalDebt(u, d)
        /\ amounts.seized \in Nat
    BY <1>1, LiquidationAmountsBound
  <1>3. minted \in Tables
    BY MintedTable
  <1>4. /\ ~receiveAToken => amounts.seized <= cash[c]
        /\ BurnDebt(u, d, amounts.repaid)
        /\ UpdateState(updated)
        /\ scaled <= minted[u][c]
        /\ \/ /\ aBal' = Plus(Minus(minted, u, c, scaled), m, c, scaled)
              /\ usingAsCollateral' = CollateralBits(flags, u, c, emptied)
              /\ cash' = [cash EXCEPT ![d] = @ + amounts.repaid]
           \/ /\ ~receiveAToken
              /\ aBal' = Minus(minted, u, c, scaled)
              /\ usingAsCollateral' = CollateralBits(usingAsCollateral, u, c, emptied)
              /\ cash' = [[cash EXCEPT ![c] = @ - amounts.seized]
                                EXCEPT ![d] = @ + amounts.repaid]
    BY DEF LiquidationCall
  <1>5. scaled \in Nat
    BY <1>2, IndexPositive, RayDivType
  <1>6. vBal' \in Tables /\ sBal' \in Tables
    BY <1>2, <1>4, BurnDebtTables
  <1>7. toTreasury' \in [Reserves -> Nat]
    BY <1>4, UpdateStateType
  <1>8. usingAsCollateral \in [Users -> SUBSET Reserves] /\ cash \in [Reserves -> Nat]
    BY DEF TypeOK
  <1>9. flags \in [Users -> SUBSET Reserves]
    BY <1>8, FirstBalanceTables
  <1>10. emptied \in BOOLEAN
    OBVIOUS
  <1> HIDE DEF amounts, minted, scaled, emptied, flags
  <1>11. aBal' \in Tables
    <2>1. Minus(minted, u, c, scaled) \in Tables
      BY <1>3, <1>4, <1>5, MinusTable
    <2>2. Plus(Minus(minted, u, c, scaled), m, c, scaled) \in Tables
      BY <1>5, <2>1, PlusTable
    <2>3. QED
      BY <1>4, <2>1, <2>2
  <1>12. usingAsCollateral' \in [Users -> SUBSET Reserves]
    <2>1. CollateralBits(flags, u, c, emptied) \in [Users -> SUBSET Reserves]
      BY <1>9, <1>10, CollateralBitsTables
    <2>2. CollateralBits(usingAsCollateral, u, c, emptied) \in [Users -> SUBSET Reserves]
      BY <1>8, <1>10, CollateralBitsTables
    <2>3. QED
      BY <1>4, <2>1, <2>2
  <1>13. cash' \in [Reserves -> Nat]
    <2>1. CASE cash' = [cash EXCEPT ![d] = @ + amounts.repaid]
      BY <1>2, <1>8, <2>1
    <2>2. CASE /\ ~receiveAToken
               /\ cash' = [[cash EXCEPT ![c] = @ - amounts.seized]
                                 EXCEPT ![d] = @ + amounts.repaid]
      <3>1. [cash EXCEPT ![c] = @ - amounts.seized] \in [Reserves -> Nat]
        BY <1>2, <1>4, <1>8, <2>2
      <3>2. QED
        BY <1>2, <2>2, <3>1
    <2>3. QED
      BY <1>4, <2>1, <2>2
  <1>14. sender' \in Users \cup {Environment} /\ steps' \in Nat
    BY SignedType DEF LiquidationCall
  <1>15. QED
    BY <1>6, <1>7, <1>11, <1>12, <1>13, <1>14
       DEF LiquidationCall, TypeOK, Tables, marketVars, indexVars, approvalVars

\* What a move of aTokens leaves behind, whoever asked for it.
LEMMA MoveTables ==
    ASSUME TypeOK, NEW from \in Users, NEW to \in Users, NEW r \in Reserves,
           NEW amount \in Nat, MoveATokens(from, to, r, amount)
    PROVE  /\ aBal' \in Tables
           /\ usingAsCollateral' \in [Users -> SUBSET Reserves]
  <1> DEFINE scaled == RayDiv(amount, income[r])
             left   == IF BalanceOf(from, r) = amount
                       THEN Unflagged(usingAsCollateral, from, r)
                       ELSE usingAsCollateral
  <1>1. scaled \in Nat
    BY IndexPositive, RayDivType
  <1>2. aBal \in Tables /\ usingAsCollateral \in [Users -> SUBSET Reserves]
    BY DEF TypeOK, Tables
  <1>3. scaled <= aBal[from][r]
    BY DEF MoveATokens
  <1>4. Minus(aBal, from, r, scaled) \in Tables
    BY <1>1, <1>2, <1>3, MinusTable
  <1>5. aBal' \in Tables
    BY <1>1, <1>4, PlusTable DEF MoveATokens
  <1>6. left \in [Users -> SUBSET Reserves]
    BY <1>2, FlagTables
  <1>7. usingAsCollateral' \in [Users -> SUBSET Reserves]
    BY <1>2, <1>6, FirstBalanceTables DEF MoveATokens
  <1>8. QED
    BY <1>5, <1>7

LEMMA TransferType ==
    ASSUME TypeOK, NEW m \in Users, NEW to \in Users, NEW r \in Reserves,
           NEW amount \in Amounts, Transfer(m, to, r, amount)
    PROVE  TypeOK'
  <1>1. aBal' \in Tables /\ usingAsCollateral' \in [Users -> SUBSET Reserves]
    BY MoveTables, AmountsAssumption DEF Transfer
  <1>2. sender' \in Users \cup {Environment} /\ steps' \in Nat
    BY SignedType DEF Transfer
  <1>3. QED
    BY <1>1, <1>2 DEF Transfer, TypeOK, Tables, marketVars, indexVars, debtVars, approvalVars

LEMMA TransferFromType ==
    ASSUME TypeOK, NEW m \in Users, NEW from \in Users, NEW to \in Users,
           NEW r \in Reserves, NEW amount \in Amounts, TransferFrom(m, from, to, r, amount)
    PROVE  TypeOK'
  <1>1. amount \in Nat
    BY AmountsAssumption
  <1>2. aBal' \in Tables /\ usingAsCollateral' \in [Users -> SUBSET Reserves]
    BY <1>1, MoveTables DEF TransferFrom
  <1>3. allowance' \in [Reserves -> [Users -> [Users -> Nat]]]
    <2>1. /\ amount <= allowance[r][from][m]
          /\ allowance' = [allowance EXCEPT ![r][from][m] = @ - amount]
      BY DEF TransferFrom
    <2>2. QED
      BY <1>1, <2>1 DEF TypeOK
  <1>4. sender' \in Users \cup {Environment} /\ steps' \in Nat
    BY SignedType DEF TransferFrom
  <1>5. QED
    BY <1>2, <1>3, <1>4 DEF TransferFrom, TypeOK, Tables, marketVars, indexVars, debtVars

LEMMA ApprovalTypes ==
    ASSUME TypeOK, NEW m \in Users, NEW v \in Users, NEW r \in Reserves,
           NEW mode \in Modes, NEW amount \in Approvals,
           Approve(m, v, r, amount) \/ ApproveDelegation(m, v, r, mode, amount)
    PROVE  TypeOK'
  <1>1. amount \in Nat
    BY AmountsAssumption
  <1>2. sender' \in Users \cup {Environment} /\ steps' \in Nat
    BY SignedType DEF Approve, ApproveDelegation
  <1>3. CASE Approve(m, v, r, amount)
    <2>1. allowance' \in [Reserves -> [Users -> [Users -> Nat]]]
      BY <1>1, <1>3 DEF Approve, TypeOK
    <2>2. QED
      BY <1>2, <1>3, <2>1 DEF Approve, TypeOK, marketVars, indexVars, debtVars, flagVars
  <1>4. CASE ApproveDelegation(m, v, r, mode, amount)
    <2>1. borrowAllowance' \in [Reserves -> [Modes -> [Users -> [Users -> Nat]]]]
      BY <1>1, <1>4 DEF ApproveDelegation, TypeOK
    <2>2. QED
      BY <1>2, <1>4, <2>1 DEF ApproveDelegation, TypeOK, marketVars, indexVars, debtVars, flagVars
  <1>5. QED
    BY <1>3, <1>4

LEMMA ConfigurationType ==
    ASSUME TypeOK, NEW r \in Reserves, NEW c \in Configs[r], SetConfiguration(r, c)
    PROVE  TypeOK'
  <1>1. config' \in [Reserves -> Configuration]
    BY ConfigsAssumption DEF SetConfiguration, TypeOK
  <1>2. sender' \in Users \cup {Environment} /\ steps' \in Nat
    BY SignedType DEF SetConfiguration
  <1>3. QED
    BY <1>1, <1>2 DEF SetConfiguration, AdminUnchanged, TypeOK,
                      indexVars, debtVars, flagVars, approvalVars

LEMMA PriceType ==
    ASSUME TypeOK, NEW r \in Reserves, NEW p \in Prices[r], SetPrice(r, p)
    PROVE  TypeOK'
  <1>1. price' \in [Reserves -> Nat \ {0}]
    BY PricesAssumption DEF SetPrice, TypeOK
  <1>2. sender' \in Users \cup {Environment} /\ steps' \in Nat
    BY SignedType DEF SetPrice
  <1>3. QED
    BY <1>1, <1>2 DEF SetPrice, AdminUnchanged, TypeOK,
                      indexVars, debtVars, flagVars, approvalVars

LEMMA PauseType ==
    ASSUME TypeOK, NEW p \in BOOLEAN, SetPause(p)
    PROVE  TypeOK'
  <1>1. sender' \in Users \cup {Environment} /\ steps' \in Nat
    BY SignedType DEF SetPause
  <1>2. QED
    BY <1>1 DEF SetPause, AdminUnchanged, TypeOK,
                indexVars, debtVars, flagVars, approvalVars

LEMMA AccrueType ==
    ASSUME TypeOK, NEW r \in Reserves, NEW step \in Accruals, NEW charged \in SUBSET Users,
           Accrue(r, step, charged)
    PROVE  TypeOK'
  <1>1. step.income \in Nat /\ step.debt \in Nat /\ step.stable \in Nat /\ step.fee \in Nat
    BY AccrualsAssumption
  <1>2. /\ income' = [income EXCEPT ![r] = @ + step.income]
        /\ debtIndex' = [debtIndex EXCEPT ![r] = @ + step.debt]
        /\ sBal' = [u \in Users |-> [sBal[u] EXCEPT ![r] =
                        IF u \in charged THEN @ + step.stable ELSE @]]
        /\ toTreasury' = [toTreasury EXCEPT ![r] = @ + step.fee]
    BY DEF Accrue
  <1>3. /\ income' \in [Reserves -> Nat] /\ debtIndex' \in [Reserves -> Nat]
        /\ \A s \in Reserves : income'[s] >= RAY /\ debtIndex'[s] >= RAY
    BY <1>1, <1>2, PrecisionAssumption DEF TypeOK
  <1>4. sBal' \in Tables
    BY <1>1, <1>2 DEF TypeOK, Tables
  <1>5. toTreasury' \in [Reserves -> Nat]
    BY <1>1, <1>2 DEF TypeOK
  <1>6. sender' \in Users \cup {Environment} /\ steps' \in Nat
    BY SignedType DEF Accrue
  <1>7. QED
    BY <1>3, <1>4, <1>5, <1>6
       DEF Accrue, TypeOK, Tables, marketVars, flagVars, approvalVars

\* Every action keeps the types, and so does a stuttering step.
LEMMA TypeStep == TypeOK /\ [Next]_vars => TypeOK'
  <1> SUFFICES ASSUME TypeOK, [Next]_vars PROVE TypeOK'
    OBVIOUS
  <1>1. ASSUME NEW m \in Users, NEW r \in Reserves, UserStep(m, r)
        PROVE  TypeOK'
    <2>1. CASE \E u \in Users, amount \in Amounts : Deposit(m, u, r, amount)
      BY <2>1, DepositType
    <2>2. CASE \E amount \in AmountsOrMax : Withdraw(m, r, amount)
      BY <2>2, WithdrawType
    <2>3. CASE \E u \in Users, amount \in Amounts, mode \in Modes :
                  Borrow(m, u, r, amount, mode)
      BY <2>3, BorrowType
    <2>4. CASE \E u \in Users, amount \in AmountsOrMax, mode \in Modes :
                  Repay(m, u, r, amount, mode)
      BY <2>4, RepayType
    <2>5. CASE \E mode \in Modes : SwapBorrowRateMode(m, r, mode)
      BY <2>5, SwapType
    <2>6. CASE \E use \in BOOLEAN : SetUserUseReserveAsCollateral(m, r, use)
      BY <2>6, SetCollateralType
    <2>7. CASE \E u \in Users, d \in Reserves, cover \in AmountsOrMax, receiveAToken \in BOOLEAN :
                  LiquidationCall(m, u, r, d, cover, receiveAToken)
      BY <2>7, LiquidationCallType
    <2>8. CASE \E to \in Users, amount \in Amounts : Transfer(m, to, r, amount)
      BY <2>8, TransferType
    <2>9. CASE \E from, to \in Users, amount \in Amounts : TransferFrom(m, from, to, r, amount)
      BY <2>9, TransferFromType
    <2>10. CASE \E spender \in Users, amount \in Approvals : Approve(m, spender, r, amount)
      BY <2>10, ApprovalTypes DEF Modes
    <2>11. CASE \E delegatee \in Users, mode \in Modes, amount \in Approvals :
                   ApproveDelegation(m, delegatee, r, mode, amount)
      BY <2>11, ApprovalTypes
    <2>12. QED
      BY <1>1, <2>1, <2>2, <2>3, <2>4, <2>5, <2>6, <2>7, <2>8, <2>9, <2>10, <2>11 DEF UserStep
  <1>2. ASSUME NEW r \in Reserves, EnvironmentStep(r)
        PROVE  TypeOK'
    <2>1. CASE \E c \in Configs[r] : SetConfiguration(r, c)
      BY <2>1, ConfigurationType
    <2>2. CASE \E p \in Prices[r] : SetPrice(r, p)
      BY <2>2, PriceType
    <2>3. CASE \E step \in Accruals, charged \in SUBSET Users : Accrue(r, step, charged)
      BY <2>3, AccrueType
    <2>4. QED
      BY <1>2, <2>1, <2>2, <2>3 DEF EnvironmentStep
  <1>3. ASSUME NEW p \in BOOLEAN, SetPause(p)
        PROVE  TypeOK'
    BY <1>3, PauseType
  <1>4. CASE UNCHANGED vars
    BY <1>4 DEF TypeOK, vars, marketVars, indexVars, debtVars, flagVars, approvalVars
  <1>5. QED
    BY <1>1, <1>2, <1>3, <1>4 DEF Next

(***************************************************************************)
(* Type correctness: no sequence of transactions, prices and accruals makes  *)
(* a balance, a debt, the cash of a reserve or an allowance negative. The      *)
(* subtractions of the code that have no check of their own (the stable debt    *)
(* a liquidation or a repayment burns) never go below zero.                       *)
(***************************************************************************)
THEOREM TypeCorrect == Spec => []TypeOK
  <1>1. Init => TypeOK
    BY TypeInit
  <1>2. TypeOK /\ [Next]_vars => TypeOK'
    BY TypeStep
  <1>3. QED
    BY <1>1, <1>2, PTL DEF Spec

-----------------------------------------------------------------------------
(***************************************************************************)
(* Debt is flagged. Inductive together with the types: a repayment clears    *)
(* the bit from the balances it reads, and the conversions say that a balance *)
(* that reads as zero or is repaid as read leaves nothing scaled behind.       *)
(***************************************************************************)
FlagInv == TypeOK /\ DebtIsFlagged

LEMMA BorrowFlags ==
    ASSUME FlagInv, NEW u \in Users, NEW r \in Reserves, NEW amount \in Nat,
           BorrowVariable(u, r, amount) \/ BorrowStable(u, r, amount)
    PROVE  DebtIsFlagged'
  <1>1. /\ vBal \in Tables /\ sBal \in Tables
        /\ borrowing \in [Users -> SUBSET Reserves]
    BY DEF FlagInv, TypeOK, Tables
  <1>2. RayDiv(amount, debtIndex[r]) \in Nat
    BY IndexPositive, RayDivType DEF FlagInv
  <1>3. SUFFICES ASSUME NEW v \in Users, NEW s \in Reserves, vBal'[v][s] > 0 \/ sBal'[v][s] > 0
                 PROVE  s \in borrowing'[v]
    BY DEF DebtIsFlagged
  <1>4. vBal[v][s] \in Nat /\ sBal[v][s] \in Nat
    BY <1>1 DEF Tables
  <1>5. vBal[v][s] > 0 \/ sBal[v][s] > 0 => s \in borrowing[v]
    BY DEF FlagInv, DebtIsFlagged
  <1>6. borrowing' = borrowing \/ borrowing' = Flagged(borrowing, u, r)
    BY DEF BorrowVariable, BorrowStable
  <1>7. s \in borrowing[v] => s \in borrowing'[v]
    BY <1>1, <1>6, FlagTables
  <1>8. CASE v = u /\ s = r
    <2>1. CASE vBal[u][r] > 0 \/ sBal[u][r] > 0
      BY <1>5, <1>7, <1>8, <2>1
    <2>2. CASE vBal[u][r] = 0 /\ sBal[u][r] = 0
      <3>1. borrowing' = Flagged(borrowing, u, r)
        BY <2>2 DEF BorrowVariable, BorrowStable
      <3>2. QED
        BY <1>1, <1>8, <3>1, FlagTables
    <2>3. QED
      BY <1>4, <1>8, <2>1, <2>2
  <1>9. CASE ~(v = u /\ s = r)
    <2>1. vBal'[v][s] = vBal[v][s]
      BY <1>1, <1>2, <1>9, PlusTable DEF BorrowVariable, BorrowStable
    <2>2. sBal'[v][s] = sBal[v][s]
      BY <1>1, <1>9, PlusTable DEF BorrowVariable, BorrowStable
    <2>3. QED
      BY <1>3, <1>5, <1>7, <2>1, <2>2
  <1>10. QED
    BY <1>8, <1>9

LEMMA RepayFlags ==
    ASSUME FlagInv, NEW m \in Users, NEW u \in Users, NEW r \in Reserves,
           NEW sent \in AmountsOrMax, NEW mode \in Modes, Repay(m, u, r, sent, mode)
    PROVE  DebtIsFlagged'
  <1> DEFINE owed   == DebtOf(u, r, mode)
             paid   == Least(sent, owed)
             scaled == RayDiv(paid, debtIndex[r])
  <1>1. /\ vBal \in Tables /\ sBal \in Tables
        /\ borrowing \in [Users -> SUBSET Reserves]
    BY DEF FlagInv, TypeOK, Tables
  <1>2. /\ VariableDebt(u, r) \in Nat /\ StableDebt(u, r) \in Nat
        /\ TotalDebt(u, r) = StableDebt(u, r) + VariableDebt(u, r)
    BY BalanceTypes DEF FlagInv, TotalDebt
  <1>3. sent \in Nat
    BY AmountsAssumption, MaxUintAssumption DEF AmountsOrMax
  <1>4. owed \in Nat /\ paid \in Nat /\ paid <= owed
    BY <1>2, <1>3 DEF DebtOf, Least
  <1>5. scaled \in Nat
    BY <1>4, IndexPositive, RayDivType DEF FlagInv
  <1>6. vBal[u][r] \in Nat /\ sBal[u][r] \in Nat
    BY <1>1 DEF Tables
  <1>7. \/ /\ mode = "stable"
           /\ sBal' = Minus(sBal, u, r, paid)
           /\ UNCHANGED vBal
        \/ /\ mode = "variable"
           /\ scaled <= vBal[u][r]
           /\ vBal' = Minus(vBal, u, r, scaled)
           /\ UNCHANGED sBal
    BY DEF Repay
  <1>8. borrowing' = IF TotalDebt(u, r) = paid THEN Unflagged(borrowing, u, r) ELSE borrowing
    BY DEF Repay, RepaidInFull
  <1>9. mode = "stable" => owed = sBal[u][r]
    BY DEF DebtOf, StableDebt
  <1>10. mode = "variable" => owed = VariableDebt(u, r)
    BY DEF DebtOf
  \* The round trip: the debt as read is the whole scaled debt.
  <1>11. RayDiv(VariableDebt(u, r), debtIndex[r]) = vBal[u][r]
    BY <1>6, IndexPositive, RayRoundTrip DEF FlagInv, VariableDebt
  <1>12. VariableDebt(u, r) = 0 => vBal[u][r] = 0
    BY <1>6, IndexPositive, RayMulZero DEF FlagInv, VariableDebt
  <1>13. TotalDebt(u, r) = paid => vBal'[u][r] = 0 /\ sBal'[u][r] = 0
    <2> SUFFICES ASSUME TotalDebt(u, r) = paid
                 PROVE  vBal'[u][r] = 0 /\ sBal'[u][r] = 0
      OBVIOUS
    <2>1. CASE mode = "stable"
      <3>1. VariableDebt(u, r) = 0 /\ paid = sBal[u][r]
        BY <1>2, <1>4, <1>9, <2>1 DEF StableDebt
      <3>2. QED
        BY <1>1, <1>4, <1>7, <1>12, <2>1, <3>1, MinusTable
    <2>2. CASE mode = "variable"
      <3>1. StableDebt(u, r) = 0 /\ paid = VariableDebt(u, r)
        BY <1>2, <1>4, <1>10, <2>2
      <3>2. scaled = vBal[u][r] /\ sBal[u][r] = 0
        BY <1>11, <3>1 DEF StableDebt
      <3>3. QED
        BY <1>1, <1>5, <1>7, <2>2, <3>2, MinusTable
    <2>3. QED
      BY <2>1, <2>2 DEF Modes
  <1> HIDE DEF owed, paid, scaled
  <1>14. \A v \in Users, s \in Reserves :
            vBal'[v][s] <= vBal[v][s] /\ sBal'[v][s] <= sBal[v][s]
    <2>1. TAKE v \in Users, s \in Reserves
    <2>2. vBal[v][s] \in Nat /\ sBal[v][s] \in Nat
      BY <1>1 DEF Tables
    <2>3. CASE /\ mode = "stable" /\ sBal' = Minus(sBal, u, r, paid) /\ UNCHANGED vBal
      BY <1>1, <1>4, <1>9, <2>2, <2>3, MinusTable
    <2>4. CASE /\ scaled <= vBal[u][r] /\ vBal' = Minus(vBal, u, r, scaled) /\ UNCHANGED sBal
      BY <1>1, <1>5, <2>2, <2>4, MinusTable
    <2>5. QED
      BY <1>7, <2>3, <2>4
  <1>15. SUFFICES ASSUME NEW v \in Users, NEW s \in Reserves, vBal'[v][s] > 0 \/ sBal'[v][s] > 0
                  PROVE  s \in borrowing'[v]
    BY DEF DebtIsFlagged
  <1>16. vBal[v][s] > 0 \/ sBal[v][s] > 0
    <2>1. vBal[v][s] \in Nat /\ sBal[v][s] \in Nat
      BY <1>1 DEF Tables
    <2>2. vBal'[v][s] \in Nat /\ sBal'[v][s] \in Nat
      BY RepayType DEF FlagInv, TypeOK
    <2>3. QED
      BY <1>14, <1>15, <2>1, <2>2
  <1>17. s \in borrowing[v]
    BY <1>16 DEF FlagInv, DebtIsFlagged
  <1>18. ~(TotalDebt(u, r) = paid /\ v = u /\ s = r)
    BY <1>13, <1>15
  <1>19. QED
    BY <1>1, <1>8, <1>17, <1>18, FlagTables

LEMMA SwapFlags ==
    ASSUME FlagInv, NEW m \in Users, NEW r \in Reserves, NEW mode \in Modes,
           SwapBorrowRateMode(m, r, mode)
    PROVE  DebtIsFlagged'
  <1> DEFINE stable   == StableDebt(m, r)
             variable == VariableDebt(m, r)
             scaledIn == RayDiv(stable, debtIndex[r])
             scaled   == RayDiv(variable, debtIndex[r])
  <1>1. stable \in Nat /\ variable \in Nat /\ scaledIn \in Nat /\ scaled \in Nat
    BY BalanceTypes, IndexPositive, RayDivType DEF FlagInv
  <1>2. vBal \in Tables /\ sBal \in Tables /\ stable = sBal[m][r] /\ borrowing' = borrowing
    BY DEF FlagInv, TypeOK, Tables, StableDebt, SwapBorrowRateMode, flagVars
  <1>3. \/ /\ stable > 0
           /\ sBal' = Minus(sBal, m, r, stable)
           /\ vBal' = Plus(vBal, m, r, scaledIn)
        \/ /\ scaled # 0
           /\ scaled <= vBal[m][r]
           /\ vBal' = Minus(vBal, m, r, scaled)
           /\ sBal' = Plus(sBal, m, r, variable)
    BY DEF SwapBorrowRateMode, ValidateSwapRateMode, DebtOf
  <1>4. vBal[m][r] \in Nat /\ sBal[m][r] \in Nat /\ stable <= sBal[m][r]
    BY <1>2 DEF Tables
  \* The debt that is swapped has the bit already.
  <1>5. r \in borrowing[m]
    <2>1. vBal[m][r] > 0 \/ sBal[m][r] > 0
      BY <1>1, <1>2, <1>3, <1>4
    <2>2. QED
      BY <2>1 DEF FlagInv, DebtIsFlagged
  <1>6. SUFFICES ASSUME NEW v \in Users, NEW s \in Reserves, ~(v = m /\ s = r),
                        vBal'[v][s] > 0 \/ sBal'[v][s] > 0
                 PROVE  s \in borrowing[v]
    BY <1>2, <1>5 DEF DebtIsFlagged
  <1> HIDE DEF stable, variable, scaledIn, scaled
  <1>7. vBal'[v][s] = vBal[v][s] /\ sBal'[v][s] = sBal[v][s]
    <2>1. CASE stable > 0 /\ sBal' = Minus(sBal, m, r, stable) /\ vBal' = Plus(vBal, m, r, scaledIn)
      <3>1. sBal'[v][s] = sBal[v][s]
        BY <1>1, <1>2, <1>6, <2>1, MinusTable
      <3>2. vBal'[v][s] = vBal[v][s]
        BY <1>1, <1>2, <1>6, <2>1, PlusTable
      <3>3. QED
        BY <3>1, <3>2
    <2>2. CASE /\ scaled <= vBal[m][r]
               /\ vBal' = Minus(vBal, m, r, scaled) /\ sBal' = Plus(sBal, m, r, variable)
      <3>1. vBal'[v][s] = vBal[v][s]
        BY <1>1, <1>2, <1>6, <2>2, MinusTable
      <3>2. sBal'[v][s] = sBal[v][s]
        BY <1>1, <1>2, <1>6, <2>2, PlusTable
      <3>3. QED
        BY <3>1, <3>2
    <2>3. QED
      BY <1>3, <2>1, <2>2
  <1>8. QED
    BY <1>6, <1>7 DEF FlagInv, DebtIsFlagged

LEMMA LiquidationFlags ==
    ASSUME FlagInv, NEW m \in Users, NEW u \in Users, NEW c \in Reserves, NEW d \in Reserves,
           NEW cover \in AmountsOrMax, NEW receiveAToken \in BOOLEAN,
           LiquidationCall(m, u, c, d, cover, receiveAToken)
    PROVE  DebtIsFlagged'
  <1> DEFINE repaid == LiquidationAmounts(u, c, d, cover).repaid
  <1>1. cover \in Nat
    BY AmountsAssumption, MaxUintAssumption DEF AmountsOrMax
  <1>2. repaid \in Nat /\ repaid <= TotalDebt(u, d)
    BY <1>1, LiquidationAmountsBound DEF FlagInv
  <1>3. BurnDebt(u, d, repaid) /\ borrowing' = borrowing
    BY DEF LiquidationCall
  <1> HIDE DEF repaid
  <1>4. \A v \in Users, s \in Reserves :
            vBal'[v][s] <= vBal[v][s] /\ sBal'[v][s] <= sBal[v][s]
    BY <1>2, <1>3, BurnDebtTables DEF FlagInv
  <1>5. vBal' \in Tables /\ sBal' \in Tables
    BY <1>2, <1>3, BurnDebtTables DEF FlagInv
  <1>6. SUFFICES ASSUME NEW v \in Users, NEW s \in Reserves, vBal'[v][s] > 0 \/ sBal'[v][s] > 0
                 PROVE  s \in borrowing'[v]
    BY DEF DebtIsFlagged
  <1>7. /\ vBal[v][s] \in Nat /\ sBal[v][s] \in Nat
        /\ vBal'[v][s] \in Nat /\ sBal'[v][s] \in Nat
    BY <1>5 DEF FlagInv, TypeOK, Tables
  <1>8. vBal[v][s] > 0 \/ sBal[v][s] > 0
    BY <1>4, <1>6, <1>7
  <1>9. QED
    BY <1>3, <1>8 DEF FlagInv, DebtIsFlagged

LEMMA AccrueFlags ==
    ASSUME FlagInv, NEW r \in Reserves, NEW step \in Accruals, NEW charged \in SUBSET Users,
           Accrue(r, step, charged)
    PROVE  DebtIsFlagged'
  <1>1. /\ \A u \in charged : sBal[u][r] > 0
        /\ sBal' = [u \in Users |-> [sBal[u] EXCEPT ![r] =
                        IF u \in charged THEN @ + step.stable ELSE @]]
        /\ vBal' = vBal /\ borrowing' = borrowing
    BY DEF Accrue, flagVars
  <1>2. SUFFICES ASSUME NEW v \in Users, NEW s \in Reserves, vBal'[v][s] > 0 \/ sBal'[v][s] > 0
                 PROVE  s \in borrowing'[v]
    BY DEF DebtIsFlagged
  <1>3. sBal[v] \in [Reserves -> Nat]
    BY DEF FlagInv, TypeOK
  <1>4. vBal[v][s] > 0 \/ sBal[v][s] > 0
    BY <1>1, <1>2, <1>3
  <1>5. QED
    BY <1>1, <1>4 DEF FlagInv, DebtIsFlagged

LEMMA FlagInit == Init => FlagInv
  <1>1. Init => DebtIsFlagged
    BY DEF Init, DebtIsFlagged
  <1>2. QED
    BY <1>1, TypeInit DEF FlagInv

LEMMA FlagStep == FlagInv /\ [Next]_vars => DebtIsFlagged'
  <1> SUFFICES ASSUME FlagInv, [Next]_vars PROVE DebtIsFlagged'
    OBVIOUS
  <1>1. CASE UNCHANGED <<vBal, sBal, borrowing>>
    BY <1>1 DEF FlagInv, DebtIsFlagged
  <1>2. ASSUME NEW m \in Users, NEW r \in Reserves, UserStep(m, r)
        PROVE  DebtIsFlagged'
    <2>1. CASE \/ \E u \in Users, amount \in Amounts : Deposit(m, u, r, amount)
               \/ \E amount \in AmountsOrMax : Withdraw(m, r, amount)
               \/ \E use \in BOOLEAN : SetUserUseReserveAsCollateral(m, r, use)
      BY <1>1, <2>1 DEF Deposit, Withdraw, SetUserUseReserveAsCollateral, debtVars
    <2>2. CASE \/ \E to \in Users, amount \in Amounts : Transfer(m, to, r, amount)
               \/ \E from, to \in Users, amount \in Amounts : TransferFrom(m, from, to, r, amount)
      BY <1>1, <2>2 DEF Transfer, TransferFrom, debtVars
    <2>3. CASE \/ \E spender \in Users, amount \in Approvals : Approve(m, spender, r, amount)
               \/ \E delegatee \in Users, mode \in Modes, amount \in Approvals :
                     ApproveDelegation(m, delegatee, r, mode, amount)
      BY <1>1, <2>3 DEF Approve, ApproveDelegation, debtVars, flagVars
    <2>4. CASE \E u \in Users, amount \in Amounts, mode \in Modes :
                  Borrow(m, u, r, amount, mode)
      BY <2>4, BorrowFlags, AmountsAssumption DEF Borrow
    <2>5. CASE \E u \in Users, amount \in AmountsOrMax, mode \in Modes :
                  Repay(m, u, r, amount, mode)
      BY <2>5, RepayFlags
    <2>6. CASE \E mode \in Modes : SwapBorrowRateMode(m, r, mode)
      BY <2>6, SwapFlags
    <2>7. CASE \E u \in Users, d \in Reserves, cover \in AmountsOrMax, receiveAToken \in BOOLEAN :
                  LiquidationCall(m, u, r, d, cover, receiveAToken)
      BY <2>7, LiquidationFlags
    <2>8. QED
      BY <1>2, <2>1, <2>2, <2>3, <2>4, <2>5, <2>6, <2>7 DEF UserStep
  <1>3. ASSUME NEW r \in Reserves, EnvironmentStep(r)
        PROVE  DebtIsFlagged'
    <2>1. CASE \/ \E c \in Configs[r] : SetConfiguration(r, c)
               \/ \E p \in Prices[r] : SetPrice(r, p)
      BY <1>1, <2>1 DEF SetConfiguration, SetPrice, AdminUnchanged, debtVars, flagVars
    <2>2. CASE \E step \in Accruals, charged \in SUBSET Users : Accrue(r, step, charged)
      BY <2>2, AccrueFlags
    <2>3. QED
      BY <1>3, <2>1, <2>2 DEF EnvironmentStep
  <1>4. ASSUME NEW p \in BOOLEAN, SetPause(p)
        PROVE  DebtIsFlagged'
    BY <1>1, <1>4 DEF SetPause, AdminUnchanged, debtVars, flagVars
  <1>5. CASE UNCHANGED vars
    BY <1>1, <1>5 DEF vars, debtVars, flagVars
  <1>6. QED
    BY <1>2, <1>3, <1>4, <1>5 DEF Next

(***************************************************************************)
(* Debt is always flagged: whatever users, prices, interest and rounding do,  *)
(* no debt of either kind is invisible to calculateUserAccountData.             *)
(***************************************************************************)
THEOREM DebtAlwaysFlagged == Spec => []DebtIsFlagged
  <1>1. Init => FlagInv
    BY FlagInit
  <1>2. FlagInv /\ [Next]_vars => FlagInv'
    BY FlagStep, TypeStep DEF FlagInv
  <1>3. FlagInv => DebtIsFlagged
    BY DEF FlagInv
  <1>4. QED
    BY <1>1, <1>2, <1>3, PTL DEF Spec

-----------------------------------------------------------------------------
(***************************************************************************)
(* A user's opt-out stands.                                                 *)
(***************************************************************************)
\* Nothing is used as collateral that was not, unless the user asked for it or held none.
OptOutStep ==
    \A u \in Users, r \in Reserves :
        r \notin usingAsCollateral[u] /\ BalanceOf(u, r) > 0 /\ sender' # u
            => r \notin usingAsCollateral'[u]

LEMMA DepositOptOut ==
    ASSUME TypeOK, NEW m \in Users, NEW u \in Users, NEW r \in Reserves,
           NEW amount \in Amounts, Deposit(m, u, r, amount)
    PROVE  OptOutStep
  <1> DEFINE minted == Minted({r})
  <1>1. SUFFICES ASSUME NEW v \in Users, NEW s \in Reserves, s \notin usingAsCollateral[v],
                        BalanceOf(v, s) > 0
                 PROVE  s \notin usingAsCollateral'[v]
    BY DEF OptOutStep
  <1>2. /\ usingAsCollateral \in [Users -> SUBSET Reserves]
        /\ aBal[v][s] \in Nat
    BY DEF TypeOK
  <1>3. aBal[v][s] > 0
    BY <1>1, <1>2, IndexPositive, RayMulZero DEF BalanceOf
  <1>4. minted \in Tables /\ minted[v][s] >= aBal[v][s]
    BY MintedTable
  <1>5. minted[v][s] # 0
    BY <1>2, <1>3, <1>4
  <1>6. usingAsCollateral' = OnFirstBalance(usingAsCollateral, u, r, minted[u][r])
    BY DEF Deposit
  <1>7. QED
    BY <1>1, <1>2, <1>5, <1>6, FirstBalanceTables

LEMMA MoveOptOut ==
    ASSUME TypeOK, NEW from \in Users, NEW to \in Users, NEW r \in Reserves,
           NEW amount \in Nat, MoveATokens(from, to, r, amount)
    PROVE  OptOutStep
  <1> DEFINE left == IF BalanceOf(from, r) = amount
                     THEN Unflagged(usingAsCollateral, from, r)
                     ELSE usingAsCollateral
  <1>1. SUFFICES ASSUME NEW v \in Users, NEW s \in Reserves, s \notin usingAsCollateral[v],
                        BalanceOf(v, s) > 0
                 PROVE  s \notin usingAsCollateral'[v]
    BY DEF OptOutStep
  <1>2. usingAsCollateral \in [Users -> SUBSET Reserves]
    BY DEF TypeOK
  <1>3. left \in [Users -> SUBSET Reserves] /\ s \notin left[v]
    BY <1>1, <1>2, FlagTables
  <1>4. \/ usingAsCollateral' = usingAsCollateral
        \/ usingAsCollateral' = left
        \/ usingAsCollateral' = OnFirstBalance(left, to, r, BalanceOf(to, r))
    BY DEF MoveATokens
  <1> HIDE DEF left
  <1>5. s \notin OnFirstBalance(left, to, r, BalanceOf(to, r))[v]
    BY <1>1, <1>3, FirstBalanceTables
  <1>6. QED
    BY <1>1, <1>3, <1>4, <1>5

LEMMA LiquidationOptOut ==
    ASSUME TypeOK, NEW m \in Users, NEW u \in Users, NEW c \in Reserves, NEW d \in Reserves,
           NEW cover \in AmountsOrMax, NEW receiveAToken \in BOOLEAN,
           LiquidationCall(m, u, c, d, cover, receiveAToken)
    PROVE  OptOutStep
  <1> DEFINE updated == IF receiveAToken THEN {d} ELSE {c, d}
             emptied == LiquidationAmounts(u, c, d, cover).seized = BalanceOf(u, c)
             flags   == OnFirstBalance(usingAsCollateral, m, c,
                                       RayMul(Minted(updated)[m][c], income[c]))
  <1>1. sender' = m
    BY DEF LiquidationCall, Signed
  <1>2. SUFFICES ASSUME NEW v \in Users, NEW s \in Reserves, s \notin usingAsCollateral[v], v # m
                 PROVE  s \notin usingAsCollateral'[v]
    BY <1>1 DEF OptOutStep
  <1>3. usingAsCollateral \in [Users -> SUBSET Reserves]
    BY DEF TypeOK
  <1>4. flags \in [Users -> SUBSET Reserves] /\ s \notin flags[v]
    BY <1>2, <1>3, FirstBalanceTables
  <1>5. emptied \in BOOLEAN
    OBVIOUS
  <1>6. \/ usingAsCollateral' = CollateralBits(flags, u, c, emptied)
        \/ usingAsCollateral' = CollateralBits(usingAsCollateral, u, c, emptied)
    BY DEF LiquidationCall
  <1> HIDE DEF flags, emptied
  <1>7. s \notin CollateralBits(flags, u, c, emptied)[v]
    BY <1>4, <1>5, CollateralBitsTables
  <1>8. s \notin CollateralBits(usingAsCollateral, u, c, emptied)[v]
    BY <1>2, <1>3, <1>5, CollateralBitsTables
  <1>9. QED
    BY <1>6, <1>7, <1>8

\* withdraw only switches the bit off; the other switch is the user's own.
LEMMA OwnBitOptOut ==
    ASSUME TypeOK, NEW m \in Users, NEW r \in Reserves,
           \/ \E amount \in AmountsOrMax : Withdraw(m, r, amount)
           \/ \E use \in BOOLEAN : SetUserUseReserveAsCollateral(m, r, use)
    PROVE  OptOutStep
  <1>1. sender' = m
    BY DEF Withdraw, SetUserUseReserveAsCollateral, Signed
  <1>2. \/ usingAsCollateral' = usingAsCollateral
        \/ usingAsCollateral' = Flagged(usingAsCollateral, m, r)
        \/ usingAsCollateral' = Unflagged(usingAsCollateral, m, r)
    BY DEF Withdraw, SetUserUseReserveAsCollateral
  <1>3. usingAsCollateral \in [Users -> SUBSET Reserves]
    BY DEF TypeOK
  <1>4. QED
    BY <1>1, <1>2, <1>3, FlagTables DEF OptOutStep

LEMMA OptOutKept == TypeOK /\ [Next]_vars => OptOutStep
  <1> SUFFICES ASSUME TypeOK, [Next]_vars PROVE OptOutStep
    OBVIOUS
  <1>1. CASE usingAsCollateral' = usingAsCollateral
    BY <1>1 DEF OptOutStep
  <1>2. ASSUME NEW m \in Users, NEW r \in Reserves, UserStep(m, r)
        PROVE  OptOutStep
    <2>1. CASE \E u \in Users, amount \in Amounts : Deposit(m, u, r, amount)
      BY <2>1, DepositOptOut
    <2>2. CASE \/ \E amount \in AmountsOrMax : Withdraw(m, r, amount)
               \/ \E use \in BOOLEAN : SetUserUseReserveAsCollateral(m, r, use)
      BY <2>2, OwnBitOptOut
    <2>3. CASE \E u \in Users, d \in Reserves, cover \in AmountsOrMax, receiveAToken \in BOOLEAN :
                  LiquidationCall(m, u, r, d, cover, receiveAToken)
      BY <2>3, LiquidationOptOut
    <2>4. CASE \/ \E to \in Users, amount \in Amounts : Transfer(m, to, r, amount)
               \/ \E from, to \in Users, amount \in Amounts : TransferFrom(m, from, to, r, amount)
      BY <2>4, MoveOptOut, AmountsAssumption DEF Transfer, TransferFrom
    <2>5. CASE \/ \E u \in Users, amount \in Amounts, mode \in Modes :
                     Borrow(m, u, r, amount, mode)
               \/ \E u \in Users, amount \in AmountsOrMax, mode \in Modes :
                     Repay(m, u, r, amount, mode)
               \/ \E mode \in Modes : SwapBorrowRateMode(m, r, mode)
      BY <1>1, <2>5 DEF Borrow, Repay, SwapBorrowRateMode, flagVars
    <2>6. CASE \/ \E spender \in Users, amount \in Approvals : Approve(m, spender, r, amount)
               \/ \E delegatee \in Users, mode \in Modes, amount \in Approvals :
                     ApproveDelegation(m, delegatee, r, mode, amount)
      BY <1>1, <2>6 DEF Approve, ApproveDelegation, flagVars
    <2>7. QED
      BY <1>2, <2>1, <2>2, <2>3, <2>4, <2>5, <2>6 DEF UserStep
  <1>3. ASSUME NEW r \in Reserves, EnvironmentStep(r)
        PROVE  OptOutStep
    BY <1>1, <1>3 DEF EnvironmentStep, SetConfiguration, SetPrice, Accrue, AdminUnchanged, flagVars
  <1>4. ASSUME NEW p \in BOOLEAN, SetPause(p)
        PROVE  OptOutStep
    BY <1>1, <1>4 DEF SetPause, AdminUnchanged, flagVars
  <1>5. CASE UNCHANGED vars
    BY <1>1, <1>5 DEF vars, flagVars
  <1>6. QED
    BY <1>2, <1>3, <1>4, <1>5 DEF Next

(***************************************************************************)
(* A user's choice not to use a deposit as collateral is undone by nobody     *)
(* else while there is a deposit, whatever arrives in the account: an existing  *)
(* scaled balance never reads as zero, which is what the pool takes for a first  *)
(* deposit.                                                                        *)
(***************************************************************************)
THEOREM OptOutStands == Spec => OptOutRespected
  <1>1. Init => TypeOK
    BY TypeInit
  <1>2. TypeOK /\ [Next]_vars => TypeOK'
    BY TypeStep
  <1>3. TypeOK /\ [Next]_vars => [OptOutStep]_vars
    BY OptOutKept
  <1>4. OptOutRespected <=> [][OptOutStep]_vars
    BY DEF OptOutRespected, OptOutStep
  <1>5. QED
    BY <1>1, <1>2, <1>3, <1>4, PTL DEF Spec

-----------------------------------------------------------------------------
(***************************************************************************)
(* Consent. What each operation does to the positions of users who did not   *)
(* sign for it.                                                              *)
(***************************************************************************)
ConsentStep ==
    UserSigned =>
        \A u \in Users \ {sender'}, r \in Reserves :
            DebtUntouched(u, r) /\ DepositUntouched(u, r)

DebtsKept(m) ==
    \A u \in Users \ {m}, r \in Reserves :
        vBal'[u][r] <= vBal[u][r] /\ sBal'[u][r] <= sBal[u][r]

DepositsKept(m) ==
    \A u \in Users \ {m}, r \in Reserves : aBal'[u][r] >= aBal[u][r]

\* The rounding allowance covers the rounding of either conversion.
LEMMA DustCovers ==
    ASSUME TypeOK, NEW r \in Reserves
    PROVE  /\ RoundingDust(r) \in Nat
           /\ (income[r] + 2 * RAY) \div (2 * RAY) <= RoundingDust(r)
           /\ (debtIndex[r] + 2 * RAY) \div (2 * RAY) <= RoundingDust(r)
  <1> DEFINE index == IF income[r] > debtIndex[r] THEN income[r] ELSE debtIndex[r]
             q(i)  == (i + 2 * RAY) \div (2 * RAY)
  <1>1. RAY \in Nat \ {0} /\ income[r] \in Nat /\ debtIndex[r] \in Nat
    BY PrecisionAssumption DEF TypeOK
  <1>2. index \in Nat /\ income[r] <= index /\ debtIndex[r] <= index
    BY <1>1
  <1>3. ASSUME NEW i \in Nat, NEW j \in Nat, i <= j
        PROVE  q(i) <= q(j) /\ q(j) \in Nat
    <2> DEFINE d == 2 * RAY
               x == (i + d) \div d
               y == (j + d) \div d
    <2>1. d \in Nat \ {0} /\ i + d \in Nat /\ j + d \in Nat
      BY <1>1
    <2> HIDE DEF d
    <2>2. /\ x \in Nat /\ d * x <= i + d
          /\ y \in Nat /\ j + d < d * y + d
      BY <2>1, DivBounds
    <2> HIDE DEF x, y
    <2>3. d * x < d * (y + 1)
      BY <2>1, <2>2, <1>3
    <2>4. x < y + 1
      BY <2>1, <2>2, <2>3
    <2>5. x <= y
      BY <2>2, <2>4
    <2>6. QED
      BY <2>2, <2>5 DEF x, y, d
  <1>4. RoundingDust(r) = q(index)
    BY DEF RoundingDust
  <1> HIDE DEF index, q
  <1>5. QED
    BY <1>1, <1>2, <1>3, <1>4 DEF q

\* No debt and no deposit of the others touched: nothing to consent to.
LEMMA KeptIsConsent ==
    ASSUME TypeOK, NEW m \in Users, sender' = m, DebtsKept(m), DepositsKept(m),
           \A u \in Users \ {m}, r \in Reserves :
                borrowAllowance'[r]["stable"][u][m] = borrowAllowance[r]["stable"][u][m]
    PROVE  ConsentStep
  <1>1. SUFFICES ASSUME NEW u \in Users \ {m}, NEW r \in Reserves
                 PROVE  DebtUntouched(u, r) /\ DepositUntouched(u, r)
    BY DEF ConsentStep
  <1>2. vBal'[u][r] <= vBal[u][r] /\ sBal'[u][r] <= sBal[u][r] /\ aBal'[u][r] >= aBal[u][r]
    BY DEF DebtsKept, DepositsKept
  <1>3. borrowAllowance[r]["stable"][u][m] \in Nat /\ sBal[u][r] \in Nat
    BY DEF TypeOK, Modes
  <1>4. CreditUsed(u, r, "stable") = 0
    BY <1>3 DEF CreditUsed
  <1>5. DebtUntouched(u, r)
    BY <1>2, <1>3, <1>4 DEF DebtUntouched
  <1>6. DepositUntouched(u, r)
    BY <1>2 DEF DepositUntouched
  <1>7. QED
    BY <1>5, <1>6

\* Deposits and withdrawals take from nobody but the caller.
LEMMA OwnMoneyKept ==
    ASSUME TypeOK, NEW m \in Users, NEW r \in Reserves,
           \/ \E u \in Users, amount \in Amounts : Deposit(m, u, r, amount)
           \/ \E amount \in AmountsOrMax : Withdraw(m, r, amount)
    PROVE  DepositsKept(m)
  <1> DEFINE minted == Minted({r})
  <1>1. /\ minted \in Tables
        /\ \A v \in Users, s \in Reserves : minted[v][s] >= aBal[v][s]
    BY MintedTable
  <1>2. \A v \in Users, s \in Reserves : aBal[v][s] \in Nat /\ minted[v][s] \in Nat
    <2>1. aBal \in Tables
      BY DEF TypeOK, Tables
    <2>2. QED
      BY <1>1, <2>1, TableEntry
  <1>3. ASSUME NEW u \in Users, NEW amount \in Amounts, Deposit(m, u, r, amount)
        PROVE  DepositsKept(m)
    <2> DEFINE scaled == RayDiv(amount, income[r])
    <2>1. scaled \in Nat
      BY AmountsAssumption, IndexPositive, RayDivType
    <2>2. aBal' = Plus(minted, u, r, scaled)
      BY <1>3 DEF Deposit
    <2> HIDE DEF minted, scaled
    <2>3. \A v \in Users, s \in Reserves : aBal'[v][s] >= minted[v][s]
      <3>1. TAKE v \in Users, s \in Reserves
      <3>2. aBal'[v][s] = IF v = u /\ s = r THEN minted[u][r] + scaled ELSE minted[v][s]
        BY <1>1, <2>1, <2>2, PlusTable
      <3>3. QED
        BY <1>2, <2>1, <3>2
    <2>4. \A v \in Users, s \in Reserves : aBal'[v][s] \in Nat
      <3>1. Plus(minted, u, r, scaled) \in Tables
        BY <1>1, <2>1, PlusTable
      <3>2. QED
        BY <2>2, <3>1, TableEntry
    <2>5. QED
      BY <1>1, <1>2, <2>3, <2>4 DEF DepositsKept
  <1>4. ASSUME NEW amount \in AmountsOrMax, Withdraw(m, r, amount)
        PROVE  DepositsKept(m)
    <2> DEFINE given  == IF amount = MaxUint THEN BalanceOf(m, r) ELSE amount
               scaled == RayDiv(given, income[r])
    <2>1. given \in Nat
      BY BalanceTypes, AmountsAssumption DEF AmountsOrMax
    <2>2. scaled \in Nat
      BY <2>1, IndexPositive, RayDivType
    <2>3. scaled <= minted[m][r] /\ aBal' = Minus(minted, m, r, scaled)
      BY <1>4 DEF Withdraw
    <2> HIDE DEF minted, given, scaled
    <2>4. \A v \in Users \ {m}, s \in Reserves : aBal'[v][s] = minted[v][s]
      BY <1>1, <2>2, <2>3, MinusTable
    <2>5. QED
      BY <1>1, <2>4 DEF DepositsKept
  <1>5. QED
    BY <1>3, <1>4

LEMMA OwnMoneyConsent ==
    ASSUME TypeOK, NEW m \in Users, NEW r \in Reserves,
           \/ \E u \in Users, amount \in Amounts : Deposit(m, u, r, amount)
           \/ \E amount \in AmountsOrMax : Withdraw(m, r, amount)
    PROVE  ConsentStep
  <1>1. DepositsKept(m)
    BY OwnMoneyKept
  <1>2. UNCHANGED <<vBal, sBal, borrowAllowance>> /\ sender' = m
    BY DEF Deposit, Withdraw, Signed, debtVars, approvalVars
  <1>3. DebtsKept(m)
    <2>1. \A v \in Users, s \in Reserves : vBal[v][s] \in Nat /\ sBal[v][s] \in Nat
      BY DEF TypeOK
    <2>2. QED
      BY <1>2, <2>1 DEF DebtsKept
  <1>4. QED
    BY <1>1, <1>2, <1>3, KeptIsConsent

\* updateState never takes from anybody.
LEMMA MintedKeepsDeposits ==
    ASSUME TypeOK, NEW m \in Users, NEW rs, aBal' = Minted(rs)
    PROVE  DepositsKept(m)
  BY MintedTable DEF DepositsKept

\* Borrowing on the position of another uses that user's credit for the same amount.
LEMMA BorrowConsent ==
    ASSUME TypeOK, NEW m \in Users, NEW u \in Users, NEW r \in Reserves,
           NEW amount \in Amounts, NEW mode \in Modes, Borrow(m, u, r, amount, mode)
    PROVE  ConsentStep
  <1> DEFINE scaled == RayDiv(amount, debtIndex[r])
  <1>1. amount \in Nat /\ scaled \in Nat
    BY AmountsAssumption, IndexPositive, RayDivType
  <1>2. amount > 0
    BY <1>1 DEF Borrow, ValidateBorrow
  <1>3. /\ sender' = m /\ debtIndex' = debtIndex
        /\ DepositsKept(m)
        /\ borrowAllowance' = CreditSpent(m, u, r, mode, amount)
    BY MintedKeepsDeposits DEF Borrow, Signed, indexVars
  <1>4. vBal \in Tables /\ sBal \in Tables
    BY DEF TypeOK, Tables
  <1>5. SUFFICES ASSUME NEW v \in Users \ {m}, NEW s \in Reserves
                 PROVE  DebtUntouched(v, s)
    BY <1>3 DEF ConsentStep, DepositUntouched, DepositsKept
  <1>6. /\ vBal[v][s] \in Nat /\ sBal[v][s] \in Nat
        /\ \A k \in Modes : borrowAllowance[s][k][v][m] \in Nat
    BY DEF TypeOK
  <1>7. \A k \in Modes :
            CreditUsed(v, s, k) = IF m # u /\ s = r /\ v = u /\ k = mode THEN amount ELSE 0
    <2>1. TAKE k \in Modes
    <2>2. CASE m = u
      BY <1>3, <1>6, <2>2 DEF CreditSpent, CreditUsed
    <2>3. CASE m # u
      <3>1. borrowAllowance' = [borrowAllowance EXCEPT ![r][mode][u][m] = @ - amount]
        BY <1>3, <2>3 DEF CreditSpent
      <3>2. borrowAllowance \in [Reserves -> [Modes -> [Users -> [Users -> Nat]]]]
        BY DEF TypeOK
      <3>3. borrowAllowance'[s][k][v][m] =
                IF s = r /\ k = mode /\ v = u THEN borrowAllowance[s][k][v][m] - amount
                ELSE borrowAllowance[s][k][v][m]
        BY <3>1, <3>2
      <3>4. QED
        BY <1>1, <1>3, <1>6, <2>3, <3>3 DEF CreditUsed
    <2>4. QED
      BY <2>2, <2>3
  <1> HIDE DEF scaled
  <1>8. CASE mode = "variable" /\ BorrowVariable(u, r, amount)
    <2>1. sBal' = sBal /\ vBal' = Plus(vBal, u, r, scaled)
      BY <1>8 DEF BorrowVariable, scaled
    <2>2. CreditUsed(v, s, "stable") = 0
      BY <1>7, <1>8 DEF Modes
    <2>3. sBal'[v][s] <= sBal[v][s] + CreditUsed(v, s, "stable")
      BY <1>6, <2>1, <2>2
    <2>4. CASE v = u /\ s = r
      <3>1. CreditUsed(v, s, "variable") = amount
        BY <1>7, <1>8, <2>4 DEF Modes
      <3>2. vBal'[u][r] = vBal[u][r] + scaled
        BY <1>1, <1>4, <2>1, PlusTable
      <3>3. VariableDebt(u, r)' = RayMul(vBal[u][r] + scaled, debtIndex[r])
        BY <1>3, <3>2 DEF VariableDebt
      <3>4. VariableDebt(u, r)' <=
                VariableDebt(u, r) + amount + ((debtIndex[r] + 2 * RAY) \div (2 * RAY))
        BY <1>1, <1>6, <2>4, <3>3, IndexPositive, ConversionStep DEF VariableDebt, scaled
      <3>5. VariableDebt(u, r)' <= VariableDebt(u, r) + amount + RoundingDust(r)
        <4> DEFINE x == VariableDebt(u, r)'
                   y == VariableDebt(u, r)
                   q == (debtIndex[r] + 2 * RAY) \div (2 * RAY)
        <4>1. x \in Nat /\ y \in Nat
          <5>1. vBal[u][r] + scaled \in Nat
            BY <1>1, <1>6, <2>4
          <5>2. QED
            BY <3>3, <5>1, IndexPositive, RayMulType, BalanceTypes
        <4>2. q \in Nat
          BY IndexPositive, PrecisionAssumption, DivBounds
        <4>3. RoundingDust(r) \in Nat /\ q <= RoundingDust(r)
          BY DustCovers
        <4>4. x <= y + amount + q
          BY <3>4
        <4> HIDE DEF x, y, q
        <4>5. x <= y + amount + RoundingDust(r)
          BY <1>1, <4>1, <4>2, <4>3, <4>4
        <4>6. QED
          BY <4>5 DEF x, y
      <3>6. QED
        BY <1>2, <2>3, <2>4, <3>1, <3>5 DEF DebtUntouched
    <2>5. CASE ~(v = u /\ s = r)
      <3>1. Plus(vBal, u, r, scaled)[v][s] =
                IF v = u /\ s = r THEN vBal[u][r] + scaled ELSE vBal[v][s]
        BY <1>1, <1>4, PlusTable
      <3>2. vBal'[v][s] = vBal[v][s]
        BY <2>1, <2>5, <3>1
      <3>3. QED
        BY <1>6, <2>3, <3>2 DEF DebtUntouched
    <2>6. QED
      BY <2>4, <2>5
  <1>9. CASE mode = "stable" /\ BorrowStable(u, r, amount)
    <2>1. vBal' = vBal /\ sBal' = Plus(sBal, u, r, amount)
      BY <1>9 DEF BorrowStable
    <2>2. sBal'[v][s] = IF v = u /\ s = r THEN sBal[u][r] + amount ELSE sBal[v][s]
      BY <1>1, <1>4, <2>1, PlusTable
    <2>3. CreditUsed(v, s, "stable") = IF v = u /\ s = r THEN amount ELSE 0
      BY <1>5, <1>7, <1>9 DEF Modes
    <2>4. sBal'[v][s] <= sBal[v][s] + CreditUsed(v, s, "stable")
      BY <1>1, <1>6, <2>2, <2>3
    <2>5. QED
      BY <1>6, <2>1, <2>4 DEF DebtUntouched
  <1>10. QED
    BY <1>8, <1>9 DEF Borrow

LEMMA RepayConsent ==
    ASSUME TypeOK, NEW m \in Users, NEW u \in Users, NEW r \in Reserves,
           NEW sent \in AmountsOrMax, NEW mode \in Modes, Repay(m, u, r, sent, mode)
    PROVE  ConsentStep
  <1> DEFINE owed   == DebtOf(u, r, mode)
             paid   == Least(sent, owed)
             scaled == RayDiv(paid, debtIndex[r])
  <1>1. sent \in Nat /\ owed \in Nat
    BY BalanceTypes, AmountsAssumption, MaxUintAssumption DEF AmountsOrMax
  <1>2. paid \in Nat /\ paid <= owed
    BY <1>1 DEF Least
  <1>3. scaled \in Nat
    BY <1>2, IndexPositive, RayDivType
  <1>4. /\ vBal \in Tables /\ sBal \in Tables
        /\ \A v \in Users, s \in Reserves : vBal[v][s] \in Nat /\ sBal[v][s] \in Nat
    BY DEF TypeOK, Tables
  <1>5. \/ /\ mode = "stable" /\ sBal' = Minus(sBal, u, r, paid) /\ vBal' = vBal
        \/ /\ mode = "variable" /\ scaled <= vBal[u][r]
           /\ vBal' = Minus(vBal, u, r, scaled) /\ sBal' = sBal
    BY DEF Repay
  <1>6. mode = "stable" => owed = sBal[u][r]
    BY DEF DebtOf, StableDebt
  <1>7. sender' = m /\ UNCHANGED borrowAllowance /\ DepositsKept(m)
    BY MintedKeepsDeposits DEF Repay, Signed, approvalVars
  <1> HIDE DEF owed, paid, scaled
  <1>8. DebtsKept(m)
    <2>1. CASE mode = "stable" /\ sBal' = Minus(sBal, u, r, paid) /\ vBal' = vBal
      BY <1>2, <1>4, <1>6, <2>1, MinusTable DEF DebtsKept
    <2>2. CASE scaled <= vBal[u][r] /\ vBal' = Minus(vBal, u, r, scaled) /\ sBal' = sBal
      BY <1>3, <1>4, <2>2, MinusTable DEF DebtsKept
    <2>3. QED
      BY <1>5, <2>1, <2>2
  <1>9. QED
    BY <1>7, <1>8, KeptIsConsent

LEMMA SwapConsent ==
    ASSUME TypeOK, NEW m \in Users, NEW r \in Reserves, NEW mode \in Modes,
           SwapBorrowRateMode(m, r, mode)
    PROVE  ConsentStep
  <1> DEFINE stable   == StableDebt(m, r)
             variable == VariableDebt(m, r)
             scaledIn == RayDiv(stable, debtIndex[r])
             scaled   == RayDiv(variable, debtIndex[r])
  <1>1. stable \in Nat /\ variable \in Nat /\ scaledIn \in Nat /\ scaled \in Nat
    BY BalanceTypes, IndexPositive, RayDivType
  <1>2. /\ vBal \in Tables /\ sBal \in Tables /\ stable <= sBal[m][r]
        /\ \A v \in Users, s \in Reserves : vBal[v][s] \in Nat /\ sBal[v][s] \in Nat
    BY <1>1 DEF TypeOK, Tables, StableDebt
  <1>3. \/ sBal' = Minus(sBal, m, r, stable) /\ vBal' = Plus(vBal, m, r, scaledIn)
        \/ /\ scaled <= vBal[m][r]
           /\ vBal' = Minus(vBal, m, r, scaled) /\ sBal' = Plus(sBal, m, r, variable)
    BY DEF SwapBorrowRateMode
  <1>4. sender' = m /\ UNCHANGED borrowAllowance /\ DepositsKept(m)
    BY MintedKeepsDeposits DEF SwapBorrowRateMode, Signed, approvalVars
  <1> HIDE DEF stable, variable, scaledIn, scaled
  <1>5. \A v \in Users \ {m}, s \in Reserves : vBal'[v][s] = vBal[v][s] /\ sBal'[v][s] = sBal[v][s]
    <2>1. CASE sBal' = Minus(sBal, m, r, stable) /\ vBal' = Plus(vBal, m, r, scaledIn)
      <3>1. \A v \in Users \ {m}, s \in Reserves : sBal'[v][s] = sBal[v][s]
        BY <1>1, <1>2, <2>1, OtherEntries
      <3>2. \A v \in Users \ {m}, s \in Reserves : vBal'[v][s] = vBal[v][s]
        BY <1>1, <1>2, <2>1, OtherEntries
      <3>3. QED
        BY <3>1, <3>2
    <2>2. CASE /\ scaled <= vBal[m][r]
               /\ vBal' = Minus(vBal, m, r, scaled) /\ sBal' = Plus(sBal, m, r, variable)
      <3>1. \A v \in Users \ {m}, s \in Reserves : vBal'[v][s] = vBal[v][s]
        BY <1>1, <1>2, <2>2, OtherEntries
      <3>2. \A v \in Users \ {m}, s \in Reserves : sBal'[v][s] = sBal[v][s]
        BY <1>1, <1>2, <2>2, OtherEntries
      <3>3. QED
        BY <3>1, <3>2
    <2>3. QED
      BY <1>3, <2>1, <2>2
  <1>6. DebtsKept(m)
    BY <1>2, <1>5 DEF DebtsKept
  <1>7. QED
    BY <1>4, <1>6, KeptIsConsent

\* A burn of debt leaves less of it when it is of some amount.
LEMMA BurnDebtDecreases ==
    ASSUME TypeOK, NEW u \in Users, NEW d \in Reserves, NEW repaid \in Nat,
           repaid <= TotalDebt(u, d), BurnDebt(u, d, repaid), debtIndex' = debtIndex
    PROVE  TotalDebt(u, d)' < TotalDebt(u, d)
  <1> DEFINE variable == VariableDebt(u, d)
             first    == Least(variable, repaid)
             scaled   == RayDiv(first, debtIndex[d])
             w        == vBal'[u][d]
  <1>1. /\ variable \in Nat /\ vBal[u][d] \in Nat /\ sBal[u][d] \in Nat
        /\ vBal \in Tables /\ sBal \in Tables
        /\ TotalDebt(u, d) = sBal[u][d] + variable
    BY BalanceTypes DEF TypeOK, Tables, TotalDebt, StableDebt
  <1>2. /\ variable >= repaid => scaled # 0
        /\ scaled <= vBal[u][d]
        /\ vBal' = Minus(vBal, u, d, scaled)
        /\ sBal' = Minus(sBal, u, d, repaid - first)
    BY DEF BurnDebt
  <1>3. first \in Nat /\ repaid - first \in Nat /\ repaid - first <= sBal[u][d]
    BY <1>1 DEF Least
  <1>4. scaled \in Nat
    BY <1>3, IndexPositive, RayDivType
  <1>5. w = vBal[u][d] - scaled /\ w \in Nat
    BY <1>1, <1>2, <1>4, MinusTable
  <1>6. sBal'[u][d] = sBal[u][d] - (repaid - first)
    BY <1>1, <1>2, <1>3, MinusTable
  <1>7. TotalDebt(u, d)' = sBal'[u][d] + RayMul(w, debtIndex[d])
    BY DEF TotalDebt, StableDebt, VariableDebt
  <1>8. RayMul(w, debtIndex[d]) \in Nat
    BY <1>5, IndexPositive, RayMulType
  <1>9. /\ w < vBal[u][d] => RayMul(w, debtIndex[d]) < variable
        /\ w = vBal[u][d] => RayMul(w, debtIndex[d]) = variable
    BY <1>1, <1>5, IndexPositive, RayMulStrict DEF VariableDebt
  <1>10. variable >= repaid => first = repaid
    BY <1>1 DEF Least
  <1>11. variable < repaid => first = variable
    BY <1>1 DEF Least
  <1> HIDE DEF variable, first, scaled, w
  <1>12. CASE variable >= repaid
    <2>1. w < vBal[u][d]
      BY <1>1, <1>2, <1>4, <1>5, <1>12
    <2>2. QED
      BY <1>1, <1>3, <1>6, <1>7, <1>8, <1>9, <1>10, <1>12, <2>1
  <1>13. CASE variable < repaid
    <2>1. RayMul(w, debtIndex[d]) <= variable
      BY <1>1, <1>2, <1>4, <1>5, <1>8, <1>9
    <2>2. sBal'[u][d] < sBal[u][d]
      BY <1>1, <1>3, <1>6, <1>11, <1>13
    <2>3. sBal'[u][d] \in Int
      BY <1>1, <1>3, <1>6
    <2>4. QED
      BY <1>1, <1>7, <1>8, <2>1, <2>2, <2>3
  <1>14. QED
    BY <1>1, <1>12, <1>13

\* A liquidation takes deposits of an unhealthy user only, and pays off debt of that user.
LEMMA LiquidationConsent ==
    ASSUME TypeOK, NEW m \in Users, NEW u \in Users, NEW c \in Reserves, NEW d \in Reserves,
           NEW cover \in AmountsOrMax, NEW receiveAToken \in BOOLEAN,
           LiquidationCall(m, u, c, d, cover, receiveAToken)
    PROVE  ConsentStep
  <1> DEFINE amounts == LiquidationAmounts(u, c, d, cover)
             updated == IF receiveAToken THEN {d} ELSE {c, d}
             minted  == Minted(updated)
             scaled  == RayDiv(amounts.seized, income[c])
  <1>1. cover \in Nat
    BY AmountsAssumption, MaxUintAssumption DEF AmountsOrMax
  <1>2. /\ amounts.repaid \in Nat /\ amounts.repaid <= TotalDebt(u, d)
        /\ amounts.seized \in Nat
    BY <1>1, LiquidationAmountsBound
  <1>3. scaled \in Nat
    BY <1>2, IndexPositive, RayDivType
  <1>4. /\ sender' = m /\ ~Healthy(u)
        /\ BurnDebt(u, d, amounts.repaid)
        /\ debtIndex' = debtIndex
        /\ UNCHANGED borrowAllowance
        /\ scaled <= minted[u][c]
        /\ \/ aBal' = Plus(Minus(minted, u, c, scaled), m, c, scaled)
           \/ aBal' = Minus(minted, u, c, scaled)
    BY DEF LiquidationCall, ValidateLiquidationCall, Signed, indexVars, approvalVars
  <1>5. /\ minted \in Tables
        /\ \A v \in Users, s \in Reserves : minted[v][s] >= aBal[v][s]
    BY MintedTable
  <1>6. \A v \in Users, s \in Reserves :
            vBal'[v][s] <= vBal[v][s] /\ sBal'[v][s] <= sBal[v][s]
    BY <1>2, <1>4, BurnDebtTables
  <1>7. TotalDebt(u, d)' < TotalDebt(u, d)
    BY <1>2, <1>4, BurnDebtDecreases
  <1> HIDE DEF amounts, minted, scaled
  <1>8. \A v \in Users \ {m, u}, s \in Reserves : aBal'[v][s] = minted[v][s]
    <2>1. Minus(minted, u, c, scaled) \in Tables
      BY <1>3, <1>4, <1>5, MinusTable
    <2>2. \A v \in Users \ {m, u}, s \in Reserves :
              Minus(minted, u, c, scaled)[v][s] = minted[v][s]
      BY <1>3, <1>4, <1>5, MinusTable
    <2>3. \A v \in Users \ {m, u}, s \in Reserves :
              Plus(Minus(minted, u, c, scaled), m, c, scaled)[v][s] = minted[v][s]
      BY <1>3, <2>1, <2>2, PlusTable
    <2>4. QED
      BY <1>4, <2>2, <2>3
  <1>9. SUFFICES ASSUME NEW v \in Users \ {m}, NEW s \in Reserves
                 PROVE  DebtUntouched(v, s) /\ DepositUntouched(v, s)
    BY <1>4 DEF ConsentStep
  <1>10. DebtUntouched(v, s)
    <2>1. borrowAllowance[s]["stable"][v][m] \in Nat /\ sBal[v][s] \in Nat
      BY DEF TypeOK, Modes
    <2>2. CreditUsed(v, s, "stable") = 0
      BY <1>4, <2>1 DEF CreditUsed
    <2>3. QED
      BY <1>6, <2>1, <2>2 DEF DebtUntouched
  <1>11. DepositUntouched(v, s)
    <2>1. CASE v = u
      BY <1>4, <1>7, <2>1 DEF DepositUntouched
    <2>2. CASE v # u
      BY <1>5, <1>8, <2>2 DEF DepositUntouched
    <2>3. QED
      BY <2>1, <2>2
  <1>12. QED
    BY <1>10, <1>11

\* The scaled balances after a move: the sender's, the receiver's and the others'.
LEMMA MoveEntries ==
    ASSUME TypeOK, NEW from \in Users, NEW to \in Users, NEW r \in Reserves,
           NEW amount \in Nat, MoveATokens(from, to, r, amount)
    PROVE  /\ \A v \in Users \ {from}, s \in Reserves : aBal'[v][s] >= aBal[v][s]
           /\ \A s \in Reserves \ {r} : aBal'[from][s] = aBal[from][s]
           /\ \/ aBal'[from][r] = aBal[from][r]
              \/ aBal'[from][r] = aBal[from][r] - RayDiv(amount, income[r])
           /\ RayDiv(amount, income[r]) \in Nat
           /\ RayDiv(amount, income[r]) <= aBal[from][r]
  <1> DEFINE scaled == RayDiv(amount, income[r])
             taken  == Minus(aBal, from, r, scaled)
  <1>1. scaled \in Nat
    BY IndexPositive, RayDivType
  <1>2. scaled <= aBal[from][r] /\ aBal' = Plus(taken, to, r, scaled)
    BY DEF MoveATokens
  <1>3. aBal \in Tables
    BY DEF TypeOK, Tables
  <1>4. /\ taken \in Tables
        /\ \A v \in Users, s \in Reserves :
              taken[v][s] = IF v = from /\ s = r THEN aBal[from][r] - scaled ELSE aBal[v][s]
    BY <1>1, <1>2, <1>3, MinusTable
  <1> HIDE DEF taken, scaled
  <1>5. \A v \in Users, s \in Reserves :
            aBal'[v][s] = IF v = to /\ s = r THEN taken[to][r] + scaled ELSE taken[v][s]
    <2>1. \A v \in Users, s \in Reserves :
            Plus(taken, to, r, scaled)[v][s] =
                IF v = to /\ s = r THEN taken[to][r] + scaled ELSE taken[v][s]
      BY <1>1, <1>4, PlusTable
    <2>2. QED
      BY <1>2, <2>1
  <1>6. \A v \in Users, s \in Reserves : aBal[v][s] \in Nat
    BY <1>3, TableEntry
  <1>7. \A v \in Users \ {from}, s \in Reserves : aBal'[v][s] >= aBal[v][s]
    BY <1>1, <1>4, <1>5, <1>6
  <1>8. \A s \in Reserves \ {r} : aBal'[from][s] = aBal[from][s]
    BY <1>4, <1>5
  <1>9. aBal'[from][r] = aBal[from][r] \/ aBal'[from][r] = aBal[from][r] - scaled
    BY <1>1, <1>4, <1>5, <1>6
  <1>10. QED
    BY <1>1, <1>2, <1>7, <1>8, <1>9 DEF scaled

LEMMA TransferConsent ==
    ASSUME TypeOK, NEW m \in Users, NEW to \in Users, NEW r \in Reserves,
           NEW amount \in Amounts, Transfer(m, to, r, amount)
    PROVE  ConsentStep
  <1>1. sender' = m /\ UNCHANGED <<vBal, sBal, borrowAllowance>>
    BY DEF Transfer, Signed, debtVars, approvalVars
  <1>2. amount \in Nat /\ MoveATokens(m, to, r, amount)
    BY AmountsAssumption DEF Transfer
  <1>3. DepositsKept(m)
    BY <1>2, MoveEntries DEF DepositsKept
  <1>4. DebtsKept(m)
    <2>1. \A v \in Users, s \in Reserves : vBal[v][s] \in Nat /\ sBal[v][s] \in Nat
      BY DEF TypeOK
    <2>2. QED
      BY <1>1, <2>1 DEF DebtsKept
  <1>5. QED
    BY <1>1, <1>3, <1>4, KeptIsConsent

\* transferFrom uses up the owner's allowance for the amount that moves.
LEMMA TransferFromUses ==
    ASSUME TypeOK, NEW m \in Users, NEW from \in Users, NEW to \in Users,
           NEW r \in Reserves, NEW amount \in Amounts, TransferFrom(m, from, to, r, amount),
           NEW v \in Users, NEW s \in Reserves, ~(aBal'[v][s] >= aBal[v][s])
    PROVE  /\ v = from /\ s = r /\ aBal'[from][r] = aBal[from][r] - RayDiv(amount, income[r])
           /\ amount > 0 /\ AllowanceUsed(from, r) = amount
  <1> DEFINE scaled == RayDiv(amount, income[r])
  <1>1. sender' = m /\ allowance' = [allowance EXCEPT ![r][from][m] = @ - amount]
    BY DEF TransferFrom, Signed
  <1>2. amount \in Nat /\ MoveATokens(from, to, r, amount)
    BY AmountsAssumption DEF TransferFrom
  <1>3. /\ \A x \in Users \ {from}, y \in Reserves : aBal'[x][y] >= aBal[x][y]
        /\ \A y \in Reserves \ {r} : aBal'[from][y] = aBal[from][y]
        /\ aBal'[from][r] = aBal[from][r] \/ aBal'[from][r] = aBal[from][r] - scaled
    BY <1>2, MoveEntries
  <1>4. aBal[v][s] \in Nat
    BY DEF TypeOK
  <1>5. v = from /\ s = r /\ aBal'[from][r] = aBal[from][r] - scaled
    BY <1>3, <1>4
  <1>6. AllowanceUsed(from, r) = amount
    <2>1. allowance \in [Reserves -> [Users -> [Users -> Nat]]]
      BY DEF TypeOK
    <2>2. allowance[r][from][m] \in Nat /\ allowance'[r][from][m] = allowance[r][from][m] - amount
      BY <1>1, <2>1
    <2>3. QED
      BY <1>1, <1>2, <2>2 DEF AllowanceUsed
  <1>7. amount > 0
    <2>1. SUFFICES ASSUME amount = 0 PROVE scaled = 0
      BY <1>2, <1>4, <1>5
    <2>2. RayMul(0, income[r]) = 0
      BY IndexPositive, RayMulZero
    <2>3. RayDiv(RayMul(0, income[r]), income[r]) = 0
      BY IndexPositive, RayRoundTrip
    <2>4. QED
      BY <2>1, <2>2, <2>3
  <1>8. QED
    BY <1>5, <1>6, <1>7

LEMMA TransferFromConsent ==
    ASSUME TypeOK, NEW m \in Users, NEW from \in Users, NEW to \in Users,
           NEW r \in Reserves, NEW amount \in Amounts, TransferFrom(m, from, to, r, amount)
    PROVE  ConsentStep
  <1> DEFINE scaled == RayDiv(amount, income[r])
  <1>1. sender' = m /\ UNCHANGED <<vBal, sBal, borrowAllowance, income>>
    BY DEF TransferFrom, Signed, debtVars, indexVars
  <1>2. amount \in Nat /\ MoveATokens(from, to, r, amount)
    BY AmountsAssumption DEF TransferFrom
  <1>3. /\ \A v \in Users \ {from}, s \in Reserves : aBal'[v][s] >= aBal[v][s]
        /\ \A s \in Reserves \ {r} : aBal'[from][s] = aBal[from][s]
        /\ aBal'[from][r] = aBal[from][r] \/ aBal'[from][r] = aBal[from][r] - scaled
        /\ scaled \in Nat /\ scaled <= aBal[from][r]
    BY <1>2, MoveEntries
  <1>4. SUFFICES ASSUME NEW v \in Users \ {m}, NEW s \in Reserves
                 PROVE  DebtUntouched(v, s) /\ DepositUntouched(v, s)
    BY <1>1 DEF ConsentStep
  <1>5. DebtUntouched(v, s)
    <2>1. /\ borrowAllowance[s]["stable"][v][m] \in Nat
          /\ sBal[v][s] \in Nat /\ vBal[v][s] \in Nat
      BY DEF TypeOK, Modes
    <2>2. CreditUsed(v, s, "stable") = 0
      BY <1>1, <2>1 DEF CreditUsed
    <2>3. QED
      BY <1>1, <2>1, <2>2 DEF DebtUntouched
  <1>6. aBal[v][s] \in Nat
    BY DEF TypeOK
  <1>7. DepositUntouched(v, s)
    <2>1. CASE aBal'[v][s] >= aBal[v][s]
      BY <2>1 DEF DepositUntouched
    <2>2. CASE ~(aBal'[v][s] >= aBal[v][s])
      <3>1. /\ v = from /\ s = r /\ aBal'[from][r] = aBal[from][r] - scaled
            /\ amount > 0 /\ AllowanceUsed(from, r) = amount
        BY <2>2, TransferFromUses
      <3> DEFINE w == aBal'[from][r]
      <3>2. w \in Nat /\ aBal[from][r] = w + scaled
        BY <1>3, <1>6, <3>1
      <3>3. RayMul(w + scaled, income[r]) <=
                RayMul(w, income[r]) + amount + ((income[r] + 2 * RAY) \div (2 * RAY))
        BY <1>2, <3>2, IndexPositive, ConversionStep
      <3>4. BalanceOf(from, r) = RayMul(w + scaled, income[r]) /\ BalanceOf(from, r)' = RayMul(w, income[r])
        BY <1>1, <3>2 DEF BalanceOf
      <3>5. BalanceOf(from, r)' + amount + RoundingDust(r) >= BalanceOf(from, r)
        <4> DEFINE x == RayMul(w + scaled, income[r])
                   y == RayMul(w, income[r])
                   q == (income[r] + 2 * RAY) \div (2 * RAY)
        <4>1. x \in Nat /\ y \in Nat
          <5>1. w + scaled \in Nat /\ income[r] \in Nat
            BY <1>3, <3>2, IndexPositive
          <5>2. QED
            BY <3>2, <5>1, RayMulType
        <4>2. q \in Nat
          <5>1. income[r] + 2 * RAY \in Nat /\ 2 * RAY \in Nat \ {0}
            BY IndexPositive, PrecisionAssumption
          <5>2. QED
            BY <5>1, DivBounds
        <4>3. RoundingDust(r) \in Nat /\ q <= RoundingDust(r)
          BY DustCovers
        <4>4. x <= y + amount + q
          BY <3>3
        <4> HIDE DEF x, y, q
        <4>5. y + amount + RoundingDust(r) >= x
          BY <1>2, <4>1, <4>2, <4>3, <4>4
        <4>6. QED
          BY <3>4, <4>5 DEF x, y
      <3>6. QED
        BY <3>1, <3>5 DEF DepositUntouched
    <2>3. QED
      BY <2>1, <2>2
  <1>8. QED
    BY <1>5, <1>7

\* Operations that leave balances alone: the caller's collateral bit and the caller's grants.
LEMMA OwnChoiceConsent ==
    ASSUME TypeOK, NEW m \in Users, NEW r \in Reserves,
           \/ \E use \in BOOLEAN : SetUserUseReserveAsCollateral(m, r, use)
           \/ \E spender \in Users, amount \in Approvals : Approve(m, spender, r, amount)
           \/ \E delegatee \in Users, mode \in Modes, amount \in Approvals :
                 ApproveDelegation(m, delegatee, r, mode, amount)
    PROVE  ConsentStep
  <1>1. sender' = m /\ UNCHANGED <<aBal, vBal, sBal>>
    BY DEF SetUserUseReserveAsCollateral, Approve, ApproveDelegation, Signed, debtVars
  <1>2. \A v \in Users, s \in Reserves :
            vBal[v][s] \in Nat /\ sBal[v][s] \in Nat /\ aBal[v][s] \in Nat
    BY DEF TypeOK
  <1>3. \A u \in Users \ {m}, s \in Reserves :
            borrowAllowance'[s]["stable"][u][m] = borrowAllowance[s]["stable"][u][m]
    <2>1. CASE borrowAllowance' = borrowAllowance
      BY <2>1
    <2>2. ASSUME NEW delegatee \in Users, NEW mode \in Modes, NEW amount \in Approvals,
                 ApproveDelegation(m, delegatee, r, mode, amount)
          PROVE  \A u \in Users \ {m}, s \in Reserves :
                    borrowAllowance'[s]["stable"][u][m] = borrowAllowance[s]["stable"][u][m]
      <3>1. borrowAllowance \in [Reserves -> [Modes -> [Users -> [Users -> Nat]]]]
        BY DEF TypeOK
      <3>2. borrowAllowance' = [borrowAllowance EXCEPT ![r][mode][m][delegatee] = amount]
        BY <2>2 DEF ApproveDelegation
      <3>3. QED
        BY <3>1, <3>2 DEF Modes
    <2>3. QED
      BY <2>1, <2>2 DEF SetUserUseReserveAsCollateral, Approve, approvalVars
  <1>4. DebtsKept(m) /\ DepositsKept(m)
    BY <1>1, <1>2 DEF DebtsKept, DepositsKept
  <1>5. QED
    BY <1>1, <1>3, <1>4, KeptIsConsent

LEMMA ConsentKept == TypeOK /\ [Next]_vars => [ConsentStep]_vars
  <1> SUFFICES ASSUME TypeOK, Next PROVE ConsentStep
    OBVIOUS
  <1>1. ASSUME NEW m \in Users, NEW r \in Reserves, UserStep(m, r)
        PROVE  ConsentStep
    <2>1. CASE \/ \E u \in Users, amount \in Amounts : Deposit(m, u, r, amount)
               \/ \E amount \in AmountsOrMax : Withdraw(m, r, amount)
      BY <2>1, OwnMoneyConsent
    <2>2. CASE \E u \in Users, amount \in Amounts, mode \in Modes :
                  Borrow(m, u, r, amount, mode)
      BY <2>2, BorrowConsent
    <2>3. CASE \E u \in Users, amount \in AmountsOrMax, mode \in Modes :
                  Repay(m, u, r, amount, mode)
      BY <2>3, RepayConsent
    <2>4. CASE \E mode \in Modes : SwapBorrowRateMode(m, r, mode)
      BY <2>4, SwapConsent
    <2>5. CASE \E u \in Users, d \in Reserves, cover \in AmountsOrMax, receiveAToken \in BOOLEAN :
                  LiquidationCall(m, u, r, d, cover, receiveAToken)
      BY <2>5, LiquidationConsent
    <2>6. CASE \E to \in Users, amount \in Amounts : Transfer(m, to, r, amount)
      BY <2>6, TransferConsent
    <2>7. CASE \E from, to \in Users, amount \in Amounts : TransferFrom(m, from, to, r, amount)
      BY <2>7, TransferFromConsent
    <2>8. CASE \/ \E use \in BOOLEAN : SetUserUseReserveAsCollateral(m, r, use)
               \/ \E spender \in Users, amount \in Approvals : Approve(m, spender, r, amount)
               \/ \E delegatee \in Users, mode \in Modes, amount \in Approvals :
                     ApproveDelegation(m, delegatee, r, mode, amount)
      BY <2>8, OwnChoiceConsent
    <2>9. QED
      BY <1>1, <2>1, <2>2, <2>3, <2>4, <2>5, <2>6, <2>7, <2>8 DEF UserStep
  <1>2. ASSUME sender' = Environment
        PROVE  ConsentStep
    BY <1>2, TreasuryAssumption DEF ConsentStep, UserSigned
  <1>3. ASSUME NEW r \in Reserves, EnvironmentStep(r)
        PROVE  ConsentStep
    BY <1>2, <1>3 DEF EnvironmentStep, SetConfiguration, SetPrice, Accrue, Signed
  <1>4. ASSUME NEW p \in BOOLEAN, SetPause(p)
        PROVE  ConsentStep
    BY <1>2, <1>4 DEF SetPause, Signed
  <1>5. QED
    BY <1>1, <1>3, <1>4 DEF Next

(***************************************************************************)
(* Nobody adds to what another user owes, or takes what another user has      *)
(* deposited, without using up an allowance of that user for as much, up to     *)
(* the rounding of one conversion; liquidations take from unhealthy users only   *)
(* and pay off some of their debt.                                                *)
(***************************************************************************)
THEOREM ConsentNeeded == Spec => OnlyWithConsent
  <1>1. Init => TypeOK
    BY TypeInit
  <1>2. TypeOK /\ [Next]_vars => TypeOK'
    BY TypeStep
  <1>3. TypeOK /\ [Next]_vars => [ConsentStep]_vars
    BY ConsentKept
  <1>4. OnlyWithConsent <=> [][ConsentStep]_vars
    BY DEF OnlyWithConsent, ConsentStep
  <1>5. QED
    BY <1>1, <1>2, <1>3, <1>4, PTL DEF Spec

-----------------------------------------------------------------------------
(***************************************************************************)
(* Sums over the users: what one entry more or less does to the column of a  *)
(* reserve.                                                                   *)
(***************************************************************************)
Column(b, r) == [u \in Users |-> b[u][r]]
Sum(b, r) == SumFunctionOnSet(Column(b, r), Users)

LEMMA SumType ==
    ASSUME NEW b \in Tables, NEW r \in Reserves
    PROVE  Sum(b, r) \in Nat
  <1>1. \A u \in Users : Column(b, r)[u] \in Nat
    BY DEF Column, Tables
  <1>2. QED
    BY <1>1, UsersAssumption, SumNat DEF Sum

\* A table that differs in one row.
LEMMA RowMoved ==
    ASSUME NEW b \in Tables, NEW c \in Tables, NEW u \in Users, NEW r \in Reserves,
           \A v \in Users \ {u} : c[v][r] = b[v][r]
    PROVE  Sum(c, r) = Sum(b, r) + (c[u][r] - b[u][r])
  <1>1. \A v \in Users : Column(b, r)[v] \in Int /\ Column(c, r)[v] \in Int
    BY DEF Column, Tables
  <1>2. \A v \in Users \ {u} : Column(c, r)[v] = Column(b, r)[v]
    BY DEF Column
  <1>3. Sum(c, r) = Sum(b, r) + (Column(c, r)[u] - Column(b, r)[u])
    BY <1>1, <1>2, UsersAssumption, SumOneMoved DEF Sum
  <1>4. QED
    BY <1>3 DEF Column

LEMMA PlusSum ==
    ASSUME NEW b \in Tables, NEW u \in Users, NEW r \in Reserves, NEW x \in Nat,
           NEW s \in Reserves
    PROVE  Sum(Plus(b, u, r, x), s) = Sum(b, s) + (IF s = r THEN x ELSE 0)
  <1>1. /\ Plus(b, u, r, x) \in Tables
        /\ \A v \in Users \ {u} : Plus(b, u, r, x)[v][s] = b[v][s]
        /\ Plus(b, u, r, x)[u][s] = b[u][s] + (IF s = r THEN x ELSE 0)
        /\ b[u][s] \in Nat
    <2>1. Plus(b, u, r, x)[u][s] = IF s = r THEN b[u][r] + x ELSE b[u][s]
      BY PlusTable
    <2>2. b[u][s] \in Nat
      BY TableEntry
    <2>3. QED
      BY <2>1, <2>2, PlusTable
  <1>2. Sum(Plus(b, u, r, x), s) = Sum(b, s) + (Plus(b, u, r, x)[u][s] - b[u][s])
    BY <1>1, RowMoved
  <1>3. QED
    BY <1>1, <1>2, SumType

LEMMA MinusSum ==
    ASSUME NEW b \in Tables, NEW u \in Users, NEW r \in Reserves, NEW x \in Nat, x <= b[u][r],
           NEW s \in Reserves
    PROVE  Sum(Minus(b, u, r, x), s) = Sum(b, s) - (IF s = r THEN x ELSE 0)
  <1>1. /\ Minus(b, u, r, x) \in Tables
        /\ \A v \in Users \ {u} : Minus(b, u, r, x)[v][s] = b[v][s]
        /\ Minus(b, u, r, x)[u][s] = b[u][s] - (IF s = r THEN x ELSE 0)
        /\ b[u][s] \in Nat
    <2>1. Minus(b, u, r, x)[u][s] = IF s = r THEN b[u][r] - x ELSE b[u][s]
      BY MinusTable
    <2>2. b[u][s] \in Nat
      BY TableEntry
    <2>3. QED
      BY <2>1, <2>2, MinusTable
  <1>2. Sum(Minus(b, u, r, x), s) = Sum(b, s) + (Minus(b, u, r, x)[u][s] - b[u][s])
    BY <1>1, RowMoved
  <1>3. QED
    BY <1>1, <1>2, SumType

\* The treasury's share of one reserve, in scaled tokens.
Share(r) == RayDiv(toTreasury[r], income[r])

LEMMA ShareType ==
    ASSUME TypeOK, NEW r \in Reserves
    PROVE  Share(r) \in Nat
  BY IndexPositive, RayDivType DEF Share, TypeOK

LEMMA MintedEntries ==
    ASSUME TypeOK, NEW rs, NEW r \in Reserves
    PROVE  /\ \A v \in Users \ {Treasury} : Minted(rs)[v][r] = aBal[v][r]
           /\ Minted(rs)[Treasury][r] = aBal[Treasury][r] + (IF r \in rs THEN Share(r) ELSE 0)
  <1>1. aBal \in [Users -> [Reserves -> Nat]] /\ Treasury \in Users
    BY TreasuryAssumption DEF TypeOK
  <1>2. QED
    BY <1>1 DEF Minted, Share

LEMMA MintedSum ==
    ASSUME TypeOK, NEW rs, NEW r \in Reserves
    PROVE  Sum(Minted(rs), r) = Sum(aBal, r) + (IF r \in rs THEN Share(r) ELSE 0)
  <1>1. aBal \in Tables /\ Minted(rs) \in Tables /\ Treasury \in Users
    BY MintedTable, TreasuryAssumption DEF TypeOK, Tables
  <1>2. Sum(Minted(rs), r) = Sum(aBal, r) + (Minted(rs)[Treasury][r] - aBal[Treasury][r])
    BY <1>1, MintedEntries, RowMoved
  <1>3. /\ aBal[Treasury][r] \in Nat /\ Share(r) \in Nat
        /\ Minted(rs)[Treasury][r] = aBal[Treasury][r] + (IF r \in rs THEN Share(r) ELSE 0)
    BY <1>1, TableEntry, ShareType, MintedEntries
  <1>4. QED
    BY <1>1, <1>2, <1>3, SumType

\* Entry by entry less is less in the sum.
LEMMA SumFewer ==
    ASSUME NEW b \in Tables, NEW c \in Tables, NEW r \in Reserves,
           \A u \in Users : c[u][r] <= b[u][r]
    PROVE  Sum(c, r) <= Sum(b, r)
  <1>1. \A u \in Users : /\ Column(c, r)[u] \in Int /\ Column(b, r)[u] \in Int
                         /\ Column(c, r)[u] <= Column(b, r)[u]
    BY DEF Column, Tables
  <1>2. QED
    BY <1>1, UsersAssumption, SumMonotone DEF Sum

FrozenStep ==
    \A r \in Reserves : UserSigned /\ config[r].frozen =>
        /\ Sum(vBal', r) <= Sum(vBal, r)
        /\ Sum(sBal', r) <= Sum(sBal, r)
        /\ Sum(aBal', r) <= Sum(aBal, r) + Share(r)

LEMMA FrozenStepMeans ==
    FrozenStep <=>
        \A r \in Reserves : UserSigned /\ config[r].frozen =>
            /\ Total(LAMBDA u, s : vBal'[u][s], r) <= Total(LAMBDA u, s : vBal[u][s], r)
            /\ Total(LAMBDA u, s : sBal'[u][s], r) <= Total(LAMBDA u, s : sBal[u][s], r)
            /\ Total(LAMBDA u, s : aBal'[u][s], r) <=
                   Total(LAMBDA u, s : aBal[u][s], r) + RayDiv(toTreasury[r], income[r])
  BY DEF FrozenStep, Total, Sum, Column, Share

\* What leaves one account for another leaves the sum alone.
LEMMA MovedSum ==
    ASSUME NEW b \in Tables, NEW u \in Users, NEW v \in Users, NEW r \in Reserves,
           NEW x \in Nat, x <= b[u][r], NEW s \in Reserves
    PROVE  Sum(Plus(Minus(b, u, r, x), v, r, x), s) = Sum(b, s)
  <1>1. Minus(b, u, r, x) \in Tables
    BY MinusTable
  <1>2. Sum(Minus(b, u, r, x), s) = Sum(b, s) - (IF s = r THEN x ELSE 0)
    BY MinusSum
  <1>3. Sum(Plus(Minus(b, u, r, x), v, r, x), s) =
            Sum(Minus(b, u, r, x), s) + (IF s = r THEN x ELSE 0)
    BY <1>1, PlusSum
  <1>4. Sum(b, s) \in Nat
    BY SumType
  <1>5. QED
    BY <1>2, <1>3, <1>4

\* Once the treasury's share is minted, deposits that only leave or move stay below it.
LEMMA MintedCeiling ==
    ASSUME TypeOK, NEW rs, NEW s \in Reserves
    PROVE  /\ Sum(Minted(rs), s) <= Sum(aBal, s) + Share(s)
           /\ \A u, v \in Users, r \in Reserves, x \in Nat : x <= Minted(rs)[u][r] =>
                /\ Sum(Minus(Minted(rs), u, r, x), s) <= Sum(aBal, s) + Share(s)
                /\ Sum(Plus(Minus(Minted(rs), u, r, x), v, r, x), s) <= Sum(aBal, s) + Share(s)
  <1> DEFINE b == Minted(rs)
  <1>1. b \in Tables /\ aBal \in Tables
    BY MintedTable DEF TypeOK, Tables
  <1>2. Sum(aBal, s) \in Nat /\ Share(s) \in Nat
    BY <1>1, SumType, ShareType
  <1>3. Sum(b, s) = Sum(aBal, s) + (IF s \in rs THEN Share(s) ELSE 0)
    BY MintedSum
  <1>4. Sum(b, s) <= Sum(aBal, s) + Share(s) /\ Sum(b, s) \in Nat
    BY <1>2, <1>3
  <1> HIDE DEF b
  <1>5. ASSUME NEW u \in Users, NEW v \in Users, NEW r \in Reserves, NEW x \in Nat, x <= b[u][r]
        PROVE  /\ Sum(Minus(b, u, r, x), s) <= Sum(aBal, s) + Share(s)
               /\ Sum(Plus(Minus(b, u, r, x), v, r, x), s) <= Sum(aBal, s) + Share(s)
    <2>1. Sum(Minus(b, u, r, x), s) = Sum(b, s) - (IF s = r THEN x ELSE 0)
      BY <1>1, <1>5, MinusSum
    <2>2. Sum(Plus(Minus(b, u, r, x), v, r, x), s) = Sum(b, s)
      BY <1>1, <1>5, MovedSum
    <2>3. QED
      BY <1>2, <1>4, <2>1, <2>2
  <1>6. QED
    BY <1>4, <1>5 DEF b

\* Steps that mint no debt and no deposits beyond the treasury's share.
LEMMA LessIsFrozen ==
    ASSUME TypeOK, vBal' \in Tables, sBal' \in Tables,
           \A v \in Users, s \in Reserves :
               vBal'[v][s] <= vBal[v][s] /\ sBal'[v][s] <= sBal[v][s],
           \A s \in Reserves : Sum(aBal', s) <= Sum(aBal, s) + Share(s)
    PROVE  FrozenStep
  <1>1. vBal \in Tables /\ sBal \in Tables
    BY DEF TypeOK, Tables
  <1>2. \A s \in Reserves : Sum(vBal', s) <= Sum(vBal, s) /\ Sum(sBal', s) <= Sum(sBal, s)
    BY <1>1, SumFewer
  <1>3. QED
    BY <1>2 DEF FrozenStep

\* Steps that leave a table of debts as it was.
LEMMA NoMore ==
    ASSUME TypeOK
    PROVE  /\ vBal \in Tables /\ sBal \in Tables /\ aBal \in Tables
           /\ \A v \in Users, s \in Reserves :
                vBal[v][s] <= vBal[v][s] /\ sBal[v][s] <= sBal[v][s]
           /\ \A s \in Reserves : /\ Sum(vBal, s) <= Sum(vBal, s) /\ Sum(sBal, s) <= Sum(sBal, s)
                                  /\ Sum(aBal, s) <= Sum(aBal, s) + Share(s)
  <1>1. vBal \in Tables /\ sBal \in Tables /\ aBal \in Tables
    BY DEF TypeOK, Tables
  <1>2. \A v \in Users, s \in Reserves : vBal[v][s] \in Nat /\ sBal[v][s] \in Nat
    BY <1>1, TableEntry
  <1>3. \A s \in Reserves : /\ Sum(vBal, s) \in Nat /\ Sum(sBal, s) \in Nat
                            /\ Sum(aBal, s) \in Nat /\ Share(s) \in Nat
    BY <1>1, SumType, ShareType
  <1>4. QED
    BY <1>1, <1>2, <1>3

LEMMA DepositFrozen ==
    ASSUME TypeOK, NEW m \in Users, NEW u \in Users, NEW r \in Reserves,
           NEW amount \in Amounts, Deposit(m, u, r, amount)
    PROVE  FrozenStep
  <1> DEFINE scaled == RayDiv(amount, income[r])
  <1>1. scaled \in Nat
    BY AmountsAssumption, IndexPositive, RayDivType
  <1>2. aBal' = Plus(Minted({r}), u, r, scaled) /\ UNCHANGED <<vBal, sBal>> /\ ~config[r].frozen
    BY DEF Deposit, debtVars, ValidateDeposit
  <1> HIDE DEF scaled
  <1>3. SUFFICES ASSUME NEW s \in Reserves, s # r
                 PROVE  Sum(aBal', s) <= Sum(aBal, s) + Share(s)
    BY <1>2, NoMore DEF FrozenStep
  <1>4. Sum(aBal', s) = Sum(Minted({r}), s) + (IF s = r THEN scaled ELSE 0)
    BY <1>1, <1>2, MintedTable, PlusSum
  <1>5. Sum(Minted({r}), s) \in Nat
    BY MintedTable, SumType
  <1>6. QED
    BY <1>3, <1>4, <1>5, MintedCeiling

LEMMA WithdrawFrozen ==
    ASSUME TypeOK, NEW m \in Users, NEW r \in Reserves,
           NEW asked \in AmountsOrMax, Withdraw(m, r, asked)
    PROVE  FrozenStep
  <1> DEFINE amount  == IF asked = MaxUint THEN BalanceOf(m, r) ELSE asked
             scaled  == RayDiv(amount, income[r])
  <1>1. amount \in Nat
    BY BalanceTypes, AmountsAssumption DEF AmountsOrMax
  <1>2. scaled \in Nat
    BY <1>1, IndexPositive, RayDivType
  <1>3. /\ scaled <= Minted({r})[m][r] /\ aBal' = Minus(Minted({r}), m, r, scaled)
        /\ UNCHANGED <<vBal, sBal>>
    BY DEF Withdraw, debtVars
  <1> HIDE DEF scaled
  <1>4. \A s \in Reserves : Sum(aBal', s) <= Sum(aBal, s) + Share(s)
    BY <1>2, <1>3, MintedCeiling
  <1>5. QED
    BY <1>3, <1>4, NoMore, LessIsFrozen

\* A debt is drawn in the reserve that is borrowed from, which is not frozen.
LEMMA BorrowFrozen ==
    ASSUME TypeOK, NEW m \in Users, NEW u \in Users, NEW r \in Reserves,
           NEW amount \in Amounts, NEW mode \in Modes, Borrow(m, u, r, amount, mode)
    PROVE  FrozenStep
  <1> DEFINE scaled == RayDiv(amount, debtIndex[r])
  <1>1. amount \in Nat /\ scaled \in Nat
    BY AmountsAssumption, IndexPositive, RayDivType
  <1>2. /\ aBal' = Minted({r}) /\ ~config[r].frozen
        /\ \/ vBal' = Plus(vBal, u, r, scaled) /\ UNCHANGED sBal
           \/ sBal' = Plus(sBal, u, r, amount) /\ UNCHANGED vBal
    BY DEF Borrow, ValidateBorrow, BorrowVariable, BorrowStable
  <1> HIDE DEF scaled
  <1>3. SUFFICES ASSUME NEW s \in Reserves, s # r
                 PROVE  /\ Sum(vBal', s) <= Sum(vBal, s)
                        /\ Sum(sBal', s) <= Sum(sBal, s)
                        /\ Sum(aBal', s) <= Sum(aBal, s) + Share(s)
    BY <1>2 DEF FrozenStep
  <1>4. Sum(aBal', s) <= Sum(aBal, s) + Share(s)
    BY <1>2, MintedCeiling
  <1>5. /\ vBal \in Tables /\ sBal \in Tables
        /\ Sum(vBal, s) \in Nat /\ Sum(sBal, s) \in Nat
    BY NoMore, SumType
  <1>6. CASE vBal' = Plus(vBal, u, r, scaled) /\ UNCHANGED sBal
    <2>1. Sum(vBal', s) = Sum(vBal, s) + (IF s = r THEN scaled ELSE 0)
      BY <1>1, <1>5, <1>6, PlusSum
    <2>2. QED
      BY <1>3, <1>4, <1>5, <1>6, <2>1
  <1>7. CASE sBal' = Plus(sBal, u, r, amount) /\ UNCHANGED vBal
    <2>1. Sum(sBal', s) = Sum(sBal, s) + (IF s = r THEN amount ELSE 0)
      BY <1>1, <1>5, <1>7, PlusSum
    <2>2. QED
      BY <1>3, <1>4, <1>5, <1>7, <2>1
  <1>8. QED
    BY <1>2, <1>6, <1>7

LEMMA RepayFrozen ==
    ASSUME TypeOK, NEW m \in Users, NEW u \in Users, NEW r \in Reserves,
           NEW sent \in AmountsOrMax, NEW mode \in Modes, Repay(m, u, r, sent, mode)
    PROVE  FrozenStep
  <1> DEFINE paid   == Least(sent, DebtOf(u, r, mode))
             scaled == RayDiv(paid, debtIndex[r])
  <1>1. sent \in Nat /\ DebtOf(u, r, mode) \in Nat
    BY BalanceTypes, AmountsAssumption, MaxUintAssumption DEF AmountsOrMax
  <1>2. paid \in Nat /\ paid <= DebtOf(u, r, mode)
    BY <1>1 DEF Least
  <1>3. scaled \in Nat
    BY <1>2, IndexPositive, RayDivType
  <1>4. /\ aBal' = Minted({r})
        /\ \/ mode = "stable" /\ sBal' = Minus(sBal, u, r, paid) /\ UNCHANGED vBal
           \/ scaled <= vBal[u][r] /\ vBal' = Minus(vBal, u, r, scaled) /\ UNCHANGED sBal
    BY DEF Repay
  <1> HIDE DEF scaled, paid
  <1>5. \A s \in Reserves : Sum(aBal', s) <= Sum(aBal, s) + Share(s)
    BY <1>4, MintedCeiling
  <1>6. CASE mode = "stable" /\ sBal' = Minus(sBal, u, r, paid) /\ UNCHANGED vBal
    <2>1. paid <= sBal[u][r]
      BY <1>2, <1>6 DEF DebtOf, StableDebt
    <2>2. /\ sBal' \in Tables
          /\ \A v \in Users, s \in Reserves : sBal'[v][s] <= sBal[v][s]
      BY <1>2, <1>6, <2>1, NoMore, MinusTable
    <2>3. QED
      BY <1>5, <1>6, <2>2, NoMore, LessIsFrozen
  <1>7. CASE scaled <= vBal[u][r] /\ vBal' = Minus(vBal, u, r, scaled) /\ UNCHANGED sBal
    <2>1. /\ vBal' \in Tables
          /\ \A v \in Users, s \in Reserves : vBal'[v][s] <= vBal[v][s]
      BY <1>3, <1>7, NoMore, MinusTable
    <2>2. QED
      BY <1>5, <1>7, <2>1, NoMore, LessIsFrozen
  <1>8. QED
    BY <1>4, <1>6, <1>7

\* A swap moves debt within a reserve that is not frozen.
LEMMA SwapFrozen ==
    ASSUME TypeOK, NEW m \in Users, NEW r \in Reserves, NEW mode \in Modes,
           SwapBorrowRateMode(m, r, mode)
    PROVE  FrozenStep
  <1> DEFINE stable   == StableDebt(m, r)
             variable == VariableDebt(m, r)
             scaledIn == RayDiv(stable, debtIndex[r])
             scaled   == RayDiv(variable, debtIndex[r])
  <1>1. stable \in Nat /\ variable \in Nat /\ scaledIn \in Nat /\ scaled \in Nat
    BY BalanceTypes, IndexPositive, RayDivType
  <1>2. /\ aBal' = Minted({r}) /\ ~config[r].frozen
        /\ \/ sBal' = Minus(sBal, m, r, stable) /\ vBal' = Plus(vBal, m, r, scaledIn)
           \/ /\ scaled <= vBal[m][r]
              /\ vBal' = Minus(vBal, m, r, scaled) /\ sBal' = Plus(sBal, m, r, variable)
    BY DEF SwapBorrowRateMode, ValidateSwapRateMode
  <1>3. vBal \in Tables /\ sBal \in Tables /\ stable <= sBal[m][r]
    BY <1>1, NoMore DEF StableDebt
  <1> HIDE DEF stable, variable, scaledIn, scaled
  <1>4. SUFFICES ASSUME NEW s \in Reserves, s # r
                 PROVE  /\ Sum(vBal', s) <= Sum(vBal, s)
                        /\ Sum(sBal', s) <= Sum(sBal, s)
                        /\ Sum(aBal', s) <= Sum(aBal, s) + Share(s)
    BY <1>2 DEF FrozenStep
  <1>5. Sum(aBal', s) <= Sum(aBal, s) + Share(s)
    BY <1>2, MintedCeiling
  <1>6. Sum(vBal, s) \in Nat /\ Sum(sBal, s) \in Nat
    BY <1>3, SumType
  <1>7. CASE sBal' = Minus(sBal, m, r, stable) /\ vBal' = Plus(vBal, m, r, scaledIn)
    <2>1. Sum(sBal', s) = Sum(sBal, s) - (IF s = r THEN stable ELSE 0)
      BY <1>1, <1>3, <1>7, MinusSum
    <2>2. Sum(vBal', s) = Sum(vBal, s) + (IF s = r THEN scaledIn ELSE 0)
      BY <1>1, <1>3, <1>7, PlusSum
    <2>3. QED
      BY <1>4, <1>5, <1>6, <2>1, <2>2
  <1>8. CASE /\ scaled <= vBal[m][r]
             /\ vBal' = Minus(vBal, m, r, scaled) /\ sBal' = Plus(sBal, m, r, variable)
    <2>1. Sum(vBal', s) = Sum(vBal, s) - (IF s = r THEN scaled ELSE 0)
      BY <1>1, <1>3, <1>8, MinusSum
    <2>2. Sum(sBal', s) = Sum(sBal, s) + (IF s = r THEN variable ELSE 0)
      BY <1>1, <1>3, <1>8, PlusSum
    <2>3. QED
      BY <1>4, <1>5, <1>6, <2>1, <2>2
  <1>9. QED
    BY <1>2, <1>7, <1>8

LEMMA LiquidationFrozen ==
    ASSUME TypeOK, NEW m \in Users, NEW u \in Users, NEW c \in Reserves, NEW d \in Reserves,
           NEW cover \in AmountsOrMax, NEW receiveAToken \in BOOLEAN,
           LiquidationCall(m, u, c, d, cover, receiveAToken)
    PROVE  FrozenStep
  <1> DEFINE amounts == LiquidationAmounts(u, c, d, cover)
             minted  == Minted(IF receiveAToken THEN {d} ELSE {c, d})
             scaled  == RayDiv(amounts.seized, income[c])
  <1>1. cover \in Nat
    BY AmountsAssumption, MaxUintAssumption DEF AmountsOrMax
  <1>2. /\ amounts.repaid \in Nat /\ amounts.repaid <= TotalDebt(u, d)
        /\ amounts.seized \in Nat
    BY <1>1, LiquidationAmountsBound
  <1>3. /\ BurnDebt(u, d, amounts.repaid)
        /\ scaled <= minted[u][c]
        /\ \/ aBal' = Plus(Minus(minted, u, c, scaled), m, c, scaled)
           \/ aBal' = Minus(minted, u, c, scaled)
    BY DEF LiquidationCall
  <1>4. scaled \in Nat
    BY <1>2, IndexPositive, RayDivType
  <1>5. /\ vBal' \in Tables /\ sBal' \in Tables
        /\ \A v \in Users, s \in Reserves :
             vBal'[v][s] <= vBal[v][s] /\ sBal'[v][s] <= sBal[v][s]
    BY <1>2, <1>3, BurnDebtTables
  <1> HIDE DEF amounts, scaled
  <1>6. \A s \in Reserves : Sum(aBal', s) <= Sum(aBal, s) + Share(s)
    BY <1>3, <1>4, MintedCeiling
  <1>7. QED
    BY <1>5, <1>6, LessIsFrozen

LEMMA MoveFrozen ==
    ASSUME TypeOK, NEW from \in Users, NEW to \in Users, NEW r \in Reserves,
           NEW amount \in Nat, MoveATokens(from, to, r, amount), UNCHANGED <<vBal, sBal>>
    PROVE  FrozenStep
  <1> DEFINE scaled == RayDiv(amount, income[r])
  <1>1. scaled \in Nat
    BY IndexPositive, RayDivType
  <1>2. /\ scaled <= aBal[from][r]
        /\ aBal' = Plus(Minus(aBal, from, r, scaled), to, r, scaled)
    BY DEF MoveATokens
  <1> HIDE DEF scaled
  <1>3. \A s \in Reserves : Sum(aBal', s) = Sum(aBal, s)
    BY <1>1, <1>2, NoMore, MovedSum
  <1>4. \A s \in Reserves : Sum(aBal', s) <= Sum(aBal, s) + Share(s)
    BY <1>3, NoMore
  <1>5. QED
    BY <1>4, NoMore, LessIsFrozen

LEMMA FrozenKept == TypeOK /\ [Next]_vars => [FrozenStep]_vars
  <1> SUFFICES ASSUME TypeOK, Next PROVE FrozenStep
    OBVIOUS
  <1>1. ASSUME UNCHANGED <<aBal, vBal, sBal>>
        PROVE  FrozenStep
    BY <1>1, NoMore DEF FrozenStep
  <1>2. ASSUME NEW m \in Users, NEW r \in Reserves, UserStep(m, r)
        PROVE  FrozenStep
    <2>1. CASE \E u \in Users, amount \in Amounts : Deposit(m, u, r, amount)
      BY <2>1, DepositFrozen
    <2>2. CASE \E amount \in AmountsOrMax : Withdraw(m, r, amount)
      BY <2>2, WithdrawFrozen
    <2>3. CASE \E u \in Users, amount \in Amounts, mode \in Modes :
                  Borrow(m, u, r, amount, mode)
      BY <2>3, BorrowFrozen
    <2>4. CASE \E u \in Users, amount \in AmountsOrMax, mode \in Modes :
                  Repay(m, u, r, amount, mode)
      BY <2>4, RepayFrozen
    <2>5. CASE \E mode \in Modes : SwapBorrowRateMode(m, r, mode)
      BY <2>5, SwapFrozen
    <2>6. CASE \E u \in Users, d \in Reserves, cover \in AmountsOrMax, receiveAToken \in BOOLEAN :
                  LiquidationCall(m, u, r, d, cover, receiveAToken)
      BY <2>6, LiquidationFrozen
    <2>7. CASE \/ \E to \in Users, amount \in Amounts : Transfer(m, to, r, amount)
               \/ \E from, to \in Users, amount \in Amounts : TransferFrom(m, from, to, r, amount)
      BY <2>7, MoveFrozen, AmountsAssumption DEF Transfer, TransferFrom, debtVars
    <2>8. CASE \/ \E use \in BOOLEAN : SetUserUseReserveAsCollateral(m, r, use)
               \/ \E spender \in Users, amount \in Approvals : Approve(m, spender, r, amount)
               \/ \E delegatee \in Users, mode \in Modes, amount \in Approvals :
                     ApproveDelegation(m, delegatee, r, mode, amount)
      BY <1>1, <2>8 DEF SetUserUseReserveAsCollateral, Approve, ApproveDelegation, debtVars
    <2>9. QED
      BY <1>2, <2>1, <2>2, <2>3, <2>4, <2>5, <2>6, <2>7, <2>8 DEF UserStep
  <1>3. ASSUME sender' = Environment
        PROVE  FrozenStep
    BY <1>3, TreasuryAssumption DEF FrozenStep, UserSigned
  <1>4. ASSUME NEW r \in Reserves, EnvironmentStep(r)
        PROVE  FrozenStep
    BY <1>3, <1>4 DEF EnvironmentStep, SetConfiguration, SetPrice, Accrue, Signed
  <1>5. ASSUME NEW p \in BOOLEAN, SetPause(p)
        PROVE  FrozenStep
    BY <1>3, <1>5 DEF SetPause, Signed
  <1>6. QED
    BY <1>2, <1>4, <1>5 DEF Next

(***************************************************************************)
(* A frozen reserve only winds down: no transaction adds to what its users    *)
(* owe, of either kind, or to their deposits beyond the treasury's share.       *)
(***************************************************************************)
THEOREM FrozenOnlyShrinks == Spec => FrozenWindsDown
  <1>1. Init => TypeOK
    BY TypeInit
  <1>2. TypeOK /\ [Next]_vars => TypeOK'
    BY TypeStep
  <1>3. TypeOK /\ [Next]_vars => [FrozenStep]_vars
    BY FrozenKept
  <1>4. FrozenWindsDown <=> [][FrozenStep]_vars
    BY FrozenStepMeans, PTL DEF FrozenWindsDown
  <1>5. QED
    BY <1>1, <1>2, <1>3, <1>4, PTL DEF Spec

-----------------------------------------------------------------------------
(***************************************************************************)
(* The books balance: what one change of a scaled balance does to the sum of  *)
(* the readings of a reserve.                                                   *)
(***************************************************************************)
Deposited(b) == [u \in Users |-> [r \in Reserves |-> RayMul(b[u][r], income[r])]]
Debts(v, s) == [u \in Users |-> [r \in Reserves |-> s[u][r] + RayMul(v[u][r], debtIndex[r])]]

Within(x, y, e) == x <= y + e /\ y <= x + e

\* Tokens of r, when the change is one of r.
Only(s, r, x) == IF s = r THEN x ELSE 0

LEMMA OnlyType ==
    ASSUME NEW s, NEW r, NEW x \in Nat
    PROVE  Only(s, r, x) \in Nat
  BY DEF Only

\* One change of a scaled balance moves its reading by the amount, up to the dust.
LEMMA ReadingMoves ==
    ASSUME TypeOK, NEW r \in Reserves, NEW w \in Nat, NEW amount \in Nat,
           NEW i \in {income[r], debtIndex[r]}
    PROVE  /\ RayDiv(amount, i) \in Nat
           /\ RayMul(w, i) \in Nat
           /\ RayMul(w + RayDiv(amount, i), i) \in Nat
           /\ Within(RayMul(w + RayDiv(amount, i), i), RayMul(w, i) + amount, RoundingDust(r))
  <1> DEFINE q == (i + 2 * RAY) \div (2 * RAY)
             x == RayMul(w + RayDiv(amount, i), i)
             y == RayMul(w, i)
  <1>1. i \in Nat \ {0}
    BY IndexPositive
  <1>2. RayDiv(amount, i) \in Nat /\ y \in Nat
    BY <1>1, RayDivType, RayMulType
  <1>3. w + RayDiv(amount, i) \in Nat
    BY <1>2
  <1>4. x \in Nat
    BY <1>1, <1>3, RayMulType
  <1>5. q \in Nat /\ q <= RoundingDust(r) /\ RoundingDust(r) \in Nat
    <2>1. i + 2 * RAY \in Nat /\ 2 * RAY \in Nat \ {0}
      BY <1>1, PrecisionAssumption
    <2>2. q \in Nat
      BY <2>1, DivBounds
    <2>3. QED
      BY <2>2, DustCovers
  <1>6. x <= y + amount + q
    BY <1>1, ConversionStep
  <1>7. y + amount <= x + q
    BY <1>1, ConversionStepBack
  <1> HIDE DEF x, y, q
  <1>8. Within(x, y + amount, RoundingDust(r))
    BY <1>2, <1>4, <1>5, <1>6, <1>7 DEF Within
  <1>9. QED
    BY <1>2, <1>4, <1>8 DEF x, y

LEMMA DepositedTable ==
    ASSUME TypeOK, NEW b \in Tables
    PROVE  /\ Deposited(b) \in Tables
           /\ \A u \in Users, r \in Reserves : Deposited(b)[u][r] = RayMul(b[u][r], income[r])
           /\ \A r \in Reserves : Sum(Deposited(b), r) \in Nat
  <1>1. \A u \in Users, r \in Reserves : RayMul(b[u][r], income[r]) \in Nat
    BY TableEntry, IndexPositive, RayMulType
  <1>2. Deposited(b) \in Tables
    BY <1>1 DEF Deposited, Tables
  <1>3. QED
    BY <1>2, SumType DEF Deposited

LEMMA DebtsTable ==
    ASSUME TypeOK, NEW v \in Tables, NEW s \in Tables
    PROVE  /\ Debts(v, s) \in Tables
           /\ \A u \in Users, r \in Reserves :
                Debts(v, s)[u][r] = s[u][r] + RayMul(v[u][r], debtIndex[r])
           /\ \A r \in Reserves : Sum(Debts(v, s), r) \in Nat
  <1>1. \A u \in Users, r \in Reserves :
            RayMul(v[u][r], debtIndex[r]) \in Nat /\ s[u][r] \in Nat
    BY TableEntry, IndexPositive, RayMulType
  <1>2. \A u \in Users, r \in Reserves : s[u][r] + RayMul(v[u][r], debtIndex[r]) \in Nat
    BY <1>1
  <1>3. Debts(v, s) \in Tables
    BY <1>2 DEF Debts, Tables
  <1>4. QED
    BY <1>3, SumType DEF Debts

\* Deposits with one row moved: the sum moves as the row does.
LEMMA DepositedRow ==
    ASSUME TypeOK, NEW b \in Tables, NEW c \in Tables, NEW u \in Users, NEW r \in Reserves,
           \A v \in Users \ {u} : c[v][r] = b[v][r]
    PROVE  Sum(Deposited(c), r) =
               Sum(Deposited(b), r) + (RayMul(c[u][r], income[r]) - RayMul(b[u][r], income[r]))
  <1>1. \A v \in Users \ {u} : Deposited(c)[v][r] = Deposited(b)[v][r]
    BY DepositedTable
  <1>2. Sum(Deposited(c), r) = Sum(Deposited(b), r) + (Deposited(c)[u][r] - Deposited(b)[u][r])
    BY <1>1, DepositedTable, RowMoved
  <1>3. QED
    BY <1>2, DepositedTable

LEMMA DebtsRow ==
    ASSUME TypeOK, NEW v \in Tables, NEW s \in Tables, NEW w \in Tables, NEW t \in Tables,
           NEW u \in Users, NEW r \in Reserves,
           \A x \in Users \ {u} : w[x][r] = v[x][r] /\ t[x][r] = s[x][r]
    PROVE  Sum(Debts(w, t), r) =
               Sum(Debts(v, s), r) + ((t[u][r] + RayMul(w[u][r], debtIndex[r]))
                                        - (s[u][r] + RayMul(v[u][r], debtIndex[r])))
  <1>1. \A x \in Users \ {u} : Debts(w, t)[x][r] = Debts(v, s)[x][r]
    BY DebtsTable
  <1>2. Sum(Debts(w, t), r) = Sum(Debts(v, s), r) + (Debts(w, t)[u][r] - Debts(v, s)[u][r])
    BY <1>1, DebtsTable, RowMoved
  <1>3. QED
    BY <1>2, DebtsTable

\* Scaled tokens come to an account, or leave it.
LEMMA DepositsPlus ==
    ASSUME TypeOK, NEW b \in Tables, NEW u \in Users, NEW r \in Reserves, NEW amount \in Nat,
           NEW s \in Reserves
    PROVE  Within(Sum(Deposited(Plus(b, u, r, RayDiv(amount, income[r]))), s),
                  Sum(Deposited(b), s) + Only(s, r, amount), RoundingDust(s))
  <1> DEFINE x == RayDiv(amount, income[r])
             c == Plus(b, u, r, x)
  <1>1. x \in Nat /\ b[u][s] \in Nat
    BY IndexPositive, RayDivType, TableEntry
  <1> HIDE DEF x
  <1>2. /\ c \in Tables
        /\ c[u][s] = IF s = r THEN b[u][r] + x ELSE b[u][s]
        /\ \A v \in Users \ {u} : c[v][s] = b[v][s]
    BY <1>1, PlusTable
  <1> HIDE DEF c
  <1> DEFINE before == RayMul(b[u][s], income[s])
             after  == RayMul(c[u][s], income[s])
  <1>3. Sum(Deposited(c), s) = Sum(Deposited(b), s) + (after - before)
    BY <1>2, DepositedRow
  <1>4. before \in Nat /\ after \in Nat /\ RoundingDust(s) \in Nat
    BY <1>1, <1>2, TableEntry, IndexPositive, RayMulType, DustCovers
  <1>5. Within(after, before + Only(s, r, amount), RoundingDust(s))
    <2>1. CASE s = r
      <3>1. Within(RayMul(b[u][r] + x, income[r]), RayMul(b[u][r], income[r]) + amount,
                   RoundingDust(r))
        BY <1>1, <2>1, ReadingMoves DEF x
      <3>2. QED
        BY <1>2, <2>1, <3>1 DEF Only
    <2>2. CASE s # r
      <3>1. after = before
        BY <1>2, <2>2
      <3>2. QED
        BY <1>4, <2>2, <3>1 DEF Only, Within
    <2>3. QED
      BY <2>1, <2>2
  <1>6. Sum(Deposited(b), s) \in Nat /\ Only(s, r, amount) \in Nat
    BY DepositedTable, OnlyType
  <1> HIDE DEF before, after
  <1>7. Within(Sum(Deposited(c), s), Sum(Deposited(b), s) + Only(s, r, amount), RoundingDust(s))
    BY <1>3, <1>4, <1>5, <1>6 DEF Within
  <1>8. QED
    BY <1>7 DEF c, x

LEMMA DepositsMinus ==
    ASSUME TypeOK, NEW b \in Tables, NEW u \in Users, NEW r \in Reserves, NEW amount \in Nat,
           RayDiv(amount, income[r]) <= b[u][r], NEW s \in Reserves
    PROVE  Within(Sum(Deposited(Minus(b, u, r, RayDiv(amount, income[r]))), s),
                  Sum(Deposited(b), s) - Only(s, r, amount), RoundingDust(s))
  <1> DEFINE x == RayDiv(amount, income[r])
             c == Minus(b, u, r, x)
  <1>1. x \in Nat /\ b[u][s] \in Nat /\ b[u][r] \in Nat /\ x <= b[u][r]
    BY IndexPositive, RayDivType, TableEntry
  <1> HIDE DEF x
  <1>2. /\ c \in Tables
        /\ c[u][s] = IF s = r THEN b[u][r] - x ELSE b[u][s]
        /\ \A v \in Users \ {u} : c[v][s] = b[v][s]
    BY <1>1, MinusTable
  <1> HIDE DEF c
  <1> DEFINE before == RayMul(b[u][s], income[s])
             after  == RayMul(c[u][s], income[s])
  <1>3. Sum(Deposited(c), s) = Sum(Deposited(b), s) + (after - before)
    BY <1>2, DepositedRow
  <1>4. before \in Nat /\ after \in Nat /\ RoundingDust(s) \in Nat
    BY <1>1, <1>2, TableEntry, IndexPositive, RayMulType, DustCovers
  <1>5. Within(before, after + Only(s, r, amount), RoundingDust(s))
    <2>1. CASE s = r
      <3>1. c[u][r] \in Nat /\ c[u][r] + x = b[u][r]
        BY <1>1, <1>2, <2>1
      <3>2. Within(RayMul(c[u][r] + x, income[r]), RayMul(c[u][r], income[r]) + amount,
                   RoundingDust(r))
        BY <2>1, <3>1, ReadingMoves DEF x
      <3>3. QED
        BY <2>1, <3>1, <3>2 DEF Only
    <2>2. CASE s # r
      <3>1. after = before
        BY <1>2, <2>2
      <3>2. QED
        BY <1>4, <2>2, <3>1 DEF Only, Within
    <2>3. QED
      BY <2>1, <2>2
  <1>6. Sum(Deposited(b), s) \in Nat /\ Only(s, r, amount) \in Nat
    BY DepositedTable, OnlyType
  <1> HIDE DEF before, after
  <1>7. Within(Sum(Deposited(c), s), Sum(Deposited(b), s) - Only(s, r, amount), RoundingDust(s))
    BY <1>3, <1>4, <1>5, <1>6 DEF Within
  <1>8. QED
    BY <1>7 DEF c, x

\* The treasury's share is minted at the dust of one balance.
Minting(rs, s) == IF s \in rs THEN toTreasury[s] ELSE 0

LEMMA DepositsMinted ==
    ASSUME TypeOK, NEW rs, NEW s \in Reserves
    PROVE  /\ Minting(rs, s) \in Nat
           /\ Within(Sum(Deposited(Minted(rs)), s),
                     Sum(Deposited(aBal), s) + Minting(rs, s), RoundingDust(s))
  <1> DEFINE c == Minted(rs)
             before == RayMul(aBal[Treasury][s], income[s])
             after  == RayMul(c[Treasury][s], income[s])
  <1>1. aBal \in Tables /\ c \in Tables /\ Treasury \in Users /\ toTreasury[s] \in Nat
    BY MintedTable, TreasuryAssumption DEF TypeOK, Tables
  <1>2. /\ \A v \in Users \ {Treasury} : c[v][s] = aBal[v][s]
        /\ c[Treasury][s] = aBal[Treasury][s] + (IF s \in rs THEN Share(s) ELSE 0)
        /\ aBal[Treasury][s] \in Nat
    BY <1>1, MintedEntries, TableEntry
  <1> HIDE DEF c
  <1>3. Sum(Deposited(c), s) = Sum(Deposited(aBal), s) + (after - before)
    BY <1>1, <1>2, DepositedRow
  <1>4. before \in Nat /\ after \in Nat /\ RoundingDust(s) \in Nat
    BY <1>1, <1>2, TableEntry, IndexPositive, RayMulType, DustCovers
  <1>5. Within(after, before + Minting(rs, s), RoundingDust(s))
    <2>1. CASE s \in rs
      <3>1. Within(RayMul(aBal[Treasury][s] + Share(s), income[s]), before + toTreasury[s],
                   RoundingDust(s))
        BY <1>1, <1>2, ReadingMoves DEF Share
      <3>2. QED
        BY <1>2, <2>1, <3>1 DEF Minting
    <2>2. CASE s \notin rs
      <3>1. after = before
        BY <1>2, <2>2
      <3>2. QED
        BY <1>4, <2>2, <3>1 DEF Minting, Within
    <2>3. QED
      BY <2>1, <2>2
  <1>6. Sum(Deposited(aBal), s) \in Nat /\ Minting(rs, s) \in Nat
    BY <1>1, DepositedTable DEF Minting
  <1> HIDE DEF before, after
  <1>7. Within(Sum(Deposited(c), s), Sum(Deposited(aBal), s) + Minting(rs, s), RoundingDust(s))
    BY <1>3, <1>4, <1>5, <1>6 DEF Within
  <1>8. QED
    BY <1>6, <1>7 DEF c

\* Variable debt is drawn or paid off in scaled tokens, stable debt to the token.
LEMMA VariablePlus ==
    ASSUME TypeOK, NEW v \in Tables, NEW t \in Tables, NEW u \in Users, NEW r \in Reserves,
           NEW amount \in Nat, NEW s \in Reserves
    PROVE  Within(Sum(Debts(Plus(v, u, r, RayDiv(amount, debtIndex[r])), t), s),
                  Sum(Debts(v, t), s) + Only(s, r, amount), RoundingDust(s))
  <1> DEFINE x == RayDiv(amount, debtIndex[r])
             c == Plus(v, u, r, x)
  <1>1. x \in Nat /\ v[u][s] \in Nat /\ t[u][s] \in Nat
    BY IndexPositive, RayDivType, TableEntry
  <1> HIDE DEF x
  <1>2. /\ c \in Tables
        /\ c[u][s] = IF s = r THEN v[u][r] + x ELSE v[u][s]
        /\ \A o \in Users \ {u} : c[o][s] = v[o][s]
    BY <1>1, PlusTable
  <1> HIDE DEF c
  <1> DEFINE before == RayMul(v[u][s], debtIndex[s])
             after  == RayMul(c[u][s], debtIndex[s])
  <1>3. Sum(Debts(c, t), s) = Sum(Debts(v, t), s) + ((t[u][s] + after) - (t[u][s] + before))
    BY <1>2, DebtsRow
  <1>4. before \in Nat /\ after \in Nat /\ RoundingDust(s) \in Nat
    BY <1>1, <1>2, TableEntry, IndexPositive, RayMulType, DustCovers
  <1>5. Within(after, before + Only(s, r, amount), RoundingDust(s))
    <2>1. CASE s = r
      <3>1. Within(RayMul(v[u][r] + x, debtIndex[r]), RayMul(v[u][r], debtIndex[r]) + amount,
                   RoundingDust(r))
        BY <1>1, <2>1, ReadingMoves DEF x
      <3>2. QED
        BY <1>2, <2>1, <3>1 DEF Only
    <2>2. CASE s # r
      <3>1. after = before
        BY <1>2, <2>2
      <3>2. QED
        BY <1>4, <2>2, <3>1 DEF Only, Within
    <2>3. QED
      BY <2>1, <2>2
  <1>6. Sum(Debts(v, t), s) \in Nat /\ Only(s, r, amount) \in Nat
    BY DebtsTable, OnlyType
  <1> HIDE DEF before, after
  <1>7. Within(Sum(Debts(c, t), s), Sum(Debts(v, t), s) + Only(s, r, amount), RoundingDust(s))
    BY <1>1, <1>3, <1>4, <1>5, <1>6 DEF Within
  <1>8. QED
    BY <1>7 DEF c, x

LEMMA VariableMinus ==
    ASSUME TypeOK, NEW v \in Tables, NEW t \in Tables, NEW u \in Users, NEW r \in Reserves,
           NEW amount \in Nat, RayDiv(amount, debtIndex[r]) <= v[u][r], NEW s \in Reserves
    PROVE  Within(Sum(Debts(Minus(v, u, r, RayDiv(amount, debtIndex[r])), t), s),
                  Sum(Debts(v, t), s) - Only(s, r, amount), RoundingDust(s))
  <1> DEFINE x == RayDiv(amount, debtIndex[r])
             c == Minus(v, u, r, x)
  <1>1. /\ x \in Nat /\ v[u][s] \in Nat /\ v[u][r] \in Nat /\ t[u][s] \in Nat
        /\ x <= v[u][r]
    BY IndexPositive, RayDivType, TableEntry
  <1> HIDE DEF x
  <1>2. /\ c \in Tables
        /\ c[u][s] = IF s = r THEN v[u][r] - x ELSE v[u][s]
        /\ \A o \in Users \ {u} : c[o][s] = v[o][s]
    BY <1>1, MinusTable
  <1> HIDE DEF c
  <1> DEFINE before == RayMul(v[u][s], debtIndex[s])
             after  == RayMul(c[u][s], debtIndex[s])
  <1>3. Sum(Debts(c, t), s) = Sum(Debts(v, t), s) + ((t[u][s] + after) - (t[u][s] + before))
    BY <1>2, DebtsRow
  <1>4. before \in Nat /\ after \in Nat /\ RoundingDust(s) \in Nat
    BY <1>1, <1>2, TableEntry, IndexPositive, RayMulType, DustCovers
  <1>5. Within(before, after + Only(s, r, amount), RoundingDust(s))
    <2>1. CASE s = r
      <3>1. c[u][r] \in Nat /\ c[u][r] + x = v[u][r]
        BY <1>1, <1>2, <2>1
      <3>2. Within(RayMul(c[u][r] + x, debtIndex[r]), RayMul(c[u][r], debtIndex[r]) + amount,
                   RoundingDust(r))
        BY <2>1, <3>1, ReadingMoves DEF x
      <3>3. QED
        BY <2>1, <3>1, <3>2 DEF Only
    <2>2. CASE s # r
      <3>1. after = before
        BY <1>2, <2>2
      <3>2. QED
        BY <1>4, <2>2, <3>1 DEF Only, Within
    <2>3. QED
      BY <2>1, <2>2
  <1>6. Sum(Debts(v, t), s) \in Nat /\ Only(s, r, amount) \in Nat
    BY DebtsTable, OnlyType
  <1> HIDE DEF before, after
  <1>7. Within(Sum(Debts(c, t), s), Sum(Debts(v, t), s) - Only(s, r, amount), RoundingDust(s))
    BY <1>1, <1>3, <1>4, <1>5, <1>6 DEF Within
  <1>8. QED
    BY <1>7 DEF c, x

LEMMA StableMoves ==
    ASSUME TypeOK, NEW v \in Tables, NEW t \in Tables, NEW u \in Users, NEW r \in Reserves,
           NEW x \in Nat, NEW s \in Reserves
    PROVE  /\ Sum(Debts(v, Plus(t, u, r, x)), s) = Sum(Debts(v, t), s) + Only(s, r, x)
           /\ x <= t[u][r] =>
                Sum(Debts(v, Minus(t, u, r, x)), s) = Sum(Debts(v, t), s) - Only(s, r, x)
  <1> DEFINE reads == RayMul(v[u][s], debtIndex[s])
  <1>1. /\ t[u][s] \in Nat /\ t[u][r] \in Nat /\ reads \in Nat
        /\ Sum(Debts(v, t), s) \in Nat
    BY TableEntry, IndexPositive, RayMulType, DebtsTable
  <1>2. Sum(Debts(v, Plus(t, u, r, x)), s) = Sum(Debts(v, t), s) + Only(s, r, x)
    <2> DEFINE c == Plus(t, u, r, x)
    <2>1. /\ c \in Tables
          /\ c[u][s] = IF s = r THEN t[u][r] + x ELSE t[u][s]
          /\ \A o \in Users \ {u} : c[o][s] = t[o][s]
      BY PlusTable
    <2> HIDE DEF c
    <2>2. Sum(Debts(v, c), s) = Sum(Debts(v, t), s) + ((c[u][s] + reads) - (t[u][s] + reads))
      BY <2>1, DebtsRow
    <2> HIDE DEF reads
    <2>3. Sum(Debts(v, c), s) = Sum(Debts(v, t), s) + Only(s, r, x)
      BY <1>1, <2>1, <2>2 DEF Only
    <2>4. QED
      BY <2>3 DEF c
  <1>3. ASSUME x <= t[u][r]
        PROVE  Sum(Debts(v, Minus(t, u, r, x)), s) = Sum(Debts(v, t), s) - Only(s, r, x)
    <2> DEFINE c == Minus(t, u, r, x)
    <2>1. /\ c \in Tables
          /\ c[u][s] = IF s = r THEN t[u][r] - x ELSE t[u][s]
          /\ \A o \in Users \ {u} : c[o][s] = t[o][s]
      BY <1>3, MinusTable
    <2> HIDE DEF c
    <2>2. Sum(Debts(v, c), s) = Sum(Debts(v, t), s) + ((c[u][s] + reads) - (t[u][s] + reads))
      BY <2>1, DebtsRow
    <2> HIDE DEF reads
    <2>3. Sum(Debts(v, c), s) = Sum(Debts(v, t), s) - Only(s, r, x)
      BY <1>1, <2>1, <2>2 DEF Only
    <2>4. QED
      BY <2>3 DEF c
  <1>4. QED
    BY <1>2, <1>3

-----------------------------------------------------------------------------
(***************************************************************************)
(* The surplus before and after a transaction, and when it balances.          *)
(***************************************************************************)
LEMMA SurplusBefore ==
    ASSUME NEW r \in Reserves
    PROVE  Surplus(r) = cash[r] + Sum(Debts(vBal, sBal), r)
                          - Sum(Deposited(aBal), r) - toTreasury[r]
  <1>1. [u \in Users |-> TotalDebt(u, r)] = Column(Debts(vBal, sBal), r)
    BY DEF Column, Debts, TotalDebt, StableDebt, VariableDebt
  <1>2. [u \in Users |-> BalanceOf(u, r)] = Column(Deposited(aBal), r)
    BY DEF Column, Deposited, BalanceOf
  <1>3. QED
    BY <1>1, <1>2 DEF Surplus, Total, Sum

LEMMA SurplusAfter ==
    ASSUME NEW r \in Reserves, UNCHANGED indexVars
    PROVE  Surplus(r)' = cash'[r] + Sum(Debts(vBal', sBal'), r)
                          - Sum(Deposited(aBal'), r) - toTreasury'[r]
  <1>1. income' = income /\ debtIndex' = debtIndex
    BY DEF indexVars
  <1>2. [u \in Users |-> TotalDebt(u, r)'] = Column(Debts(vBal', sBal'), r)
    BY <1>1 DEF Column, Debts, TotalDebt, StableDebt, VariableDebt
  <1>3. [u \in Users |-> BalanceOf(u, r)'] = Column(Deposited(aBal'), r)
    BY <1>1 DEF Column, Deposited, BalanceOf
  <1>4. QED
    BY <1>2, <1>3 DEF Surplus, Total, Sum

Balances(r) ==
    /\ Surplus(r)' - Surplus(r) <= 4 * RoundingDust(r)
    /\ Surplus(r) - Surplus(r)' <= 4 * RoundingDust(r)

\* What comes in, x, less what is lent out, y, is in cash; what is minted, t, is written off.
Moves(r, t, x, y) ==
    /\ Within(Sum(Deposited(aBal'), r), Sum(Deposited(aBal), r) + t + x, 3 * RoundingDust(r))
    /\ Within(Sum(Debts(vBal', sBal'), r), Sum(Debts(vBal, sBal), r) + y, RoundingDust(r))
    /\ cash'[r] = cash[r] + x - y
    /\ toTreasury'[r] = toTreasury[r] - t

LEMMA Balanced ==
    ASSUME TypeOK, TypeOK', UNCHANGED indexVars, NEW r \in Reserves,
           NEW t \in Int, NEW x \in Int, NEW y \in Int, Moves(r, t, x, y)
    PROVE  Balances(r)
  <1>1. /\ vBal \in Tables /\ sBal \in Tables /\ aBal \in Tables
        /\ vBal' \in Tables /\ sBal' \in Tables /\ aBal' \in Tables
        /\ cash[r] \in Nat /\ toTreasury[r] \in Nat
    BY DEF TypeOK, Tables
  <1>2. /\ Sum(Deposited(aBal), r) \in Nat /\ Sum(Deposited(aBal'), r) \in Nat
        /\ Sum(Debts(vBal, sBal), r) \in Nat /\ Sum(Debts(vBal', sBal'), r) \in Nat
        /\ RoundingDust(r) \in Nat
    BY <1>1, DepositedTable, DebtsTable, DustCovers
  <1> DEFINE p == Sum(Deposited(aBal), r)
             q == Sum(Deposited(aBal'), r)
             n == Sum(Debts(vBal, sBal), r)
             o == Sum(Debts(vBal', sBal'), r)
             e == RoundingDust(r)
  <1>3. /\ Surplus(r) = cash[r] + n - p - toTreasury[r]
        /\ Surplus(r)' = cash[r] + x - y + o - q - (toTreasury[r] - t)
    BY SurplusBefore, SurplusAfter DEF Moves
  <1>4. /\ q <= p + t + x + 3 * e /\ p + t + x <= q + 3 * e
        /\ o <= n + y + e /\ n + y <= o + e
    BY DEF Within, Moves
  <1>5. p \in Nat /\ q \in Nat /\ n \in Nat /\ o \in Nat /\ e \in Nat
    BY <1>2
  <1> HIDE DEF p, q, n, o, e
  <1>6. /\ Surplus(r)' - Surplus(r) <= 4 * e
        /\ Surplus(r) - Surplus(r)' <= 4 * e
    BY <1>1, <1>3, <1>4, <1>5
  <1>7. QED
    BY <1>6 DEF Balances, e

LEMMA UpdatedTreasury ==
    ASSUME TypeOK, NEW rs, UpdateState(rs), NEW s \in Reserves
    PROVE  toTreasury'[s] = toTreasury[s] - Minting(rs, s)
  <1>1. toTreasury[s] \in Nat
    BY DEF TypeOK
  <1>2. QED
    BY <1>1 DEF UpdateState, Minting

\* What is received, handed out, or moved to another account after the treasury's share.
LEMMA MintedThen ==
    ASSUME TypeOK, NEW rs, NEW s \in Reserves, NEW u \in Users, NEW m \in Users,
           NEW r \in Reserves, NEW amount \in Nat
    PROVE  LET b == Minted(rs)
               x == RayDiv(amount, income[r])
               p == Sum(Deposited(aBal), s) + Minting(rs, s)
               e == 3 * RoundingDust(s)
           IN  /\ Within(Sum(Deposited(b), s), p + 0, e)
               /\ Within(Sum(Deposited(Plus(b, u, r, x)), s), p + Only(s, r, amount), e)
               /\ x <= b[u][r] =>
                    /\ Within(Sum(Deposited(Minus(b, u, r, x)), s),
                              p + (0 - Only(s, r, amount)), e)
                    /\ Within(Sum(Deposited(Plus(Minus(b, u, r, x), m, r, x)), s), p + 0, e)
  <1> DEFINE b == Minted(rs)
             x == RayDiv(amount, income[r])
             p == Sum(Deposited(aBal), s) + Minting(rs, s)
             e == RoundingDust(s)
             q == Sum(Deposited(b), s)
             o == Only(s, r, amount)
  <1>1. b \in Tables /\ x \in Nat
    BY MintedTable, IndexPositive, RayDivType
  <1>2. p \in Nat /\ e \in Nat /\ q \in Nat /\ o \in Nat
    <2>1. Sum(Deposited(aBal), s) \in Nat
      BY DepositedTable DEF TypeOK, Tables
    <2>2. q \in Nat /\ Minting(rs, s) \in Nat
      BY <1>1, DepositedTable, DepositsMinted
    <2>3. QED
      BY <2>1, <2>2, DustCovers, OnlyType
  <1>3. Within(q, p, e)
    BY DepositsMinted
  <1>4. Plus(b, u, r, x) \in Tables /\ Within(Sum(Deposited(Plus(b, u, r, x)), s), q + o, e)
    BY <1>1, PlusTable, DepositsPlus
  <1>5. Sum(Deposited(Plus(b, u, r, x)), s) \in Nat
    BY <1>4, DepositedTable
  <1>6. ASSUME x <= b[u][r]
        PROVE  /\ Minus(b, u, r, x) \in Tables
               /\ Within(Sum(Deposited(Minus(b, u, r, x)), s), q - o, e)
               /\ Within(Sum(Deposited(Plus(Minus(b, u, r, x), m, r, x)), s),
                         Sum(Deposited(Minus(b, u, r, x)), s) + o, e)
               /\ Sum(Deposited(Minus(b, u, r, x)), s) \in Nat
               /\ Sum(Deposited(Plus(Minus(b, u, r, x), m, r, x)), s) \in Nat
    <2>1. Minus(b, u, r, x) \in Tables
      BY <1>1, <1>6, MinusTable
    <2>2. Plus(Minus(b, u, r, x), m, r, x) \in Tables
      BY <1>1, <2>1, PlusTable
    <2>3. Within(Sum(Deposited(Minus(b, u, r, x)), s), q - o, e)
      BY <1>1, <1>6, DepositsMinus
    <2>4. Within(Sum(Deposited(Plus(Minus(b, u, r, x), m, r, x)), s),
                 Sum(Deposited(Minus(b, u, r, x)), s) + o, e)
      BY <2>1, DepositsPlus
    <2>5. QED
      BY <2>1, <2>2, <2>3, <2>4, DepositedTable
  <1> HIDE DEF b, x, p, e, q, o
  <1>7. Within(q, p + 0, 3 * e)
    BY <1>2, <1>3 DEF Within
  <1>8. Within(Sum(Deposited(Plus(b, u, r, x)), s), p + o, 3 * e)
    BY <1>2, <1>3, <1>4, <1>5 DEF Within
  <1>9. ASSUME x <= b[u][r]
        PROVE  /\ Within(Sum(Deposited(Minus(b, u, r, x)), s), p + (0 - o), 3 * e)
               /\ Within(Sum(Deposited(Plus(Minus(b, u, r, x), m, r, x)), s), p + 0, 3 * e)
    BY <1>2, <1>3, <1>6, <1>9 DEF Within
  <1>10. QED
    BY <1>7, <1>8, <1>9 DEF b, x, p, e, q, o

\* Debts that do not move.
LEMMA SameDebts ==
    ASSUME TypeOK, UNCHANGED <<vBal, sBal>>, NEW s \in Reserves
    PROVE  Within(Sum(Debts(vBal', sBal'), s), Sum(Debts(vBal, sBal), s) + 0, RoundingDust(s))
  <1>1. Sum(Debts(vBal, sBal), s) \in Nat /\ RoundingDust(s) \in Nat
    BY DebtsTable, DustCovers DEF TypeOK, Tables
  <1>2. QED
    BY <1>1 DEF Within

LEMMA DepositBalances ==
    ASSUME TypeOK, TypeOK', NEW m \in Users, NEW u \in Users, NEW r \in Reserves,
           NEW amount \in Amounts, Deposit(m, u, r, amount), NEW s \in Reserves
    PROVE  Balances(s)
  <1>1. amount \in Nat
    BY AmountsAssumption
  <1>2. /\ aBal' = Plus(Minted({r}), u, r, RayDiv(amount, income[r]))
        /\ cash' = [cash EXCEPT ![r] = @ + amount]
        /\ UpdateState({r}) /\ UNCHANGED indexVars /\ UNCHANGED <<vBal, sBal>>
    BY DEF Deposit, debtVars
  <1>3. Within(Sum(Deposited(aBal'), s),
               Sum(Deposited(aBal), s) + Minting({r}, s) + Only(s, r, amount),
               3 * RoundingDust(s))
    BY <1>1, <1>2, MintedThen
  <1>4. Within(Sum(Debts(vBal', sBal'), s), Sum(Debts(vBal, sBal), s) + 0, RoundingDust(s))
    BY <1>2, SameDebts
  <1>5. cash'[s] = cash[s] + Only(s, r, amount) - 0
    BY <1>1, <1>2 DEF TypeOK, Only
  <1>6. toTreasury'[s] = toTreasury[s] - Minting({r}, s)
    BY <1>2, UpdatedTreasury
  <1>7. Minting({r}, s) \in Int /\ Only(s, r, amount) \in Int
    BY <1>1, DepositsMinted, OnlyType
  <1>8. QED
    <2>1. Moves(s, Minting({r}, s), Only(s, r, amount), 0)
      BY <1>3, <1>4, <1>5, <1>6 DEF Moves
    <2>2. QED
      BY <1>2, <1>7, <2>1, Balanced

LEMMA WithdrawBalances ==
    ASSUME TypeOK, TypeOK', NEW m \in Users, NEW r \in Reserves,
           NEW asked \in AmountsOrMax, Withdraw(m, r, asked), NEW s \in Reserves
    PROVE  Balances(s)
  <1> DEFINE amount == IF asked = MaxUint THEN BalanceOf(m, r) ELSE asked
  <1>1. amount \in Nat
    BY BalanceTypes, AmountsAssumption DEF AmountsOrMax
  <1>2. /\ RayDiv(amount, income[r]) <= Minted({r})[m][r]
        /\ aBal' = Minus(Minted({r}), m, r, RayDiv(amount, income[r]))
        /\ cash' = [cash EXCEPT ![r] = @ - amount]
        /\ UpdateState({r}) /\ UNCHANGED indexVars /\ UNCHANGED <<vBal, sBal>>
    BY DEF Withdraw, debtVars
  <1> HIDE DEF amount
  <1>3. Within(Sum(Deposited(aBal'), s),
               Sum(Deposited(aBal), s) + Minting({r}, s) + (0 - Only(s, r, amount)),
               3 * RoundingDust(s))
    BY <1>1, <1>2, MintedThen
  <1>4. Within(Sum(Debts(vBal', sBal'), s), Sum(Debts(vBal, sBal), s) + 0, RoundingDust(s))
    BY <1>2, SameDebts
  <1>5. cash'[s] = cash[s] + (0 - Only(s, r, amount)) - 0
    BY <1>1, <1>2 DEF TypeOK, Only
  <1>6. toTreasury'[s] = toTreasury[s] - Minting({r}, s)
    BY <1>2, UpdatedTreasury
  <1>7. Minting({r}, s) \in Int /\ (0 - Only(s, r, amount)) \in Int
    BY <1>1, DepositsMinted, OnlyType
  <1>8. QED
    <2>1. Moves(s, Minting({r}, s), 0 - Only(s, r, amount), 0)
      BY <1>3, <1>4, <1>5, <1>6 DEF Moves
    <2>2. QED
      BY <1>2, <1>7, <2>1, Balanced

\* Debt is drawn or paid off in r by y tokens, and nothing else moves but the treasury's share.
DebtMoves(s, y) ==
    /\ cash'[s] = cash[s] + 0 - y
    /\ Within(Sum(Debts(vBal', sBal'), s), Sum(Debts(vBal, sBal), s) + y, RoundingDust(s))

LEMMA DebtBalances ==
    ASSUME TypeOK, TypeOK', NEW r \in Reserves, NEW s \in Reserves, NEW y \in Int,
           aBal' = Minted({r}), UpdateState({r}), UNCHANGED indexVars, DebtMoves(s, y)
    PROVE  Balances(s)
  <1>1. Within(Sum(Deposited(aBal'), s), Sum(Deposited(aBal), s) + Minting({r}, s) + 0,
               3 * RoundingDust(s))
    BY TreasuryAssumption, MintedThen
  <1>2. toTreasury'[s] = toTreasury[s] - Minting({r}, s) /\ Minting({r}, s) \in Int
    BY UpdatedTreasury, DepositsMinted
  <1>3. Moves(s, Minting({r}, s), 0, y)
    BY <1>1, <1>2 DEF Moves, DebtMoves
  <1>4. QED
    BY <1>2, <1>3, Balanced

LEMMA BorrowBalances ==
    ASSUME TypeOK, TypeOK', NEW m \in Users, NEW u \in Users, NEW r \in Reserves,
           NEW amount \in Amounts, NEW mode \in Modes, Borrow(m, u, r, amount, mode),
           NEW s \in Reserves
    PROVE  Balances(s)
  <1>1. amount \in Nat
    BY AmountsAssumption
  <1>2. /\ aBal' = Minted({r}) /\ UpdateState({r}) /\ UNCHANGED indexVars
        /\ cash' = [cash EXCEPT ![r] = @ - amount]
        /\ \/ vBal' = Plus(vBal, u, r, RayDiv(amount, debtIndex[r])) /\ UNCHANGED sBal
           \/ sBal' = Plus(sBal, u, r, amount) /\ UNCHANGED vBal
    BY DEF Borrow, BorrowVariable, BorrowStable
  <1>3. cash'[s] = cash[s] + 0 - Only(s, r, amount)
    BY <1>1, <1>2 DEF TypeOK, Only
  <1>4. vBal \in Tables /\ sBal \in Tables
    BY DEF TypeOK, Tables
  <1>5. Within(Sum(Debts(vBal', sBal'), s), Sum(Debts(vBal, sBal), s) + Only(s, r, amount),
               RoundingDust(s))
    <2>1. CASE vBal' = Plus(vBal, u, r, RayDiv(amount, debtIndex[r])) /\ UNCHANGED sBal
      BY <1>1, <1>4, <2>1, VariablePlus
    <2>2. CASE sBal' = Plus(sBal, u, r, amount) /\ UNCHANGED vBal
      <3>1. Sum(Debts(vBal', sBal'), s) = Sum(Debts(vBal, sBal), s) + Only(s, r, amount)
        BY <1>1, <1>4, <2>2, StableMoves
      <3>2. /\ Sum(Debts(vBal, sBal), s) \in Nat /\ RoundingDust(s) \in Nat
            /\ Only(s, r, amount) \in Nat
        BY <1>1, <1>4, DebtsTable, DustCovers, OnlyType
      <3>3. QED
        BY <3>1, <3>2 DEF Within
    <2>3. QED
      BY <1>2, <2>1, <2>2
  <1>6. Only(s, r, amount) \in Int
    BY <1>1, OnlyType
  <1>7. QED
    <2>1. DebtMoves(s, Only(s, r, amount))
      BY <1>3, <1>5 DEF DebtMoves
    <2>2. QED
      BY <1>2, <1>6, <2>1, DebtBalances

LEMMA RepayBalances ==
    ASSUME TypeOK, TypeOK', NEW m \in Users, NEW u \in Users, NEW r \in Reserves,
           NEW sent \in AmountsOrMax, NEW mode \in Modes, Repay(m, u, r, sent, mode),
           NEW s \in Reserves
    PROVE  Balances(s)
  <1> DEFINE paid == Least(sent, DebtOf(u, r, mode))
  <1>1. sent \in Nat /\ DebtOf(u, r, mode) \in Nat
    BY BalanceTypes, AmountsAssumption, MaxUintAssumption DEF AmountsOrMax
  <1>2. paid \in Nat /\ paid <= DebtOf(u, r, mode)
    BY <1>1 DEF Least
  <1>3. /\ aBal' = Minted({r}) /\ UpdateState({r}) /\ UNCHANGED indexVars
        /\ cash' = [cash EXCEPT ![r] = @ + paid]
        /\ \/ mode = "stable" /\ sBal' = Minus(sBal, u, r, paid) /\ UNCHANGED vBal
           \/ /\ RayDiv(paid, debtIndex[r]) <= vBal[u][r]
              /\ vBal' = Minus(vBal, u, r, RayDiv(paid, debtIndex[r])) /\ UNCHANGED sBal
    BY DEF Repay
  <1> HIDE DEF paid
  <1>4. cash'[s] = cash[s] + 0 - (0 - Only(s, r, paid))
    BY <1>2, <1>3 DEF TypeOK, Only
  <1>5. vBal \in Tables /\ sBal \in Tables
    BY DEF TypeOK, Tables
  <1>6. /\ Sum(Debts(vBal, sBal), s) \in Nat /\ RoundingDust(s) \in Nat
        /\ Only(s, r, paid) \in Nat
    BY <1>2, <1>5, DebtsTable, DustCovers, OnlyType
  <1>7. Within(Sum(Debts(vBal', sBal'), s), Sum(Debts(vBal, sBal), s) + (0 - Only(s, r, paid)),
               RoundingDust(s))
    <2>1. CASE mode = "stable" /\ sBal' = Minus(sBal, u, r, paid) /\ UNCHANGED vBal
      <3>1. paid <= sBal[u][r]
        BY <1>2, <2>1 DEF DebtOf, StableDebt
      <3>2. Sum(Debts(vBal', sBal'), s) = Sum(Debts(vBal, sBal), s) - Only(s, r, paid)
        BY <1>2, <1>5, <2>1, <3>1, StableMoves
      <3>3. QED
        BY <1>6, <3>2 DEF Within
    <2>2. CASE /\ RayDiv(paid, debtIndex[r]) <= vBal[u][r]
               /\ vBal' = Minus(vBal, u, r, RayDiv(paid, debtIndex[r])) /\ UNCHANGED sBal
      <3>1. Within(Sum(Debts(vBal', sBal'), s), Sum(Debts(vBal, sBal), s) - Only(s, r, paid),
                   RoundingDust(s))
        BY <1>2, <1>5, <2>2, VariableMinus
      <3>2. Sum(Debts(vBal, sBal), s) + (0 - Only(s, r, paid)) =
                Sum(Debts(vBal, sBal), s) - Only(s, r, paid)
        BY <1>6
      <3>3. QED
        BY <3>1, <3>2
    <2>3. QED
      BY <1>3, <2>1, <2>2
  <1>8. (0 - Only(s, r, paid)) \in Int
    BY <1>6
  <1>9. QED
    <2>1. DebtMoves(s, 0 - Only(s, r, paid))
      BY <1>4, <1>7 DEF DebtMoves
    <2>2. QED
      BY <1>3, <1>8, <2>1, DebtBalances

\* A swap turns a debt into as much of the other kind: the debt's total stays.
LEMMA SwapBalances ==
    ASSUME TypeOK, TypeOK', NEW m \in Users, NEW r \in Reserves, NEW mode \in Modes,
           SwapBorrowRateMode(m, r, mode), NEW s \in Reserves
    PROVE  Balances(s)
  <1> DEFINE stable   == StableDebt(m, r)
             variable == VariableDebt(m, r)
  <1>1. stable \in Nat /\ variable \in Nat
    BY BalanceTypes
  <1>2. /\ aBal' = Minted({r}) /\ UpdateState({r}) /\ UNCHANGED indexVars /\ UNCHANGED cash
        /\ \/ /\ sBal' = Minus(sBal, m, r, stable)
              /\ vBal' = Plus(vBal, m, r, RayDiv(stable, debtIndex[r]))
           \/ /\ RayDiv(variable, debtIndex[r]) <= vBal[m][r]
              /\ vBal' = Minus(vBal, m, r, RayDiv(variable, debtIndex[r]))
              /\ sBal' = Plus(sBal, m, r, variable)
    BY DEF SwapBorrowRateMode
  <1>3. vBal \in Tables /\ sBal \in Tables /\ stable <= sBal[m][r] /\ cash[s] \in Nat
    BY <1>1 DEF TypeOK, Tables, StableDebt
  <1> HIDE DEF stable, variable
  <1>4. /\ Sum(Debts(vBal, sBal), s) \in Nat /\ RoundingDust(s) \in Nat
        /\ Only(s, r, stable) \in Nat /\ Only(s, r, variable) \in Nat
    BY <1>1, <1>3, DebtsTable, DustCovers, OnlyType
  <1>5. Within(Sum(Debts(vBal', sBal'), s), Sum(Debts(vBal, sBal), s) + 0, RoundingDust(s))
    <2>1. CASE /\ sBal' = Minus(sBal, m, r, stable)
               /\ vBal' = Plus(vBal, m, r, RayDiv(stable, debtIndex[r]))
      <3> DEFINE t == Minus(sBal, m, r, stable)
      <3>1. t \in Tables
        BY <1>1, <1>3, MinusTable
      <3>2. Sum(Debts(vBal, t), s) = Sum(Debts(vBal, sBal), s) - Only(s, r, stable)
        BY <1>1, <1>3, StableMoves
      <3>3. Within(Sum(Debts(vBal', t), s), Sum(Debts(vBal, t), s) + Only(s, r, stable),
                   RoundingDust(s))
        BY <1>1, <1>3, <2>1, <3>1, VariablePlus
      <3> HIDE DEF t
      <3>4. Sum(Debts(vBal, t), s) + Only(s, r, stable) = Sum(Debts(vBal, sBal), s) + 0
        BY <1>4, <3>2
      <3>5. Within(Sum(Debts(vBal', t), s), Sum(Debts(vBal, sBal), s) + 0, RoundingDust(s))
        BY <3>3, <3>4
      <3>6. QED
        BY <2>1, <3>5 DEF t
    <2>2. CASE /\ RayDiv(variable, debtIndex[r]) <= vBal[m][r]
               /\ vBal' = Minus(vBal, m, r, RayDiv(variable, debtIndex[r]))
               /\ sBal' = Plus(sBal, m, r, variable)
      <3> DEFINE t == Plus(sBal, m, r, variable)
      <3>1. t \in Tables
        BY <1>1, <1>3, PlusTable
      <3>2. Sum(Debts(vBal, t), s) = Sum(Debts(vBal, sBal), s) + Only(s, r, variable)
        BY <1>1, <1>3, StableMoves
      <3>3. Within(Sum(Debts(vBal', t), s), Sum(Debts(vBal, t), s) - Only(s, r, variable),
                   RoundingDust(s))
        BY <1>1, <1>3, <2>2, <3>1, VariableMinus
      <3> HIDE DEF t
      <3>4. Sum(Debts(vBal, t), s) - Only(s, r, variable) = Sum(Debts(vBal, sBal), s) + 0
        BY <1>4, <3>2
      <3>5. Within(Sum(Debts(vBal', t), s), Sum(Debts(vBal, sBal), s) + 0, RoundingDust(s))
        BY <3>3, <3>4
      <3>6. QED
        BY <2>2, <3>5 DEF t
    <2>3. QED
      BY <1>2, <2>1, <2>2
  <1>6. cash'[s] = cash[s] + 0 - 0
    BY <1>2, <1>3
  <1>7. QED
    <2>1. DebtMoves(s, 0)
      BY <1>5, <1>6 DEF DebtMoves
    <2>2. QED
      BY <1>2, <2>1, DebtBalances

\* A liquidation pays off `repaid` of the debt in d, in variable debt first.
LEMMA BurnDebtMoves ==
    ASSUME TypeOK, NEW u \in Users, NEW d \in Reserves, NEW repaid \in Nat,
           repaid <= TotalDebt(u, d), BurnDebt(u, d, repaid), NEW s \in Reserves
    PROVE  Within(Sum(Debts(vBal', sBal'), s),
                  Sum(Debts(vBal, sBal), s) + (0 - Only(s, d, repaid)), RoundingDust(s))
  <1> DEFINE first == Least(VariableDebt(u, d), repaid)
             rest  == repaid - first
             v     == Minus(vBal, u, d, RayDiv(first, debtIndex[d]))
  <1>1. VariableDebt(u, d) \in Nat /\ sBal[u][d] \in Nat /\ vBal \in Tables /\ sBal \in Tables
    BY BalanceTypes DEF TypeOK, Tables
  <1>2. first \in Nat /\ rest \in Nat /\ rest <= sBal[u][d] /\ first + rest = repaid
    BY <1>1 DEF Least, TotalDebt, StableDebt
  <1>3. /\ RayDiv(first, debtIndex[d]) <= vBal[u][d]
        /\ vBal' = v /\ sBal' = Minus(sBal, u, d, rest)
    BY DEF BurnDebt
  <1> HIDE DEF first, rest
  <1>4. v \in Tables
    BY <1>1, <1>2, <1>3, IndexPositive, RayDivType, MinusTable
  <1>5. Within(Sum(Debts(v, sBal), s), Sum(Debts(vBal, sBal), s) - Only(s, d, first),
               RoundingDust(s))
    BY <1>1, <1>2, <1>3, VariableMinus
  <1> HIDE DEF v
  <1>6. Sum(Debts(v, Minus(sBal, u, d, rest)), s) = Sum(Debts(v, sBal), s) - Only(s, d, rest)
    BY <1>1, <1>2, <1>4, StableMoves
  <1>7. /\ Sum(Debts(vBal, sBal), s) \in Nat /\ Sum(Debts(v, sBal), s) \in Nat
        /\ RoundingDust(s) \in Nat
    BY <1>1, <1>4, DebtsTable, DustCovers
  <1>8. /\ Only(s, d, first) \in Nat /\ Only(s, d, rest) \in Nat
        /\ Only(s, d, repaid) = Only(s, d, first) + Only(s, d, rest)
    BY <1>2 DEF Only
  <1>9. Within(Sum(Debts(v, sBal), s) - Only(s, d, rest),
               Sum(Debts(vBal, sBal), s) + (0 - Only(s, d, repaid)), RoundingDust(s))
    BY <1>5, <1>7, <1>8 DEF Within
  <1>10. QED
    BY <1>3, <1>6, <1>9

LEMMA LiquidationBalances ==
    ASSUME TypeOK, TypeOK', NEW m \in Users, NEW u \in Users, NEW c \in Reserves,
           NEW d \in Reserves, NEW cover \in AmountsOrMax, NEW receiveAToken \in BOOLEAN,
           LiquidationCall(m, u, c, d, cover, receiveAToken), NEW s \in Reserves
    PROVE  Balances(s)
  <1> DEFINE repaid == LiquidationAmounts(u, c, d, cover).repaid
             seized == LiquidationAmounts(u, c, d, cover).seized
             rs     == IF receiveAToken THEN {d} ELSE {c, d}
             scaled == RayDiv(seized, income[c])
  <1>1. cover \in Nat
    BY AmountsAssumption, MaxUintAssumption DEF AmountsOrMax
  <1>2. repaid \in Nat /\ repaid <= TotalDebt(u, d) /\ seized \in Nat
    BY <1>1, LiquidationAmountsBound
  <1>3. /\ BurnDebt(u, d, repaid) /\ UpdateState(rs) /\ UNCHANGED indexVars
        /\ scaled <= Minted(rs)[u][c]
        /\ \/ /\ aBal' = Plus(Minus(Minted(rs), u, c, scaled), m, c, scaled)
              /\ cash' = [cash EXCEPT ![d] = @ + repaid]
           \/ /\ aBal' = Minus(Minted(rs), u, c, scaled)
              /\ cash' = [[cash EXCEPT ![c] = @ - seized] EXCEPT ![d] = @ + repaid]
    BY DEF LiquidationCall
  <1> HIDE DEF repaid, seized, rs
  <1>4. Within(Sum(Debts(vBal', sBal'), s), Sum(Debts(vBal, sBal), s) + (0 - Only(s, d, repaid)),
               RoundingDust(s))
    BY <1>2, <1>3, BurnDebtMoves
  <1>5. toTreasury'[s] = toTreasury[s] - Minting(rs, s) /\ Minting(rs, s) \in Int
    BY <1>3, UpdatedTreasury, DepositsMinted
  <1>6. /\ Only(s, d, repaid) \in Nat /\ Only(s, c, seized) \in Nat
        /\ cash \in [Reserves -> Nat]
    BY <1>2, OnlyType DEF TypeOK
  <1>7. (0 - Only(s, d, repaid)) \in Int /\ (0 - Only(s, c, seized)) \in Int
    BY <1>6
  <1>8. CASE /\ aBal' = Plus(Minus(Minted(rs), u, c, scaled), m, c, scaled)
             /\ cash' = [cash EXCEPT ![d] = @ + repaid]
    <2>1. Within(Sum(Deposited(aBal'), s), Sum(Deposited(aBal), s) + Minting(rs, s) + 0,
                 3 * RoundingDust(s))
      BY <1>2, <1>3, <1>8, MintedThen
    <2>2. cash'[s] = cash[s] + 0 - (0 - Only(s, d, repaid))
      BY <1>2, <1>6, <1>8 DEF Only
    <2>3. Moves(s, Minting(rs, s), 0, 0 - Only(s, d, repaid))
      BY <1>4, <1>5, <2>1, <2>2 DEF Moves
    <2>4. QED
      BY <1>3, <1>5, <1>7, <2>3, Balanced
  <1>9. CASE /\ aBal' = Minus(Minted(rs), u, c, scaled)
             /\ cash' = [[cash EXCEPT ![c] = @ - seized] EXCEPT ![d] = @ + repaid]
    <2>1. Within(Sum(Deposited(aBal'), s),
                 Sum(Deposited(aBal), s) + Minting(rs, s) + (0 - Only(s, c, seized)),
                 3 * RoundingDust(s))
      BY <1>2, <1>3, <1>9, MintedThen
    <2>2. cash'[s] = cash[s] + (0 - Only(s, c, seized)) - (0 - Only(s, d, repaid))
      <3> DEFINE left == [cash EXCEPT ![c] = @ - seized]
      <3>1. left \in [Reserves -> Int] /\ left[s] = cash[s] - Only(s, c, seized)
        BY <1>2, <1>6 DEF Only
      <3>2. cash' = [left EXCEPT ![d] = @ + repaid]
        BY <1>9
      <3> HIDE DEF left
      <3>3. cash'[s] = left[s] + Only(s, d, repaid)
        BY <1>2, <3>1, <3>2 DEF Only
      <3>4. QED
        BY <1>6, <3>1, <3>3
    <2>3. Moves(s, Minting(rs, s), 0 - Only(s, c, seized), 0 - Only(s, d, repaid))
      BY <1>4, <1>5, <2>1, <2>2 DEF Moves
    <2>4. QED
      BY <1>3, <1>5, <1>7, <2>3, Balanced
  <1>10. QED
    BY <1>3, <1>8, <1>9

LEMMA MoveBalances ==
    ASSUME TypeOK, TypeOK', NEW from \in Users, NEW to \in Users, NEW r \in Reserves,
           NEW amount \in Nat, MoveATokens(from, to, r, amount),
           UNCHANGED indexVars, UNCHANGED <<vBal, sBal, cash, toTreasury>>, NEW s \in Reserves
    PROVE  Balances(s)
  <1> DEFINE x == RayDiv(amount, income[r])
             o == Only(s, r, amount)
             e == RoundingDust(s)
             p == Sum(Deposited(aBal), s)
             q == Sum(Deposited(Minus(aBal, from, r, x)), s)
             n == Sum(Deposited(Plus(Minus(aBal, from, r, x), to, r, x)), s)
  <1>1. x <= aBal[from][r] /\ aBal' = Plus(Minus(aBal, from, r, x), to, r, x)
    BY DEF MoveATokens
  <1>2. aBal \in Tables /\ x \in Nat /\ cash[s] \in Nat /\ toTreasury[s] \in Nat
    BY IndexPositive, RayDivType DEF TypeOK, Tables
  <1>3. Minus(aBal, from, r, x) \in Tables
    BY <1>1, <1>2, MinusTable
  <1>4. Plus(Minus(aBal, from, r, x), to, r, x) \in Tables
    BY <1>2, <1>3, PlusTable
  <1>5. Within(q, p - o, e)
    BY <1>1, <1>2, DepositsMinus
  <1>6. Within(n, q + o, e)
    BY <1>3, DepositsPlus
  <1>7. p \in Nat /\ q \in Nat /\ n \in Nat /\ o \in Nat /\ e \in Nat
    BY <1>2, <1>3, <1>4, DepositedTable, OnlyType, DustCovers
  <1> HIDE DEF x, o, e, p, q, n
  <1>8. Within(n, p + 0 + 0, 3 * e)
    BY <1>5, <1>6, <1>7 DEF Within
  <1>9. Within(Sum(Deposited(aBal'), s), Sum(Deposited(aBal), s) + 0 + 0, 3 * RoundingDust(s))
    BY <1>1, <1>8 DEF n, p, e
  <1>10. Within(Sum(Debts(vBal', sBal'), s), Sum(Debts(vBal, sBal), s) + 0, RoundingDust(s))
    BY SameDebts
  <1>11. cash'[s] = cash[s] + 0 - 0 /\ toTreasury'[s] = toTreasury[s] - 0
    BY <1>2
  <1>12. Moves(s, 0, 0, 0)
    BY <1>9, <1>10, <1>11 DEF Moves
  <1>13. QED
    BY <1>12, Balanced

\* Operations that move no token.
LEMMA NothingMoves ==
    ASSUME TypeOK, TypeOK', UNCHANGED indexVars,
           UNCHANGED <<aBal, vBal, sBal, cash, toTreasury>>, NEW s \in Reserves
    PROVE  Balances(s)
  <1>1. /\ Sum(Deposited(aBal), s) \in Nat /\ Sum(Debts(vBal, sBal), s) \in Nat
        /\ RoundingDust(s) \in Nat /\ cash[s] \in Nat /\ toTreasury[s] \in Nat
    BY DepositedTable, DebtsTable, DustCovers DEF TypeOK, Tables
  <1>2. Within(Sum(Deposited(aBal'), s), Sum(Deposited(aBal), s) + 0 + 0, 3 * RoundingDust(s))
    BY <1>1 DEF Within
  <1>3. Within(Sum(Debts(vBal', sBal'), s), Sum(Debts(vBal, sBal), s) + 0, RoundingDust(s))
    BY SameDebts
  <1>4. cash'[s] = cash[s] + 0 - 0 /\ toTreasury'[s] = toTreasury[s] - 0
    BY <1>1
  <1>5. Moves(s, 0, 0, 0)
    BY <1>2, <1>3, <1>4 DEF Moves
  <1>6. QED
    BY <1>5, Balanced

BooksStep == UserSigned => \A r \in Reserves : Balances(r)

LEMMA BooksKept == TypeOK /\ TypeOK' /\ [Next]_vars => [BooksStep]_vars
  <1> SUFFICES ASSUME TypeOK, TypeOK', Next, NEW s \in Reserves, UserSigned
               PROVE  Balances(s)
    BY DEF BooksStep
  <1>1. ASSUME NEW m \in Users, NEW r \in Reserves, UserStep(m, r)
        PROVE  Balances(s)
    <2>1. CASE \E u \in Users, amount \in Amounts : Deposit(m, u, r, amount)
      BY <2>1, DepositBalances
    <2>2. CASE \E amount \in AmountsOrMax : Withdraw(m, r, amount)
      BY <2>2, WithdrawBalances
    <2>3. CASE \E u \in Users, amount \in Amounts, mode \in Modes :
                  Borrow(m, u, r, amount, mode)
      BY <2>3, BorrowBalances
    <2>4. CASE \E u \in Users, amount \in AmountsOrMax, mode \in Modes :
                  Repay(m, u, r, amount, mode)
      BY <2>4, RepayBalances
    <2>5. CASE \E mode \in Modes : SwapBorrowRateMode(m, r, mode)
      BY <2>5, SwapBalances
    <2>6. CASE \E u \in Users, d \in Reserves, cover \in AmountsOrMax, receiveAToken \in BOOLEAN :
                  LiquidationCall(m, u, r, d, cover, receiveAToken)
      BY <2>6, LiquidationBalances
    <2>7. CASE \/ \E to \in Users, amount \in Amounts : Transfer(m, to, r, amount)
               \/ \E from, to \in Users, amount \in Amounts : TransferFrom(m, from, to, r, amount)
      BY <2>7, MoveBalances, AmountsAssumption DEF Transfer, TransferFrom, debtVars
    <2>8. CASE \/ \E use \in BOOLEAN : SetUserUseReserveAsCollateral(m, r, use)
               \/ \E spender \in Users, amount \in Approvals : Approve(m, spender, r, amount)
               \/ \E delegatee \in Users, mode \in Modes, amount \in Approvals :
                     ApproveDelegation(m, delegatee, r, mode, amount)
      BY <2>8, NothingMoves
         DEF SetUserUseReserveAsCollateral, Approve, ApproveDelegation, debtVars
    <2>9. QED
      BY <1>1, <2>1, <2>2, <2>3, <2>4, <2>5, <2>6, <2>7, <2>8 DEF UserStep
  <1>2. sender' # Environment
    BY TreasuryAssumption DEF UserSigned
  <1>3. ASSUME NEW r \in Reserves, EnvironmentStep(r)
        PROVE  FALSE
    BY <1>2, <1>3 DEF EnvironmentStep, SetConfiguration, SetPrice, Accrue, Signed
  <1>4. ASSUME NEW p \in BOOLEAN, SetPause(p)
        PROVE  FALSE
    BY <1>2, <1>4 DEF SetPause, Signed
  <1>5. QED
    BY <1>1, <1>3, <1>4 DEF Next

(***************************************************************************)
(* The books balance: no transaction makes or loses money in any reserve      *)
(* beyond the rounding of the four balances it may touch.                       *)
(***************************************************************************)
THEOREM BooksAlwaysBalance == Spec => BooksBalance
  <1>1. Init => TypeOK
    BY TypeInit
  <1>2. TypeOK /\ [Next]_vars => TypeOK'
    BY TypeStep
  <1>3. TypeOK /\ TypeOK' /\ [Next]_vars => [BooksStep]_vars
    BY BooksKept
  <1>4. BooksBalance <=> [][BooksStep]_vars
    BY DEF BooksBalance, BooksStep, Balances
  <1>5. QED
    BY <1>1, <1>2, <1>3, <1>4, PTL DEF Spec

-----------------------------------------------------------------------------
(***************************************************************************)
(* Values. A value is a quotient rounded down: it is monotone, and splitting  *)
(* an amount loses at most one unit.                                            *)
(***************************************************************************)
LEMMA DivSplits ==
    ASSUME NEW m \in Nat, NEW n \in Nat, NEW d \in Nat \ {0}
    PROVE  /\ m \div d + n \div d <= (m + n) \div d
           /\ (m + n) \div d <= m \div d + n \div d + 1
  <1> DEFINE p == m \div d
             q == n \div d
             s == (m + n) \div d
  <1>1. p \in Nat /\ d * p <= m /\ m < d * p + d
    BY DivBounds
  <1>2. q \in Nat /\ d * q <= n /\ n < d * q + d
    BY DivBounds
  <1>3. s \in Nat /\ d * s <= m + n /\ m + n < d * s + d
    <2>1. m + n \in Nat
      OBVIOUS
    <2> QED
      BY <2>1, DivBounds
  <1> HIDE DEF p, q, s
  <1>4. d * (p + q) < d * (s + 1)
    BY <1>1, <1>2, <1>3
  <1>5. d * s < d * (p + q + 2)
    BY <1>1, <1>2, <1>3
  <1>6. p + q < s + 1 /\ s < p + q + 2
    BY <1>1, <1>2, <1>3, <1>4, <1>5
  <1> QED
    BY <1>1, <1>2, <1>3, <1>6 DEF p, q, s

LEMMA ValueTypes ==
    ASSUME TypeOK, NEW r \in Reserves
    PROVE  price[r] \in Nat \ {0} /\ Unit[r] \in Nat \ {0}
  BY UnitAssumption DEF TypeOK

LEMMA ValueType ==
    ASSUME TypeOK, NEW r \in Reserves, NEW x \in Nat
    PROVE  InETH(r, x) \in Nat
  <1>1. price[r] * x \in Nat
    BY ValueTypes
  <1> QED
    BY <1>1, ValueTypes, DivBounds DEF InETH

LEMMA ValueSplits ==
    ASSUME TypeOK, NEW r \in Reserves, NEW x \in Nat, NEW y \in Nat
    PROVE  /\ InETH(r, x) + InETH(r, y) <= InETH(r, x + y)
           /\ InETH(r, x + y) <= InETH(r, x) + InETH(r, y) + 1
  <1>1. price[r] * x \in Nat /\ price[r] * y \in Nat
        /\ price[r] * (x + y) = price[r] * x + price[r] * y
    BY ValueTypes
  <1> QED
    BY <1>1, ValueTypes, DivSplits DEF InETH

LEMMA ValueMonotone ==
    ASSUME TypeOK, NEW r \in Reserves, NEW x \in Nat, NEW y \in Nat, x <= y
    PROVE  InETH(r, x) <= InETH(r, y)
  <1>1. y - x \in Nat /\ x + (y - x) = y
    OBVIOUS
  <1>2. InETH(r, x) + InETH(r, y - x) <= InETH(r, y)
    BY <1>1, ValueSplits
  <1> QED
    BY <1>1, <1>2, ValueType

\* Percentages, rounded half up: monotone, and off by one when split.
LEMMA PercentMulBounds ==
    ASSUME NEW x \in Nat, NEW p \in Nat
    PROVE  /\ PercentMul(x, p) \in Nat
           /\ 10000 * PercentMul(x, p) <= x * p + 5000
           /\ x * p + 5000 < 10000 * PercentMul(x, p) + 10000
  <1>1. x * p \in Nat /\ 10000 \in Nat \ {0} /\ 10000 \div 2 = 5000
    OBVIOUS
  <1> QED
    BY <1>1, RoundHalfUpBounds DEF PercentMul, PERCENTAGE_FACTOR

LEMMA PercentMulMonotone ==
    ASSUME NEW x \in Nat, NEW y \in Nat, NEW p \in Nat, x <= y
    PROVE  PercentMul(x, p) <= PercentMul(y, p)
  <1>1. x * p \in Nat /\ y * p \in Nat /\ x * p <= y * p /\ 10000 \in Nat \ {0}
    OBVIOUS
  <1> QED
    BY <1>1, RoundHalfUpMonotone DEF PercentMul, PERCENTAGE_FACTOR

LEMMA PercentMulSplits ==
    ASSUME NEW x \in Nat, NEW y \in Nat, NEW p \in Nat
    PROVE  /\ PercentMul(x + y, p) <= PercentMul(x, p) + PercentMul(y, p) + 1
           /\ PercentMul(x, p) + PercentMul(y, p) <= PercentMul(x + y, p) + 1
  <1> DEFINE a == PercentMul(x, p)
             b == PercentMul(y, p)
             c == PercentMul(x + y, p)
  <1>1. /\ a \in Nat /\ 10000 * a <= x * p + 5000 /\ x * p + 5000 < 10000 * a + 10000
        /\ b \in Nat /\ 10000 * b <= y * p + 5000 /\ y * p + 5000 < 10000 * b + 10000
    <2>1. /\ a \in Nat /\ 10000 * a <= x * p + 5000 /\ x * p + 5000 < 10000 * a + 10000
      BY PercentMulBounds
    <2>2. /\ b \in Nat /\ 10000 * b <= y * p + 5000 /\ y * p + 5000 < 10000 * b + 10000
      BY PercentMulBounds
    <2> HIDE DEF a, b
    <2> QED
      BY <2>1, <2>2
  <1>2. c \in Nat /\ 10000 * c <= (x + y) * p + 5000 /\ (x + y) * p + 5000 < 10000 * c + 10000
    <2>1. x + y \in Nat
      OBVIOUS
    <2> QED
      BY <2>1, PercentMulBounds
  <1>3. (x + y) * p = x * p + y * p /\ x * p \in Nat /\ y * p \in Nat
    OBVIOUS
  <1> DEFINE v == x * p
             w == y * p
  <1> HIDE DEF a, b, c, v, w
  <1>4. c <= a + b + 1 /\ a + b <= c + 1
    BY <1>1, <1>2, <1>3 DEF v, w
  <1> QED
    BY <1>4 DEF a, b, c

(***************************************************************************)
(* The exchange of a liquidation. What is seized is worth what is repaid plus *)
(* the bonus, whichever of the two the other is computed from.                   *)
(***************************************************************************)
\* The exchange with the prices (p) and units (u) of collateral and debt as parameters.
ValueOf(p, u, x) == (p * x) \div u
Exchanged(pc, pd, uc, ud, b, asked) == PercentMul(pd * asked * uc, b) \div (pc * ud)
Needed(pc, pd, uc, ud, b, x) == PercentDiv((pc * x * ud) \div (pd * uc), b)

\* Collateral computed from the debt: at most one unit of the debt's value is lost.
LEMMA WorthOfAsked ==
    ASSUME NEW pc \in Nat \ {0}, NEW pd \in Nat \ {0}, NEW uc \in Nat \ {0},
           NEW ud \in Nat \ {0}, NEW b \in Nat, NEW asked \in Nat, NEW s \in Nat,
           s <= Exchanged(pc, pd, uc, ud, b, asked)
    PROVE  ValueOf(pc, uc, s) <= PercentMul(ValueOf(pd, ud, asked) + 1, b)
  <1> DEFINE v == pd * asked * uc
             w == PercentMul(v, b)
             h == w \div (pc * ud)
             e == (pd * asked) \div ud
             n == e + 1
             t == (pc * s) \div uc
             p == PercentMul(n, b)
             k == uc * ud
  <1>1. v \in Nat /\ pc * ud \in Nat \ {0} /\ pd * asked \in Nat /\ pc * s \in Nat /\ k \in Nat \ {0}
    OBVIOUS
  <1>2. w \in Nat /\ 10000 * w <= v * b + 5000
    <2>1. w = PercentMul(v, b)
      OBVIOUS
    <2> HIDE DEF v, w
    <2> QED
      BY <1>1, <2>1, PercentMulBounds
  <1>3. h \in Nat /\ (pc * ud) * h <= w
    <2> DEFINE g == pc * ud
    <2>1. g \in Nat \ {0} /\ h = w \div g
      BY <1>1
    <2> HIDE DEF w, g, h
    <2>2. h \in Nat /\ g * h <= w
      BY <1>2, <2>1, DivBounds
    <2> QED
      BY <2>2 DEF g
  <1>4. e \in Nat /\ pd * asked < ud * e + ud
    BY <1>1, DivBounds
  <1>5. t \in Nat /\ uc * t <= pc * s
    BY <1>1, DivBounds
  <1>6. n \in Nat
    BY <1>4
  <1>8. s <= h
    BY DEF Exchanged
  <1> HIDE DEF v, w, h, e, n, t
  <1>7. p \in Nat /\ n * b + 5000 < 10000 * p + 10000
    <2>1. /\ PercentMul(n, b) \in Nat
          /\ 10000 * PercentMul(n, b) <= n * b + 5000
          /\ n * b + 5000 < 10000 * PercentMul(n, b) + 10000
      BY ONLY <1>6, b \in Nat, PercentMulBounds
    <2> QED
      BY <2>1
  <1>9. k * t <= w
    <2>1. k * t = ud * (uc * t) /\ (pc * ud) * s = ud * (pc * s)
      BY <1>5 DEF k
    <2>2. ud * (uc * t) <= ud * (pc * s)
      BY <1>1, <1>5
    <2>3. (pc * ud) * s <= (pc * ud) * h
      BY <1>1, <1>3, <1>8
    <2> QED
      BY <1>1, <1>2, <1>3, <1>5, <2>1, <2>2, <2>3
  <1>10. v * b <= (k * n) * b
    <2>1. pd * asked <= ud * n
      BY <1>1, <1>4 DEF n
    <2>2. (pd * asked) * uc <= (ud * n) * uc
      BY <1>1, <1>6, <2>1
    <2>3. (ud * n) * uc = k * n
      BY <1>6 DEF k
    <2>4. v <= k * n
      BY <2>2, <2>3 DEF v
    <2> QED
      BY <1>1, <1>6, <2>4
  <1> HIDE DEF p, k
  <1>11. 10000 * (k * t) <= (k * n) * b + 5000
    <2>1. v * b \in Nat /\ (k * n) * b \in Nat /\ k * t \in Nat
      BY <1>1, <1>5, <1>6
    <2> QED
      BY <1>2, <1>9, <1>10, <2>1
  <1>12. ASSUME p + 1 <= t PROVE FALSE
    <2>1. n * b + 5001 <= 10000 * t
      BY <1>5, <1>6, <1>7, <1>12
    <2>2. k * (n * b + 5001) <= k * (10000 * t)
      BY <1>1, <1>5, <1>6, <2>1
    <2>3. k * (n * b + 5001) = (k * n) * b + 5001 * k /\ k * (10000 * t) = 10000 * (k * t)
      BY <1>1, <1>5, <1>6
    <2>4. (k * n) * b + 5001 * k <= (k * n) * b + 5000
      <3> DEFINE x == 10000 * (k * t)
                 y == (k * n) * b
                 g == k * (n * b + 5001)
      <3>1. x \in Nat /\ y \in Nat /\ 5001 * k \in Nat
        BY <1>1, <1>5, <1>6
      <3>2. x <= y + 5000 /\ g <= x /\ g = y + 5001 * k
        BY <1>11, <2>2, <2>3
      <3> HIDE DEF x, y, g
      <3>3. y + 5001 * k <= y + 5000
        BY <3>1, <3>2
      <3> QED
        BY <3>3 DEF y
    <2>5. (k * n) * b \in Nat
      BY <1>1, <1>6
    <2> DEFINE z == (k * n) * b
    <2> HIDE DEF z
    <2>6. z \in Nat /\ z + 5001 * k <= z + 5000
      BY <2>4, <2>5 DEF z
    <2> QED
      BY <1>1, <2>6
  <1>13. t <= p
    BY <1>5, <1>7, <1>12
  <1> QED
    BY <1>13 DEF t, p, n, e, ValueOf

\* Debt computed from the collateral: two tokens of it are lost.
LEMMA WorthOfNeeded ==
    ASSUME NEW pc \in Nat \ {0}, NEW pd \in Nat \ {0}, NEW uc \in Nat \ {0},
           NEW ud \in Nat \ {0}, NEW b \in Nat, b >= 10000, NEW s \in Nat
    PROVE  LET needed == Needed(pc, pd, uc, ud, b, s)
           IN  /\ needed \in Nat
               /\ ValueOf(pc, uc, s) <= PercentMul(ValueOf(pd, ud, needed + 2) + 1, b)
  <1> DEFINE v == (pc * s * ud) \div (pd * uc)
             needed == PercentDiv(v, b)
             r == needed + 2
             e == (pd * r) \div ud
             n == e + 1
             t == (pc * s) \div uc
             p == PercentMul(n, b)
  <1>1. pc * s * ud \in Nat /\ pd * uc \in Nat \ {0} /\ pc * s \in Nat /\ b \in Nat \ {0}
    OBVIOUS
  <1>2. v \in Nat /\ pc * s * ud < (pd * uc) * v + pd * uc
    <2> DEFINE i == pc * s * ud
               g == pd * uc
    <2>1. v = i \div g /\ i \in Nat /\ g \in Nat \ {0}
      BY <1>1
    <2> HIDE DEF i, g, v
    <2>2. v \in Nat /\ i < g * v + g
      BY <2>1, DivBounds
    <2> QED
      BY <2>2 DEF i, g
  <1>3. needed \in Nat /\ v * 10000 + (b \div 2) < b * needed + b /\ b \div 2 \in Nat
    <2> DEFINE i == v * 10000
    <2>1. needed = RoundHalfUp(i, b)
      BY DEF PercentDiv, PERCENTAGE_FACTOR
    <2>2. i \in Nat
      <3> HIDE DEF v
      <3> QED
        BY <1>2
    <2> HIDE DEF i, needed
    <2>3. needed \in Nat /\ i + (b \div 2) < b * needed + b /\ b \div 2 \in Nat
      BY <1>1, <2>1, <2>2, RoundHalfUpBounds, HalfBounds
    <2> QED
      BY <2>3 DEF i
  <1>4. r \in Nat /\ pd * r \in Nat
    <2> HIDE DEF needed
    <2> QED
      BY <1>3
  <1>5. e \in Nat /\ pd * r < ud * e + ud
    <2> HIDE DEF r
    <2> QED
      BY <1>4, DivBounds
  <1>6. t \in Nat /\ uc * t <= pc * s
    BY <1>1, DivBounds
  <1>7. n \in Nat
    BY <1>5
  <1> HIDE DEF v, needed, e, n, t
  <1>8. p \in Nat /\ n * b + 5000 < 10000 * p + 10000
    <2>1. PercentMul(n, b) \in Nat /\ n * b + 5000 < 10000 * PercentMul(n, b) + 10000
      BY <1>7, PercentMulBounds
    <2> QED
      BY <2>1
  <1> HIDE DEF p
  <1>9. 10000 * (v + 1) <= b * r
    <2>1. b * r = b * needed + 2 * b
      BY <1>3
    <2>2. b * needed \in Nat
      BY <1>3
    <2> QED
      BY <1>2, <1>3, <2>1, <2>2
  <1> HIDE DEF r
  <1>10. 10000 * (pc * s * ud) <= (pd * uc) * (b * r)
    <2>1. pc * s * ud <= (pd * uc) * (v + 1)
      BY <1>1, <1>2
    <2>2. (pd * uc) * (10000 * (v + 1)) <= (pd * uc) * (b * r)
      BY <1>1, <1>2, <1>4, <1>9
    <2>3. (pd * uc) * (10000 * (v + 1)) = 10000 * ((pd * uc) * (v + 1))
      BY <1>1, <1>2
    <2>4. (pd * uc) * (v + 1) \in Nat /\ (pd * uc) * (b * r) \in Nat
      BY <1>1, <1>2, <1>4
    <2> QED
      BY <1>1, <2>1, <2>2, <2>3, <2>4
  <1>11. (pd * uc) * (b * r) <= (uc * ud) * (b * n)
    <2>1. pd * r <= ud * n
      BY <1>4, <1>5 DEF n
    <2>2. (uc * b) * (pd * r) <= (uc * b) * (ud * n)
      BY <1>4, <1>7, <2>1
    <2>3. (uc * b) * (pd * r) = (pd * uc) * (b * r) /\ (uc * b) * (ud * n) = (uc * ud) * (b * n)
      BY <1>4, <1>7
    <2> QED
      BY <2>2, <2>3
  <1>12. (uc * ud) * (10000 * t) <= 10000 * (pc * s * ud)
    <2>1. ud * (uc * t) <= ud * (pc * s)
      BY <1>1, <1>6
    <2>2. (uc * ud) * (10000 * t) = 10000 * (ud * (uc * t)) /\ ud * (pc * s) = pc * s * ud
      BY <1>6
    <2>3. ud * (uc * t) \in Nat
      BY <1>6
    <2> QED
      BY <1>1, <2>1, <2>2, <2>3
  <1> DEFINE k == uc * ud
             x == 10000 * t
             y == b * n
  <1>13. k \in Nat \ {0} /\ x \in Nat /\ y \in Nat
    BY <1>6, <1>7
  <1>14. k * x <= k * y
    <2>1. 10000 * (pc * s * ud) \in Nat /\ (pd * uc) * (b * r) \in Nat
      BY <1>1, <1>4
    <2>2. k * x \in Nat /\ k * y \in Nat
      BY <1>13
    <2> QED
      BY <1>10, <1>11, <1>12, <2>1, <2>2
  <1>15. x <= y
    <2> HIDE DEF k, x, y
    <2>1. ASSUME y + 1 <= x PROVE FALSE
      <3>1. k * (y + 1) <= k * x
        BY <1>13, <2>1
      <3> QED
        BY <1>13, <1>14, <3>1
    <2> QED
      BY <1>13, <2>1
  <1>16. t <= p
    <2>1. n * b = b * n
      BY <1>7
    <2> HIDE DEF y
    <2>2. y + 5000 < 10000 * p + 10000 
      BY <1>8, <2>1 DEF y
    <2> QED
      BY <1>6, <1>8, <1>13, <1>15, <2>2
  <1> QED
    BY <1>3, <1>16 DEF t, p, n, e, r, needed, v, ValueOf, Needed

\* What is seized is worth at most what is repaid, with the bonus, and no more is
\* repaid than the close factor allows.
LEMMA SeizedWorth ==
    ASSUME TypeOK, NEW u \in Users, NEW c \in Reserves, NEW d \in Reserves,
           NEW cover \in Nat, config[c].liquidationBonus > PERCENTAGE_FACTOR
    PROVE  LET amounts == LiquidationAmounts(u, c, d, cover)
           IN  /\ amounts.repaid <= PercentMul(TotalDebt(u, d), LIQUIDATION_CLOSE_FACTOR_PERCENT)
               /\ InETH(c, amounts.seized) <=
                      PercentMul(InETH(d, amounts.repaid + 2) + 1, config[c].liquidationBonus)
  <1> DEFINE balance == BalanceOf(u, c)
             bonus   == config[c].liquidationBonus
             most    == PercentMul(TotalDebt(u, d), LIQUIDATION_CLOSE_FACTOR_PERCENT)
             asked   == Least(cover, most)
             worth   == PercentMul(price[d] * asked * Unit[c], bonus) \div (price[c] * Unit[d])
             needed  == PercentDiv((price[c] * balance * Unit[d]) \div (price[d] * Unit[c]), bonus)
             Worth(x) == PercentMul(InETH(d, x) + 1, bonus)
  <1>1. balance \in Nat /\ most \in Nat
    BY BalanceTypes, CloseFactorBound
  <1>2. bonus \in Nat /\ bonus >= 10000
    <2>1. config[c] \in Configuration
      BY DEF TypeOK
    <2>2. config[c].liquidationBonus \in Nat
      BY <2>1 DEF Configuration
    <2>3. config[c].liquidationBonus > 10000
      BY DEF PERCENTAGE_FACTOR
    <2> QED
      BY <2>2, <2>3
  <1>3. asked \in Nat /\ asked <= most
    BY <1>1 DEF Least
  <1>4. /\ price[c] \in Nat \ {0} /\ price[d] \in Nat \ {0}
        /\ Unit[c] \in Nat \ {0} /\ Unit[d] \in Nat \ {0}
    BY ValueTypes
  <1>5. LiquidationAmounts(u, c, d, cover) =
            IF worth > balance
            THEN [seized |-> balance, repaid |-> Least(needed, asked)]
            ELSE [seized |-> worth, repaid |-> asked]
    BY DEF LiquidationAmounts
  <1> HIDE DEF bonus, balance, most
  <1>6. worth \in Nat
    <2> DEFINE v == price[d] * asked * Unit[c]
               g == price[c] * Unit[d]
    <2> HIDE DEF asked
    <2>1. v \in Nat /\ g \in Nat \ {0}
      BY <1>3, <1>4
    <2> HIDE DEF v, g
    <2>2. PercentMul(v, bonus) \in Nat
      BY <1>2, <2>1, PercentMulBounds
    <2> QED
      BY <2>1, <2>2, DivBounds DEF v, g, asked
  <1>7. \A x \in Nat : x <= worth => InETH(c, x) <= Worth(asked)
    <2>1. TAKE x \in Nat
    <2>2. HAVE x <= worth
    <2>3. x <= Exchanged(price[c], price[d], Unit[c], Unit[d], bonus, asked)
      BY <2>2 DEF Exchanged
    <2> DEFINE pc == price[c]
               pd == price[d]
               uc == Unit[c]
               ud == Unit[d]
    <2> HIDE DEF asked, worth
    <2>4. /\ pc \in Nat \ {0} /\ pd \in Nat \ {0} /\ uc \in Nat \ {0} /\ ud \in Nat \ {0}
          /\ bonus \in Nat /\ asked \in Nat /\ x \in Nat
          /\ x <= Exchanged(pc, pd, uc, ud, bonus, asked)
      BY <1>2, <1>3, <1>4, <2>1, <2>3
    <2> HIDE DEF pc, pd, uc, ud
    <2>5. ValueOf(pc, uc, x) <= PercentMul(ValueOf(pd, ud, asked) + 1, bonus)
      BY ONLY <2>4, WorthOfAsked
    <2> QED
      BY <2>5 DEF InETH, ValueOf, pc, pd, uc, ud
  <1>8. needed \in Nat /\ InETH(c, balance) <= Worth(needed + 2)
    <2>1. needed = Needed(price[c], price[d], Unit[c], Unit[d], bonus, balance)
      BY DEF Needed
    <2> DEFINE pc == price[c]
               pd == price[d]
               uc == Unit[c]
               ud == Unit[d]
    <2>2. /\ pc \in Nat \ {0} /\ pd \in Nat \ {0} /\ uc \in Nat \ {0} /\ ud \in Nat \ {0}
          /\ bonus \in Nat /\ bonus >= 10000 /\ balance \in Nat
      BY <1>1, <1>2, <1>4
    <2> HIDE DEF needed, pc, pd, uc, ud
    <2>3. /\ Needed(pc, pd, uc, ud, bonus, balance) \in Nat
          /\ ValueOf(pc, uc, balance) <=
                 PercentMul(ValueOf(pd, ud, Needed(pc, pd, uc, ud, bonus, balance) + 2) + 1, bonus)
      BY ONLY <2>2, WorthOfNeeded
    <2> QED
      BY <2>1, <2>3 DEF InETH, ValueOf, pc, pd, uc, ud
  <1> HIDE DEF asked, worth, needed
  <1>9. Worth(asked) <= Worth(asked + 2)
    <2>1. InETH(d, asked) \in Nat /\ InETH(d, asked + 2) \in Nat
          /\ InETH(d, asked) <= InETH(d, asked + 2)
      BY <1>3, ValueType, ValueMonotone
    <2> QED
      BY <1>2, <2>1, PercentMulMonotone
  <1>10. Worth(asked) \in Nat /\ Worth(asked + 2) \in Nat
    <2> SUFFICES ASSUME NEW x \in Nat PROVE Worth(x) \in Nat
      BY <1>3
    <2> DEFINE n == InETH(d, x) + 1
    <2>1. n \in Nat
      BY ValueType
    <2> HIDE DEF n
    <2>2. PercentMul(n, bonus) \in Nat
      BY <1>2, <2>1, PercentMulBounds
    <2> QED
      BY <2>2 DEF n
  <1>11. InETH(c, balance) \in Nat /\ InETH(c, worth) \in Nat
    BY <1>1, <1>6, ValueType
  <1> HIDE DEF Worth
  <1>12. CASE worth > balance
    <2> DEFINE repaid == Least(needed, asked)
    <2>1. repaid \in {needed, asked} /\ repaid <= most
      BY <1>1, <1>3, <1>8 DEF Least
    <2>2. InETH(c, balance) <= Worth(asked + 2)
      BY <1>1, <1>6, <1>7, <1>9, <1>10, <1>11, <1>12
    <2>3. InETH(c, balance) <= Worth(repaid + 2)
      BY <1>8, <2>1, <2>2
    <2> QED
      BY <1>5, <1>12, <2>1, <2>3 DEF Worth, bonus, most
  <1>13. CASE ~(worth > balance)
    <2>1. InETH(c, worth) <= Worth(asked + 2)
      BY <1>6, <1>7, <1>9, <1>10, <1>11
    <2> QED
      BY <1>3, <1>5, <1>13, <2>1 DEF Worth, bonus, most
  <1> QED
    BY <1>12, <1>13

(***************************************************************************)
(* Configurations are always ones the reserve may be given.                  *)
(***************************************************************************)
ConfigInv == \A r \in Reserves : config[r] \in Configs[r]

LEMMA ConfigInit == Init => ConfigInv
  BY ConfigsAssumption DEF Init, ConfigInv, InitialConfig

LEMMA ConfigStep == ConfigInv /\ [Next]_vars => ConfigInv'
  <1> SUFFICES ASSUME ConfigInv, [Next]_vars PROVE ConfigInv'
    OBVIOUS
  <1>1. CASE UNCHANGED config
    BY <1>1 DEF ConfigInv
  <1>2. ASSUME NEW r \in Reserves, NEW c \in Configs[r], SetConfiguration(r, c)
        PROVE  ConfigInv'
    BY <1>2 DEF ConfigInv, SetConfiguration
  <1>3. ASSUME NEW m \in Users, NEW r \in Reserves, UserStep(m, r)
        PROVE  UNCHANGED config
    <2>1. CASE \/ \E u \in Users, amount \in Amounts : Deposit(m, u, r, amount)
               \/ \E amount \in AmountsOrMax : Withdraw(m, r, amount)
      BY <2>1 DEF Deposit, Withdraw, marketVars
    <2>2. CASE \/ \E u \in Users, amount \in Amounts, mode \in Modes :
                     Borrow(m, u, r, amount, mode)
               \/ \E u \in Users, amount \in AmountsOrMax, mode \in Modes :
                     Repay(m, u, r, amount, mode)
      BY <2>2 DEF Borrow, Repay, marketVars
    <2>3. CASE \/ \E mode \in Modes : SwapBorrowRateMode(m, r, mode)
               \/ \E use \in BOOLEAN : SetUserUseReserveAsCollateral(m, r, use)
      BY <2>3 DEF SwapBorrowRateMode, SetUserUseReserveAsCollateral, marketVars
    <2>4. CASE \E u \in Users, d \in Reserves, cover \in AmountsOrMax,
                  receiveAToken \in BOOLEAN : LiquidationCall(m, u, r, d, cover, receiveAToken)
      BY <2>4 DEF LiquidationCall, marketVars
    <2>5. CASE \/ \E to \in Users, amount \in Amounts : Transfer(m, to, r, amount)
               \/ \E from, to \in Users, amount \in Amounts :
                     TransferFrom(m, from, to, r, amount)
      BY <2>5 DEF Transfer, TransferFrom, marketVars
    <2>6. CASE \/ \E spender \in Users, amount \in Approvals : Approve(m, spender, r, amount)
               \/ \E delegatee \in Users, mode \in Modes, amount \in Approvals :
                     ApproveDelegation(m, delegatee, r, mode, amount)
      BY <2>6 DEF Approve, ApproveDelegation, marketVars
    <2> QED
      BY <1>3, <2>1, <2>2, <2>3, <2>4, <2>5, <2>6 DEF UserStep
  <1>4. ASSUME NEW r \in Reserves, EnvironmentStep(r)
        PROVE  ConfigInv'
    BY <1>1, <1>2, <1>4 DEF EnvironmentStep, SetPrice, Accrue, marketVars
  <1>5. ASSUME NEW p \in BOOLEAN, SetPause(p)
        PROVE  UNCHANGED config
    BY <1>5 DEF SetPause
  <1>6. CASE UNCHANGED vars
    BY <1>1, <1>6 DEF vars, marketVars
  <1> QED
    BY <1>1, <1>3, <1>4, <1>5, <1>6 DEF Next

\* Collateral that may be seized carries a bonus.
LEMMA BonusPaid ==
    ASSUME ConfigInv, NEW c \in Reserves, config[c].liquidationThreshold > 0
    PROVE  config[c].liquidationBonus > PERCENTAGE_FACTOR
  BY CollateralAssumption DEF ConfigInv

(***************************************************************************)
(* The two ends of a liquidation: what the user owes and holds before and     *)
(* after it.                                                                   *)
(***************************************************************************)
\* What is paid off is what was repaid, up to the rounding of the variable part.
LEMMA PaidOffBounds ==
    ASSUME TypeOK, NEW u \in Users, NEW d \in Reserves, NEW repaid \in Nat,
           repaid <= TotalDebt(u, d), BurnDebt(u, d, repaid), UNCHANGED indexVars
    PROVE  /\ TotalDebt(u, d)' \in Nat
           /\ PaidOff(u, d) > 0
           /\ PaidOff(u, d) <= repaid + RoundingDust(d)
           /\ TotalDebt(u, d)' + repaid <= TotalDebt(u, d) + RoundingDust(d)
           /\ \A v \in Users, r \in Reserves :
                 v # u \/ r # d => TotalDebt(v, r)' = TotalDebt(v, r)
  <1> DEFINE i      == debtIndex[d]
             first  == Least(VariableDebt(u, d), repaid)
             scaled == RayDiv(first, i)
             rest   == repaid - first
             w      == vBal'[u][d]
             old    == RayMul(vBal[u][d], i)
             new    == RayMul(w, i)
  <1>1. /\ VariableDebt(u, d) \in Nat /\ vBal[u][d] \in Nat /\ sBal[u][d] \in Nat
        /\ vBal \in Tables /\ sBal \in Tables
        /\ TotalDebt(u, d) = sBal[u][d] + old
    BY BalanceTypes DEF TypeOK, Tables, TotalDebt, StableDebt, VariableDebt
  <1>2. /\ scaled <= vBal[u][d]
        /\ vBal' = Minus(vBal, u, d, scaled)
        /\ sBal' = Minus(sBal, u, d, rest)
    BY DEF BurnDebt
  <1>3. first \in Nat /\ rest \in Nat /\ rest <= sBal[u][d] /\ first + rest = repaid
    BY <1>1 DEF Least, VariableDebt
  <1>4. scaled \in Nat
    BY <1>3, IndexPositive, RayDivType
  <1>5. w \in Nat /\ vBal[u][d] = w + scaled
    BY <1>1, <1>2, <1>4, MinusTable
  <1>6. sBal'[u][d] = sBal[u][d] - rest
    BY <1>1, <1>2, <1>3, MinusTable
  <1>7. TotalDebt(u, d)' = sBal'[u][d] + new
    BY DEF TotalDebt, StableDebt, VariableDebt, indexVars
  <1>8. RoundingDust(d) \in Nat
    BY DustCovers
  <1>9. new \in Nat /\ old \in Nat /\ Within(old, new + first, RoundingDust(d))
    BY <1>3, <1>5, ReadingMoves
  <1>10. TotalDebt(u, d)' < TotalDebt(u, d)
    BY BurnDebtDecreases DEF indexVars
  <1>11. ASSUME NEW v \in Users, NEW r \in Reserves, v # u \/ r # d
         PROVE  TotalDebt(v, r)' = TotalDebt(v, r)
    <2>1. vBal'[v][r] = vBal[v][r]
      BY <1>1, <1>2, <1>4, <1>11, MinusTable
    <2>2. sBal'[v][r] = sBal[v][r]
      BY <1>1, <1>2, <1>3, <1>11, MinusTable
    <2> QED
      BY <2>1, <2>2 DEF TotalDebt, StableDebt, VariableDebt, indexVars
  <1> HIDE DEF first, scaled, rest, w, old, new
  <1>12. TotalDebt(u, d)' \in Nat /\ TotalDebt(u, d) \in Nat
    BY <1>1, <1>3, <1>6, <1>7, <1>9
  <1> QED
    BY <1>1, <1>3, <1>6, <1>7, <1>8, <1>9, <1>10, <1>11, <1>12 DEF PaidOff, Within

\* A liquidation takes from nobody but the user it liquidates, nothing but c, and no
\* more than what it seizes.
LEMMA LiquidationEntries ==
    ASSUME TypeOK, NEW m \in Users, NEW u \in Users, NEW c \in Reserves, NEW d \in Reserves,
           NEW cover \in AmountsOrMax, NEW receiveAToken \in BOOLEAN,
           LiquidationCall(m, u, c, d, cover, receiveAToken)
    PROVE  LET scaled == RayDiv(LiquidationAmounts(u, c, d, cover).seized, income[c])
           IN  /\ scaled \in Nat
               /\ \A v \in Users \ {m}, s \in Reserves :
                     /\ aBal'[v][s] \in Nat
                     /\ v # u \/ s # c => aBal'[v][s] >= aBal[v][s]
                     /\ v = u /\ s = c => aBal'[u][c] + scaled >= aBal[u][c]
  <1> DEFINE amounts == LiquidationAmounts(u, c, d, cover)
             updated == IF receiveAToken THEN {d} ELSE {c, d}
             minted  == Minted(updated)
             scaled  == RayDiv(amounts.seized, income[c])
             taken   == Minus(minted, u, c, scaled)
  <1>1. cover \in Nat
    BY AmountsAssumption, MaxUintAssumption DEF AmountsOrMax
  <1>2. amounts.seized \in Nat
    BY <1>1, LiquidationAmountsBound
  <1>3. scaled \in Nat
    BY <1>2, IndexPositive, RayDivType
  <1>4. /\ scaled <= minted[u][c]
        /\ aBal' = Plus(taken, m, c, scaled) \/ aBal' = taken
    BY DEF LiquidationCall
  <1>5. /\ minted \in Tables
        /\ \A v \in Users, s \in Reserves : minted[v][s] >= aBal[v][s]
    BY MintedTable
  <1>6. \A v \in Users, s \in Reserves : aBal[v][s] \in Nat /\ minted[v][s] \in Nat
    <2>1. aBal \in Tables
      BY DEF TypeOK, Tables
    <2>2. QED
      BY <1>5, <2>1, TableEntry
  <1> HIDE DEF amounts, minted, scaled
  <1>7. /\ taken \in Tables
        /\ \A v \in Users, s \in Reserves :
              taken[v][s] = IF v = u /\ s = c THEN minted[u][c] - scaled ELSE minted[v][s]
    BY <1>3, <1>4, <1>5, MinusTable
  <1> HIDE DEF taken
  <1>8. \A v \in Users \ {m}, s \in Reserves : aBal'[v][s] = taken[v][s]
    BY <1>3, <1>4, <1>7, OtherEntries
  <1>9. ASSUME NEW v \in Users \ {m}, NEW s \in Reserves
        PROVE  /\ aBal'[v][s] \in Nat
               /\ v # u \/ s # c => aBal'[v][s] >= aBal[v][s]
               /\ v = u /\ s = c => aBal'[u][c] + scaled >= aBal[u][c]
    <2>1. taken[v][s] = IF v = u /\ s = c THEN minted[u][c] - scaled ELSE minted[v][s]
      BY <1>7
    <2> QED
      BY <1>3, <1>4, <1>5, <1>6, <1>8, <2>1
  <1> QED
    BY <1>3, <1>9 DEF scaled, amounts

LEMMA ReadingMonotone ==
    ASSUME TypeOK, NEW r \in Reserves, NEW x \in Nat, NEW y \in Nat, x <= y,
           NEW i \in {income[r], debtIndex[r]}
    PROVE  /\ RayMul(x, i) \in Nat /\ RayMul(y, i) \in Nat
           /\ RayMul(x, i) <= RayMul(y, i)
  <1>1. RayMul(x, i) \in Nat /\ RayMul(y, i) \in Nat
    BY IndexPositive, RayMulType
  <1>2. CASE x = y
    BY <1>1, <1>2
  <1>3. CASE x < y
    BY <1>1, <1>3, IndexPositive, RayMulStrict
  <1> QED
    BY <1>1, <1>2, <1>3

\* A scaled balance that lost no more than RayDiv(seized) reads at most `seized` less.
LEMMA SeizedBound ==
    ASSUME TypeOK, UNCHANGED indexVars, NEW u \in Users, NEW c \in Reserves, NEW seized \in Nat,
           aBal'[u][c] \in Nat, aBal'[u][c] + RayDiv(seized, income[c]) >= aBal[u][c]
    PROVE  /\ BalanceOf(u, c)' \in Nat
           /\ BalanceOf(u, c) <= BalanceOf(u, c)' + seized + RoundingDust(c)
  <1> DEFINE i   == income[c]
             w   == aBal'[u][c]
             top == w + RayDiv(seized, i)
  <1>1. aBal[u][c] \in Nat /\ RoundingDust(c) \in Nat
    BY DustCovers DEF TypeOK
  <1>2. RayDiv(seized, i) \in Nat
    BY IndexPositive, RayDivType
  <1>3. /\ RayMul(w, i) \in Nat /\ RayMul(top, i) \in Nat
        /\ Within(RayMul(top, i), RayMul(w, i) + seized, RoundingDust(c))
    BY ReadingMoves
  <1>4. BalanceOf(u, c)' = RayMul(w, i) /\ BalanceOf(u, c) = RayMul(aBal[u][c], i)
    BY DEF BalanceOf, indexVars
  <1>5. top \in Nat /\ aBal[u][c] <= top
    BY <1>1, <1>2
  <1> HIDE DEF w, top
  <1>6. RayMul(aBal[u][c], i) \in Nat /\ RayMul(aBal[u][c], i) <= RayMul(top, i)
    BY <1>1, <1>5, ReadingMonotone
  <1> QED
    BY <1>1, <1>3, <1>4, <1>6 DEF Within

\* Who loses deposits without an allowance is being liquidated.
LEMMA OnlyLiquidations ==
    ASSUME TypeOK, Next, NEW u \in Users, NEW c \in Reserves, Liquidated(u, c)
    PROVE  \E d \in Reserves, cover \in AmountsOrMax, receiveAToken \in BOOLEAN :
              LiquidationCall(sender', u, c, d, cover, receiveAToken)
  <1>1. sender' \in Users /\ sender' # u /\ aBal'[u][c] < aBal[u][c] /\ AllowanceUsed(u, c) = 0
    BY DEF Liquidated, UserSigned
  <1>2. aBal[u][c] \in Nat /\ aBal'[u][c] \in Nat
    <2>1. TypeOK'
      BY TypeStep
    <2> QED
      BY <2>1 DEF TypeOK
  <1>3. PICK m \in Users, r \in Reserves : UserStep(m, r)
    BY <1>1, TreasuryAssumption DEF Next, EnvironmentStep, SetConfiguration, SetPrice, Accrue,
                                    SetPause, Signed
  <1>4. sender' = m
    <2>1. CASE \/ \E v \in Users, amount \in Amounts : Deposit(m, v, r, amount)
               \/ \E amount \in AmountsOrMax : Withdraw(m, r, amount)
      BY <2>1 DEF Deposit, Withdraw, Signed
    <2>2. CASE \/ \E v \in Users, amount \in Amounts, mode \in Modes :
                     Borrow(m, v, r, amount, mode)
               \/ \E v \in Users, amount \in AmountsOrMax, mode \in Modes :
                     Repay(m, v, r, amount, mode)
      BY <2>2 DEF Borrow, Repay, Signed
    <2>3. CASE \/ \E mode \in Modes : SwapBorrowRateMode(m, r, mode)
               \/ \E use \in BOOLEAN : SetUserUseReserveAsCollateral(m, r, use)
      BY <2>3 DEF SwapBorrowRateMode, SetUserUseReserveAsCollateral, Signed
    <2>4. CASE \E v \in Users, d \in Reserves, cover \in AmountsOrMax,
                  receiveAToken \in BOOLEAN : LiquidationCall(m, v, r, d, cover, receiveAToken)
      BY <2>4 DEF LiquidationCall, Signed
    <2>5. CASE \/ \E to \in Users, amount \in Amounts : Transfer(m, to, r, amount)
               \/ \E from, to \in Users, amount \in Amounts :
                     TransferFrom(m, from, to, r, amount)
      BY <2>5 DEF Transfer, TransferFrom, Signed
    <2>6. CASE \/ \E spender \in Users, amount \in Approvals : Approve(m, spender, r, amount)
               \/ \E delegatee \in Users, mode \in Modes, amount \in Approvals :
                     ApproveDelegation(m, delegatee, r, mode, amount)
      BY <2>6 DEF Approve, ApproveDelegation, Signed
    <2> QED
      BY <1>3, <2>1, <2>2, <2>3, <2>4, <2>5, <2>6 DEF UserStep
  \* Every other operation leaves u's deposits alone or uses up an allowance.
  <1>5. ~DepositsKept(m) /\ ~(aBal'[u][c] >= aBal[u][c])
    <2>1. ~(aBal'[u][c] >= aBal[u][c])
      BY <1>1, <1>2
    <2> QED
      BY <1>1, <1>4, <2>1 DEF DepositsKept
  <1>6. CASE \/ \E v \in Users, amount \in Amounts : Deposit(m, v, r, amount)
             \/ \E amount \in AmountsOrMax : Withdraw(m, r, amount)
    BY <1>5, <1>6, OwnMoneyKept
  <1>7. CASE \/ \E v \in Users, amount \in Amounts, mode \in Modes :
                   Borrow(m, v, r, amount, mode)
             \/ \E v \in Users, amount \in AmountsOrMax, mode \in Modes :
                   Repay(m, v, r, amount, mode)
             \/ \E mode \in Modes : SwapBorrowRateMode(m, r, mode)
    BY <1>5, <1>7, MintedKeepsDeposits DEF Borrow, Repay, SwapBorrowRateMode
  <1>8. CASE \E v \in Users, d \in Reserves, cover \in AmountsOrMax,
                receiveAToken \in BOOLEAN : LiquidationCall(m, v, r, d, cover, receiveAToken)
    <2>1. PICK v \in Users, d \in Reserves, cover \in AmountsOrMax, receiveAToken \in BOOLEAN :
              LiquidationCall(m, v, r, d, cover, receiveAToken)
      BY <1>8
    <2>2. v = u /\ r = c
      BY <1>1, <1>4, <1>5, <2>1, LiquidationEntries
    <2> QED
      BY <1>4, <2>1, <2>2
  <1>9. CASE \E to \in Users, amount \in Amounts : Transfer(m, to, r, amount)
    <2>1. PICK to \in Users, amount \in Amounts : Transfer(m, to, r, amount)
      BY <1>9
    <2>2. amount \in Nat /\ MoveATokens(m, to, r, amount)
      BY <2>1, AmountsAssumption DEF Transfer
    <2> QED
      BY <1>5, <2>2, MoveEntries DEF DepositsKept
  <1>10. CASE \E from, to \in Users, amount \in Amounts : TransferFrom(m, from, to, r, amount)
    <2>1. PICK from \in Users, to \in Users, amount \in Amounts :
              TransferFrom(m, from, to, r, amount)
      BY <1>10
    <2>2. u = from /\ c = r /\ amount > 0 /\ AllowanceUsed(from, r) = amount
      BY <1>5, <2>1, TransferFromUses
    <2>3. amount = 0
      BY <1>1, <2>2
    <2> QED
      BY <2>2, <2>3
  <1>11. CASE \/ \E use \in BOOLEAN : SetUserUseReserveAsCollateral(m, r, use)
              \/ \E spender \in Users, amount \in Approvals : Approve(m, spender, r, amount)
              \/ \E delegatee \in Users, mode \in Modes, amount \in Approvals :
                    ApproveDelegation(m, delegatee, r, mode, amount)
    <2>1. aBal' = aBal
      BY <1>11 DEF SetUserUseReserveAsCollateral, Approve, ApproveDelegation
    <2> QED
      BY <1>1, <1>2, <2>1
  <1> QED
    BY <1>3, <1>6, <1>7, <1>8, <1>9, <1>10, <1>11 DEF UserStep

\* A liquidation of u by somebody else, as the properties below see it.
Exchange(u, c, d, repaid, seized) ==
    /\ TotalDebt(u, d) # 0 /\ c \in CollateralOf(u)
    /\ repaid <= TotalDebt(u, d)
    /\ 2 * repaid <= TotalDebt(u, d) + 1
    /\ BurnDebt(u, d, repaid)
    /\ InETH(c, seized) <=
           PercentMul(InETH(d, repaid + 2) + 1, config[c].liquidationBonus)
    /\ BalanceOf(u, c)' \in Nat
    /\ BalanceOf(u, c) <= BalanceOf(u, c)' + seized + RoundingDust(c)
    /\ \A r \in Reserves \ {c} : aBal'[u][r] >= aBal[u][r]
    /\ \/ usingAsCollateral'[u] = usingAsCollateral[u]
       \/ /\ usingAsCollateral'[u] = usingAsCollateral[u] \ {c}
          /\ seized = BalanceOf(u, c)
    /\ UNCHANGED <<indexVars, price, config, borrowing>>

LEMMA LiquidationExchange ==
    ASSUME TypeOK, ConfigInv, NEW m \in Users, NEW u \in Users \ {m}, NEW c \in Reserves,
           NEW d \in Reserves, NEW cover \in AmountsOrMax, NEW receiveAToken \in BOOLEAN,
           LiquidationCall(m, u, c, d, cover, receiveAToken)
    PROVE  \E repaid \in Nat, seized \in Nat : Exchange(u, c, d, repaid, seized)
  <1> DEFINE amounts == LiquidationAmounts(u, c, d, cover)
             repaid  == amounts.repaid
             seized  == amounts.seized
             most    == PercentMul(TotalDebt(u, d), LIQUIDATION_CLOSE_FACTOR_PERCENT)
  <1>1. cover \in Nat
    BY AmountsAssumption, MaxUintAssumption DEF AmountsOrMax
  <1>2. repaid \in Nat /\ repaid <= TotalDebt(u, d) /\ seized \in Nat
    BY <1>1, LiquidationAmountsBound
  <1>3. /\ config[c].liquidationThreshold > 0 /\ TotalDebt(u, d) # 0
        /\ c \in CollateralOf(u)
        /\ BurnDebt(u, d, repaid)
        /\ UNCHANGED <<indexVars, price, config, borrowing>>
    <2>1. /\ config[c].liquidationThreshold > 0 /\ TotalDebt(u, d) # 0
          /\ c \in usingAsCollateral[u]
          /\ BurnDebt(u, d, repaid)
          /\ UNCHANGED <<indexVars, price, config, borrowing>>
      BY DEF LiquidationCall, ValidateLiquidationCall, marketVars
    <2>2. config[c].liquidationThreshold # 0
      BY <2>1
    <2> QED
      BY <2>1, <2>2 DEF CollateralOf
  <1>4. config[c].liquidationBonus > PERCENTAGE_FACTOR
    BY <1>3, BonusPaid
  <1>5. /\ repaid <= most
        /\ InETH(c, seized) <=
               PercentMul(InETH(d, repaid + 2) + 1, config[c].liquidationBonus)
    BY <1>1, <1>4, SeizedWorth
  <1>6. 2 * repaid <= TotalDebt(u, d) + 1
    <2> DEFINE debt == TotalDebt(u, d)
    <2>1. debt \in Nat
      BY BalanceTypes
    <2> HIDE DEF debt
    <2>2. PercentMul(debt, 5000) \in Nat /\ 10000 * PercentMul(debt, 5000) <= debt * 5000 + 5000
      BY <2>1, PercentMulBounds
    <2>3. most = PercentMul(debt, 5000)
      BY DEF debt, LIQUIDATION_CLOSE_FACTOR_PERCENT
    <2> HIDE DEF repaid, most
    <2>4. 2 * repaid <= debt + 1
      BY <1>2, <1>5, <2>1, <2>2, <2>3
    <2> QED
      BY <2>4 DEF debt
  <1>7. /\ aBal'[u][c] \in Nat
        /\ aBal'[u][c] + RayDiv(seized, income[c]) >= aBal[u][c]
        /\ \A r \in Reserves \ {c} : aBal'[u][r] >= aBal[u][r]
    BY LiquidationEntries
  <1>8. /\ BalanceOf(u, c)' \in Nat
        /\ BalanceOf(u, c) <= BalanceOf(u, c)' + seized + RoundingDust(c)
    BY <1>2, <1>3, <1>7, SeizedBound
  <1>9. \/ usingAsCollateral'[u] = usingAsCollateral[u]
        \/ /\ usingAsCollateral'[u] = usingAsCollateral[u] \ {c}
           /\ seized = BalanceOf(u, c)
    <2> DEFINE emptied == seized = BalanceOf(u, c)
    <2>1. PICK flags : /\ flags = usingAsCollateral
                          \/ \E b : flags = OnFirstBalance(usingAsCollateral, m, c, b)
                       /\ usingAsCollateral' = CollateralBits(flags, u, c, emptied)
      BY DEF LiquidationCall
    <2>2. usingAsCollateral \in [Users -> SUBSET Reserves]
      BY DEF TypeOK
    <2>3. flags \in [Users -> SUBSET Reserves] /\ flags[u] = usingAsCollateral[u]
      BY <2>1, <2>2 DEF OnFirstBalance, Flagged
    <2> HIDE DEF seized
    <2> QED
      BY <2>1, <2>3 DEF CollateralBits, Unflagged
  <1> HIDE DEF repaid, seized
  <1>10. Exchange(u, c, d, repaid, seized)
    BY <1>2, <1>3, <1>5, <1>6, <1>7, <1>8, <1>9 DEF Exchange
  <1> QED
    BY <1>2, <1>10

LimitsStep ==
    \A u \in Users, c \in Reserves : Liquidated(u, c) =>
        \E d \in Reserves :
            /\ PaidOff(u, d) > 0
            /\ 2 * PaidOff(u, d) <= TotalDebt(u, d) + 1 + 2 * RoundingDust(d)
            /\ InETH(c, Seized(u, c)) <=
                   PercentMul(InETH(d, PaidOff(u, d) + RoundingDust(d) + 2) + 1,
                              config[c].liquidationBonus)
                     + InETH(c, RoundingDust(c)) + 1

LEMMA ExchangeLimits ==
    ASSUME TypeOK, NEW u \in Users, NEW c \in Reserves, NEW d \in Reserves,
           NEW repaid \in Nat, NEW seized \in Nat, Exchange(u, c, d, repaid, seized),
           BalanceOf(u, c)' <= BalanceOf(u, c)
    PROVE  /\ PaidOff(u, d) > 0
           /\ 2 * PaidOff(u, d) <= TotalDebt(u, d) + 1 + 2 * RoundingDust(d)
           /\ InETH(c, Seized(u, c)) <=
                  PercentMul(InETH(d, PaidOff(u, d) + RoundingDust(d) + 2) + 1,
                             config[c].liquidationBonus)
                    + InETH(c, RoundingDust(c)) + 1
  <1> DEFINE paid  == PaidOff(u, d)
             taken == Seized(u, c)
             debt  == TotalDebt(u, d)
             after == TotalDebt(u, d)'
             dustC == RoundingDust(c)
             dustD == RoundingDust(d)
             bonus == config[c].liquidationBonus
  <1>1. /\ debt \in Nat /\ dustC \in Nat /\ dustD \in Nat /\ bonus \in Nat
        /\ BalanceOf(u, c) \in Nat
    <2>1. config[c] \in Configuration
      BY DEF TypeOK
    <2> QED
      BY <2>1, BalanceTypes, DustCovers DEF Configuration
  <1>2. after \in Nat /\ paid > 0 /\ paid <= repaid + dustD /\ after + repaid <= debt + dustD
    BY PaidOffBounds DEF Exchange
  <1>3. paid = debt - after
    BY DEF PaidOff
  <1>4. /\ 2 * repaid <= debt + 1
        /\ InETH(c, seized) <= PercentMul(InETH(d, repaid + 2) + 1, bonus)
        /\ BalanceOf(u, c)' \in Nat
        /\ BalanceOf(u, c) <= BalanceOf(u, c)' + seized + dustC
    BY DEF Exchange
  <1>5. taken = BalanceOf(u, c) - BalanceOf(u, c)'
    BY DEF Seized
  <1> HIDE DEF paid, taken, debt, after, dustC, dustD, bonus
  <1>6. paid \in Nat /\ 2 * paid <= debt + 1 + 2 * dustD /\ repaid <= paid + dustD
    BY <1>1, <1>2, <1>3, <1>4
  <1>7. taken \in Nat /\ taken <= seized + dustC
    BY <1>1, <1>4, <1>5
  <1>8. /\ InETH(c, taken) \in Nat /\ InETH(c, seized) \in Nat /\ InETH(c, dustC) \in Nat
        /\ InETH(c, taken) <= InETH(c, seized) + InETH(c, dustC) + 1
    <2>1. InETH(c, taken) <= InETH(c, seized + dustC)
      BY <1>1, <1>7, ValueMonotone
    <2>2. InETH(c, seized + dustC) <= InETH(c, seized) + InETH(c, dustC) + 1
      BY <1>1, ValueSplits
    <2>3. seized + dustC \in Nat
      BY <1>1
    <2>4. /\ InETH(c, taken) \in Nat /\ InETH(c, seized) \in Nat /\ InETH(c, dustC) \in Nat
          /\ InETH(c, seized + dustC) \in Nat
      BY <1>1, <1>7, <2>3, ValueType
    <2> QED
      BY <2>1, <2>2, <2>4
  <1> DEFINE less == InETH(d, repaid + 2) + 1
             more == InETH(d, paid + dustD + 2) + 1
  <1>9. less \in Nat /\ more \in Nat /\ less <= more
    <2>1. repaid + 2 \in Nat /\ paid + dustD + 2 \in Nat /\ repaid + 2 <= paid + dustD + 2
      BY <1>1, <1>6
    <2>2. /\ InETH(d, repaid + 2) \in Nat /\ InETH(d, paid + dustD + 2) \in Nat
          /\ InETH(d, repaid + 2) <= InETH(d, paid + dustD + 2)
      BY <2>1, ValueType, ValueMonotone
    <2> QED
      BY <2>2
  <1>10. InETH(c, seized) <= PercentMul(less, bonus)
    BY <1>4
  <1> HIDE DEF less, more
  <1>11. /\ PercentMul(less, bonus) \in Nat /\ PercentMul(more, bonus) \in Nat
         /\ PercentMul(less, bonus) <= PercentMul(more, bonus)
    <2>1. PercentMul(less, bonus) \in Nat
      BY ONLY <1>1, <1>9, PercentTypes
    <2>2. PercentMul(more, bonus) \in Nat
      BY ONLY <1>1, <1>9, PercentTypes
    <2>3. PercentMul(less, bonus) <= PercentMul(more, bonus)
      BY <1>1, <1>9, PercentMulMonotone
    <2> QED
      BY <2>1, <2>2, <2>3
  <1>12. InETH(c, taken) <= PercentMul(more, bonus) + InETH(c, dustC) + 1
    BY <1>8, <1>10, <1>11
  <1> QED
    BY <1>2, <1>6, <1>12 DEF paid, taken, debt, dustC, dustD, bonus, more

\* Who loses deposits has them worth less.
LEMMA LiquidatedReads ==
    ASSUME TypeOK, TypeOK', NEW u \in Users, NEW c \in Reserves, Liquidated(u, c),
           UNCHANGED indexVars
    PROVE  BalanceOf(u, c)' <= BalanceOf(u, c)
  <1> DEFINE w == aBal'[u][c]
  <1>1. w \in Nat /\ aBal[u][c] \in Nat /\ w < aBal[u][c]
    BY DEF Liquidated, TypeOK
  <1>2. BalanceOf(u, c)' = RayMul(w, income[c]) /\ BalanceOf(u, c) = RayMul(aBal[u][c], income[c])
    BY DEF BalanceOf, indexVars
  <1> HIDE DEF w
  <1>3. RayMul(w, income[c]) < RayMul(aBal[u][c], income[c])
    BY <1>1, IndexPositive, RayMulStrict
  <1>4. RayMul(w, income[c]) \in Nat /\ RayMul(aBal[u][c], income[c]) \in Nat
    BY <1>1, IndexPositive, RayMulType
  <1> QED
    BY <1>2, <1>3, <1>4

\* The exchange behind a loss of deposits.
LEMMA LiquidatedExchange ==
    ASSUME TypeOK, ConfigInv, Next, NEW u \in Users, NEW c \in Reserves, Liquidated(u, c)
    PROVE  /\ BalanceOf(u, c)' <= BalanceOf(u, c)
           /\ \E d \in Reserves, repaid \in Nat, seized \in Nat :
                 Exchange(u, c, d, repaid, seized)
  <1>1. PICK d \in Reserves, cover \in AmountsOrMax, receiveAToken \in BOOLEAN :
            LiquidationCall(sender', u, c, d, cover, receiveAToken)
    BY OnlyLiquidations
  <1>2. sender' \in Users /\ u # sender'
    BY DEF Liquidated, UserSigned
  <1>3. \E repaid \in Nat, seized \in Nat : Exchange(u, c, d, repaid, seized)
    BY <1>1, <1>2, LiquidationExchange
  <1>4. TypeOK'
    BY TypeStep
  <1>5. BalanceOf(u, c)' <= BalanceOf(u, c)
    BY <1>1, <1>4, LiquidatedReads DEF LiquidationCall
  <1> QED
    BY <1>3, <1>5

LEMMA LimitsKept == TypeOK /\ ConfigInv /\ [Next]_vars => [LimitsStep]_vars
  <1> SUFFICES ASSUME TypeOK, ConfigInv, Next PROVE LimitsStep
    OBVIOUS
  <1>1. SUFFICES ASSUME NEW u \in Users, NEW c \in Reserves, Liquidated(u, c)
                 PROVE  \E d \in Reserves :
            /\ PaidOff(u, d) > 0
            /\ 2 * PaidOff(u, d) <= TotalDebt(u, d) + 1 + 2 * RoundingDust(d)
            /\ InETH(c, Seized(u, c)) <=
                   PercentMul(InETH(d, PaidOff(u, d) + RoundingDust(d) + 2) + 1,
                              config[c].liquidationBonus)
                     + InETH(c, RoundingDust(c)) + 1
    BY DEF LimitsStep
  <1>2. BalanceOf(u, c)' <= BalanceOf(u, c)
    BY <1>1, LiquidatedExchange
  <1>3. PICK d \in Reserves, repaid \in Nat, seized \in Nat :
            Exchange(u, c, d, repaid, seized)
    BY <1>1, LiquidatedExchange
  <1> WITNESS d \in Reserves
  <1> QED
    BY <1>2, <1>3, ExchangeLimits

(***************************************************************************)
(* Liquidations are limited: whoever is liquidated, with whatever prices,    *)
(* decimals and bonus, at most half of one debt is paid off and what is taken   *)
(* is worth at most what was paid off plus the bonus, up to the rounding of the  *)
(* conversions. The collateral may be computed from the debt or the debt from     *)
(* the collateral; the bound is the same.                                          *)
(***************************************************************************)
THEOREM LiquidationsLimited == Spec => LiquidationLimits
  <1> DEFINE Inv == TypeOK /\ ConfigInv
  <1>1. Init => Inv
    BY TypeInit, ConfigInit
  <1>2. Inv /\ [Next]_vars => Inv'
    BY TypeStep, ConfigStep
  <1>3. Inv /\ [Next]_vars => [LimitsStep]_vars
    BY LimitsKept
  <1>4. LiquidationLimits <=> [][LimitsStep]_vars
    BY DEF LiquidationLimits, LimitsStep
  <1> QED
    BY <1>1, <1>2, <1>3, <1>4, PTL DEF Spec

(***************************************************************************)
(* Cover. The account data as sums over the flagged reserves, and what a      *)
(* liquidation does to each.                                                   *)
(***************************************************************************)
Owed(u) == [r \in Reserves |-> InETH(r, TotalDebt(u, r))]
Held(u) == [r \in Reserves |-> InETH(r, BalanceOf(u, r))]

LEMMA AccountSums ==
    ASSUME NEW u \in Users
    PROVE  /\ Account(u).debt = SumFunctionOnSet(Owed(u), borrowing[u])
           /\ Account(u).collateral = SumFunctionOnSet(Held(u), CollateralOf(u))
           /\ Account(u).debt' = SumFunctionOnSet(Owed(u)', borrowing'[u])
           /\ Account(u).collateral' = SumFunctionOnSet(Held(u)', CollateralOf(u)')
  BY DEF Account, AccountData, Owed, Held, BalanceOf

LEMMA FlaggedFinite ==
    ASSUME TypeOK, NEW u \in Users
    PROVE  /\ borrowing[u] \subseteq Reserves /\ IsFiniteSet(borrowing[u])
           /\ CollateralOf(u) \subseteq Reserves /\ IsFiniteSet(CollateralOf(u))
  <1>1. borrowing[u] \subseteq Reserves /\ CollateralOf(u) \subseteq Reserves
    BY DEF TypeOK, CollateralOf
  <1> QED
    BY <1>1, ReservesAssumption, FS_Subset

\* The debt falls by what was repaid.
LEMMA DebtSide ==
    ASSUME FlagInv, TypeOK', NEW u \in Users, NEW c \in Reserves, NEW d \in Reserves,
           NEW repaid \in Nat, NEW seized \in Nat, Exchange(u, c, d, repaid, seized)
    PROVE  /\ Account(u).debt \in Nat /\ Account(u).debt' \in Nat
           /\ Account(u).debt' + InETH(d, repaid) <=
                  Account(u).debt + InETH(d, RoundingDust(d)) + 1
  <1> DEFINE f     == Owed(u)
             g     == Owed(u)'
             S     == borrowing[u]
             debt  == TotalDebt(u, d)
             after == TotalDebt(u, d)'
             dust  == RoundingDust(d)
  <1>1. TypeOK /\ DebtIsFlagged
    BY DEF FlagInv
  <1>2. /\ TotalDebt(u, d) # 0 /\ borrowing' = borrowing /\ price' = price
        /\ UNCHANGED indexVars /\ repaid <= TotalDebt(u, d) /\ BurnDebt(u, d, repaid)
    BY DEF Exchange
  <1>3. /\ after \in Nat /\ debt \in Nat /\ dust \in Nat
        /\ after + repaid <= debt + dust
        /\ \A r \in Reserves : r # d => TotalDebt(u, r)' = TotalDebt(u, r)
    BY <1>1, <1>2, PaidOffBounds, BalanceTypes, DustCovers
  <1>4. d \in S
    <2>1. vBal[u][d] \in Nat /\ sBal[u][d] \in Nat
      BY <1>1 DEF TypeOK
    <2>2. vBal[u][d] > 0 \/ sBal[u][d] > 0
      <3>1. SUFFICES ASSUME vBal[u][d] = 0, sBal[u][d] = 0 PROVE FALSE
        BY <2>1
      <3>2. VariableDebt(u, d) = 0
        BY <1>1, <3>1, IndexPositive, RayMulZero DEF VariableDebt
      <3> QED
        BY <1>2, <3>1, <3>2 DEF TotalDebt, StableDebt
    <2> QED
      BY <1>1, <2>2 DEF DebtIsFlagged
  <1>5. \A r \in Reserves : /\ f[r] = InETH(r, TotalDebt(u, r)) /\ f[r] \in Nat
                            /\ g[r] = InETH(r, TotalDebt(u, r)') /\ g[r] \in Nat
    <2> TAKE r \in Reserves
    <2>1. TotalDebt(u, r) \in Nat /\ TotalDebt(u, r)' \in Nat
      BY <1>1, <1>3, BalanceTypes
    <2>2. InETH(r, TotalDebt(u, r)) \in Nat /\ InETH(r, TotalDebt(u, r)') \in Nat
      BY <1>1, <2>1, ValueType
    <2>3. f[r] = InETH(r, TotalDebt(u, r)) /\ g[r] = InETH(r, TotalDebt(u, r)')
      BY <1>2 DEF Owed, InETH
    <2> QED
      BY <2>2, <2>3
  <1>6. S \subseteq Reserves /\ IsFiniteSet(S)
    BY <1>1, FlaggedFinite
  <1>7. \A r \in S \ {d} : g[r] = f[r]
    BY <1>3, <1>5, <1>6
  <1>8. Account(u).debt = SumFunctionOnSet(f, S) /\ Account(u).debt' = SumFunctionOnSet(g, S)
    BY <1>2, AccountSums
  <1> HIDE DEF f, g, S
  <1>9. SumFunctionOnSet(g, S) = SumFunctionOnSet(f, S) + (g[d] - f[d])
    BY <1>4, <1>5, <1>6, <1>7, SumOneMoved
  <1>10. SumFunctionOnSet(f, S) \in Nat /\ SumFunctionOnSet(g, S) \in Nat
    BY <1>5, <1>6, SumNat
  <1> HIDE DEF debt, after, dust
  <1>11. g[d] + InETH(d, repaid) <= f[d] + InETH(d, dust) + 1
    <2>1. f[d] = InETH(d, debt) /\ g[d] = InETH(d, after) /\ f[d] \in Nat /\ g[d] \in Nat
      BY <1>5 DEF debt, after
    <2>2. InETH(d, after) + InETH(d, repaid) <= InETH(d, after + repaid)
      BY <1>1, <1>3, ValueSplits
    <2>3. InETH(d, after + repaid) <= InETH(d, debt + dust)
      BY <1>1, <1>3, ValueMonotone
    <2>4. InETH(d, debt + dust) <= InETH(d, debt) + InETH(d, dust) + 1
      BY <1>1, <1>3, ValueSplits
    <2>5. after + repaid \in Nat /\ debt + dust \in Nat
      BY <1>3
    <2>6. /\ InETH(d, repaid) \in Nat /\ InETH(d, dust) \in Nat
          /\ InETH(d, after + repaid) \in Nat /\ InETH(d, debt + dust) \in Nat
      BY <1>1, <1>3, <2>5, ValueType
    <2> QED
      BY <2>1, <2>2, <2>3, <2>4, <2>6
  <1>12. InETH(d, repaid) \in Nat /\ InETH(d, dust) \in Nat /\ f[d] \in Nat /\ g[d] \in Nat
    BY <1>1, <1>3, <1>5, ValueType
  <1> QED
    BY <1>8, <1>9, <1>10, <1>11, <1>12 DEF dust

\* The collateral falls by what was seized.
LEMMA CollateralSide ==
    ASSUME TypeOK, TypeOK', NEW u \in Users, NEW c \in Reserves, NEW d \in Reserves,
           NEW repaid \in Nat, NEW seized \in Nat, Exchange(u, c, d, repaid, seized)
    PROVE  /\ Account(u).collateral \in Nat /\ Account(u).collateral' \in Nat
           /\ Account(u).collateral <=
                  Account(u).collateral' + InETH(c, seized) + InETH(c, RoundingDust(c)) + 2
  <1> DEFINE f    == Held(u)
             g    == Held(u)'
             S    == CollateralOf(u)
             T    == CollateralOf(u)'
             dust == RoundingDust(c)
  <1>1. /\ price' = price /\ config' = config /\ UNCHANGED indexVars /\ c \in S
        /\ BalanceOf(u, c)' \in Nat
        /\ BalanceOf(u, c) <= BalanceOf(u, c)' + seized + dust
        /\ \A r \in Reserves \ {c} : aBal'[u][r] >= aBal[u][r]
        /\ \/ usingAsCollateral'[u] = usingAsCollateral[u]
           \/ /\ usingAsCollateral'[u] = usingAsCollateral[u] \ {c}
              /\ seized = BalanceOf(u, c)
    BY DEF Exchange
  <1>2. /\ T = S \/ (T = S \ {c} /\ seized = BalanceOf(u, c))
    BY <1>1 DEF CollateralOf
  <1>3. S \subseteq Reserves /\ IsFiniteSet(S)
    BY FlaggedFinite
  <1>4. \A r \in Reserves : aBal[u][r] \in Nat /\ aBal'[u][r] \in Nat
    BY DEF TypeOK
  <1>5. \A r \in Reserves : /\ f[r] = InETH(r, BalanceOf(u, r)) /\ f[r] \in Nat
                            /\ g[r] = InETH(r, BalanceOf(u, r)') /\ g[r] \in Nat
                            /\ r # c => f[r] <= g[r]
    <2> TAKE r \in Reserves
    <2>1. /\ BalanceOf(u, r) = RayMul(aBal[u][r], income[r])
          /\ BalanceOf(u, r)' = RayMul(aBal'[u][r], income[r])
      BY <1>1 DEF BalanceOf, indexVars
    <2> DEFINE x == aBal[u][r]
               y == aBal'[u][r]
    <2>0. x \in Nat /\ y \in Nat /\ (r # c => x <= y)
      BY <1>1, <1>4
    <2> HIDE DEF x, y
    <2>2. BalanceOf(u, r) \in Nat /\ BalanceOf(u, r)' \in Nat
      <3>1. RayMul(x, income[r]) \in Nat /\ RayMul(y, income[r]) \in Nat
        BY <2>0, IndexPositive, RayMulType
      <3> QED
        BY <2>1, <3>1 DEF x, y
    <2>3. r # c => BalanceOf(u, r) <= BalanceOf(u, r)'
      <3>1. r # c => RayMul(x, income[r]) <= RayMul(y, income[r])
        BY <2>0, ReadingMonotone
      <3> QED
        BY <2>1, <3>1 DEF x, y
    <2>4. InETH(r, BalanceOf(u, r)) \in Nat /\ InETH(r, BalanceOf(u, r)') \in Nat
      BY <2>2, ValueType
    <2>5. f[r] = InETH(r, BalanceOf(u, r)) /\ g[r] = InETH(r, BalanceOf(u, r)')
      BY <1>1 DEF Held, InETH
    <2>6. r # c => InETH(r, BalanceOf(u, r)) <= InETH(r, BalanceOf(u, r)')
      BY <2>2, <2>3, ValueMonotone
    <2> QED
      BY <2>4, <2>5, <2>6
  <1>6. /\ Account(u).collateral = SumFunctionOnSet(f, S)
        /\ Account(u).collateral' = SumFunctionOnSet(g, T)
    BY AccountSums
  <1>7. dust \in Nat /\ BalanceOf(u, c) \in Nat
    BY DustCovers, BalanceTypes
  <1>8. InETH(c, seized) \in Nat /\ InETH(c, dust) \in Nat
    BY <1>7, ValueType
  <1>9. f[c] = InETH(c, BalanceOf(u, c)) /\ g[c] = InETH(c, BalanceOf(u, c)')
        /\ f[c] \in Nat /\ g[c] \in Nat
    BY <1>5
  <1> HIDE DEF f, g, S, T, dust
  <1>10. SumFunctionOnSet(f, S) \in Nat /\ SumFunctionOnSet(g, S) \in Nat
    BY <1>3, <1>5, SumNat
  <1> DEFINE R == S \ {c}
  <1>11. IsFiniteSet(R) /\ R \subseteq Reserves
    BY <1>3, FS_Subset
  <1>12. /\ SumFunctionOnSet(f, S) = f[c] + SumFunctionOnSet(f, R)
         /\ SumFunctionOnSet(g, S) = g[c] + SumFunctionOnSet(g, R)
    <2>1. \A r \in S : f[r] \in Int /\ g[r] \in Int
      BY <1>3, <1>5
    <2>2. SumFunctionOnSet(f, S) = f[c] + SumFunctionOnSet(f, S \ {c})
      BY <1>1, <1>3, <2>1, SumTakeOut
    <2>3. SumFunctionOnSet(g, S) = g[c] + SumFunctionOnSet(g, S \ {c})
      BY <1>1, <1>3, <2>1, SumTakeOut
    <2> QED
      BY <2>2, <2>3
  <1>13. SumFunctionOnSet(f, R) <= SumFunctionOnSet(g, R)
    <2>1. \A r \in R : f[r] \in Int /\ g[r] \in Int /\ f[r] <= g[r]
      BY <1>5, <1>11
    <2> HIDE DEF R
    <2> QED
      BY <1>11, <2>1, SumMonotone
  <1>14. SumFunctionOnSet(f, R) \in Nat /\ SumFunctionOnSet(g, R) \in Nat
    <2>1. \A r \in R : f[r] \in Nat /\ g[r] \in Nat
      BY <1>5, <1>11
    <2> HIDE DEF R
    <2> QED
      BY <1>11, <2>1, SumNat
  <1> HIDE DEF R
  <1>15. CASE T = S
    <2> DEFINE before == BalanceOf(u, c)
               after  == BalanceOf(u, c)'
    <2>1. before \in Nat /\ after \in Nat /\ before <= after + seized + dust
      BY <1>1, <1>7 DEF dust
    <2>2. f[c] = InETH(c, before) /\ g[c] = InETH(c, after)
      BY <1>9
    <2> HIDE DEF before, after
    <2>3. after + seized \in Nat /\ after + seized + dust \in Nat
      BY <1>7, <2>1
    <2>4. InETH(c, before) <= InETH(c, after + seized + dust)
      BY <2>1, <2>3, ValueMonotone
    <2>5. InETH(c, after + seized + dust) <= InETH(c, after + seized) + InETH(c, dust) + 1
      BY <1>7, <2>3, ValueSplits
    <2>6. InETH(c, after + seized) <= InETH(c, after) + InETH(c, seized) + 1
      BY <2>1, ValueSplits
    <2>7. InETH(c, after + seized) \in Nat /\ InETH(c, after + seized + dust) \in Nat
      BY <2>3, ValueType
    <2>8. f[c] <= g[c] + InETH(c, seized) + InETH(c, dust) + 2
      BY <1>8, <1>9, <2>2, <2>4, <2>5, <2>6, <2>7
    <2> QED
      BY <1>6, <1>8, <1>9, <1>10, <1>12, <1>13, <1>14, <1>15, <2>8 DEF dust
  <1>16. CASE T = S \ {c} /\ seized = BalanceOf(u, c)
    <2>1. f[c] = InETH(c, seized) /\ SumFunctionOnSet(g, T) = SumFunctionOnSet(g, R)
      BY <1>9, <1>16 DEF R
    <2> QED
      BY <1>6, <1>8, <1>9, <1>10, <1>12, <1>13, <1>14, <2>1 DEF dust
  <1> QED
    BY <1>2, <1>15, <1>16

\* The two sides put together, in values: debt and collateral before (debt, held) and
\* after (owes, holds); of the debt's reserve the values of what was repaid (e), of two
\* tokens, of the rounding (f), of the rounding and two tokens (g) and of what was repaid
\* and two tokens (more); of the collateral what was seized (taken) and the rounding (dust).
LEMMA CoverArithmetic ==
    ASSUME NEW b \in Nat, NEW debt \in Nat, NEW held \in Nat, NEW owes \in Nat, NEW holds \in Nat,
           NEW e \in Nat, NEW two \in Nat, NEW f \in Nat, NEW g \in Nat, NEW more \in Nat,
           NEW taken \in Nat, NEW dust \in Nat,
           PercentMul(debt, b) <= held,
           owes + e <= debt + f + 1,
           held <= holds + taken + dust + 2,
           taken <= PercentMul(more + 1, b), more <= e + two + 1, f + two <= g
    PROVE  PercentMul(owes, b) <= holds + dust + 4 + PercentMul(g + 3, b)
  <1> DEFINE k == more + 1
             l == g + 3
             x == owes + k
             y == debt + l
             P(n) == PercentMul(n, b)
  <1>1. k \in Nat /\ l \in Nat /\ x \in Nat /\ y \in Nat /\ x <= y
    OBVIOUS
  <1>2. \A n \in Nat : P(n) \in Nat
    BY PercentTypes
  <1>3. P(owes) + P(k) <= P(owes + k) + 1 /\ P(debt + l) <= P(debt) + P(l) + 1
    <2> HIDE DEF k, l
    <2>1. PercentMul(owes, b) + PercentMul(k, b) <= PercentMul(owes + k, b) + 1
      BY <1>1, PercentMulSplits
    <2>2. PercentMul(debt + l, b) <= PercentMul(debt, b) + PercentMul(l, b) + 1
      BY <1>1, PercentMulSplits
    <2> QED
      BY <2>1, <2>2
  <1>4. P(x) <= P(y)
    <2> HIDE DEF x, y
    <2> QED
      BY <1>1, PercentMulMonotone
  <1>5. taken <= P(k) /\ P(debt) <= held
    OBVIOUS
  <1>6. P(x) = P(owes + k) /\ P(y) = P(debt + l)
    OBVIOUS
  <1> HIDE DEF P, k, l, x, y
  <1>7. /\ P(owes) \in Nat /\ P(k) \in Nat /\ P(x) \in Nat /\ P(y) \in Nat /\ P(debt) \in Nat
        /\ P(l) \in Nat
    BY <1>1, <1>2
  <1>8. P(owes) <= holds + dust + 4 + P(l)
    BY <1>3, <1>4, <1>5, <1>6, <1>7
  <1> QED
    BY <1>8 DEF P, l

CoverStep ==
    \A u \in Users, c \in Reserves :
        /\ Liquidated(u, c)
        /\ Covered(u, config[c].liquidationBonus, 0)
        => \E d \in Reserves :
               /\ PaidOff(u, d) > 0
               /\ Covered(u, config[c].liquidationBonus, CoverDust(c, d))'

LEMMA ExchangeCovers ==
    ASSUME FlagInv, TypeOK', NEW u \in Users, NEW c \in Reserves, NEW d \in Reserves,
           NEW repaid \in Nat, NEW seized \in Nat, Exchange(u, c, d, repaid, seized),
           Covered(u, config[c].liquidationBonus, 0)
    PROVE  /\ PaidOff(u, d) > 0
           /\ Covered(u, config[c].liquidationBonus, CoverDust(c, d))'
  <1> DEFINE b     == config[c].liquidationBonus
             debt  == Account(u).debt
             held  == Account(u).collateral
             owes  == Account(u).debt'
             holds == Account(u).collateral'
             dustC == RoundingDust(c)
             dustD == RoundingDust(d)
             e     == InETH(d, repaid)
             two   == InETH(d, 2)
             f     == InETH(d, dustD)
             g     == InETH(d, dustD + 2)
             more  == InETH(d, repaid + 2)
             taken == InETH(c, seized)
             dust  == InETH(c, dustC)
  <1>1. TypeOK
    BY DEF FlagInv
  <1>2. b \in Nat /\ dustC \in Nat /\ dustD \in Nat
    <2>1. config[c] \in Configuration
      BY <1>1 DEF TypeOK
    <2> QED
      BY <1>1, <2>1, DustCovers DEF Configuration
  <1>3. debt \in Nat /\ owes \in Nat /\ owes + e <= debt + f + 1
    BY DebtSide
  <1>4. held \in Nat /\ holds \in Nat /\ held <= holds + taken + dust + 2
    BY <1>1, CollateralSide
  <1>5. taken <= PercentMul(more + 1, b)
    BY DEF Exchange
  <1>6. more <= e + two + 1 /\ f + two <= g
    BY <1>1, <1>2, ValueSplits
  <1>7. /\ e \in Nat /\ two \in Nat /\ f \in Nat /\ g \in Nat /\ more \in Nat
        /\ taken \in Nat /\ dust \in Nat
    <2>1. dustD + 2 \in Nat /\ repaid + 2 \in Nat
      BY <1>2
    <2> HIDE DEF dustC, dustD
    <2> QED
      BY <1>1, <1>2, <2>1, ValueType
  <1>8. PercentMul(debt, b) <= held
    <2>1. PercentMul(debt, b) <= held + 0
      BY DEF Covered
    <2> HIDE DEF debt, held, b
    <2> QED
      BY <1>4, <2>1
  <1>9. Covered(u, config[c].liquidationBonus, CoverDust(c, d))' <=>
            PercentMul(owes, b) <= holds + (dust + 4 + PercentMul(g + 3, b))
    BY DEF Covered, CoverDust, Exchange, InETH, RoundingDust, indexVars
  <1>10. PaidOff(u, d) > 0
    BY <1>1, PaidOffBounds DEF Exchange
  <1> HIDE DEF b, debt, held, owes, holds, dustC, dustD, e, two, f, g, more, taken, dust
  <1>11. PercentMul(owes, b) <= holds + dust + 4 + PercentMul(g + 3, b)
    BY ONLY <1>2, <1>3, <1>4, <1>5, <1>6, <1>7, <1>8, CoverArithmetic
  <1>12. PercentMul(g + 3, b) \in Nat /\ PercentMul(owes, b) \in Nat
    <2>1. g + 3 \in Nat
      BY <1>7
    <2> QED
      BY <1>2, <1>3, <2>1, PercentTypes
  <1> DEFINE z == PercentMul(g + 3, b)
             a == PercentMul(owes, b)
  <1>13. a <= holds + dust + 4 + z /\ a \in Nat /\ z \in Nat
    BY <1>11, <1>12
  <1>14. a <= holds + (dust + 4 + z)
    <2> HIDE DEF a, z
    <2> QED
      BY <1>4, <1>7, <1>13
  <1> QED
    BY <1>9, <1>10, <1>14

LEMMA CoverKept == FlagInv /\ ConfigInv /\ [Next]_vars => [CoverStep]_vars
  <1> SUFFICES ASSUME FlagInv, ConfigInv, Next PROVE CoverStep
    OBVIOUS
  <1>1. SUFFICES ASSUME NEW u \in Users, NEW c \in Reserves, Liquidated(u, c),
                        Covered(u, config[c].liquidationBonus, 0)
                 PROVE  \E d \in Reserves :
                            /\ PaidOff(u, d) > 0
                            /\ Covered(u, config[c].liquidationBonus, CoverDust(c, d))'
    BY DEF CoverStep
  <1>2. TypeOK /\ TypeOK'
    BY TypeStep DEF FlagInv
  <1>3. PICK d \in Reserves, repaid \in Nat, seized \in Nat :
            Exchange(u, c, d, repaid, seized)
    BY <1>1, <1>2, LiquidatedExchange
  <1> WITNESS d \in Reserves
  <1> QED
    BY <1>1, <1>2, <1>3, ExchangeCovers

(***************************************************************************)
(* Liquidations leave no uncovered debt behind: a user whose collateral was    *)
(* worth the whole debt with the bonus is left with collateral that still is,    *)
(* up to the rounding of the exchange. Debt and collateral are the sums over       *)
(* the flagged reserves that calculateUserAccountData takes, so this needs every     *)
(* debt to be flagged and the collateral bit to go only with the last token.           *)
(***************************************************************************)
THEOREM CoverSurvives == Spec => LiquidationKeepsCover
  <1> DEFINE Inv == FlagInv /\ ConfigInv
  <1>1. Init => Inv
    BY FlagInit, ConfigInit
  <1>2. Inv /\ [Next]_vars => Inv'
    BY TypeStep, FlagStep, ConfigStep DEF FlagInv
  <1>3. Inv /\ [Next]_vars => [CoverStep]_vars
    BY CoverKept
  <1>4. LiquidationKeepsCover <=> [][CoverStep]_vars
    BY DEF LiquidationKeepsCover, CoverStep
  <1> QED
    BY <1>1, <1>2, <1>3, <1>4, PTL DEF Spec

-----------------------------------------------------------------------------
(***************************************************************************)
(* Health. A position in numbers: what backs its debt is the value of every  *)
(* flagged deposit times the reserve's threshold, in basis points, and what is *)
(* due is the value of every flagged debt. Healthy positions are safe without   *)
(* slack, and a position that is safe with the slack of one balance is nearly    *)
(* healthy.                                                                        *)
(***************************************************************************)
Values == [Reserves -> Nat]
Due(bits, owed) ==
    SumFunctionOnSet([r \in Reserves |-> IF r \in bits THEN owed[r] ELSE 0], Reserves)
Weight(r, value) == value * config[r].liquidationThreshold
Backing(flags, held) ==
    SumFunctionOnSet([r \in Reserves |-> IF r \in flags THEN Weight(r, held[r]) ELSE 0], Reserves)
Safe(due, backing, slack) ==
    PERCENTAGE_FACTOR * (due - due \div WAD) <= backing + 5000 + PERCENTAGE_FACTOR * slack

LEMMA SafeMoves ==
    ASSUME NEW due \in Nat, NEW backing \in Nat, NEW due2 \in Nat, NEW backing2 \in Nat,
           NEW x \in Nat, NEW y \in Nat,
           Safe(due, backing, 0), due2 <= due + x,
           backing <= backing2 + PERCENTAGE_FACTOR * y
    PROVE  Safe(due2, backing2, x + y)
  <1> DEFINE k == due \div WAD
             l == due2 \div WAD
  <1>1. WAD \in Nat \ {0}
    BY PrecisionAssumption
  <1>2. k \in Nat /\ WAD * k <= due /\ due < WAD * k + WAD
    BY <1>1, DivBounds
  <1>3. l \in Nat /\ WAD * l <= due2 /\ due2 < WAD * l + WAD
    BY <1>1, DivBounds
  <1>4. 10000 * (due - k) <= backing + 5000
    BY DEF Safe, PERCENTAGE_FACTOR
  <1> HIDE DEF k, l
  <1>5. due2 - l <= due + x - k
    <2>1. CASE l >= k
      BY <1>2, <1>3, <2>1
    <2>2. CASE l < k
      \* Fewer than k - l multiples of WAD apart.
      <3>1. WAD * (k - l - 1) < due - due2
        <4>1. WAD * (k - l - 1) = WAD * k - (WAD * l + WAD)
          BY <1>1, <1>2, <1>3
        <4> DEFINE p == WAD * k
                   q == WAD * l
        <4>2. p \in Nat /\ q \in Nat
          BY <1>1, <1>2, <1>3
        <4> HIDE DEF p, q
        <4> QED
          BY <1>1, <1>2, <1>3, <4>1, <4>2 DEF p, q
      <3>2. k - l - 1 <= WAD * (k - l - 1)
        <4> DEFINE n == k - l - 1
        <4>1. n \in Nat
          BY <1>2, <1>3, <2>2
        <4> HIDE DEF n
        <4>2. n <= WAD * n
          BY <1>1, <4>1
        <4> QED
          BY <4>2 DEF n
      <3> DEFINE n == WAD * (k - l - 1)
      <3>3. n \in Int
        BY <1>1, <1>2, <1>3
      <3> HIDE DEF n
      <3>4. n < due - due2 /\ k - l - 1 <= n
        BY <3>1, <3>2 DEF n
      <3> QED
        BY <1>2, <1>3, <3>3, <3>4
    <2> QED
      BY <1>2, <1>3, <2>1, <2>2
  <1>6. 10000 * (due2 - l) <= backing2 + 5000 + 10000 * (x + y)
    BY <1>2, <1>3, <1>4, <1>5 DEF PERCENTAGE_FACTOR
  <1> QED
    BY <1>6 DEF Safe, PERCENTAGE_FACTOR, l

\* A health factor of one and more: the debt is safe.
LEMMA HealthySafe ==
    ASSUME NEW due \in Nat, NEW collateral \in Nat, NEW threshold \in Nat, NEW backing \in Nat,
           collateral * threshold <= backing,
           HealthFactor(collateral, due, threshold) >= WAD
    PROVE  Safe(due, backing, 0)
  <1> DEFINE p == PercentMul(collateral, threshold)
             k == due \div WAD
  <1>1. WAD \in Nat \ {0}
    BY PrecisionAssumption
  <1>2. k \in Nat /\ WAD * k <= due /\ due < WAD * k + WAD
    BY <1>1, DivBounds
  <1>3. p \in Nat /\ 10000 * p <= collateral * threshold + 5000
    BY PercentMulBounds
  <1> HIDE DEF p
  <1>4. CASE due = 0
    <2>1. due - k = 0
      <3> HIDE DEF k
      <3>1. k <= WAD * k
        BY <1>1, <1>2
      <3> DEFINE q == WAD * k
      <3> HIDE DEF q
      <3> QED
        BY <1>1, <1>2, <1>4, <3>1 DEF q
    <2> QED
      BY <1>4, <2>1 DEF Safe, PERCENTAGE_FACTOR
  <1>5. CASE due # 0
    <2> DEFINE h == due \div 2
               q == (p * WAD + h) \div due
    <2>1. HealthFactor(collateral, due, threshold) = q
      BY <1>5 DEF HealthFactor, WadDiv, RoundHalfUp, p
    <2>2. h \in Nat /\ 2 * h <= due
      BY HalfBounds
    <2> HIDE DEF h
    <2>3. q \in Nat /\ due * q <= p * WAD + h
      <3>1. p * WAD + h \in Nat /\ due \in Nat \ {0}
        BY <1>1, <1>3, <1>5, <2>2
      <3> QED
        BY <3>1, DivBounds
    <2>4. q >= WAD
      BY <2>1
    <2> HIDE DEF q, k
    <2>5. due * WAD <= p * WAD + h
      <3>1. due * WAD <= due * q
        BY <1>1, <2>3, <2>4
      <3> DEFINE a == due * WAD
                 b == due * q
                 c == p * WAD
      <3>2. a \in Nat /\ b \in Nat /\ c \in Nat
        BY <1>1, <1>3, <2>3
      <3> HIDE DEF a, b, c
      <3> QED
        BY <2>2, <2>3, <3>1, <3>2 DEF a, b, c
    <2>6. due - k <= p
      <3>1. CASE due <= p
        BY <1>2, <1>3, <3>1
      <3>2. CASE p < due
        <4> DEFINE n == due - p
        <4>1. n \in Nat /\ WAD * n <= h
          <5>1. WAD * n = due * WAD - p * WAD
            BY <1>1, <1>3
          <5> DEFINE a == due * WAD
                     c == p * WAD
          <5>2. a \in Nat /\ c \in Nat
            BY <1>1, <1>3
          <5>3. a <= c + h /\ WAD * n = a - c
            BY <2>5, <5>1
          <5> HIDE DEF a, c
          <5> QED
            BY <1>3, <2>2, <3>2, <5>2, <5>3
        <4> HIDE DEF n
        <4>2. WAD * n < WAD * (k + 1)
          BY <1>1, <1>2, <2>2, <4>1
        <4>3. n < k + 1
          BY <1>1, <1>2, <4>1, <4>2
        <4> QED
          BY <1>2, <1>3, <4>1, <4>3 DEF n
      <3> QED
        BY <1>3, <3>1, <3>2
    <2> DEFINE a == collateral * threshold
    <2>7. a \in Nat /\ a <= backing /\ 10000 * p <= a + 5000
      BY <1>3
    <2> HIDE DEF a
    <2>8. 10000 * (due - k) <= backing + 5000
      BY <1>2, <1>3, <2>6, <2>7
    <2> QED
      BY <2>8 DEF Safe, PERCENTAGE_FACTOR, k
  <1> QED
    BY <1>4, <1>5

\* And a debt that is safe with some slack is within that slack of what the collateral
\* is worth at its average threshold, whatever the truncation of the average costs.
LEMMA SafeNumbers ==
    ASSUME NEW due \in Nat, NEW collateral \in Nat, NEW threshold \in Nat, NEW backing \in Nat,
           NEW x \in Nat, NEW sum \in Nat, x <= sum, Safe(due, backing, x),
           backing <= collateral * threshold + collateral
    PROVE  due <= PercentMul(collateral, threshold)
                    + (sum + collateral \div PERCENTAGE_FACTOR + 1 + due \div WAD)
  <1> DEFINE p == PercentMul(collateral, threshold)
             k == due \div WAD
             c == collateral \div PERCENTAGE_FACTOR
             a == collateral * threshold
  <1>1. k \in Nat
    BY PrecisionAssumption, DivBounds
  <1>2. c \in Nat /\ collateral < 10000 * c + 10000
    <2>1. 10000 \in Nat \ {0}
      OBVIOUS
    <2> QED
      BY <2>1, DivBounds DEF PERCENTAGE_FACTOR
  <1>3. p \in Nat /\ a + 5000 < 10000 * p + 10000 /\ a \in Nat
    <2>1. a \in Nat
      OBVIOUS
    <2>2. /\ PercentMul(collateral, threshold) \in Nat
          /\ 10000 * PercentMul(collateral, threshold) <= collateral * threshold + 5000
          /\ collateral * threshold + 5000 < 10000 * PercentMul(collateral, threshold) + 10000
      BY ONLY collateral \in Nat, threshold \in Nat, PercentMulBounds
    <2> HIDE DEF p
    <2> QED
      BY <2>1, <2>2 DEF p
  <1>4. 10000 * (due - k) <= backing + 5000 + 10000 * x /\ backing <= a + collateral
    BY DEF Safe, PERCENTAGE_FACTOR
  <1> HIDE DEF p, k, c, a
  <1>5. due <= p + (sum + c + 1 + k)
    BY <1>1, <1>2, <1>3, <1>4
  <1> QED
    BY <1>5 DEF p, k, c

LEMMA DueType ==
    ASSUME NEW owed \in Values, NEW bits
    PROVE  Due(bits, owed) \in Nat
  <1> DEFINE f == [s \in Reserves |-> IF s \in bits THEN owed[s] ELSE 0]
  <1>1. \A s \in Reserves : f[s] \in Nat
    BY DEF Values
  <1>2. Due(bits, owed) = SumFunctionOnSet(f, Reserves)
    BY DEF Due
  <1> HIDE DEF f
  <1> QED
    BY <1>1, <1>2, ReservesAssumption, SumNat

\* What one reserve moves, the others at most helping, moves the sum.
LEMMA DueMoves ==
    ASSUME NEW owed \in Values, NEW owed2 \in Values, NEW bits, NEW bits2,
           NEW r \in Reserves, NEW k \in Nat,
           \A s \in Reserves \ {r} : s \in bits2 => s \in bits /\ owed2[s] <= owed[s],
           r \in bits2 => owed2[r] <= (IF r \in bits THEN owed[r] ELSE 0) + k
    PROVE  /\ Due(bits, owed) \in Nat /\ Due(bits2, owed2) \in Nat
           /\ Due(bits2, owed2) <= Due(bits, owed) + k
  <1> DEFINE f == [s \in Reserves |-> IF s \in bits2 THEN owed2[s] ELSE 0]
             g == [s \in Reserves |-> IF s \in bits THEN owed[s] ELSE 0]
  <1>1. \A s \in Reserves : f[s] \in Nat /\ g[s] \in Nat
    BY DEF Values
  <1>2. \A s \in Reserves \ {r} : f[s] <= g[s]
    BY DEF Values
  <1>3. f[r] <= g[r] + k
    BY DEF Values
  <1>4. Due(bits, owed) = SumFunctionOnSet(g, Reserves)
        /\ Due(bits2, owed2) = SumFunctionOnSet(f, Reserves)
    BY DEF Due
  <1> HIDE DEF f, g
  <1>5. \A s \in Reserves : f[s] \in Int /\ g[s] \in Int
    BY <1>1
  <1>6. SumFunctionOnSet(f, Reserves) <= SumFunctionOnSet(g, Reserves) + k
    BY <1>2, <1>3, <1>5, ReservesAssumption, SumAlmost
  <1>7. SumFunctionOnSet(f, Reserves) \in Nat /\ SumFunctionOnSet(g, Reserves) \in Nat
    BY <1>1, ReservesAssumption, SumNat
  <1> QED
    BY <1>4, <1>6, <1>7

LEMMA ConfigTypes ==
    ASSUME TypeOK, NEW r \in Reserves
    PROVE  /\ config[r].liquidationThreshold \in Nat /\ config[r].ltv \in Nat
           /\ config[r].liquidationThreshold <= PERCENTAGE_FACTOR
           /\ config[r].ltv <= PERCENTAGE_FACTOR
           /\ ConfigInv => config[r].ltv <= config[r].liquidationThreshold
  <1>1. config[r] \in Configuration
    BY DEF TypeOK
  <1>2. /\ config[r].liquidationThreshold \in 0 .. PERCENTAGE_FACTOR
        /\ config[r].ltv \in 0 .. PERCENTAGE_FACTOR
    BY <1>1 DEF Configuration
  <1>3. \A x \in 0 .. PERCENTAGE_FACTOR : x \in Nat /\ x <= PERCENTAGE_FACTOR
    BY DEF PERCENTAGE_FACTOR
  <1>4. ConfigInv => config[r].ltv <= config[r].liquidationThreshold
    BY CollateralAssumption DEF ConfigInv
  <1> QED
    BY <1>2, <1>3, <1>4

LEMMA WeightType ==
    ASSUME TypeOK, NEW r \in Reserves, NEW x \in Nat
    PROVE  /\ Weight(r, x) \in Nat
           /\ config[r].liquidationThreshold \in Nat
           /\ config[r].liquidationThreshold <= PERCENTAGE_FACTOR
  <1> DEFINE t == config[r].liquidationThreshold
  <1>1. t \in Nat /\ t <= PERCENTAGE_FACTOR
    BY ConfigTypes
  <1> HIDE DEF t
  <1>2. x * t \in Nat
    BY <1>1
  <1> QED
    BY <1>1, <1>2 DEF Weight, t

LEMMA WeightMonotone ==
    ASSUME TypeOK, NEW r \in Reserves, NEW x \in Nat, NEW y \in Nat, x <= y
    PROVE  Weight(r, x) <= Weight(r, y)
  <1> DEFINE t == config[r].liquidationThreshold
  <1>1. t \in Nat
    BY WeightType
  <1> HIDE DEF t
  <1>2. x * t <= y * t
    BY <1>1
  <1> QED
    BY <1>2 DEF Weight, t

LEMMA BackingType ==
    ASSUME TypeOK, NEW held \in Values, NEW flags
    PROVE  Backing(flags, held) \in Nat
  <1> DEFINE f == [s \in Reserves |-> IF s \in flags THEN Weight(s, held[s]) ELSE 0]
  <1>1. \A s \in Reserves : f[s] \in Nat
    <2> TAKE s \in Reserves
    <2>1. Weight(s, held[s]) \in Nat
      BY WeightType DEF Values
    <2> QED
      BY <2>1
  <1>2. Backing(flags, held) = SumFunctionOnSet(f, Reserves)
    BY DEF Backing
  <1> HIDE DEF f
  <1> QED
    BY <1>1, <1>2, ReservesAssumption, SumNat

LEMMA BackingMoves ==
    ASSUME TypeOK, NEW held \in Values, NEW held2 \in Values, NEW flags, NEW flags2,
           NEW r \in Reserves, NEW k \in Nat,
           \A s \in Reserves \ {r} : s \in flags => s \in flags2 /\ held[s] <= held2[s],
           r \in flags => Weight(r, held[r]) <=
                               (IF r \in flags2 THEN Weight(r, held2[r]) ELSE 0) + k
    PROVE  /\ Backing(flags, held) \in Nat /\ Backing(flags2, held2) \in Nat
           /\ Backing(flags, held) <= Backing(flags2, held2) + k
  <1> DEFINE f == [s \in Reserves |-> IF s \in flags THEN Weight(s, held[s]) ELSE 0]
             g == [s \in Reserves |-> IF s \in flags2 THEN Weight(s, held2[s]) ELSE 0]
  <1>1. \A s \in Reserves : held[s] \in Nat /\ held2[s] \in Nat
    BY DEF Values
  <1>2. \A s \in Reserves : Weight(s, held[s]) \in Nat /\ Weight(s, held2[s]) \in Nat
    BY <1>1, WeightType
  <1>3. \A s \in Reserves : f[s] \in Nat /\ g[s] \in Nat
    BY <1>2
  <1>4. \A s \in Reserves \ {r} : f[s] <= g[s]
    <2> TAKE s \in Reserves \ {r}
    <2>1. s \in flags => Weight(s, held[s]) <= Weight(s, held2[s])
      BY <1>1, WeightMonotone
    <2> QED
      BY <1>2, <2>1
  <1>5. f[r] <= g[r] + k
    BY <1>2
  <1>6. Backing(flags, held) = SumFunctionOnSet(f, Reserves)
        /\ Backing(flags2, held2) = SumFunctionOnSet(g, Reserves)
    BY DEF Backing
  <1> HIDE DEF f, g
  <1>7. \A s \in Reserves : f[s] \in Int /\ g[s] \in Int
    BY <1>3
  <1>8. SumFunctionOnSet(f, Reserves) <= SumFunctionOnSet(g, Reserves) + k
    BY <1>4, <1>5, <1>7, ReservesAssumption, SumAlmost
  <1>9. SumFunctionOnSet(f, Reserves) \in Nat /\ SumFunctionOnSet(g, Reserves) \in Nat
    BY <1>3, ReservesAssumption, SumNat
  <1> QED
    BY <1>6, <1>8, <1>9

\* calculateUserAccountData in these numbers, for any row of scaled deposits: the average
\* threshold times the collateral is what backs the debt, truncated, and where every
\* LTV is within its threshold the averages are too.
ValuesOf(row) == [r \in Reserves |-> InETH(r, RayMul(row[r], income[r]))]

Reads(u, row) ==
    LET a == AccountData(u, row)
        b == Backing(usingAsCollateral[u], ValuesOf(row))
    IN  /\ a.collateral \in Nat /\ a.debt \in Nat /\ a.threshold \in Nat /\ a.ltv \in Nat
        /\ a.debt = Due(borrowing[u], Owed(u))
        /\ a.hf = HealthFactor(a.collateral, a.debt, a.threshold)
        /\ a.collateral * a.threshold <= b
        /\ b <= a.collateral * a.threshold + a.collateral
        /\ ConfigInv => a.ltv <= a.threshold /\ a.ltv <= PERCENTAGE_FACTOR
        /\ Owed(u) \in Values /\ ValuesOf(row) \in Values

LEMMA AccountReads ==
    ASSUME TypeOK, NEW u \in Users, NEW row \in [Reserves -> Nat]
    PROVE  Reads(u, row)
  <1> DEFINE value  == ValuesOf(row)
             owed   == Owed(u)
             S      == CollateralOf(u)
             total  == SumFunctionOnSet(value, S)
             weight == [r \in Reserves |-> value[r] * config[r].liquidationThreshold]
             loan   == [r \in Reserves |-> value[r] * config[r].ltv]
             a      == AccountData(u, row)
             b      == Backing(usingAsCollateral[u], value)
             x      == SumFunctionOnSet(weight, S)
             y      == SumFunctionOnSet(loan, S)
  <1>1. /\ a.collateral = total
        /\ a.debt = SumFunctionOnSet(owed, borrowing[u])
        /\ a.threshold = IF total > 0 THEN x \div total ELSE 0
        /\ a.ltv = IF total > 0 THEN y \div total ELSE 0
        /\ a.hf = HealthFactor(a.collateral, a.debt, a.threshold)
    <2>1. weight = [r \in Reserves |->
                       value[r] * [s \in Reserves |-> config[s].liquidationThreshold][r]]
      OBVIOUS
    <2>2. loan = [r \in Reserves |-> value[r] * [s \in Reserves |-> config[s].ltv][r]]
      OBVIOUS
    <2> HIDE DEF weight, loan
    <2> QED
      BY <2>1, <2>2 DEF AccountData, ValuesOf, Owed
  <1>2. S \subseteq Reserves /\ IsFiniteSet(S) /\ borrowing[u] \subseteq Reserves
    BY FlaggedFinite
  <1>3. \A r \in Reserves : value[r] \in Nat /\ owed[r] \in Nat
    <2> TAKE r \in Reserves
    <2>1. RayMul(row[r], income[r]) \in Nat
      BY IndexPositive, RayMulType
    <2>2. InETH(r, RayMul(row[r], income[r])) \in Nat /\ InETH(r, TotalDebt(u, r)) \in Nat
      BY <2>1, BalanceTypes, ValueType
    <2> QED
      BY <2>2 DEF ValuesOf, Owed
  <1>4. value \in Values /\ owed \in Values
    BY <1>3 DEF Values, ValuesOf, Owed
  <1>5. \A r \in Reserves : /\ config[r].liquidationThreshold \in Nat /\ config[r].ltv \in Nat
                            /\ config[r].liquidationThreshold <= 10000
                            /\ config[r].ltv <= 10000
                            /\ ConfigInv => config[r].ltv <= config[r].liquidationThreshold
    BY ConfigTypes DEF PERCENTAGE_FACTOR
  <1>6. a.debt = Due(borrowing[u], owed)
    <2> HIDE DEF owed
    <2>1. \A r \in Reserves : owed[r] \in Int
      BY <1>3
    <2>2. SumFunctionOnSet(owed, borrowing[u]) =
              SumFunctionOnSet([r \in Reserves |-> IF r \in borrowing[u] THEN owed[r] ELSE 0],
                               Reserves)
      BY <1>2, <2>1, ReservesAssumption, SumMasked
    <2> QED
      BY <1>1, <2>2 DEF Due
  <1>7. \A r \in Reserves : weight[r] = Weight(r, value[r]) /\ weight[r] \in Nat /\ loan[r] \in Nat
    BY <1>3, <1>5 DEF Weight
  <1>8. b = x
    <2>1. [r \in Reserves |-> IF r \in usingAsCollateral[u] THEN Weight(r, value[r]) ELSE 0]
            = [r \in Reserves |-> IF r \in S THEN weight[r] ELSE 0]
      <3>1. ASSUME NEW r \in Reserves
            PROVE  (IF r \in usingAsCollateral[u] THEN Weight(r, value[r]) ELSE 0)
                     = (IF r \in S THEN weight[r] ELSE 0)
        <4>1. r \in S <=> r \in usingAsCollateral[u] /\ config[r].liquidationThreshold # 0
          BY DEF CollateralOf
        <4>2. config[r].liquidationThreshold = 0 => Weight(r, value[r]) = 0
          <5> DEFINE v == value[r]
          <5>1. v \in Nat
            BY <1>3
          <5> HIDE DEF v
          <5>2. v * 0 = 0
            BY <5>1
          <5> QED
            BY <5>2 DEF Weight, v
        <4> HIDE DEF S, value, weight
        <4> QED
          BY <1>7, <4>1, <4>2
      <3> HIDE DEF S, value, weight
      <3> QED
        BY <3>1
    <2> HIDE DEF weight, S
    <2>2. \A r \in Reserves : weight[r] \in Int
      BY <1>7
    <2>3. SumFunctionOnSet(weight, S) =
              SumFunctionOnSet([r \in Reserves |-> IF r \in S THEN weight[r] ELSE 0], Reserves)
      BY <1>2, <2>2, ReservesAssumption, SumMasked
    <2> QED
      BY <2>1, <2>3 DEF Backing
  <1> HIDE DEF value, owed, S, weight, loan, a
  <1>9. total \in Nat /\ x \in Nat /\ y \in Nat
    <2>1. \A r \in S : value[r] \in Nat /\ weight[r] \in Nat /\ loan[r] \in Nat
      BY <1>2, <1>3, <1>7
    <2> QED
      BY <1>2, <2>1, SumNat
  <1>10. x <= 10000 * total /\ y <= 10000 * total
    <2>1. \A r \in S : /\ weight[r] \in Int /\ loan[r] \in Int /\ value[r] \in Int
                       /\ weight[r] <= 10000 * value[r] /\ loan[r] <= 10000 * value[r]
      BY <1>2, <1>3, <1>5, <1>7 DEF weight, loan
    <2>2. x <= 10000 * total
      BY <1>2, <2>1, SumAtMost
    <2>3. y <= 10000 * total
      BY <1>2, <2>1, SumAtMost
    <2> QED
      BY <2>2, <2>3
  <1>11. ConfigInv => y <= x
    <2> SUFFICES ASSUME ConfigInv PROVE y <= x
      OBVIOUS
    <2>1. \A r \in S : weight[r] \in Int /\ loan[r] \in Int /\ loan[r] <= weight[r]
      BY <1>2, <1>3, <1>5, <1>7 DEF weight, loan
    <2> QED
      BY <1>2, <2>1, SumMonotone
  <1> HIDE DEF total, x, y, b
  <1>12. /\ a.threshold \in Nat /\ a.ltv \in Nat
         /\ total * a.threshold <= x /\ x <= total * a.threshold + total
         /\ ConfigInv => a.ltv <= a.threshold /\ a.ltv <= 10000
    <2>1. CASE total = 0
      BY <1>1, <1>9, <1>10, <2>1
    <2>2. CASE total # 0
      <3> DEFINE t == x \div total
                 l == y \div total
      <3>1. t \in Nat /\ total * t <= x /\ x < total * t + total
        BY <1>9, <2>2, DivBounds
      <3>2. l \in Nat /\ total * l <= y /\ y < total * l + total
        BY <1>9, <2>2, DivBounds
      <3>3. a.threshold = t /\ a.ltv = l
        BY <1>1, <1>9, <2>2
      <3> HIDE DEF t, l
      <3>4. total * l <= total * 10000
        BY <1>9, <1>10, <3>2
      <3>5. l <= 10000
        BY <1>9, <2>2, <3>2, <3>4
      <3>6. ConfigInv => total * l < total * (t + 1)
        BY <1>9, <1>11, <3>1, <3>2
      <3>7. ConfigInv => l < t + 1
        BY <1>9, <2>2, <3>1, <3>2, <3>6
      <3> DEFINE p == total * t
      <3>8. p \in Nat
        BY <1>9, <3>1
      <3> QED
        BY <1>9, <3>1, <3>2, <3>3, <3>5, <3>7, <3>8
    <2> QED
      BY <2>1, <2>2
  <1>13. a.debt \in Nat
    <2>1. \A r \in borrowing[u] : owed[r] \in Nat
      BY <1>2, <1>3
    <2> QED
      BY <1>1, <1>2, <2>1, FlaggedFinite, SumNat
  <1> QED
    BY <1>1, <1>4, <1>6, <1>8, <1>9, <1>12, <1>13
       DEF Reads, value, owed, a, b, PERCENTAGE_FACTOR

\* A position healthy for the deposits of `row`, as the checks of the pool see it.
LEMMA HealthyStarts ==
    ASSUME TypeOK, NEW u \in Users, NEW row \in [Reserves -> Nat],
           AccountData(u, row).hf >= WAD
    PROVE  Safe(Due(borrowing[u], Owed(u)), Backing(usingAsCollateral[u], ValuesOf(row)), 0)
  <1> DEFINE a == AccountData(u, row)
             d == Due(borrowing[u], Owed(u))
             b == Backing(usingAsCollateral[u], ValuesOf(row))
  <1>1. Reads(u, row)
    BY AccountReads
  <1>2. /\ a.collateral \in Nat /\ d \in Nat /\ a.threshold \in Nat
        /\ HealthFactor(a.collateral, d, a.threshold) >= WAD
        /\ a.collateral * a.threshold <= b
    BY <1>1 DEF Reads
  <1>3. b \in Nat
    <2>1. ValuesOf(row) \in Values
      BY <1>1 DEF Reads
    <2> QED
      BY <2>1, BackingType
  <1> HIDE DEF a, d, b
  <1>4. Safe(d, b, 0)
    BY <1>2, <1>3, HealthySafe
  <1> QED
    BY <1>4 DEF d, b

SafeAt(u, r) ==
    Safe(Due(borrowing[u], Owed(u)), Backing(usingAsCollateral[u], Held(u)),
         InETH(r, RoundingDust(r)) + 2)

SafeEnough == \A u \in Users, r \in Reserves : SafeAt(u, r) => NearlyHealthy(u)

LEMMA SafeEnds == TypeOK => SafeEnough
  <1> SUFFICES ASSUME TypeOK, NEW u \in Users, NEW r \in Reserves, SafeAt(u, r)
               PROVE  NearlyHealthy(u)
    BY DEF SafeEnough
  <1> DEFINE a == Account(u)
             d == Due(borrowing[u], Owed(u))
             b == Backing(usingAsCollateral[u], Held(u))
             f == [s \in Reserves |-> InETH(s, RoundingDust(s)) + 2]
             x == InETH(r, RoundingDust(r)) + 2
  <1>1. aBal[u] \in [Reserves -> Nat] /\ Held(u) = ValuesOf(aBal[u])
    BY DEF TypeOK, Held, ValuesOf, BalanceOf
  <1>2. Reads(u, aBal[u])
    BY <1>1, AccountReads
  <1>3. /\ a.collateral \in Nat /\ d \in Nat /\ a.threshold \in Nat /\ a.debt = d
        /\ b <= a.collateral * a.threshold + a.collateral
        /\ Held(u) \in Values
    BY <1>1, <1>2 DEF Reads, Account
  <1>4. b \in Nat
    BY <1>3, BackingType
  <1>5. \A s \in Reserves : f[s] \in Nat
    BY DustCovers, ValueType
  <1>6. f[r] = x /\ x \in Nat
    BY <1>5
  <1>7. Safe(d, b, x)
    BY DEF SafeAt
  <1> DEFINE sum == SumFunctionOnSet(f, Reserves)
  <1>8. NearlyHealthy(u) <=> \/ a.hf >= WAD
                             \/ a.debt <= PercentMul(a.collateral, a.threshold)
                                  + (sum + a.collateral \div PERCENTAGE_FACTOR + 1
                                         + a.debt \div WAD)
    BY DEF NearlyHealthy, PositionDust
  <1> HIDE DEF a, d, b, f, x
  <1>9. sum \in Nat /\ x <= sum
    <2>1. \A s \in Reserves : f[s] \in Int
      BY <1>5
    <2>2. sum = f[r] + SumFunctionOnSet(f, Reserves \ {r})
      BY <2>1, ReservesAssumption, SumTakeOut
    <2>3. IsFiniteSet(Reserves \ {r})
      BY ReservesAssumption, FS_Subset
    <2>4. SumFunctionOnSet(f, Reserves \ {r}) \in Nat /\ sum \in Nat
      BY <1>5, <2>3, ReservesAssumption, SumNat
    <2> HIDE DEF sum
    <2> QED
      BY <1>6, <2>2, <2>4
  <1> HIDE DEF sum
  <1>10. d <= PercentMul(a.collateral, a.threshold)
               + (sum + a.collateral \div PERCENTAGE_FACTOR + 1 + d \div WAD)
    BY <1>3, <1>4, <1>6, <1>7, <1>9, SafeNumbers
  <1> QED
    BY <1>3, <1>8, <1>10

\* After a transaction, which leaves prices, configuration and indices alone.
Settled == UNCHANGED <<price, config, income, debtIndex>>

LEMMA ReadingsAfter ==
    ASSUME TypeOK, TypeOK', Settled, NEW u \in Users
    PROVE  /\ Owed(u) \in Values /\ Owed(u)' \in Values
           /\ Held(u) \in Values /\ Held(u)' \in Values
           /\ \A s \in Reserves :
                /\ Owed(u)[s] = InETH(s, TotalDebt(u, s))
                /\ Owed(u)'[s] = InETH(s, TotalDebt(u, s)')
                /\ Held(u)[s] = InETH(s, BalanceOf(u, s))
                /\ Held(u)'[s] = InETH(s, BalanceOf(u, s)')
                /\ TotalDebt(u, s) \in Nat /\ TotalDebt(u, s)' \in Nat
                /\ BalanceOf(u, s) \in Nat /\ BalanceOf(u, s)' \in Nat
                /\ aBal[u][s] <= aBal'[u][s] => Held(u)[s] <= Held(u)'[s]
                /\ vBal'[u][s] <= vBal[u][s] /\ sBal'[u][s] <= sBal[u][s]
                     => Owed(u)'[s] <= Owed(u)[s]
  <1>1. \A s \in Reserves :
          /\ TotalDebt(u, s) \in Nat /\ TotalDebt(u, s)' \in Nat
          /\ BalanceOf(u, s) \in Nat /\ BalanceOf(u, s)' \in Nat
          /\ aBal[u][s] <= aBal'[u][s] => BalanceOf(u, s) <= BalanceOf(u, s)'
          /\ vBal'[u][s] <= vBal[u][s] /\ sBal'[u][s] <= sBal[u][s]
               => TotalDebt(u, s)' <= TotalDebt(u, s)
    <2> TAKE s \in Reserves
    <2> DEFINE a == aBal[u][s]
               b == aBal'[u][s]
               v == vBal[u][s]
               w == vBal'[u][s]
               x == sBal[u][s]
               y == sBal'[u][s]
               i == income[s]
               j == debtIndex[s]
    <2>1. /\ a \in Nat /\ b \in Nat /\ v \in Nat /\ w \in Nat /\ x \in Nat /\ y \in Nat
      BY DEF TypeOK
    <2>2. /\ BalanceOf(u, s) = RayMul(a, i) /\ BalanceOf(u, s)' = RayMul(b, i)
          /\ TotalDebt(u, s) = x + RayMul(v, j) /\ TotalDebt(u, s)' = y + RayMul(w, j)
      BY DEF BalanceOf, TotalDebt, StableDebt, VariableDebt, Settled
    <2>3. i \in {income[s], debtIndex[s]} /\ j \in {income[s], debtIndex[s]}
      OBVIOUS
    <2> HIDE DEF a, b, v, w, x, y
    <2>4. /\ RayMul(a, i) \in Nat /\ RayMul(b, i) \in Nat
          /\ RayMul(v, j) \in Nat /\ RayMul(w, j) \in Nat
      BY <2>1, IndexPositive, RayMulType
    <2>5. a <= b => RayMul(a, i) <= RayMul(b, i)
      BY <2>1, <2>3, ReadingMonotone
    <2>6. w <= v => RayMul(w, j) <= RayMul(v, j)
      BY <2>1, <2>3, ReadingMonotone
    <2>7. w <= v /\ y <= x => y + RayMul(w, j) <= x + RayMul(v, j)
      BY <2>1, <2>4, <2>6
    <2> QED
      BY <2>1, <2>2, <2>4, <2>5, <2>7 DEF a, b, v, w, x, y
  <1>2. \A s \in Reserves :
          /\ InETH(s, TotalDebt(u, s)) \in Nat /\ InETH(s, TotalDebt(u, s)') \in Nat
          /\ InETH(s, BalanceOf(u, s)) \in Nat /\ InETH(s, BalanceOf(u, s)') \in Nat
    BY <1>1, ValueType
  <1>3. /\ Owed(u) = [s \in Reserves |-> InETH(s, TotalDebt(u, s))]
        /\ Owed(u)' = [s \in Reserves |-> InETH(s, TotalDebt(u, s)')]
        /\ Held(u) = [s \in Reserves |-> InETH(s, BalanceOf(u, s))]
        /\ Held(u)' = [s \in Reserves |-> InETH(s, BalanceOf(u, s)')]
    BY DEF Owed, Held, InETH, Settled
  <1>4. \A s \in Reserves :
          /\ BalanceOf(u, s) <= BalanceOf(u, s)' =>
               InETH(s, BalanceOf(u, s)) <= InETH(s, BalanceOf(u, s)')
          /\ TotalDebt(u, s)' <= TotalDebt(u, s) =>
               InETH(s, TotalDebt(u, s)') <= InETH(s, TotalDebt(u, s))
    BY <1>1, ValueMonotone
  <1> QED
    BY <1>1, <1>2, <1>3, <1>4 DEF Values

\* What is due and what backs it afterwards, against numbers that were safe.
LEMMA HealthStep ==
    ASSUME TypeOK, TypeOK', Settled, NEW u \in Users, NEW r \in Reserves,
           NEW due \in Nat, NEW backing \in Nat, NEW x \in Nat, NEW y \in Nat,
           Safe(due, backing, 0), x + y <= InETH(r, RoundingDust(r)) + 2,
           Due(borrowing'[u], Owed(u)') <= due + x,
           backing <= Backing(usingAsCollateral'[u], Held(u)') + PERCENTAGE_FACTOR * y
    PROVE  NearlyHealthy(u)'
  <1> DEFINE d == Due(borrowing'[u], Owed(u)')
             b == Backing(usingAsCollateral'[u], Held(u)')
             z == InETH(r, RoundingDust(r)) + 2
  <1>1. d \in Nat /\ b \in Nat
    BY ReadingsAfter, DueType, BackingType
  <1>2. Safe(d, b, x + y)
    <2> HIDE DEF d, b
    <2>1. d <= due + x /\ backing <= b + PERCENTAGE_FACTOR * y
      BY DEF d, b
    <2> QED
      BY <1>1, <2>1, SafeMoves
  <1>3. z \in Nat
    BY DustCovers, ValueType
  <1>4. Safe(d, b, z)
    <2> DEFINE e == d - d \div WAD
    <2>1. PERCENTAGE_FACTOR * e <= b + 5000 + PERCENTAGE_FACTOR * (x + y)
      BY <1>2 DEF Safe
    <2>2. x + y <= z
      OBVIOUS
    <2>3. e \in Int
      <3>1. d \div WAD \in Nat
        BY <1>1, PrecisionAssumption, DivBounds
      <3> QED
        BY <1>1, <3>1
    <2> HIDE DEF d, b, z, e
    <2>4. PERCENTAGE_FACTOR * e <= b + 5000 + PERCENTAGE_FACTOR * z
      BY <1>1, <1>3, <2>1, <2>2, <2>3 DEF PERCENTAGE_FACTOR
    <2> QED
      BY <2>4 DEF Safe, e
  <1>5. SafeAt(u, r)' <=> Safe(d, b, z)
    BY DEF SafeAt, Settled, Due, Backing, Weight, InETH, RoundingDust, Safe
  <1>6. TypeOK' => SafeEnough'
    BY SafeEnds, PTL
  <1> QED
    BY <1>4, <1>5, <1>6 DEF SafeEnough

\* The two sides of a position when at most one reserve r takes part in the transaction.
DebtsRest(u, r) ==
    \A s \in Reserves \ {r} : /\ s \in borrowing'[u] => s \in borrowing[u]
                              /\ vBal'[u][s] <= vBal[u][s] /\ sBal'[u][s] <= sBal[u][s]
DepositsRest(u, r) ==
    \A s \in Reserves \ {r} : /\ s \in usingAsCollateral[u] => s \in usingAsCollateral'[u]
                              /\ aBal[u][s] <= aBal'[u][s]

LEMMA DueSide ==
    ASSUME TypeOK, TypeOK', Settled, NEW u \in Users, NEW r \in Reserves, NEW k \in Nat,
           DebtsRest(u, r),
           r \in borrowing'[u] => InETH(r, TotalDebt(u, r)') <=
               (IF r \in borrowing[u] THEN InETH(r, TotalDebt(u, r)) ELSE 0) + k
    PROVE  Due(borrowing'[u], Owed(u)') <= Due(borrowing[u], Owed(u)) + k
  <1> DEFINE owed  == Owed(u)
             owed2 == Owed(u)'
             bits  == borrowing[u]
             bits2 == borrowing'[u]
  <1>1. owed \in Values /\ owed2 \in Values
    BY ReadingsAfter
  <1>2. \A s \in Reserves \ {r} : s \in bits2 => s \in bits /\ owed2[s] <= owed[s]
    BY ReadingsAfter DEF DebtsRest
  <1>3. r \in bits2 => owed2[r] <= (IF r \in bits THEN owed[r] ELSE 0) + k
    BY ReadingsAfter
  <1> HIDE DEF owed, owed2, bits, bits2
  <1>4. Due(bits2, owed2) <= Due(bits, owed) + k
    BY <1>1, <1>2, <1>3, DueMoves
  <1> QED
    BY <1>4 DEF owed, owed2, bits, bits2

LEMMA BackingSide ==
    ASSUME TypeOK, TypeOK', Settled, NEW u \in Users, NEW r \in Reserves, NEW k \in Nat,
           DepositsRest(u, r),
           r \in usingAsCollateral[u] => Weight(r, Held(u)[r]) <=
               (IF r \in usingAsCollateral'[u] THEN Weight(r, Held(u)'[r]) ELSE 0) + k
    PROVE  Backing(usingAsCollateral[u], Held(u)) <=
               Backing(usingAsCollateral'[u], Held(u)') + k
  <1> DEFINE held   == Held(u)
             held2  == Held(u)'
             flags  == usingAsCollateral[u]
             flags2 == usingAsCollateral'[u]
  <1>1. held \in Values /\ held2 \in Values
    BY ReadingsAfter
  <1>2. \A s \in Reserves \ {r} : s \in flags => s \in flags2 /\ held[s] <= held2[s]
    BY ReadingsAfter DEF DepositsRest
  <1>3. r \in flags => Weight(r, held[r]) <=
                           (IF r \in flags2 THEN Weight(r, held2[r]) ELSE 0) + k
    OBVIOUS
  <1> HIDE DEF held, held2, flags, flags2
  <1>4. Backing(flags, held) <= Backing(flags2, held2) + k
    BY <1>1, <1>2, <1>3, BackingMoves
  <1> QED
    BY <1>4 DEF held, held2, flags, flags2

LEMMA PositionTypes ==
    ASSUME TypeOK, NEW u \in Users
    PROVE  /\ Due(borrowing[u], Owed(u)) \in Nat
           /\ Backing(usingAsCollateral[u], Held(u)) \in Nat
           /\ aBal[u] \in [Reserves -> Nat]
           /\ Held(u) = ValuesOf(aBal[u])
           /\ Reads(u, aBal[u])
  <1>1. aBal[u] \in [Reserves -> Nat] /\ Held(u) = ValuesOf(aBal[u])
    BY DEF TypeOK, Held, ValuesOf, BalanceOf
  <1>2. Reads(u, aBal[u])
    BY <1>1, AccountReads
  <1>3. Owed(u) \in Values /\ Held(u) \in Values
    BY <1>1, <1>2 DEF Reads
  <1> QED
    BY <1>1, <1>2, <1>3, DueType, BackingType

LEMMA HealthyIsSafe ==
    ASSUME TypeOK, NEW u \in Users, Healthy(u)
    PROVE  Safe(Due(borrowing[u], Owed(u)), Backing(usingAsCollateral[u], Held(u)), 0)
  <1>1. aBal[u] \in [Reserves -> Nat] /\ Held(u) = ValuesOf(aBal[u])
    BY PositionTypes
  <1>2. AccountData(u, aBal[u]).hf >= WAD
    BY DEF Healthy, Account
  <1> QED
    BY <1>1, <1>2, HealthyStarts

LEMMA DustWorth ==
    ASSUME TypeOK, NEW r \in Reserves
    PROVE  InETH(r, RoundingDust(r)) \in Nat /\ RoundingDust(r) \in Nat
  BY DustCovers, ValueType

\* Who is not touched but for the better stays healthy.
DebtsShrink(u) ==
    \A s \in Reserves : /\ s \in borrowing'[u] => s \in borrowing[u]
                        /\ vBal'[u][s] <= vBal[u][s] /\ sBal'[u][s] <= sBal[u][s]
DepositsGrow(u) ==
    \A s \in Reserves : /\ s \in usingAsCollateral[u] => s \in usingAsCollateral'[u]
                        /\ aBal[u][s] <= aBal'[u][s]

LEMMA ShrinkSide ==
    ASSUME TypeOK, TypeOK', Settled, NEW u \in Users, NEW r \in Reserves, DebtsShrink(u)
    PROVE  Due(borrowing'[u], Owed(u)') <= Due(borrowing[u], Owed(u)) + 0
  <1>1. DebtsRest(u, r)
    BY DEF DebtsRest, DebtsShrink
  <1>2. r \in borrowing'[u] => InETH(r, TotalDebt(u, r)') <=
            (IF r \in borrowing[u] THEN InETH(r, TotalDebt(u, r)) ELSE 0) + 0
    <2> DEFINE x == InETH(r, TotalDebt(u, r)')
               y == InETH(r, TotalDebt(u, r))
    <2>1. x \in Nat /\ y \in Nat /\ x <= y
      <3>1. Owed(u)'[r] <= Owed(u)[r] /\ Owed(u)'[r] = x /\ Owed(u)[r] = y
        BY ReadingsAfter DEF DebtsShrink
      <3>2. TotalDebt(u, r) \in Nat /\ TotalDebt(u, r)' \in Nat
        BY ReadingsAfter
      <3>3. x \in Nat /\ y \in Nat
        BY <3>2, ValueType
      <3> QED
        BY <3>1, <3>3
    <2> HIDE DEF x, y
    <2>2. r \in borrowing'[u] => x <= (IF r \in borrowing[u] THEN y ELSE 0) + 0
      BY <2>1 DEF DebtsShrink
    <2> QED
      BY <2>2 DEF x, y
  <1> QED
    BY <1>1, <1>2, DueSide

LEMMA GrowSide ==
    ASSUME TypeOK, TypeOK', Settled, NEW u \in Users, NEW r \in Reserves, DepositsGrow(u)
    PROVE  Backing(usingAsCollateral[u], Held(u)) <=
               Backing(usingAsCollateral'[u], Held(u)') + 0
  <1>1. DepositsRest(u, r)
    BY DEF DepositsRest, DepositsGrow
  <1> DEFINE x == Held(u)[r]
             y == Held(u)'[r]
  <1>2. x \in Nat /\ y \in Nat /\ x <= y
    BY ReadingsAfter DEF DepositsGrow, Values
  <1>3. r \in usingAsCollateral[u] => r \in usingAsCollateral'[u]
    BY DEF DepositsGrow
  <1>4. r \in usingAsCollateral[u] => Weight(r, x) <=
            (IF r \in usingAsCollateral'[u] THEN Weight(r, y) ELSE 0) + 0
    <2> HIDE DEF x, y
    <2>1. Weight(r, x) \in Nat /\ Weight(r, y) \in Nat /\ Weight(r, x) <= Weight(r, y)
      BY <1>2, WeightType, WeightMonotone
    <2> QED
      BY <1>3, <2>1
  <1> QED
    BY <1>1, <1>4, BackingSide

LEMMA Unaffected ==
    ASSUME TypeOK, TypeOK', Settled, NEW u \in Users, NEW r \in Reserves, Healthy(u),
           DepositsGrow(u), DebtsShrink(u)
    PROVE  NearlyHealthy(u)'
  <1> DEFINE due     == Due(borrowing[u], Owed(u))
             backing == Backing(usingAsCollateral[u], Held(u))
             due2     == Due(borrowing'[u], Owed(u)')
             backing2 == Backing(usingAsCollateral'[u], Held(u)')
  <1>1. due \in Nat /\ backing \in Nat /\ Safe(due, backing, 0)
    BY PositionTypes, HealthyIsSafe
  <1>2. due2 <= due + 0 /\ backing <= backing2 + 0
    BY ShrinkSide, GrowSide
  <1>3. 0 + 0 <= InETH(r, RoundingDust(r)) + 2
    BY DustWorth
  <1>4. backing <= backing2 + PERCENTAGE_FACTOR * 0
    BY <1>2 DEF PERCENTAGE_FACTOR
  <1> HIDE DEF due, backing
  <1> QED
    BY <1>1, <1>2, <1>3, <1>4, HealthStep

\* The threshold of a reserve is at most 100%: what a value loses, its weight loses at most
\* in basis points.
LEMMA WeightSlack ==
    ASSUME TypeOK, NEW r \in Reserves, NEW x \in Nat, NEW y \in Nat, NEW z \in Nat,
           NEW e \in Nat, x <= y + z + e
    PROVE  Weight(r, x) <= Weight(r, y) + Weight(r, z) + PERCENTAGE_FACTOR * e
  <1> DEFINE t == config[r].liquidationThreshold
  <1>1. t \in Nat /\ t <= 10000
    BY WeightType DEF PERCENTAGE_FACTOR
  <1> HIDE DEF t
  <1>2. x * t <= (y + z + e) * t
    BY <1>1
  <1>3. (y + z + e) * t = y * t + z * t + e * t
    BY <1>1
  <1>4. e * t <= e * 10000
    BY <1>1
  <1>5. x * t \in Nat /\ y * t \in Nat /\ z * t \in Nat /\ e * t \in Nat
    BY <1>1
  <1> DEFINE a == x * t
             b == y * t
             c == z * t
             d == e * t
             s == (y + z + e) * t
  <1>6. a <= s /\ s = b + c + d /\ d <= e * 10000
        /\ a \in Nat /\ b \in Nat /\ c \in Nat /\ d \in Nat
    BY <1>2, <1>3, <1>4, <1>5
  <1> HIDE DEF a, b, c, d, s
  <1>7. a <= b + c + 10000 * e
    BY <1>6
  <1> QED
    BY <1>7 DEF Weight, PERCENTAGE_FACTOR, t, a, b, c

\* balanceDecreaseAllowed: what is left of the collateral after `amount` of r is gone backs
\* the debt, and what really goes is `amount` up to the rounding of the balance.
LEMMA GivesUp ==
    ASSUME TypeOK, TypeOK', Settled, NEW u \in Users, NEW r \in Reserves, NEW amount \in Nat,
           Healthy(u), BalanceDecreaseAllowed(u, r, amount),
           BalanceOf(u, r) <= BalanceOf(u, r)' + amount + RoundingDust(r),
           r \in usingAsCollateral[u] =>
               r \in usingAsCollateral'[u] \/ amount = BalanceOf(u, r),
           r \notin usingAsCollateral[u] => r \notin usingAsCollateral'[u],
           DepositsRest(u, r), DebtsShrink(u)
    PROVE  NearlyHealthy(u)'
  <1> DEFINE a        == Account(u)
             due      == Due(borrowing[u], Owed(u))
             backing  == Backing(usingAsCollateral[u], Held(u))
             due2     == Due(borrowing'[u], Owed(u)')
             backing2 == Backing(usingAsCollateral'[u], Held(u)')
             dust     == InETH(r, RoundingDust(r))
             t        == config[r].liquidationThreshold
             decrease == InETH(r, amount)
             x        == Held(u)[r]
             y        == Held(u)'[r]
  <1>1. due \in Nat /\ backing \in Nat /\ backing2 \in Nat /\ due2 \in Nat
    BY PositionTypes, ReadingsAfter, BackingType, DueType
  <1>2. /\ a.collateral \in Nat /\ a.threshold \in Nat /\ a.debt = due
        /\ a.collateral * a.threshold <= backing
    BY PositionTypes DEF Reads, Account
  <1>3. due2 <= due + 0
    BY ShrinkSide
  <1>4. dust \in Nat /\ RoundingDust(r) \in Nat /\ decrease \in Nat
    BY DustWorth, ValueType
  <1>5. t \in Nat /\ t <= 10000
    BY WeightType DEF PERCENTAGE_FACTOR
  <1>6. x \in Nat /\ y \in Nat /\ x <= y + decrease + (dust + 2)
        /\ (amount = BalanceOf(u, r) => x = decrease)
    <2> DEFINE before == BalanceOf(u, r)
               after  == BalanceOf(u, r)'
               e      == RoundingDust(r)
    <2>1. /\ before \in Nat /\ after \in Nat /\ e \in Nat /\ before <= after + amount + e
          /\ x = InETH(r, before) /\ y = InETH(r, after)
      BY <1>4, ReadingsAfter
    <2>2. (amount = BalanceOf(u, r) => x = decrease) /\ dust = InETH(r, e)
      BY <2>1
    <2> HIDE DEF before, after, e, x, y
    <2>3. after + amount \in Nat /\ after + amount + e \in Nat
      BY <2>1
    <2>4. InETH(r, before) <= InETH(r, after + amount + e)
      BY <2>1, <2>3, ValueMonotone
    <2>5. InETH(r, after + amount + e) <= InETH(r, after + amount) + InETH(r, e) + 1
      BY <2>1, <2>3, ValueSplits
    <2>6. InETH(r, after + amount) <= InETH(r, after) + InETH(r, amount) + 1
      BY <2>1, ValueSplits
    <2>7. /\ InETH(r, before) \in Nat /\ InETH(r, after) \in Nat /\ InETH(r, e) \in Nat
          /\ InETH(r, after + amount) \in Nat /\ InETH(r, after + amount + e) \in Nat
      BY <2>1, <2>3, ValueType
    <2> HIDE DEF decrease, dust
    <2>8. x <= y + InETH(r, amount) + (InETH(r, e) + 2)
      BY <1>4, <2>1, <2>4, <2>5, <2>6, <2>7 DEF decrease
    <2> QED
      BY <2>1, <2>2, <2>7, <2>8 DEF decrease
  \* Nothing is owed, or r backs nothing.
  <1>7. CASE due = 0
    <2>1. Safe(0, 0, 0)
      <3>1. WAD \in Nat \ {0} /\ 0 \in Nat
        BY PrecisionAssumption
      <3> DEFINE k == 0 \div WAD
      <3>2. k \in Nat /\ WAD * k <= 0
        BY <3>1, DivBounds
      <3> HIDE DEF k
      <3>3. 10000 * (0 - k) <= 0 + 5000 + 10000 * 0
        BY <3>2
      <3> QED
        BY <3>3 DEF Safe, PERCENTAGE_FACTOR, k
    <2>2. 0 <= backing2 + PERCENTAGE_FACTOR * 0
      BY <1>1 DEF PERCENTAGE_FACTOR
    <2>3. due2 <= 0 + 0 /\ 0 + 0 <= dust + 2
      BY <1>3, <1>4, <1>7
    <2> QED
      BY <2>1, <2>2, <2>3, HealthStep
  <1>8. CASE r \notin usingAsCollateral[u] \/ t = 0
    <2>1. r \in usingAsCollateral[u] => Weight(r, x) <=
              (IF r \in usingAsCollateral'[u] THEN Weight(r, y) ELSE 0) + 0
      <3> SUFFICES ASSUME r \in usingAsCollateral[u]
                   PROVE  Weight(r, x) <=
                              (IF r \in usingAsCollateral'[u] THEN Weight(r, y) ELSE 0) + 0
        OBVIOUS
      <3>1. Weight(r, x) = x * t /\ Weight(r, y) \in Nat
        BY <1>6, WeightType DEF Weight
      <3> HIDE DEF x, y, t
      <3>2. Weight(r, x) = 0
        BY <1>6, <1>8, <3>1
      <3> QED
        BY <3>1, <3>2
    <2>2. backing <= backing2 + 0
      BY <2>1, BackingSide
    <2>3. backing <= backing2 + PERCENTAGE_FACTOR * 0
      BY <2>2 DEF PERCENTAGE_FACTOR
    <2>4. 0 + 0 <= dust + 2
      BY <1>4
    <2>5. Safe(due, backing, 0)
      BY HealthyIsSafe
    <2> HIDE DEF due, backing
    <2> QED
      BY <1>1, <1>3, <2>3, <2>4, <2>5, HealthStep
  <1> DEFINE left     == a.collateral - decrease
             weighted == a.collateral * a.threshold - decrease * t
  <1>9. CASE left > 0 /\ weighted >= 0 /\ HealthFactor(left, due, weighted \div left) >= WAD
    <2>1. left \in Nat \ {0} /\ weighted \in Nat
      <3>1. a.collateral * a.threshold \in Int /\ decrease * t \in Int
        BY <1>2, <1>4, <1>5
      <3> QED
        BY <1>2, <1>4, <1>9, <3>1
    <2> DEFINE w == weighted \div left
    <2>2. w \in Nat /\ left * w <= weighted
      <3> HIDE DEF left, weighted
      <3> QED
        BY <2>1, DivBounds
    <2>3. Safe(due, weighted, 0)
      <3>1. HealthFactor(left, due, w) >= WAD /\ left \in Nat
        BY <1>9, <2>1
      <3> HIDE DEF left, weighted, w, due
      <3> QED
        BY <1>1, <2>1, <2>2, <3>1, HealthySafe
    <2> DEFINE k == decrease * t + PERCENTAGE_FACTOR * (dust + 2)
    <2>4. k \in Nat
      BY <1>4, <1>5 DEF PERCENTAGE_FACTOR
    <2>5. r \in usingAsCollateral[u] => Weight(r, x) <=
              (IF r \in usingAsCollateral'[u] THEN Weight(r, y) ELSE 0) + k
      <3>1. /\ Weight(r, x) \in Nat /\ Weight(r, y) \in Nat /\ Weight(r, decrease) \in Nat
            /\ Weight(r, decrease) = decrease * t
        BY <1>4, <1>6, WeightType DEF Weight
      <3>2. Weight(r, x) <= Weight(r, y) + Weight(r, decrease) + PERCENTAGE_FACTOR * (dust + 2)
        <4>1. dust + 2 \in Nat
          BY <1>4
        <4> HIDE DEF x, y, decrease, dust
        <4> QED
          BY <1>4, <1>6, <4>1, WeightSlack
      <3>3. r \in usingAsCollateral[u] /\ r \notin usingAsCollateral'[u]
              => Weight(r, x) = Weight(r, decrease)
        BY <1>6
      <3>4. PERCENTAGE_FACTOR * (dust + 2) \in Nat
        BY <1>4 DEF PERCENTAGE_FACTOR
      <3> DEFINE p == Weight(r, x)
                 q == Weight(r, y)
                 m == Weight(r, decrease)
                 n == PERCENTAGE_FACTOR * (dust + 2)
      <3>5. /\ p \in Nat /\ q \in Nat /\ m \in Nat /\ n \in Nat /\ p <= q + m + n /\ k = m + n
            /\ r \in usingAsCollateral[u] /\ r \notin usingAsCollateral'[u] => p = m
        BY <3>1, <3>2, <3>3, <3>4
      <3> HIDE DEF p, q, m, n, k
      <3>6. r \in usingAsCollateral[u] =>
                p <= (IF r \in usingAsCollateral'[u] THEN q ELSE 0) + k
        BY <3>5
      <3> QED
        BY <3>6 DEF p, q
    <2>6. backing <= backing2 + k
      <3> HIDE DEF k
      <3> QED
        BY <2>4, <2>5, BackingSide
    <2>7. weighted <= backing2 + PERCENTAGE_FACTOR * (dust + 2)
      <3> DEFINE p == a.collateral * a.threshold
                 q == decrease * t
                 n == PERCENTAGE_FACTOR * (dust + 2)
      <3>1. /\ p \in Nat /\ q \in Nat /\ n \in Nat /\ p <= backing /\ weighted = p - q
            /\ k = q + n
        BY <1>2, <1>4, <1>5 DEF PERCENTAGE_FACTOR
      <3> HIDE DEF p, q, n, weighted, k, backing, backing2
      <3>2. weighted <= backing2 + n
        BY <1>1, <2>1, <2>6, <3>1
      <3> QED
        BY <3>2 DEF n
    <2>8. 0 + (dust + 2) <= dust + 2 /\ dust + 2 \in Nat
      BY <1>4
    <2> HIDE DEF due, weighted
    <2> QED
      BY <1>1, <1>3, <2>1, <2>3, <2>7, <2>8, HealthStep
  <1>10. borrowing[u] = {} => due = 0
    <2> SUFFICES ASSUME borrowing[u] = {} PROVE due = 0
      OBVIOUS
    <2>1. Account(u).debt = SumFunctionOnSet(Owed(u), borrowing[u])
      BY AccountSums
    <2> QED
      BY <1>2, <2>1, SumEmpty
  <1> QED
    BY <1>2, <1>7, <1>8, <1>9, <1>10 DEF BalanceDecreaseAllowed

\* Deposits as the minting of the treasury's share leaves them, or more.
LEMMA MintedGrows ==
    ASSUME TypeOK, NEW rs, NEW u \in Users
    PROVE  \A s \in Reserves : Minted(rs)[u][s] \in Nat /\ aBal[u][s] <= Minted(rs)[u][s]
  <1>1. /\ Minted(rs) \in Tables
        /\ \A s \in Reserves : Minted(rs)[u][s] >= aBal[u][s]
    BY MintedTable
  <1>2. \A s \in Reserves : aBal[u][s] \in Nat /\ Minted(rs)[u][s] \in Nat
    BY <1>1 DEF Tables, TypeOK
  <1> QED
    BY <1>1, <1>2

LEMMA SameDebtsShrink ==
    ASSUME TypeOK, NEW u \in Users, UNCHANGED debtVars, borrowing' = borrowing
    PROVE  DebtsShrink(u)
  BY DEF TypeOK, debtVars, DebtsShrink

LEMMA DepositHealth ==
    ASSUME TypeOK, TypeOK', NEW m \in Users, NEW v \in Users, NEW r \in Reserves,
           NEW amount \in Amounts, Deposit(m, v, r, amount), NEW u \in Users, Healthy(u)
    PROVE  NearlyHealthy(u)'
  <1> DEFINE minted == Minted({r})
             scaled == RayDiv(amount, income[r])
  <1>1. /\ Settled /\ UNCHANGED debtVars /\ borrowing' = borrowing
        /\ aBal' = Plus(minted, v, r, scaled)
        /\ usingAsCollateral' = OnFirstBalance(usingAsCollateral, v, r, minted[v][r])
    BY DEF Deposit, Settled, marketVars, indexVars
  <1>2. scaled \in Nat
    BY AmountsAssumption, IndexPositive, RayDivType
  <1>3. \A s \in Reserves : minted[u][s] \in Nat /\ aBal[u][s] <= minted[u][s] /\ aBal[u][s] \in Nat
    <2>1. \A s \in Reserves : aBal[u][s] \in Nat
      BY DEF TypeOK
    <2> QED
      BY <2>1, MintedGrows
  <1>4. minted \in Tables
    BY MintedTable
  <1> HIDE DEF minted, scaled
  <1>5. \A s \in Reserves : aBal[u][s] <= aBal'[u][s]
    <2> TAKE s \in Reserves
    <2>1. aBal'[u][s] = IF u = v /\ s = r THEN minted[v][r] + scaled ELSE minted[u][s]
      BY <1>1, <1>2, <1>4, PlusTable
    <2> QED
      BY <1>2, <1>3, <2>1
  <1>6. \A s \in Reserves : s \in usingAsCollateral[u] => s \in usingAsCollateral'[u]
    <2>1. usingAsCollateral \in [Users -> SUBSET Reserves]
      BY DEF TypeOK
    <2> QED
      BY <1>1, <2>1, FirstBalanceTables
  <1> QED
    BY <1>1, <1>5, <1>6, SameDebtsShrink, Unaffected DEF DepositsGrow

LEMMA WithdrawHealth ==
    ASSUME TypeOK, TypeOK', NEW m \in Users, NEW r \in Reserves, NEW asked \in AmountsOrMax,
           Withdraw(m, r, asked), NEW u \in Users, Healthy(u)
    PROVE  NearlyHealthy(u)'
  <1> DEFINE amount == IF asked = MaxUint THEN BalanceOf(m, r) ELSE asked
             minted == Minted({r})
             scaled == RayDiv(amount, income[r])
  <1>1. /\ Settled /\ UNCHANGED debtVars /\ borrowing' = borrowing /\ UNCHANGED indexVars
        /\ scaled <= minted[m][r]
        /\ aBal' = Minus(minted, m, r, scaled)
        /\ BalanceDecreaseAllowed(m, r, amount)
        /\ usingAsCollateral' = IF amount = BalanceOf(m, r)
                                THEN Unflagged(usingAsCollateral, m, r)
                                ELSE usingAsCollateral
    BY DEF Withdraw, ValidateWithdraw, Settled, marketVars, indexVars
  <1>2. amount \in Nat
    BY BalanceTypes, AmountsAssumption DEF AmountsOrMax
  <1>3. scaled \in Nat
    BY <1>2, IndexPositive, RayDivType
  <1>4. minted \in Tables
    BY MintedTable
  <1>5. \A v \in Users, s \in Reserves :
            minted[v][s] \in Nat /\ aBal[v][s] <= minted[v][s] /\ aBal[v][s] \in Nat
    BY MintedGrows DEF TypeOK
  <1>6. usingAsCollateral \in [Users -> SUBSET Reserves]
    BY DEF TypeOK
  <1>7. DebtsShrink(u)
    BY <1>1, SameDebtsShrink
  <1> HIDE DEF minted, amount
  <1>8. \A v \in Users, s \in Reserves :
            aBal'[v][s] = IF v = m /\ s = r THEN minted[m][r] - scaled ELSE minted[v][s]
    <2> HIDE DEF scaled
    <2> QED
      BY <1>1, <1>3, <1>4, MinusTable
  <1>9. CASE u # m
    <2>1. \A s \in Reserves : aBal[u][s] <= aBal'[u][s]
      BY <1>5, <1>8, <1>9
    <2>2. \A s \in Reserves : s \in usingAsCollateral[u] => s \in usingAsCollateral'[u]
      BY <1>1, <1>6, <1>9, FlagTables
    <2> QED
      BY <1>1, <1>7, <2>1, <2>2, Unaffected DEF DepositsGrow
  <1>10. CASE u = m
    <2>1. /\ \A s \in Reserves \ {r} : s \in usingAsCollateral[u] => s \in usingAsCollateral'[u]
          /\ r \in usingAsCollateral[u] =>
                r \in usingAsCollateral'[u] \/ amount = BalanceOf(u, r)
          /\ r \notin usingAsCollateral[u] => r \notin usingAsCollateral'[u]
      BY <1>1, <1>6, <1>10, FlagTables
    <2>2. \A s \in Reserves \ {r} : aBal[u][s] <= aBal'[u][s]
      BY <1>5, <1>8
    <2>3. aBal'[u][r] \in Nat /\ aBal'[u][r] + scaled >= aBal[u][r]
      <3> HIDE DEF scaled
      <3> QED
        BY <1>1, <1>3, <1>5, <1>8, <1>10
    <2>4. BalanceOf(u, r) <= BalanceOf(u, r)' + amount + RoundingDust(r)
      BY <1>1, <1>2, <2>3, SeizedBound
    <2>5. DepositsRest(u, r)
      BY <2>1, <2>2 DEF DepositsRest
    <2> QED
      BY <1>1, <1>2, <1>7, <1>10, <2>1, <2>4, <2>5, GivesUp
  <1> QED
    BY <1>9, <1>10

LEMMA SetCollateralHealth ==
    ASSUME TypeOK, TypeOK', NEW m \in Users, NEW r \in Reserves, NEW use \in BOOLEAN,
           SetUserUseReserveAsCollateral(m, r, use), NEW u \in Users, Healthy(u)
    PROVE  NearlyHealthy(u)'
  <1>1. /\ Settled /\ UNCHANGED debtVars /\ borrowing' = borrowing /\ UNCHANGED indexVars
        /\ aBal' = aBal
        /\ use \/ BalanceDecreaseAllowed(m, r, BalanceOf(m, r))
        /\ usingAsCollateral' = IF use THEN Flagged(usingAsCollateral, m, r)
                                ELSE Unflagged(usingAsCollateral, m, r)
    BY DEF SetUserUseReserveAsCollateral, ValidateSetUseReserveAsCollateral, Settled,
           marketVars, indexVars
  <1>2. DebtsShrink(u)
    BY <1>1, SameDebtsShrink
  <1>3. \A s \in Reserves : aBal[u][s] \in Nat /\ aBal[u][s] <= aBal'[u][s]
    BY <1>1 DEF TypeOK
  <1>4. usingAsCollateral \in [Users -> SUBSET Reserves]
    BY DEF TypeOK
  <1>5. CASE use \/ u # m
    <2>1. \A s \in Reserves : s \in usingAsCollateral[u] => s \in usingAsCollateral'[u]
      BY <1>1, <1>4, <1>5, FlagTables
    <2> QED
      BY <1>1, <1>2, <1>3, <2>1, Unaffected DEF DepositsGrow
  <1>6. CASE ~use /\ u = m
    <2>1. /\ \A s \in Reserves \ {r} : s \in usingAsCollateral[u] => s \in usingAsCollateral'[u]
          /\ r \notin usingAsCollateral[u] => r \notin usingAsCollateral'[u]
      BY <1>1, <1>4, <1>6, FlagTables
    <2>2. BalanceOf(u, r) \in Nat /\ RoundingDust(r) \in Nat
      BY BalanceTypes, DustCovers
    <2>3. BalanceOf(u, r)' = BalanceOf(u, r)
      BY <1>1 DEF BalanceOf, indexVars
    <2> DEFINE amount == BalanceOf(u, r)
    <2>4. BalanceOf(u, r) <= BalanceOf(u, r)' + amount + RoundingDust(r)
      BY <2>2, <2>3
    <2>5. DepositsRest(u, r)
      BY <1>3, <2>1 DEF DepositsRest
    <2>6. /\ amount \in Nat /\ BalanceDecreaseAllowed(u, r, amount)
          /\ amount = BalanceOf(u, r)
      BY <1>1, <1>6, <2>2
    <2> HIDE DEF amount
    <2> QED
      BY <1>1, <1>2, <2>1, <2>4, <2>5, <2>6, GivesUp
  <1> QED
    BY <1>5, <1>6

\* What is within the value of the collateral at its average threshold is safe.
LEMMA CoveredIsSafe ==
    ASSUME NEW due \in Nat, NEW collateral \in Nat, NEW threshold \in Nat, NEW backing \in Nat,
           collateral * threshold <= backing, due <= PercentMul(collateral, threshold)
    PROVE  Safe(due, backing, 0)
  <1> DEFINE p == PercentMul(collateral, threshold)
             k == due \div WAD
             a == collateral * threshold
  <1>1. k \in Nat
    BY PrecisionAssumption, DivBounds
  <1>2. p \in Nat /\ 10000 * p <= a + 5000
    BY PercentMulBounds
  <1>3. a \in Nat /\ a <= backing /\ due <= p
    OBVIOUS
  <1> HIDE DEF p, k, a
  <1>4. 10000 * (due - k) <= backing + 5000
    BY <1>1, <1>2, <1>3
  <1> QED
    BY <1>4 DEF Safe, PERCENTAGE_FACTOR, k

LEMMA ValueZero ==
    ASSUME TypeOK, NEW r \in Reserves
    PROVE  InETH(r, 0) = 0
  <1> DEFINE n == Unit[r]
             q == 0 \div n
  <1>1. price[r] * 0 = 0 /\ n \in Nat \ {0}
    BY ValueTypes
  <1>2. q \in Nat /\ n * q <= 0
    BY <1>1, DivBounds
  <1> HIDE DEF n, q
  <1>3. q = 0
    BY <1>1, <1>2
  <1> QED
    BY <1>1, <1>3 DEF InETH, n, q

\* A loan adds its amount to what is due, up to the rounding of the debt token; the first
\* in its reserve finds no debt there that had gone unnoticed.
LEMMA Borrowed ==
    ASSUME FlagInv, TypeOK', Settled, NEW u \in Users, NEW r \in Reserves, NEW amount \in Nat,
           BorrowVariable(u, r, amount) \/ BorrowStable(u, r, amount)
    PROVE  /\ \A v \in Users \ {u} : DebtsShrink(v)
           /\ Due(borrowing'[u], Owed(u)') <=
                  Due(borrowing[u], Owed(u)) + (InETH(r, amount) + (InETH(r, RoundingDust(r)) + 2))
  <1> DEFINE scaled == RayDiv(amount, debtIndex[r])
             i      == debtIndex[r]
             e      == RoundingDust(r)
             before == TotalDebt(u, r)
             after  == TotalDebt(u, r)'
             dust   == InETH(r, e)
             k      == InETH(r, amount) + (dust + 2)
  <1>1. TypeOK /\ DebtIsFlagged
    BY DEF FlagInv
  <1>2. vBal \in Tables /\ sBal \in Tables /\ borrowing \in [Users -> SUBSET Reserves]
    BY <1>1 DEF TypeOK, Tables
  <1>3. scaled \in Nat
    BY <1>1, IndexPositive, RayDivType
  <1>4. /\ \A v \in Users, s \in Reserves : v # u \/ s # r =>
              vBal'[v][s] = vBal[v][s] /\ sBal'[v][s] = sBal[v][s]
        /\ \A v \in Users, s \in Reserves : v # u \/ s # r =>
              (s \in borrowing'[v] => s \in borrowing[v])
        /\ \/ vBal'[u][r] = vBal[u][r] + scaled /\ sBal'[u][r] = sBal[u][r]
           \/ vBal'[u][r] = vBal[u][r] /\ sBal'[u][r] = sBal[u][r] + amount
    <2>1. CASE BorrowVariable(u, r, amount)
      <3>1. /\ vBal' = Plus(vBal, u, r, scaled) /\ sBal' = sBal
            /\ borrowing' = Flagged(borrowing, u, r) \/ borrowing' = borrowing
        BY <2>1 DEF BorrowVariable
      <3> HIDE DEF scaled
      <3>2. \A v \in Users, s \in Reserves :
                vBal'[v][s] = IF v = u /\ s = r THEN vBal[u][r] + scaled ELSE vBal[v][s]
        BY <1>2, <1>3, <3>1, PlusTable
      <3>3. \A v \in Users, s \in Reserves : v # u \/ s # r =>
              (s \in borrowing'[v] => s \in borrowing[v])
        BY <1>2, <3>1, FlagTables
      <3> QED
        BY <3>1, <3>2, <3>3
    <2>2. CASE BorrowStable(u, r, amount)
      <3>1. /\ sBal' = Plus(sBal, u, r, amount) /\ vBal' = vBal
            /\ borrowing' = Flagged(borrowing, u, r) \/ borrowing' = borrowing
        BY <2>2 DEF BorrowStable
      <3>2. \A v \in Users, s \in Reserves :
                sBal'[v][s] = IF v = u /\ s = r THEN sBal[u][r] + amount ELSE sBal[v][s]
        BY <1>2, <3>1, PlusTable
      <3>3. \A v \in Users, s \in Reserves : v # u \/ s # r =>
              (s \in borrowing'[v] => s \in borrowing[v])
        BY <1>2, <3>1, FlagTables
      <3> QED
        BY <3>1, <3>2, <3>3
    <2> QED
      BY <2>1, <2>2
  <1>5. \A v \in Users, s \in Reserves : vBal[v][s] \in Nat /\ sBal[v][s] \in Nat
    BY <1>1 DEF TypeOK
  <1>6. \A v \in Users \ {u} : DebtsShrink(v)
    BY <1>4, <1>5 DEF DebtsShrink
  <1>7. DebtsRest(u, r)
    BY <1>4, <1>5 DEF DebtsRest
  <1>8. e \in Nat /\ dust \in Nat /\ InETH(r, amount) \in Nat /\ k \in Nat
    <2>1. e \in Nat /\ dust \in Nat /\ InETH(r, amount) \in Nat
      BY <1>1, DustWorth, ValueType
    <2> HIDE DEF e, dust
    <2> QED
      BY <2>1
  <1>9. before \in Nat /\ after \in Nat /\ after <= before + amount + e
    <2> DEFINE v == vBal[u][r]
               x == sBal[u][r]
               w == vBal'[u][r]
               y == sBal'[u][r]
               d == RayDiv(amount, i)
    <2>1. before = x + RayMul(v, i) /\ after = y + RayMul(w, i)
      BY DEF TotalDebt, StableDebt, VariableDebt, Settled
    <2>2. v \in Nat /\ x \in Nat
      BY <1>5
    <2>3. i \in {income[r], debtIndex[r]}
      OBVIOUS
    <2>4. \/ w = v + d /\ y = x
          \/ w = v /\ y = x + amount
      BY <1>4
    <2> HIDE DEF v, x, w, y, before, after, e
    <2>5. /\ RayMul(v, i) \in Nat /\ d \in Nat /\ RayMul(v + d, i) \in Nat
          /\ Within(RayMul(v + d, i), RayMul(v, i) + amount, e)
      BY <1>1, <2>2, <2>3, ReadingMoves DEF e
    <2>6. RayMul(v + d, i) <= RayMul(v, i) + amount + e
      BY <2>5 DEF Within
    <2> HIDE DEF i, d
    <2>7. CASE w = v + d /\ y = x
      BY <1>8, <2>1, <2>2, <2>5, <2>6, <2>7
    <2>8. CASE w = v /\ y = x + amount
      BY <1>8, <2>1, <2>2, <2>5, <2>8
    <2> QED
      BY <2>4, <2>7, <2>8
  <1>10. r \notin borrowing[u] => before = 0
    <2> SUFFICES ASSUME r \notin borrowing[u] PROVE before = 0
      OBVIOUS
    <2>1. vBal[u][r] = 0 /\ sBal[u][r] = 0
      BY <1>1, <1>5 DEF DebtIsFlagged
    <2>2. RayMul(0, i) = 0
      BY <1>1, IndexPositive, RayMulZero
    <2> QED
      BY <2>1, <2>2 DEF TotalDebt, StableDebt, VariableDebt
  <1>11. InETH(r, after) <= (IF r \in borrowing[u] THEN InETH(r, before) ELSE 0) + k
    <2> HIDE DEF before, after, e, dust
    <2>1. before + amount \in Nat /\ before + amount + e \in Nat
      BY <1>8, <1>9
    <2>2. InETH(r, after) <= InETH(r, before + amount + e)
      BY <1>1, <1>9, <2>1, ValueMonotone
    <2>3. InETH(r, before + amount + e) <= InETH(r, before + amount) + InETH(r, e) + 1
      BY <1>1, <1>8, <2>1, ValueSplits
    <2>4. InETH(r, before + amount) <= InETH(r, before) + InETH(r, amount) + 1
      BY <1>1, <1>9, ValueSplits
    <2>5. /\ InETH(r, after) \in Nat /\ InETH(r, before) \in Nat /\ InETH(r, e) \in Nat
          /\ InETH(r, before + amount) \in Nat /\ InETH(r, before + amount + e) \in Nat
      BY <1>1, <1>8, <1>9, <2>1, ValueType
    <2>6. before = 0 => InETH(r, before) = 0
      BY <1>1, ValueZero
    <2>7. InETH(r, after) <= InETH(r, before) + k
      BY <1>8, <2>2, <2>3, <2>4, <2>5 DEF dust
    <2> HIDE DEF k
    <2> QED
      BY <1>8, <1>10, <2>5, <2>6, <2>7
  <1>12. Due(borrowing'[u], Owed(u)') <= Due(borrowing[u], Owed(u)) + k
    <2> HIDE DEF k
    <2> QED
      BY <1>1, <1>7, <1>8, <1>11, DueSide
  <1> QED
    BY <1>6, <1>12

LEMMA BorrowHealth ==
    ASSUME FlagInv, ConfigInv, TypeOK', NEW m \in Users, NEW v \in Users, NEW r \in Reserves,
           NEW amount \in Amounts, NEW mode \in Modes, Borrow(m, v, r, amount, mode),
           NEW u \in Users, Healthy(u)
    PROVE  NearlyHealthy(u)'
  <1> DEFINE a        == Account(u)
             due      == Due(borrowing[u], Owed(u))
             backing  == Backing(usingAsCollateral[u], Held(u))
             due2     == Due(borrowing'[u], Owed(u)')
             backing2 == Backing(usingAsCollateral'[u], Held(u)')
             dust     == InETH(r, RoundingDust(r))
             loan     == InETH(r, amount)
  <1>1. TypeOK
    BY DEF FlagInv
  <1>2. /\ Settled /\ aBal' = Minted({r}) /\ usingAsCollateral' = usingAsCollateral
        /\ BorrowVariable(v, r, amount) \/ BorrowStable(v, r, amount)
        /\ ValidateBorrow(v, r, amount, mode)
    BY DEF Borrow, Settled, marketVars, indexVars
  <1>3. amount \in Nat
    BY AmountsAssumption
  <1>4. DepositsGrow(u)
    BY <1>1, <1>2, MintedGrows DEF DepositsGrow
  <1>5. CASE u # v
    BY <1>1, <1>2, <1>3, <1>4, <1>5, Borrowed, Unaffected
  <1>6. CASE u = v
    <2>1. /\ a.collateral \in Nat /\ a.threshold \in Nat /\ a.debt = due /\ a.ltv \in Nat
          /\ a.collateral * a.threshold <= backing
          /\ a.ltv <= a.threshold /\ a.ltv <= PERCENTAGE_FACTOR
      BY <1>1, PositionTypes DEF Reads, Account
    <2>2. a.ltv # 0 /\ PercentDiv(a.debt + loan, a.ltv) <= a.collateral
      BY <1>2, <1>6 DEF ValidateBorrow
    <2>3. due \in Nat /\ backing \in Nat /\ loan \in Nat /\ dust \in Nat
      BY <1>1, <1>3, PositionTypes, DustWorth, ValueType
    <2> DEFINE all == due + loan
    <2>4. all \in Nat /\ PercentDiv(all, a.ltv) <= a.collateral
          /\ a.ltv \in 1 .. PERCENTAGE_FACTOR
      <3>1. PercentDiv(all, a.ltv) <= a.collateral
        BY <2>1, <2>2
      <3>2. all \in Nat
        <4> HIDE DEF due, loan
        <4> QED
          BY <2>3
      <3> DEFINE l == a.ltv
      <3>3. l \in Nat /\ l # 0 /\ l <= PERCENTAGE_FACTOR
        BY <2>1, <2>2
      <3> HIDE DEF l
      <3>4. l \in 1 .. PERCENTAGE_FACTOR
        BY <3>3 DEF PERCENTAGE_FACTOR
      <3> QED
        BY <3>1, <3>2, <3>4 DEF l
    <2>5. all <= PercentMul(a.collateral, a.threshold)
      <3> HIDE DEF all, a
      <3> QED
        BY <2>1, <2>4, BorrowPower
    <2>6. Safe(all, backing, 0)
      <3> HIDE DEF all, a, backing
      <3> QED
        BY <2>1, <2>3, <2>4, <2>5, CoveredIsSafe
    <2>7. due2 <= due + (loan + (dust + 2))
      BY <1>2, <1>3, <1>6, Borrowed
    <2>8. backing <= backing2 + 0
      BY <1>1, <1>2, <1>4, GrowSide
    <2>9. due2 \in Nat /\ backing2 \in Nat
      BY <1>1, <1>2, ReadingsAfter, DueType, BackingType
    <2>10. backing <= backing2 + PERCENTAGE_FACTOR * 0
      BY <2>8 DEF PERCENTAGE_FACTOR
    <2>11. due2 <= all + (dust + 2) /\ dust + 2 \in Nat /\ (dust + 2) + 0 <= dust + 2
      <3> HIDE DEF due, due2, loan, dust
      <3> QED
        BY <2>3, <2>7, <2>9
    <2> HIDE DEF all, backing
    <2> QED
      BY <1>1, <1>2, <2>3, <2>4, <2>6, <2>10, <2>11, HealthStep
  <1> QED
    BY <1>5, <1>6

LEMMA RepayHealth ==
    ASSUME TypeOK, TypeOK', NEW m \in Users, NEW v \in Users, NEW r \in Reserves,
           NEW sent \in AmountsOrMax, NEW mode \in Modes, Repay(m, v, r, sent, mode),
           NEW u \in Users, Healthy(u)
    PROVE  NearlyHealthy(u)'
  <1> DEFINE owed   == DebtOf(v, r, mode)
             paid   == Least(sent, owed)
             scaled == RayDiv(paid, debtIndex[r])
  <1>1. /\ Settled /\ aBal' = Minted({r}) /\ usingAsCollateral' = usingAsCollateral
        /\ borrowing' = Unflagged(borrowing, v, r) \/ borrowing' = borrowing
        /\ \/ mode = "stable" /\ sBal' = Minus(sBal, v, r, paid) /\ vBal' = vBal
           \/ scaled <= vBal[v][r] /\ vBal' = Minus(vBal, v, r, scaled) /\ sBal' = sBal
    BY DEF Repay, Settled, marketVars, indexVars
  <1>2. owed \in Nat /\ sent \in Nat
    BY BalanceTypes, AmountsAssumption, MaxUintAssumption DEF AmountsOrMax
  <1>3. paid \in Nat /\ paid <= owed
    <2> HIDE DEF owed
    <2> QED
      BY <1>2 DEF Least
  <1>4. scaled \in Nat
    BY <1>3, IndexPositive, RayDivType
  <1>5. /\ vBal \in Tables /\ sBal \in Tables /\ borrowing \in [Users -> SUBSET Reserves]
        /\ \A s \in Reserves : vBal[u][s] \in Nat /\ sBal[u][s] \in Nat
    BY DEF TypeOK, Tables
  <1>6. mode = "stable" => paid <= sBal[v][r]
    BY <1>3 DEF DebtOf, StableDebt
  <1> HIDE DEF paid, scaled
  <1>7. \A s \in Reserves : vBal'[u][s] <= vBal[u][s] /\ sBal'[u][s] <= sBal[u][s]
    <2>1. CASE mode = "stable" /\ sBal' = Minus(sBal, v, r, paid) /\ vBal' = vBal
      BY <1>3, <1>5, <1>6, <2>1, MinusTable
    <2>2. CASE scaled <= vBal[v][r] /\ vBal' = Minus(vBal, v, r, scaled) /\ sBal' = sBal
      BY <1>4, <1>5, <2>2, MinusTable
    <2> QED
      BY <1>1, <2>1, <2>2
  <1>8. \A s \in Reserves : s \in borrowing'[u] => s \in borrowing[u]
    BY <1>1, <1>5, FlagTables
  <1>9. DepositsGrow(u)
    BY <1>1, MintedGrows DEF DepositsGrow
  <1> QED
    BY <1>1, <1>7, <1>8, <1>9, Unaffected DEF DebtsShrink

\* Changing the mode of a debt leaves it as it is up to rounding.
LEMMA SwapHealth ==
    ASSUME TypeOK, TypeOK', NEW m \in Users, NEW r \in Reserves, NEW mode \in Modes,
           SwapBorrowRateMode(m, r, mode), NEW u \in Users, Healthy(u)
    PROVE  NearlyHealthy(u)'
  <1> DEFINE stable   == StableDebt(m, r)
             variable == VariableDebt(m, r)
             i        == debtIndex[r]
             scaledIn == RayDiv(stable, i)
             scaled   == RayDiv(variable, i)
             e        == RoundingDust(r)
             dust     == InETH(r, e)
  <1>1. /\ Settled /\ aBal' = Minted({r}) /\ usingAsCollateral' = usingAsCollateral
        /\ borrowing' = borrowing
        /\ \/ sBal' = Minus(sBal, m, r, stable) /\ vBal' = Plus(vBal, m, r, scaledIn)
           \/ /\ scaled <= vBal[m][r]
              /\ vBal' = Minus(vBal, m, r, scaled) /\ sBal' = Plus(sBal, m, r, variable)
    BY DEF SwapBorrowRateMode, Settled, marketVars, indexVars, flagVars
  <1>2. stable \in Nat /\ variable \in Nat /\ scaledIn \in Nat /\ scaled \in Nat
    BY BalanceTypes, IndexPositive, RayDivType
  <1>3. /\ vBal \in Tables /\ sBal \in Tables /\ stable = sBal[m][r]
        /\ \A v \in Users, s \in Reserves : vBal[v][s] \in Nat /\ sBal[v][s] \in Nat
    BY DEF TypeOK, Tables, StableDebt
  <1>4. DepositsGrow(u)
    BY <1>1, MintedGrows DEF DepositsGrow
  <1>5. /\ \A v \in Users, s \in Reserves : v # m \/ s # r =>
              vBal'[v][s] = vBal[v][s] /\ sBal'[v][s] = sBal[v][s]
        /\ \/ sBal'[m][r] = 0 /\ vBal'[m][r] = vBal[m][r] + scaledIn
           \/ /\ scaled <= vBal[m][r]
              /\ vBal'[m][r] = vBal[m][r] - scaled /\ sBal'[m][r] = sBal[m][r] + variable
    <2> HIDE DEF variable, scaled, scaledIn
    <2>1. CASE sBal' = Minus(sBal, m, r, stable) /\ vBal' = Plus(vBal, m, r, scaledIn)
      <3>1. \A v \in Users, s \in Reserves :
                /\ vBal'[v][s] = IF v = m /\ s = r THEN vBal[m][r] + scaledIn ELSE vBal[v][s]
                /\ sBal'[v][s] = IF v = m /\ s = r THEN sBal[m][r] - stable ELSE sBal[v][s]
        <4> HIDE DEF stable
        <4>1. stable <= sBal[m][r]
          BY <1>2, <1>3
        <4>2. \A v \in Users, s \in Reserves :
                 vBal'[v][s] = IF v = m /\ s = r THEN vBal[m][r] + scaledIn ELSE vBal[v][s]
          <5> TAKE v \in Users, s \in Reserves
          <5>1. m \in Users /\ r \in Reserves /\ vBal \in Tables /\ scaledIn \in Nat
            BY <1>2, <1>3
          <5>2. Plus(vBal, m, r, scaledIn)[v][s] =
                    IF v = m /\ s = r THEN vBal[m][r] + scaledIn ELSE vBal[v][s]
            BY ONLY v \in Users, s \in Reserves, <5>1, PlusTable
          <5> QED
            BY <2>1, <5>2
        <4>3. \A v \in Users, s \in Reserves :
                 sBal'[v][s] = IF v = m /\ s = r THEN sBal[m][r] - stable ELSE sBal[v][s]
          BY <1>2, <1>3, <2>1, <4>1, MinusTable
        <4> QED
          BY <4>2, <4>3
      <3> HIDE DEF stable
      <3> QED
        BY <1>2, <1>3, <3>1
    <2>2. CASE /\ scaled <= vBal[m][r]
               /\ vBal' = Minus(vBal, m, r, scaled) /\ sBal' = Plus(sBal, m, r, variable)
      <3>1. \A v \in Users, s \in Reserves :
                /\ vBal'[v][s] = IF v = m /\ s = r THEN vBal[m][r] - scaled ELSE vBal[v][s]
                /\ sBal'[v][s] = IF v = m /\ s = r THEN sBal[m][r] + variable ELSE sBal[v][s]
        <4>1. \A v \in Users, s \in Reserves :
                 vBal'[v][s] = IF v = m /\ s = r THEN vBal[m][r] - scaled ELSE vBal[v][s]
          BY <1>2, <1>3, <2>2, MinusTable
        <4>2. \A v \in Users, s \in Reserves :
                 sBal'[v][s] = IF v = m /\ s = r THEN sBal[m][r] + variable ELSE sBal[v][s]
          <5> TAKE v \in Users, s \in Reserves
          <5>1. m \in Users /\ r \in Reserves /\ sBal \in Tables /\ variable \in Nat
            BY <1>2, <1>3
          <5>2. Plus(sBal, m, r, variable)[v][s] =
                    IF v = m /\ s = r THEN sBal[m][r] + variable ELSE sBal[v][s]
            BY ONLY v \in Users, s \in Reserves, <5>1, PlusTable
          <5> QED
            BY <2>2, <5>2
        <4> QED
          BY <4>1, <4>2
      <3> QED
        BY <2>2, <3>1
    <2> QED
      BY <1>1, <2>1, <2>2
  <1>6. CASE u # m
    <2>1. DebtsShrink(u)
      BY <1>1, <1>3, <1>5, <1>6 DEF DebtsShrink
    <2> QED
      BY <1>1, <1>4, <2>1, Unaffected
  <1>7. CASE u = m
    <2> DEFINE before   == TotalDebt(u, r)
               after    == TotalDebt(u, r)'
               due      == Due(borrowing[u], Owed(u))
               backing  == Backing(usingAsCollateral[u], Held(u))
               due2     == Due(borrowing'[u], Owed(u)')
               backing2 == Backing(usingAsCollateral'[u], Held(u)')
    <2>1. e \in Nat /\ dust \in Nat
      BY DustWorth
    <2>2. before \in Nat /\ after \in Nat /\ after <= before + e
      <3> DEFINE v == vBal[m][r]
                 x == sBal[m][r]
                 w == vBal'[m][r]
                 y == sBal'[m][r]
      <3>1. before = x + RayMul(v, i) /\ after = y + RayMul(w, i) /\ variable = RayMul(v, i)
        BY <1>1, <1>7 DEF TotalDebt, StableDebt, VariableDebt, Settled
      <3>2. v \in Nat /\ x \in Nat /\ i \in {income[r], debtIndex[r]}
        BY <1>3
      <3>3. \/ w = v + RayDiv(x, i) /\ y = 0
            \/ scaled <= v /\ w = v - scaled /\ y = x + variable
        BY <1>3, <1>5
      <3> HIDE DEF v, x, w, y, before, after, e
      <3>4. CASE w = v + RayDiv(x, i) /\ y = 0
        <4>1. /\ RayMul(v, i) \in Nat /\ RayMul(w, i) \in Nat
              /\ Within(RayMul(w, i), RayMul(v, i) + x, e)
          BY <3>2, <3>4, ReadingMoves DEF e
        <4> HIDE DEF i
        <4> QED
          BY <2>1, <3>1, <3>2, <3>4, <4>1 DEF Within
      <3>5. CASE scaled <= v /\ w = v - scaled /\ y = x + variable
        <4>1. w \in Nat /\ w + scaled = v
          BY <1>2, <3>2, <3>5
        <4>2. /\ RayMul(w, i) \in Nat /\ RayMul(w + scaled, i) \in Nat
              /\ Within(RayMul(w + scaled, i), RayMul(w, i) + variable, e)
          BY <1>2, <3>2, <4>1, ReadingMoves DEF e
        <4> HIDE DEF i, scaled, variable
        <4>3. Within(RayMul(v, i), RayMul(w, i) + variable, e) /\ RayMul(v, i) \in Nat
          BY <4>1, <4>2
        <4> QED
          BY <1>2, <2>1, <3>1, <3>2, <3>5, <4>2, <4>3 DEF Within
      <3> QED
        BY <3>3, <3>4, <3>5
    <2>3. DebtsRest(u, r)
      BY <1>1, <1>3, <1>5 DEF DebtsRest
    <2>4. InETH(r, after) <= InETH(r, before) + (dust + 1)
          /\ InETH(r, before) \in Nat /\ InETH(r, after) \in Nat
      <3> HIDE DEF before, after, e
      <3>1. before + e \in Nat
        BY <2>1, <2>2
      <3>2. InETH(r, after) <= InETH(r, before + e)
        BY <2>2, <3>1, ValueMonotone
      <3>3. InETH(r, before + e) <= InETH(r, before) + InETH(r, e) + 1
        BY <2>1, <2>2, ValueSplits
      <3>4. /\ InETH(r, after) \in Nat /\ InETH(r, before) \in Nat /\ InETH(r, e) \in Nat
            /\ InETH(r, before + e) \in Nat
        BY <2>1, <2>2, <3>1, ValueType
      <3> QED
        BY <3>2, <3>3, <3>4
    <2> DEFINE k == dust + 1
    <2>5. k \in Nat /\ k + 0 <= dust + 2
      <3> HIDE DEF dust
      <3> QED
        BY <2>1
    <2>6. r \in borrowing'[u] => InETH(r, after) <=
              (IF r \in borrowing[u] THEN InETH(r, before) ELSE 0) + k
      BY <1>1, <2>4
    <2>7. due2 <= due + k
      <3> HIDE DEF k
      <3> QED
        BY <1>1, <2>3, <2>5, <2>6, DueSide
    <2>8. backing <= backing2 + 0
      BY <1>1, <1>4, GrowSide
    <2>9. due \in Nat /\ backing \in Nat /\ Safe(due, backing, 0)
      BY PositionTypes, HealthyIsSafe
    <2>10. backing <= backing2 + PERCENTAGE_FACTOR * 0
      BY <2>8 DEF PERCENTAGE_FACTOR
    <2> HIDE DEF due, backing, k
    <2> QED
      BY <1>1, <2>5, <2>7, <2>9, <2>10, HealthStep
  <1> QED
    BY <1>6, <1>7

\* Whoever is not liquidated is not touched, and the one that is was not healthy.
LEMMA LiquidationHealth ==
    ASSUME TypeOK, TypeOK', NEW m \in Users, NEW v \in Users, NEW c \in Reserves,
           NEW d \in Reserves, NEW cover \in AmountsOrMax, NEW receiveAToken \in BOOLEAN,
           LiquidationCall(m, v, c, d, cover, receiveAToken), NEW u \in Users, Healthy(u)
    PROVE  NearlyHealthy(u)'
  <1> DEFINE amounts == LiquidationAmounts(v, c, d, cover)
             updated == IF receiveAToken THEN {d} ELSE {c, d}
             minted  == Minted(updated)
             scaled  == RayDiv(amounts.seized, income[c])
             taken   == Minus(minted, v, c, scaled)
             emptied == amounts.seized = BalanceOf(v, c)
             bits    == OnFirstBalance(usingAsCollateral, m, c, RayMul(minted[m][c], income[c]))
  <1>1. u # v
    BY DEF LiquidationCall, ValidateLiquidationCall
  <1>2. /\ Settled /\ borrowing' = borrowing
        /\ BurnDebt(v, d, amounts.repaid)
        /\ scaled <= minted[v][c]
        /\ aBal' = Plus(taken, m, c, scaled) \/ aBal' = taken
        /\ \/ usingAsCollateral' = CollateralBits(bits, v, c, emptied)
           \/ usingAsCollateral' = CollateralBits(usingAsCollateral, v, c, emptied)
    BY DEF LiquidationCall, Settled, marketVars, indexVars
  <1>3. cover \in Nat
    BY AmountsAssumption, MaxUintAssumption DEF AmountsOrMax
  <1>4. /\ amounts.seized \in Nat /\ amounts.repaid \in Nat
        /\ amounts.repaid <= TotalDebt(v, d)
    BY <1>3, LiquidationAmountsBound
  <1>5. scaled \in Nat /\ minted \in Tables
    BY <1>4, IndexPositive, RayDivType, MintedTable
  <1>6. \A s \in Reserves : minted[u][s] \in Nat /\ aBal[u][s] <= minted[u][s]
    BY MintedGrows
  <1>7. usingAsCollateral \in [Users -> SUBSET Reserves] /\ emptied \in BOOLEAN
    BY DEF TypeOK
  <1> HIDE DEF amounts, minted, scaled, emptied
  <1>8. \A s \in Reserves : aBal[u][s] <= aBal'[u][s]
    <2>1. taken \in Tables /\ \A s \in Reserves : taken[u][s] = minted[u][s]
      BY <1>1, <1>2, <1>5, MinusTable
    <2> HIDE DEF taken
    <2>2. \A s \in Reserves :
              Plus(taken, m, c, scaled)[u][s] =
                  IF u = m /\ s = c THEN taken[m][c] + scaled ELSE taken[u][s]
      BY <1>5, <2>1, PlusTable
    <2>3. \A s \in Reserves : aBal[u][s] \in Nat
      BY DEF TypeOK
    <2>4. \A s \in Reserves : aBal'[u][s] = taken[u][s] \/ aBal'[u][s] = taken[u][s] + scaled
      BY <1>2, <2>2
    <2> QED
      BY <1>5, <1>6, <2>1, <2>3, <2>4
  <1>9. \A s \in Reserves : s \in usingAsCollateral[u] => s \in usingAsCollateral'[u]
    <2> DEFINE before == RayMul(minted[m][c], income[c])
    <2>1. /\ bits \in [Users -> SUBSET Reserves]
          /\ \A s \in Reserves : s \in usingAsCollateral[u] => s \in bits[u]
      <3> HIDE DEF before
      <3> QED
        BY <1>7, FirstBalanceTables
    <2> HIDE DEF bits
    <2>2. \A f \in [Users -> SUBSET Reserves] : CollateralBits(f, v, c, emptied)[u] = f[u]
      BY <1>1 DEF CollateralBits, Unflagged
    <2> QED
      BY <1>2, <1>7, <2>1, <2>2
  <1>10. DebtsShrink(u)
    <2> DEFINE first == Least(VariableDebt(v, d), amounts.repaid)
               burnt == RayDiv(first, debtIndex[d])
               rest  == amounts.repaid - first
    <2>1. /\ burnt <= vBal[v][d]
          /\ vBal' = Minus(vBal, v, d, burnt)
          /\ sBal' = Minus(sBal, v, d, rest)
      BY <1>2 DEF BurnDebt
    <2>2. \A s \in Reserves : vBal'[u][s] = vBal[u][s] /\ sBal'[u][s] = sBal[u][s]
      <3> HIDE DEF burnt, rest
      <3> QED
        BY <1>1, <2>1 DEF Minus, TypeOK
    <2>3. \A s \in Reserves : vBal[u][s] \in Nat /\ sBal[u][s] \in Nat
      BY DEF TypeOK
    <2> QED
      BY <1>2, <2>2, <2>3 DEF DebtsShrink
  <1> QED
    BY <1>2, <1>8, <1>9, <1>10, Unaffected DEF DepositsGrow

\* Transfers: the position of the sender was found healthy with the deposits it is left
\* with, and a bit that goes, goes with the last scaled token.
LEMMA MoveHealth ==
    ASSUME TypeOK, TypeOK', NEW from \in Users, NEW to \in Users, NEW r \in Reserves,
           NEW amount \in Nat, MoveATokens(from, to, r, amount), Settled,
           UNCHANGED debtVars, borrowing' = borrowing, NEW u \in Users, Healthy(u)
    PROVE  NearlyHealthy(u)'
  <1> DEFINE scaled == RayDiv(amount, income[r])
             taken  == Minus(aBal, from, r, scaled)
             moved  == Plus(taken, to, r, scaled)
             before == BalanceOf(from, r)
             left   == IF before = amount
                       THEN Unflagged(usingAsCollateral, from, r)
                       ELSE usingAsCollateral
  <1>1. /\ scaled <= aBal[from][r] /\ aBal' = moved
        /\ AccountData(from, moved[from]).hf >= WAD
        /\ usingAsCollateral' =
               IF from = to THEN usingAsCollateral
               ELSE IF amount = 0 THEN left
               ELSE OnFirstBalance(left, to, r, BalanceOf(to, r))
    BY DEF MoveATokens, TransferAllowed
  <1>2. scaled \in Nat /\ aBal \in Tables
    BY IndexPositive, RayDivType DEF TypeOK, Tables
  <1>3. usingAsCollateral \in [Users -> SUBSET Reserves]
    BY DEF TypeOK
  <1>4. DebtsShrink(u)
    BY SameDebtsShrink
  <1>5. \A v \in Users, s \in Reserves : aBal[v][s] \in Nat /\ aBal'[v][s] \in Nat
    BY DEF TypeOK
  <1>6. /\ left \in [Users -> SUBSET Reserves]
        /\ \A v \in Users, s \in Reserves :
              s \in usingAsCollateral[v] => s \in left[v] \/ (v = from /\ s = r /\ before = amount)
    <2> HIDE DEF before
    <2> QED
      BY <1>3, FlagTables
  <1>7. \A v \in Users, s \in Reserves : s \in left[v] =>
            s \in OnFirstBalance(left, to, r, BalanceOf(to, r))[v]
    <2> HIDE DEF left
    <2> QED
      BY <1>6, FirstBalanceTables
  <1>8. \A v \in Users, s \in Reserves :
            s \in usingAsCollateral[v] =>
                \/ s \in usingAsCollateral'[v]
                \/ v = from /\ s = r /\ before = amount /\ from # to
    <2> HIDE DEF left, before
    <2> QED
      BY <1>1, <1>6, <1>7
  <1> HIDE DEF left
  <1>9. CASE u # from
    <2>1. \A s \in Reserves : aBal[u][s] <= aBal'[u][s]
      <3>1. \A s \in Reserves : aBal'[u][s] >= aBal[u][s]
        BY <1>9, MoveEntries
      <3> QED
        BY <1>5, <3>1
    <2>2. \A s \in Reserves : s \in usingAsCollateral[u] => s \in usingAsCollateral'[u]
      BY <1>8, <1>9
    <2> QED
      BY <1>4, <2>1, <2>2, Unaffected DEF DepositsGrow
  <1>10. CASE u = from
    <2> DEFINE row      == aBal'[u]
               due      == Due(borrowing[u], Owed(u))
               backing  == Backing(usingAsCollateral[u], ValuesOf(row))
               due2     == Due(borrowing'[u], Owed(u)')
               backing2 == Backing(usingAsCollateral'[u], Held(u)')
    <2>1. row \in [Reserves -> Nat] /\ AccountData(u, row).hf >= WAD
      BY <1>1, <1>10 DEF TypeOK
    <2>2. ValuesOf(row) = Held(u)'
      BY DEF ValuesOf, Held, BalanceOf, InETH, Settled
    <2>3. due \in Nat /\ due2 <= due + 0
      BY <1>4, PositionTypes, ShrinkSide
    <2>4. Safe(due, backing, 0)
      <3> HIDE DEF row
      <3> QED
        BY <2>1, HealthyStarts
    <2> DEFINE held2  == Held(u)'
               flags2 == usingAsCollateral'[u]
    <2>5. held2 \in Values
      BY ReadingsAfter
    <2>6. r \in usingAsCollateral[u] /\ r \notin flags2 => Weight(r, held2[r]) = 0
      <3> SUFFICES ASSUME r \in usingAsCollateral[u], r \notin flags2
                   PROVE  Weight(r, held2[r]) = 0
        OBVIOUS
      <3>1. before = amount /\ from # to
        BY <1>8, <1>10
      <3>2. scaled = aBal[from][r]
        BY <1>5, <3>1, IndexPositive, RayRoundTrip DEF BalanceOf
      <3>3. aBal'[from][r] = 0
        <4>1. taken \in Tables /\ taken[from][r] = aBal[from][r] - scaled
          <5> HIDE DEF scaled
          <5> QED
            BY <1>1, <1>2, MinusTable
        <4>2. moved[from][r] = taken[from][r]
          <5> HIDE DEF taken, scaled
          <5> QED
            BY <1>2, <3>1, <4>1, PlusTable
        <4> HIDE DEF taken, scaled, moved
        <4> QED
          BY <1>1, <1>5, <3>2, <4>1, <4>2
      <3>4. RayMul(0, income[r]) = 0
        BY IndexPositive, RayMulZero
      <3>5. held2[r] = InETH(r, 0)
        BY <1>10, <3>3, <3>4, ReadingsAfter DEF BalanceOf, Settled
      <3>6. InETH(r, 0) = 0
        BY ValueZero
      <3> HIDE DEF held2
      <3>7. 0 * config[r].liquidationThreshold = 0
        BY WeightType
      <3> QED
        BY <3>5, <3>6, <3>7 DEF Weight
    <2>7. \A s \in Reserves \ {r} : s \in usingAsCollateral[u] => s \in flags2 /\ held2[s] <= held2[s]
      BY <1>8, <2>5 DEF Values
    <2>8. r \in usingAsCollateral[u] => Weight(r, held2[r]) <=
              (IF r \in flags2 THEN Weight(r, held2[r]) ELSE 0) + 0
      <3> DEFINE x == held2[r]
      <3>1. x \in Nat
        BY <2>5 DEF Values
      <3> HIDE DEF x
      <3>2. Weight(r, x) \in Nat
        BY <3>1, WeightType
      <3> QED
        BY <2>6, <3>2 DEF x
    <2>9. Backing(usingAsCollateral[u], held2) \in Nat
          /\ Backing(usingAsCollateral[u], held2) <= Backing(flags2, held2) + 0
      <3> HIDE DEF held2, flags2
      <3> QED
        BY <2>5, <2>7, <2>8, BackingMoves
    <2>10. backing \in Nat /\ backing <= backing2 + 0
      BY <2>2, <2>9
    <2>11. backing <= backing2 + PERCENTAGE_FACTOR * 0
      BY <2>10 DEF PERCENTAGE_FACTOR
    <2>12. 0 + 0 <= InETH(r, RoundingDust(r)) + 2
      BY DustWorth
    <2> HIDE DEF due, backing
    <2> QED
      BY <2>3, <2>4, <2>10, <2>11, <2>12, HealthStep
  <1> QED
    BY <1>9, <1>10

LEMMA ApprovalHealth ==
    ASSUME TypeOK, TypeOK', Settled, UNCHANGED <<debtVars, flagVars, aBal>>,
           NEW r \in Reserves, NEW u \in Users, Healthy(u)
    PROVE  NearlyHealthy(u)'
  <1>1. DebtsShrink(u)
    BY SameDebtsShrink DEF flagVars
  <1>2. DepositsGrow(u)
    BY DEF DepositsGrow, TypeOK, flagVars
  <1> QED
    BY <1>1, <1>2, Unaffected

HealthKeptStep == UserSigned => \A u \in Users : Healthy(u) => NearlyHealthy(u)'

LEMMA HealthStays == FlagInv /\ ConfigInv /\ TypeOK' /\ [Next]_vars => [HealthKeptStep]_vars
  <1> SUFFICES ASSUME FlagInv, ConfigInv, TypeOK', Next, UserSigned,
                      NEW u \in Users, Healthy(u)
               PROVE  NearlyHealthy(u)'
    BY DEF HealthKeptStep
  <1>1. TypeOK
    BY DEF FlagInv
  <1>2. PICK m \in Users, r \in Reserves : UserStep(m, r)
    BY TreasuryAssumption DEF UserSigned, Next, EnvironmentStep, SetConfiguration, SetPrice,
                              Accrue, SetPause, Signed
  <1>3. CASE \/ \E v \in Users, amount \in Amounts : Deposit(m, v, r, amount)
             \/ \E amount \in AmountsOrMax : Withdraw(m, r, amount)
    BY <1>1, <1>3, DepositHealth, WithdrawHealth
  <1>4. CASE \/ \E v \in Users, amount \in Amounts, mode \in Modes :
                   Borrow(m, v, r, amount, mode)
             \/ \E v \in Users, amount \in AmountsOrMax, mode \in Modes :
                   Repay(m, v, r, amount, mode)
    BY <1>1, <1>4, BorrowHealth, RepayHealth
  <1>5. CASE \/ \E mode \in Modes : SwapBorrowRateMode(m, r, mode)
             \/ \E use \in BOOLEAN : SetUserUseReserveAsCollateral(m, r, use)
    BY <1>1, <1>5, SwapHealth, SetCollateralHealth
  <1>6. CASE \E v \in Users, d \in Reserves, cover \in AmountsOrMax,
                receiveAToken \in BOOLEAN : LiquidationCall(m, v, r, d, cover, receiveAToken)
    BY <1>1, <1>6, LiquidationHealth
  <1>7. CASE \E to \in Users, amount \in Amounts : Transfer(m, to, r, amount)
    <2>1. PICK to \in Users, amount \in Amounts : Transfer(m, to, r, amount)
      BY <1>7
    <2>2. /\ amount \in Nat /\ MoveATokens(m, to, r, amount) /\ Settled
          /\ UNCHANGED debtVars /\ borrowing' = borrowing
      BY <2>1, AmountsAssumption DEF Transfer, Settled, marketVars, indexVars
    <2> QED
      BY <1>1, <2>2, MoveHealth
  <1>8. CASE \E from, to \in Users, amount \in Amounts : TransferFrom(m, from, to, r, amount)
    <2>1. PICK from \in Users, to \in Users, amount \in Amounts :
              TransferFrom(m, from, to, r, amount)
      BY <1>8
    <2>2. /\ amount \in Nat /\ MoveATokens(from, to, r, amount) /\ Settled
          /\ UNCHANGED debtVars /\ borrowing' = borrowing
      BY <2>1, AmountsAssumption DEF TransferFrom, Settled, marketVars, indexVars
    <2> QED
      BY <1>1, <2>2, MoveHealth
  <1>9. CASE \/ \E spender \in Users, amount \in Approvals : Approve(m, spender, r, amount)
             \/ \E delegatee \in Users, mode \in Modes, amount \in Approvals :
                   ApproveDelegation(m, delegatee, r, mode, amount)
    <2>1. Settled /\ UNCHANGED <<debtVars, flagVars, aBal>>
      BY <1>9 DEF Approve, ApproveDelegation, Settled, marketVars, indexVars
    <2> QED
      BY <1>1, <2>1, ApprovalHealth
  <1> QED
    BY <1>2, <1>3, <1>4, <1>5, <1>6, <1>7, <1>8, <1>9 DEF UserStep

(***************************************************************************)
(* Health is preserved: whatever a user, a delegatee or a liquidator does,    *)
(* no position that was healthy is left unhealthy, up to the rounding of one  *)
(* balance and of the averages, for any number of users and reserves, any     *)
(* prices, decimals, thresholds and indices. Loans are the case that needs    *)
(* every debt to be flagged (the loan check would not see it otherwise) and   *)
(* every LTV to be within its threshold.                                      *)
(***************************************************************************)
THEOREM HealthKept == Spec => HealthPreserved
  <1> DEFINE Inv == FlagInv /\ ConfigInv
  <1>1. Init => Inv
    BY FlagInit, ConfigInit
  <1>2. Inv /\ [Next]_vars => Inv'
    BY TypeStep, FlagStep, ConfigStep DEF FlagInv
  <1>3. Inv /\ Inv' /\ [Next]_vars => [HealthKeptStep]_vars
    BY HealthStays DEF FlagInv
  <1>4. HealthPreserved <=> [][HealthKeptStep]_vars
    BY DEF HealthPreserved, HealthKeptStep
  <1> QED
    BY <1>1, <1>2, <1>3, <1>4, PTL DEF Spec
=============================================================================
