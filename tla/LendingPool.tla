------------------------------ MODULE LendingPool ------------------------------
(***************************************************************************)
(* The lending pool over several users and reserves: the operations of      *)
(* LendingPool.sol and LendingPoolCollateralManager.sol with the validation  *)
(* they ask of ValidationLogic.sol, and the token operations that move       *)
(* positions without going through the pool first (aToken transfers,         *)
(* approvals, credit delegation).                                             *)
(*                                                                         *)
(* One action is one transaction: the EVM runs it alone and undoes it        *)
(* entirely when any call in it reverts, so every require is a guard. What    *)
(* another transaction may change in between (prices, time, configuration,    *)
(* other users) are actions of their own. Underlying tokens outside the        *)
(* aToken contracts are not tracked: callers are assumed to hold and approve    *)
(* what they pay in.                                                           *)
(***************************************************************************)
EXTENDS GenericLogic

CONSTANTS
    Treasury,           \* the account the aTokens mint the protocol's share to
    Amounts,            \* the amounts callers pass
    Approvals,          \* the allowances owners and delegators grant
    Configs,            \* Configs[r]: the configurations r may be given
    Prices,             \* Prices[r]: the prices the oracle may report for r
    Accruals,           \* what one passage of time may add, see Accrue
    DepositCap,         \* bound: tokens of r deposited at the same time
    MaxIndex,           \* bound: the largest index, in rays
    MaxSteps,           \* bound: the number of steps
    MAX_STABLE_RATE_BORROW_SIZE_PERCENT,    \* 2500 in the code
    Environment         \* the value of `sender` after a step nobody signed for

ASSUME TreasuryAssumption == Treasury \in Users /\ Environment \notin Users
ASSUME AmountsAssumption == Amounts \subseteq Nat /\ Approvals \subseteq Nat
\* Every division by a price reverts on zero in the code.
ASSUME PricesAssumption == \A r \in Reserves : Prices[r] \subseteq Nat \ {0}
\* A reserve starts out active, see Init.
ASSUME ConfigsAssumption ==
    \A r \in Reserves : /\ Configs[r] \subseteq Configuration
                        /\ \E c \in Configs[r] : c.active /\ ~c.frozen
\* configureReserveAsCollateral: loans start within the liquidation threshold, and
\* collateral comes with a bonus above 100%.
ASSUME CollateralAssumption ==
    \A r \in Reserves : \A c \in Configs[r] :
        /\ c.ltv <= c.liquidationThreshold
        /\ c.liquidationThreshold > 0 => c.liquidationBonus > PERCENTAGE_FACTOR
ASSUME AccrualsAssumption ==
    Accruals \subseteq [income : Nat, debt : Nat, stable : Nat, fee : Nat]

VARIABLES
    cash,               \* underlying held by the aToken of each reserve
    toTreasury,         \* the protocol's share the next updateState mints
    allowance,          \* allowance[r][owner][spender] of the aTokens
    borrowAllowance,    \* borrowAllowance[r][mode][delegator][delegatee]
    paused,
    sender,             \* history: msg.sender of the last step
    steps               \* history: how many steps were taken

marketVars   == <<price, config, paused>>
indexVars    == <<income, debtIndex>>
debtVars     == <<vBal, sBal>>
flagVars     == <<usingAsCollateral, borrowing>>
approvalVars == <<allowance, borrowAllowance>>
vars == <<marketVars, indexVars, debtVars, flagVars, approvalVars,
          aBal, cash, toTreasury, sender, steps>>

Modes == {"stable", "variable"}
\* A slip: a liquidation may pay off the whole debt.
CloseFactorWhole == 10000

LIQUIDATION_CLOSE_FACTOR_PERCENT == 5000
AmountsOrMax == Amounts \cup {MaxUint}

\* Entries of the balance tables and of the user configuration bits.
Plus(balances, u, r, x)  == [balances EXCEPT ![u][r] = @ + x]
Minus(balances, u, r, x) == [balances EXCEPT ![u][r] = @ - x]
Flagged(flags, u, r)     == [flags EXCEPT ![u] = @ \cup {r}]
Unflagged(flags, u, r)   == [flags EXCEPT ![u] = @ \ {r}]

\* Every step records who signed for it.
Signed(m) ==
    /\ steps < MaxSteps
    /\ steps' = steps + 1
    /\ sender' = m

DebtOf(u, r, mode) == IF mode = "stable" THEN StableDebt(u, r) ELSE VariableDebt(u, r)

Least(x, y) == IF x <= y THEN x ELSE y

\* A slip: whatever arrives switches the collateral bit on.
OnAnyBalance(flags, u, r, before) == Flagged(flags, u, r)

\* Where a deposit is first received it is used as collateral, see deposit,
\* finalizeTransfer and liquidationCall; `before` is what was held.
OnFirstBalance(flags, u, r, before) == IF before = 0 THEN Flagged(flags, u, r) ELSE flags

\* A balance of r summed over its holders.
Total(balance(_, _), r) == SumFunctionOnSet([u \in Users |-> balance(u, r)], Users)

-----------------------------------------------------------------------------
(***************************************************************************)
(* ReserveLogic.updateState, the part of it that moves balances: the         *)
(* indices are already those of the current block, and the protocol's share  *)
(* of the interest since the last update is minted to the treasury.           *)
(***************************************************************************)
Minted(rs) ==
    [aBal EXCEPT ![Treasury] =
        [r \in Reserves |->
            @[r] + (IF r \in rs THEN RayDiv(toTreasury[r], income[r]) ELSE 0)]]

\* A slip: what was minted is not written off.
UpdateStateForgotten(rs) == UNCHANGED toTreasury

UpdateState(rs) ==
    toTreasury' = [r \in Reserves |-> IF r \in rs THEN 0 ELSE toTreasury[r]]

-----------------------------------------------------------------------------
\* A slip: a frozen reserve still takes deposits.
ValidateDepositIgnoringFreeze(r, amount) == amount # 0 /\ config[r].active

ValidateDeposit(r, amount) ==
    /\ amount # 0
    /\ config[r].active
    /\ ~config[r].frozen

Deposit(m, u, r, amount) ==
    LET minted == Minted({r})
        scaled == RayDiv(amount, income[r])
    IN  /\ Signed(m)
        /\ ~paused
        /\ ValidateDeposit(r, amount)
        /\ Total(BalanceOf, r) + amount <= DepositCap[r]
        /\ scaled # 0
        /\ UpdateState({r})
        /\ cash' = [cash EXCEPT ![r] = @ + amount]
        /\ aBal' = Plus(minted, u, r, scaled)
        /\ usingAsCollateral' = OnFirstBalance(usingAsCollateral, u, r, minted[u][r])
        /\ UNCHANGED <<marketVars, indexVars, debtVars, approvalVars, borrowing>>

-----------------------------------------------------------------------------
ValidateWithdraw(m, r, amount) ==
    /\ amount # 0
    /\ amount <= BalanceOf(m, r)
    /\ config[r].active
    /\ BalanceDecreaseAllowed(m, r, amount)

\* withdraw, with the whole balance for type(uint256).max. The receiver of the
\* underlying is the caller's choice and changes nothing here.
Withdraw(m, r, asked) ==
    LET balance == BalanceOf(m, r)
        amount  == IF asked = MaxUint THEN balance ELSE asked
        minted  == Minted({r})
        scaled  == RayDiv(amount, income[r])
    IN  /\ Signed(m)
        /\ ~paused
        /\ ValidateWithdraw(m, r, amount)
        /\ UpdateState({r})
        /\ usingAsCollateral' = IF amount = balance
                                THEN Unflagged(usingAsCollateral, m, r)
                                ELSE usingAsCollateral
        /\ scaled # 0
        /\ scaled <= minted[m][r]
        /\ aBal' = Minus(minted, m, r, scaled)
        /\ amount <= cash[r]
        /\ cash' = [cash EXCEPT ![r] = @ - amount]
        /\ UNCHANGED <<marketVars, indexVars, debtVars, approvalVars, borrowing>>

-----------------------------------------------------------------------------
(***************************************************************************)
(* borrow, on one's own position or, with the position's owner's credit, on  *)
(* another's. The underlying goes to the caller.                             *)
(***************************************************************************)
ValidateBorrow(u, r, amount, mode) ==
    LET d == Account(u)
    IN  /\ config[r].active
        /\ ~config[r].frozen
        /\ amount # 0
        /\ config[r].borrowingEnabled
        /\ d.collateral > 0
        /\ d.hf > WAD
        /\ d.ltv # 0        \* percentDiv reverts on zero
        /\ PercentDiv(d.debt + InETH(r, amount), d.ltv) <= d.collateral
        /\ mode = "stable" =>
            /\ config[r].stableEnabled
            /\ \/ r \notin usingAsCollateral[u]
               \/ config[r].ltv = 0
               \/ amount > BalanceOf(u, r)
            /\ amount <= PercentMul(cash[r], MAX_STABLE_RATE_BORROW_SIZE_PERCENT)

\* A slip: the delegatee's allowance is checked and not used up.
CreditKept(m, u, r, mode, amount) == borrowAllowance

\* _decreaseBorrowAllowance, when the caller is not the owner of the position.
CreditSpent(m, u, r, mode, amount) ==
    IF m = u
    THEN borrowAllowance
    ELSE [borrowAllowance EXCEPT ![r][mode][u][m] = @ - amount]

\* The new debt in scaled tokens, and whether it is the first of its kind.
BorrowVariable(u, r, amount) ==
    LET scaled == RayDiv(amount, debtIndex[r])
    IN  /\ scaled # 0
        /\ vBal' = Plus(vBal, u, r, scaled)
        /\ borrowing' = IF vBal[u][r] = 0 THEN Flagged(borrowing, u, r) ELSE borrowing
        /\ UNCHANGED sBal

BorrowStable(u, r, amount) ==
    /\ sBal' = Plus(sBal, u, r, amount)
    /\ borrowing' = IF sBal[u][r] = 0 THEN Flagged(borrowing, u, r) ELSE borrowing
    /\ UNCHANGED vBal

Borrow(m, u, r, amount, mode) ==
    /\ Signed(m)
    /\ ~paused
    /\ ValidateBorrow(u, r, amount, mode)
    /\ m # u => amount <= borrowAllowance[r][mode][u][m]
    /\ borrowAllowance' = CreditSpent(m, u, r, mode, amount)
    /\ \/ mode = "variable" /\ BorrowVariable(u, r, amount)
       \/ mode = "stable" /\ BorrowStable(u, r, amount)
    /\ UpdateState({r})
    /\ aBal' = Minted({r})
    /\ amount <= cash[r]
    /\ cash' = [cash EXCEPT ![r] = @ - amount]
    /\ UNCHANGED <<marketVars, indexVars, usingAsCollateral, allowance>>

-----------------------------------------------------------------------------
\* A slip: only the kind of debt being repaid is looked at.
RepaidInKind(u, r, mode, paid) == DebtOf(u, r, mode) = paid

\* Whether `paid` closes everything u owes in r, whatever its kind.
RepaidInFull(u, r, mode, paid) == TotalDebt(u, r) = paid

ValidateRepay(m, u, r, sent, mode) ==
    /\ config[r].active
    /\ sent # 0
    /\ DebtOf(u, r, mode) > 0
    /\ sent = MaxUint => m = u

Repay(m, u, r, sent, mode) ==
    LET owed   == DebtOf(u, r, mode)
        paid   == Least(sent, owed)
        scaled == RayDiv(paid, debtIndex[r])
    IN  /\ Signed(m)
        /\ ~paused
        /\ ValidateRepay(m, u, r, sent, mode)
        /\ UpdateState({r})
        /\ aBal' = Minted({r})
        /\ \/ /\ mode = "stable"
              /\ sBal' = Minus(sBal, u, r, paid)
              /\ UNCHANGED vBal
           \/ /\ mode = "variable"
              /\ scaled # 0
              /\ scaled <= vBal[u][r]
              /\ vBal' = Minus(vBal, u, r, scaled)
              /\ UNCHANGED sBal
        /\ borrowing' = IF RepaidInFull(u, r, mode, paid)
                        THEN Unflagged(borrowing, u, r)
                        ELSE borrowing
        /\ cash' = [cash EXCEPT ![r] = @ + paid]
        /\ UNCHANGED <<marketVars, indexVars, approvalVars, usingAsCollateral>>

-----------------------------------------------------------------------------
ValidateSwapRateMode(m, r, mode) ==
    /\ config[r].active
    /\ ~config[r].frozen
    /\ DebtOf(m, r, mode) > 0
    /\ mode = "variable" =>
        /\ config[r].stableEnabled
        /\ \/ r \notin usingAsCollateral[m]
           \/ config[r].ltv = 0
           \/ TotalDebt(m, r) > BalanceOf(m, r)

(***************************************************************************)
(* swapBorrowRateMode: `mode` is the mode the debt is in, and the whole debt *)
(* of that mode is burned and minted in the other.                           *)
(***************************************************************************)
SwapBorrowRateMode(m, r, mode) ==
    LET stable   == StableDebt(m, r)
        variable == VariableDebt(m, r)
        scaledIn == RayDiv(stable, debtIndex[r])
        scaled   == RayDiv(variable, debtIndex[r])
    IN  /\ Signed(m)
        /\ ~paused
        /\ ValidateSwapRateMode(m, r, mode)
        /\ \/ /\ mode = "stable"
              /\ scaledIn # 0
              /\ sBal' = Minus(sBal, m, r, stable)
              /\ vBal' = Plus(vBal, m, r, scaledIn)
           \/ /\ mode = "variable"
              /\ scaled # 0
              /\ scaled <= vBal[m][r]
              /\ vBal' = Minus(vBal, m, r, scaled)
              /\ sBal' = Plus(sBal, m, r, variable)
        /\ UpdateState({r})
        /\ aBal' = Minted({r})
        /\ UNCHANGED <<marketVars, indexVars, flagVars, approvalVars, cash>>

-----------------------------------------------------------------------------
ValidateSetUseReserveAsCollateral(m, r, use) ==
    /\ BalanceOf(m, r) > 0
    /\ use \/ BalanceDecreaseAllowed(m, r, BalanceOf(m, r))

SetUserUseReserveAsCollateral(m, r, use) ==
    /\ Signed(m)
    /\ ~paused
    /\ ValidateSetUseReserveAsCollateral(m, r, use)
    /\ usingAsCollateral' = IF use
                            THEN Flagged(usingAsCollateral, m, r)
                            ELSE Unflagged(usingAsCollateral, m, r)
    /\ UNCHANGED <<marketVars, indexVars, debtVars, approvalVars,
                   borrowing, aBal, cash, toTreasury>>

-----------------------------------------------------------------------------
(***************************************************************************)
(* liquidationCall: m repays `repaid` of u's debt in d and takes `seized`    *)
(* of u's collateral in c, the repaid value plus the bonus.                  *)
(***************************************************************************)
\* A slip: the collateral is priced for the amount asked for, not for the half of the
\* debt that is paid off.
LiquidationAmountsUncapped(u, c, d, cover) ==
    LET balance == BalanceOf(u, c)
        most    == PercentMul(TotalDebt(u, d), LIQUIDATION_CLOSE_FACTOR_PERCENT)
        worth   == PercentMul(price[d] * cover * Unit[c], config[c].liquidationBonus)
                       \div (price[c] * Unit[d])
    IN  [seized |-> Least(worth, balance), repaid |-> Least(cover, most)]

\* A slip: the amount asked for is not limited by the debt at all.
LiquidationAmountsUnlimited(u, c, d, cover) ==
    LET balance == BalanceOf(u, c)
        worth   == PercentMul(price[d] * cover * Unit[c], config[c].liquidationBonus)
                       \div (price[c] * Unit[d])
        needed  == PercentDiv((price[c] * balance * Unit[d]) \div (price[d] * Unit[c]),
                              config[c].liquidationBonus)
    IN  IF worth > balance
        THEN [seized |-> balance, repaid |-> Least(needed, cover)]
        ELSE [seized |-> worth, repaid |-> cover]

LiquidationAmounts(u, c, d, cover) ==
    LET balance == BalanceOf(u, c)
        bonus   == config[c].liquidationBonus
        most    == PercentMul(TotalDebt(u, d), LIQUIDATION_CLOSE_FACTOR_PERCENT)
        asked   == Least(cover, most)
        worth   == PercentMul(price[d] * asked * Unit[c], bonus) \div (price[c] * Unit[d])
        needed  == PercentDiv((price[c] * balance * Unit[d]) \div (price[d] * Unit[c]), bonus)
    IN  IF worth > balance
        THEN [seized |-> balance, repaid |-> Least(needed, asked)]
        ELSE [seized |-> worth, repaid |-> asked]

Healthy(u) == Account(u).hf >= WAD

ValidateLiquidationCall(u, c, d) ==
    /\ config[c].active
    /\ config[d].active
    /\ ~Healthy(u)
    /\ config[c].liquidationThreshold > 0
    /\ c \in usingAsCollateral[u]
    /\ TotalDebt(u, d) # 0

\* Variable debt is burned first, stable debt for what is left.
BurnDebt(u, d, repaid) ==
    LET variable == VariableDebt(u, d)
        scaled   == RayDiv(Least(variable, repaid), debtIndex[d])
    IN  /\ variable >= repaid => scaled # 0
        /\ scaled <= vBal[u][d]
        /\ vBal' = Minus(vBal, u, d, scaled)
        /\ sBal' = Minus(sBal, u, d, repaid - Least(variable, repaid))

\* The user's bit goes last: a user that liquidates itself loses it with the balance.
CollateralBits(flags, u, c, emptied) ==
    IF emptied THEN Unflagged(flags, u, c) ELSE flags

LiquidationCall(m, u, c, d, cover, receiveAToken) ==
    LET amounts == LiquidationAmounts(u, c, d, cover)
        updated == IF receiveAToken THEN {d} ELSE {c, d}
        minted  == Minted(updated)
        scaled  == RayDiv(amounts.seized, income[c])
        emptied == amounts.seized = BalanceOf(u, c)
    IN  /\ Signed(m)
        /\ ~paused
        /\ ValidateLiquidationCall(u, c, d)
        /\ ~receiveAToken => amounts.seized <= cash[c]
        /\ BurnDebt(u, d, amounts.repaid)
        /\ UpdateState(updated)
        /\ scaled <= minted[u][c]
        /\ \/ /\ receiveAToken
              /\ aBal' = Plus(Minus(minted, u, c, scaled), m, c, scaled)
              /\ usingAsCollateral' =
                     CollateralBits(OnFirstBalance(usingAsCollateral, m, c,
                                                   RayMul(minted[m][c], income[c])),
                                    u, c, emptied)
              /\ cash' = [cash EXCEPT ![d] = @ + amounts.repaid]
           \/ /\ ~receiveAToken
              /\ scaled # 0
              /\ aBal' = Minus(minted, u, c, scaled)
              /\ usingAsCollateral' = CollateralBits(usingAsCollateral, u, c, emptied)
              /\ cash' = [[cash EXCEPT ![c] = @ - amounts.seized]
                                EXCEPT ![d] = @ + amounts.repaid]
        /\ UNCHANGED <<marketVars, indexVars, approvalVars, borrowing>>

-----------------------------------------------------------------------------
(***************************************************************************)
(* aToken transfers. The token moves the scaled balance first and then has   *)
(* the pool validate the sender's position as it has become (finalizeTransfer,*)
(* validateTransfer), while the user's bits are still the old ones.           *)
(***************************************************************************)
\* A slip: the position is validated as it was before the token moved.
TransferAllowedBefore(from, moved) == Account(from).hf >= WAD

TransferAllowed(from, moved) == AccountData(from, moved[from]).hf >= WAD

MoveATokens(from, to, r, amount) ==
    LET scaled == RayDiv(amount, income[r])
        moved  == Plus(Minus(aBal, from, r, scaled), to, r, scaled)
        before == BalanceOf(from, r)
        left   == IF before = amount
                  THEN Unflagged(usingAsCollateral, from, r)
                  ELSE usingAsCollateral
    IN  /\ scaled <= aBal[from][r]
        /\ ~paused
        /\ TransferAllowed(from, moved)
        /\ from # to => amount <= before
        /\ aBal' = moved
        /\ usingAsCollateral' =
               IF from = to THEN usingAsCollateral
               ELSE IF amount = 0 THEN left
               ELSE OnFirstBalance(left, to, r, BalanceOf(to, r))

Transfer(m, to, r, amount) ==
    /\ Signed(m)
    /\ MoveATokens(m, to, r, amount)
    /\ UNCHANGED <<marketVars, indexVars, debtVars, approvalVars,
                   borrowing, cash, toTreasury>>

TransferFrom(m, from, to, r, amount) ==
    /\ Signed(m)
    /\ MoveATokens(from, to, r, amount)
    /\ amount <= allowance[r][from][m]
    /\ allowance' = [allowance EXCEPT ![r][from][m] = @ - amount]
    /\ UNCHANGED <<marketVars, indexVars, debtVars, borrowing, borrowAllowance,
                   cash, toTreasury>>

\* IncentivizedERC20.approve and DebtTokenBase.approveDelegation: not stopped by a pause.
Approve(m, spender, r, amount) ==
    /\ Signed(m)
    /\ allowance' = [allowance EXCEPT ![r][m][spender] = amount]
    /\ UNCHANGED <<marketVars, indexVars, debtVars, flagVars, borrowAllowance,
                   aBal, cash, toTreasury>>

ApproveDelegation(m, delegatee, r, mode, amount) ==
    /\ Signed(m)
    /\ borrowAllowance' = [borrowAllowance EXCEPT ![r][mode][m][delegatee] = amount]
    /\ UNCHANGED <<marketVars, indexVars, debtVars, flagVars, allowance,
                   aBal, cash, toTreasury>>

-----------------------------------------------------------------------------
(***************************************************************************)
(* What changes around the users' transactions.                              *)
(***************************************************************************)
AdminUnchanged == UNCHANGED <<indexVars, debtVars, flagVars, approvalVars,
                              aBal, cash, toTreasury>>

\* setPause and setConfiguration, called by the configurator.
SetPause(p) ==
    /\ Signed(Environment)
    /\ paused' = p
    /\ AdminUnchanged
    /\ UNCHANGED <<price, config>>

SetConfiguration(r, c) ==
    /\ Signed(Environment)
    /\ config' = [config EXCEPT ![r] = c]
    /\ AdminUnchanged
    /\ UNCHANGED <<price, paused>>

\* The oracle reports another price.
SetPrice(r, p) ==
    /\ Signed(Environment)
    /\ price' = [price EXCEPT ![r] = p]
    /\ AdminUnchanged
    /\ UNCHANGED <<config, paused>>

(***************************************************************************)
(* Time passes in r: its indices grow by step.income and step.debt, the       *)
(* stable debts of `charged` by step.stable, and step.fee more goes to the      *)
(* treasury at the next update. Only debt bears interest, and what            *)
(* depositors and treasury are promised comes out of what borrowers owe.       *)
(***************************************************************************)
Accrue(r, step, charged) ==
    LET promised == Total(BalanceOf, r) + toTreasury[r]
        owed     == Total(TotalDebt, r)
    IN  /\ Signed(Environment)
        /\ income[r] + step.income <= MaxIndex
        /\ debtIndex[r] + step.debt <= MaxIndex
        /\ \A u \in charged : sBal[u][r] > 0
        /\ step.debt > 0 => \E u \in Users : vBal[u][r] > 0
        /\ income' = [income EXCEPT ![r] = @ + step.income]
        /\ debtIndex' = [debtIndex EXCEPT ![r] = @ + step.debt]
        /\ sBal' = [u \in Users |-> [sBal[u] EXCEPT ![r] =
                        IF u \in charged THEN @ + step.stable ELSE @]]
        /\ toTreasury' = [toTreasury EXCEPT ![r] = @ + step.fee]
        /\ UNCHANGED <<marketVars, flagVars, approvalVars, aBal, vBal, cash>>
        /\ Total(BalanceOf, r)' + toTreasury'[r] - promised <= Total(TotalDebt, r)' - owed

-----------------------------------------------------------------------------
InitialConfig(r) == CHOOSE c \in Configs[r] : c.active /\ ~c.frozen

Init ==
    /\ price \in {p \in [Reserves -> UNION {Prices[r] : r \in Reserves}] :
                     \A r \in Reserves : p[r] \in Prices[r]}
    /\ config = [r \in Reserves |-> InitialConfig(r)]
    /\ income = [r \in Reserves |-> RAY]
    /\ debtIndex = [r \in Reserves |-> RAY]
    /\ aBal = [u \in Users |-> [r \in Reserves |-> 0]]
    /\ vBal = [u \in Users |-> [r \in Reserves |-> 0]]
    /\ sBal = [u \in Users |-> [r \in Reserves |-> 0]]
    /\ usingAsCollateral = [u \in Users |-> {}]
    /\ borrowing = [u \in Users |-> {}]
    /\ cash = [r \in Reserves |-> 0]
    /\ toTreasury = [r \in Reserves |-> 0]
    /\ allowance = [r \in Reserves |-> [u \in Users |-> [v \in Users |-> 0]]]
    /\ borrowAllowance = [r \in Reserves |-> [mode \in Modes |->
                             [u \in Users |-> [v \in Users |-> 0]]]]
    /\ paused = FALSE
    /\ sender = Environment
    /\ steps = 0

UserStep(m, r) ==
    \/ \E u \in Users, amount \in Amounts : Deposit(m, u, r, amount)
    \/ \E amount \in AmountsOrMax : Withdraw(m, r, amount)
    \/ \E u \in Users, amount \in Amounts, mode \in Modes : Borrow(m, u, r, amount, mode)
    \/ \E u \in Users, amount \in AmountsOrMax, mode \in Modes : Repay(m, u, r, amount, mode)
    \/ \E mode \in Modes : SwapBorrowRateMode(m, r, mode)
    \/ \E use \in BOOLEAN : SetUserUseReserveAsCollateral(m, r, use)
    \/ \E u \in Users, d \in Reserves, cover \in AmountsOrMax, receiveAToken \in BOOLEAN :
          LiquidationCall(m, u, r, d, cover, receiveAToken)
    \/ \E to \in Users, amount \in Amounts : Transfer(m, to, r, amount)
    \/ \E from, to \in Users, amount \in Amounts : TransferFrom(m, from, to, r, amount)
    \/ \E spender \in Users, amount \in Approvals : Approve(m, spender, r, amount)
    \/ \E delegatee \in Users, mode \in Modes, amount \in Approvals :
          ApproveDelegation(m, delegatee, r, mode, amount)

EnvironmentStep(r) ==
    \/ \E c \in Configs[r] : SetConfiguration(r, c)
    \/ \E p \in Prices[r] : SetPrice(r, p)
    \/ \E step \in Accruals, charged \in SUBSET Users : Accrue(r, step, charged)

Next ==
    \/ \E m \in Users, r \in Reserves : UserStep(m, r)
    \/ \E r \in Reserves : EnvironmentStep(r)
    \/ \E p \in BOOLEAN : SetPause(p)

Spec == Init /\ [][Next]_vars

-----------------------------------------------------------------------------
\* Every variable has its type; balances, debts and allowances never go below zero.
TypeOK ==
    /\ price \in [Reserves -> Nat \ {0}]
    /\ config \in [Reserves -> Configuration]
    /\ income \in [Reserves -> Nat] /\ debtIndex \in [Reserves -> Nat]
    /\ \A r \in Reserves : income[r] >= RAY /\ debtIndex[r] >= RAY
    /\ aBal \in [Users -> [Reserves -> Nat]]
    /\ vBal \in [Users -> [Reserves -> Nat]]
    /\ sBal \in [Users -> [Reserves -> Nat]]
    /\ usingAsCollateral \in [Users -> SUBSET Reserves]
    /\ borrowing \in [Users -> SUBSET Reserves]
    /\ cash \in [Reserves -> Nat]
    /\ toTreasury \in [Reserves -> Nat]
    /\ allowance \in [Reserves -> [Users -> [Users -> Nat]]]
    /\ borrowAllowance \in [Reserves -> [Modes -> [Users -> [Users -> Nat]]]]
    /\ paused \in BOOLEAN
    /\ sender \in Users \cup {Environment}
    /\ steps \in Nat

(***************************************************************************)
(* A user who owes anything in a reserve has the reserve's borrowing bit.     *)
(* The account data skips reserves without it, so a debt whose bit is gone     *)
(* would be invisible to every health check. The bit is cleared by repay        *)
(* alone, from balances read before the burn and in tokens, while what must      *)
(* be gone is the scaled balance.                                               *)
(***************************************************************************)
DebtIsFlagged ==
    \A u \in Users, r \in Reserves :
        vBal[u][r] > 0 \/ sBal[u][r] > 0 => r \in borrowing[u]

-----------------------------------------------------------------------------
UserSigned == sender' \in Users

\* The most one change of a scaled balance can shift what the balance reads, in tokens:
\* the amount is rounded to scaled tokens and both readings are rounded to tokens.
RoundingDust(r) ==
    LET index == IF income[r] > debtIndex[r] THEN income[r] ELSE debtIndex[r]
    IN  (index + 2 * RAY) \div (2 * RAY)

\* Rounding in a position: one change and two truncated values in each reserve, the
\* average threshold truncated to a basis point and the share of it rounded, the health
\* factor rounded to a wad.
PositionDust(u) ==
    SumFunctionOnSet([r \in Reserves |-> InETH(r, RoundingDust(r)) + 2], Reserves)
        + Account(u).collateral \div PERCENTAGE_FACTOR + 1
        + Account(u).debt \div WAD

NearlyHealthy(u) ==
    LET d == Account(u)
    IN  \/ d.hf >= WAD
        \/ d.debt <= PercentMul(d.collateral, d.threshold) + PositionDust(u)

(***************************************************************************)
(* No transaction of anybody makes a healthy position unhealthy: only prices, *)
(* time and configuration do. Withdrawals and transfers by the owner, loans    *)
(* drawn by a delegatee (DebtTokenBase: "a delegatee cannot force a delegator  *)
(* HF to go below 1"), deposits for the user that switch a reserve's collateral *)
(* bit on and repayments for the user all leave it healthy up to rounding.       *)
(***************************************************************************)
HealthPreserved ==
    [][UserSigned => \A u \in Users : Healthy(u) => NearlyHealthy(u)']_vars

(***************************************************************************)
(* Nobody else can add to what a user owes, or take what a user has           *)
(* deposited, without using up an allowance the user granted for at least as    *)
(* much; the one exception is a liquidation of an unhealthy position, which       *)
(* pays off debt of the user.                                                    *)
(***************************************************************************)
CreditUsed(u, r, mode) ==
    borrowAllowance[r][mode][u][sender'] - borrowAllowance'[r][mode][u][sender']

AllowanceUsed(u, r) == allowance[r][u][sender'] - allowance'[r][u][sender']

DebtUntouched(u, r) ==
    /\ \/ vBal'[u][r] <= vBal[u][r]
       \/ /\ CreditUsed(u, r, "variable") > 0
          /\ VariableDebt(u, r)' <=
                 VariableDebt(u, r) + CreditUsed(u, r, "variable") + RoundingDust(r)
    /\ sBal'[u][r] <= sBal[u][r] + CreditUsed(u, r, "stable")

DepositUntouched(u, r) ==
    \/ aBal'[u][r] >= aBal[u][r]
    \/ /\ AllowanceUsed(u, r) > 0
       /\ BalanceOf(u, r)' + AllowanceUsed(u, r) + RoundingDust(r) >= BalanceOf(u, r)
    \/ /\ ~Healthy(u)
       /\ \E d \in Reserves : TotalDebt(u, d)' < TotalDebt(u, d)

OnlyWithConsent ==
    [][UserSigned =>
        \A u \in Users \ {sender'}, r \in Reserves :
            DebtUntouched(u, r) /\ DepositUntouched(u, r)]_vars

(***************************************************************************)
(* What a liquidation may cost the user: when deposits in c go without an     *)
(* allowance, at most half of one debt is paid off (rounded up), and what is    *)
(* taken is worth at most what was paid off plus c's bonus. The code rounds what  *)
(* is left to repay down to tokens twice and values down to units: two tokens      *)
(* of the debt and a unit of value on either side.                                  *)
(***************************************************************************)
Seized(u, c) == BalanceOf(u, c) - BalanceOf(u, c)'
PaidOff(u, d) == TotalDebt(u, d) - TotalDebt(u, d)'

Liquidated(u, c) ==
    UserSigned /\ sender' # u /\ aBal'[u][c] < aBal[u][c] /\ AllowanceUsed(u, c) = 0

LiquidationLimits ==
    [][\A u \in Users, c \in Reserves : Liquidated(u, c) =>
        \E d \in Reserves :
            /\ PaidOff(u, d) > 0
            /\ 2 * PaidOff(u, d) <= TotalDebt(u, d) + 1 + 2 * RoundingDust(d)
            /\ InETH(c, Seized(u, c)) <=
                   PercentMul(InETH(d, PaidOff(u, d) + RoundingDust(d) + 2) + 1,
                              config[c].liquidationBonus)
                     + InETH(c, RoundingDust(c)) + 1]_vars

(***************************************************************************)
(* A liquidation leaves no uncovered debt behind: a position whose collateral *)
(* is worth its whole debt plus the bonus still is afterwards.                   *)
(***************************************************************************)
Covered(u, bonus, dust) ==
    PercentMul(Account(u).debt, bonus) <= Account(u).collateral + dust

\* Collateral seized and debt repaid, each with its rounding, as in LiquidationLimits.
CoverDust(c, d) ==
    InETH(c, RoundingDust(c)) + 4
        + PercentMul(InETH(d, RoundingDust(d) + 2) + 3, config[c].liquidationBonus)

LiquidationKeepsCover ==
    [][\A u \in Users, c \in Reserves :
        /\ Liquidated(u, c)
        /\ Covered(u, config[c].liquidationBonus, 0)
        => \E d \in Reserves :
               /\ PaidOff(u, d) > 0
               /\ Covered(u, config[c].liquidationBonus, CoverDust(c, d))']_vars

(***************************************************************************)
(* Every transaction keeps a reserve's books balanced: what the reserve owns  *)
(* (cash and debts) less what it owes (deposits and the treasury's share)        *)
(* moves by the rounding of at most four balances (the treasury's, the debt, and   *)
(* the two ends of a seizure), whoever pays, borrows, repays or is liquidated.      *)
(***************************************************************************)
Surplus(r) == cash[r] + Total(TotalDebt, r) - Total(BalanceOf, r) - toTreasury[r]

BooksBalance ==
    [][UserSigned => \A r \in Reserves :
        /\ Surplus(r)' - Surplus(r) <= 4 * RoundingDust(r)
        /\ Surplus(r) - Surplus(r)' <= 4 * RoundingDust(r)]_vars

(***************************************************************************)
(* A user's choice not to use a deposit as collateral stands while there is a *)
(* deposit: deposits, transfers and liquidations by others do not undo it.       *)
(***************************************************************************)
OptOutRespected ==
    [][\A u \in Users, r \in Reserves :
        r \notin usingAsCollateral[u] /\ BalanceOf(u, r) > 0 /\ sender' # u
            => r \notin usingAsCollateral'[u]]_vars

(***************************************************************************)
(* A frozen reserve only winds down: no transaction adds to its deposits or   *)
(* to either kind of its debt, the treasury's share aside.                       *)
(***************************************************************************)
FrozenWindsDown ==
    [][\A r \in Reserves : UserSigned /\ config[r].frozen =>
        /\ Total(LAMBDA u, s : vBal'[u][s], r) <= Total(LAMBDA u, s : vBal[u][s], r)
        /\ Total(LAMBDA u, s : sBal'[u][s], r) <= Total(LAMBDA u, s : sBal[u][s], r)
        /\ Total(LAMBDA u, s : aBal'[u][s], r) <=
               Total(LAMBDA u, s : aBal[u][s], r) + RayDiv(toTreasury[r], income[r])]_vars

==============================================================================
