# A verification project for the Moola V2 lending pool and its market laboratory

The repository is a fork of the Aave V2 lending protocol (Solidity, `src/contracts/protocol/`) with a
laboratory around it: an AMM and an oracle that reads it (`src/contracts/lab/`), and, in JavaScript, a scanner that finds
out how lending markets on Morpho price PT collateral (`src/scripts/phase5/`) and economic models of those
markets (`src/models/`). This directory holds TLA+ modules that model the protocol, the scanner and the economic models,
the configurations TLC checks them with, and proofs checked by TLAPS.

Everything below concerns correctness: books that balance, flags and totals that agree with balances,
health that no transaction takes away, consent, rates that match the state they are for; and, for the laboratory, records
that say what is deployed, searches that end and find what they claim to, positions that add up.

## Inventory

*Contracts.* The contracts run on a chain: a transaction runs alone and is undone as a whole when any call in it
reverts. There are no threads and nothing to restart; the difficult behaviour lies in which transactions
follow each other (from different users, with prices, time and configuration moving in between), in calls
*within* a transaction that reach back into the pool (flash loans, transfers that call the pool), and in
arithmetic that rounds.

*Scripts.* The scan is one asynchronous program: it reads contracts of several chains through JSON-RPC endpoints that fail,
time out, answer with errors or with nothing, and decides from what it happened to get which shape an oracle
contract has. The reads of one batch run at the same time and end in any order; everything else waits for
them. The experiments are a synchronous program of nested loops: nothing interleaves, but each row rests on searches
whose trial trades may be impossible, and on positions built up over many trades. The scan's file is all
that connects the two: the experiments and the market map read it, nothing is written back.

| component | state it keeps | operations | who it talks to | what is hard | correct when |
|---|---|---|---|---|---|
| `LendingPool`, `LendingPoolCollateralManager` | reserves, the two bits per user and reserve, pause flag | deposit, withdraw, borrow, repay, swapBorrowRateMode, rebalanceStableBorrowRate, setUserUseReserveAsCollateral, liquidationCall, flashLoan, finalizeTransfer, setConfiguration, setPause, initReserve | tokens (mint, burn, transfer), oracle, strategy, configurator | order of checks, moves and updates; values read before a burn and used after it; nesting | books balance; debt has its bit; nobody becomes unhealthy by a transaction; liquidations stay within their limits |
| `ReserveLogic` | indices, rates, time of the last update | updateState, updateInterestRates | strategy, debt tokens, aToken (mintToTreasury) | must come first and last in every operation; announced liquidity | rates belong to the state; interest is shared, not created |
| `DefaultReserveInterestRateStrategy`, `MathUtils` | parameters | calculateInterestRates, linear and compounded interest | oracle of lending rates | linear against compounded interest | depositors are paid from what borrowers pay |
| `GenericLogic`, `ValidationLogic` | – | account data, health factor, one validate function per operation | oracle, tokens, bitmaps | truncation and rounding at the limits | a loan it admits is covered |
| `WadRayMath`, `PercentageMath` | – | fixed point products and quotients | everybody | half-up rounding both ways | closing a position closes all of it |
| `StableDebtToken` | principal, rate and time per user; total, average rate and time | mint, burn | pool, `ReserveLogic` | users and total accrue apart | the total tells what is owed |
| `AToken`, `VariableDebtToken`, `DebtTokenBase`, `IncentivizedERC20` | scaled balances, allowances, credit | mint, burn, transfer, transferFrom, approve, approveDelegation, permit | pool (finalizeTransfer, indices) | a transfer moves first and is validated afterwards | consent of the owner or the delegator |
| `LendingPoolConfigurator`, `ReserveConfiguration`, `UserConfiguration` | packed words | configure, freeze, deactivate, factor, strategy, pause | pool | configuration changes while interest is pending | legal configurations only; fields do not overlap |
| `LendingPoolAddressesProvider`, registry, proxies | addresses, revisions | set addresses, upgrade, initialize | all | one initialization per revision | – |
| `SimpleAMMPair`, `AMMSourcedPriceOracle` | two reserves | addLiquidity, swaps, spot price | the pool's oracle interface | price moves within a block | product does not fall |
| JSON-RPC client: `lib/rpc.js` | the calls awaited | post, rpc, ethCall, tryCall | endpoints of a chain, in order | timeouts, errors, empty and null answers, a chain without endpoints | no answer is given up before every endpoint was asked |
| oracle probe: `lib/oracle-probe.js` | nodes of the path, recursion | classifyOracleNode, describePath, readPendleMarket, readObservations | RPC client | a read that is lost looks like a getter that does not exist; contracts that wrap themselves | a path read without loss is the path deployed |
| market scan: `scan-morpho-pt-markets.js`, `lib/morpho-api.js` | selected markets, records, cache of Pendle markets | fetch, inspectMarket, block numbers, write | indexer, probe | a failure in one market must not touch the others; one cache for many records | one record for each market, in order; records agree with each other; all is published or nothing |
| readers of the scan file: `models/phase5-scenarios.js`, `render-market-map.js` | – | live scenarios, largest TWAP scenario, rows, distributions, defences | the scan file | each counts over the same records its own way | what a sweep is anchored to exists; counts add up |
| PT/SY pool: `models/pendle-amm.js` | reserves, last implied rate | precompute, exchange rate, trade, implied rate, prices, TWAP | everybody below | the curve ends: proportions and rates it refuses; the sign of the fee | nobody earns by going back and forth |
| valuation: `models/pendle-pt-valuation.js` | – | redemption, market implied, oracle and realizable value | pool | haircut, maturity, nothing to sell to | the four prices keep their order |
| lending market: `models/morpho-market.js` | – | capacity, health, liquidation, thresholds | valuation | who profits from a liquidation, at which price | losses are unpaid debt and nothing else |
| displacement search: `models/pt-displacement-cost.js` | bracket of sizes | solveDisplacement, round trip, transmission | pool, valuation | bisecting a function that is not defined everywhere | the purchase found is the smallest that does it |
| leverage loop: `models/pt-recursive-leverage.js` | pool, collateral, debt, fees, depth; bracket of the purchase | borrow, size, buy, supply; settleLoop | pool, lending market | many trades on a pool that moves; a purchase it cannot take | debt is backed, collateral and pool add up |
| experiment driver: `run-experiments.js` | rows of seven sweeps | one loop nest per sweep | all of the above, scan file | combinations without an answer, searches within sweeps | every combination gets its row, the program ends |
| migrator, mocks, vendored contracts, tests, deployment | – | – | – | – | not modelled, see below |

## Modules

| module | models | proved in |
|---|---|---|
| `ProtocolMath` | `WadRayMath.sol`, `PercentageMath.sol` | `ProtocolMathProofs` |
| `GenericLogic` | balances as read, account data, health factor, `balanceDecreaseAllowed` | |
| `LendingPool` | the pool over several users and reserves, who may do what to whom | `LendingPoolProofs` |
| `InterestRates` | `MathUtils.sol` and the rate strategy | `InterestRatesProofs` |
| `StableDebtToken` | the stable debt token as functions of its storage | |
| `Reserve` | one reserve with its interest, under all operations that move liquidity or debt | `ReserveProofs` |
| `Configurator` | reserves being added and configured while users move their liquidity | `ConfiguratorProofs` |
| `Rpc` | `lib/rpc.js`: the calls awaited together | `MarketScanProofs` |
| `OracleProbe` | what the probe reads, which shapes it recognises in which order, which children it descends to | `MarketScanProofs` |
| `ScanFile` | the records, and what the readers of the file take from them | `MarketScanProofs` |
| `MarketScan` | the scan from the indexer query to the file | `MarketScanProofs` |
| `Survey` | what a scan promises: the abstract specification `MarketScan` implements | `MarketScanProofs` (the implementation) |
| `PendleAmm`, `PtValuation`, `MorphoMarket` | the pool, the prices and the lending market as functions | |
| `DisplacementSearch`, `LeverageLoop` | the two searches and the loop, one trial trade a step | `ExperimentsProofs` |
| `Experiments` | the sweeps of `run-experiments.js`, composing all of these | `ExperimentsProofs` |
| `MCProtocolMath`, `MCLendingPool`, `MCReserve`, `MCConfigurator`, `MCMarketScan`, `MCExperiments` | instances for TLC | `MCProtocolMathProofs` for the first |

**`LendingPool`** (extends `GenericLogic`, which extends `ProtocolMath`). One action is one transaction:
every `require` is a guard, so a transaction that would revert is one the model cannot take. Balances are
*scaled* balances (`aBal`, `vBal`) and stable debts (`sBal`); what a user reads is a balance times an
index, rounded. The two bits per user and reserve are sets (`usingAsCollateral`, `borrowing`). `cash` is
what the aToken holds. Prices, configurations and time are the environment's: `SetPrice`,
`SetConfiguration`, `Accrue`. Here interest is *arbitrary*: `Accrue` adds what an element of `Accruals`
says to the indices and to the stable debts, and notes a share of it for the treasury (`toTreasury`),
which the next `UpdateState` mints, as the code does. Every operation of the pool is an action, except
rebalancing and flash loans (in `Reserve`) and `initReserve` (in `Configurator`). `sender` is history: it says who signed the
last step, no guard reads it. Underlying tokens outside the aTokens are not tracked.

**`Reserve`** (extends `StableDebtToken`, which extends `InterestRates`). The other half: one reserve whose
interest is computed exactly as the code computes it (indices, compounded and linear interest, treasury
share, rates), under deposit, withdraw, borrow, repay, swap, rebalance, liquidation, flash loan and a
change of the reserve factor. Who may act is left out (any user may do anything the reserve itself
permits); this admits more behaviours than the code and none fewer within the bounds. A flash loan is a
step that begins (`FlashLoanPaid`) and a step that ends (`FlashLoanReturned`, `FlashLoanBorrowed`); in
between anything but time and administration may happen, which is what the receiver's callback can do. One
flash loan is open at a time. `ratedFactor` (the reserve factor the current rates were
computed with) and `steps` are history.

**`Configurator`** (extends `InterestRates`). `LendingPool` lets a reserve's configuration be anything among `Configs`;
this module says what the administrator can make it. One action for each operation of
`LendingPoolConfigurator` on a reserve, with what it calls in the pool (`initReserve`, `_addReserveToList`,
`setConfiguration`), interleaved with the users' deposits, withdrawals, loans and repayments, of which only the
sums per reserve are kept (`cash`, `deposits`, `debt`), with the rates the strategy gives and without interest: the
configurator looks at nothing but cash and liquidity rate. The health of borrowers is left out (the collateral of
a loan is another reserve). `batchInitReserve` is its members one after another. A configuration is a record; its bits are not modelled.

**`MarketScan`** (extends `ScanFile`, which extends `OracleProbe`, and `Rpc`). `phase` says which `await` the
program is in; `call` (in `Rpc`) holds the calls of that `await`, each with the endpoints it has tried and how it ended. An
action is either one request of one call (`Request`: answered, refused, lost, timed out) or the code between two
awaits, whole. The recursion of `classifyOracleNode` is the stack `todo` and the sequence `nodes` in preorder.
A node's shape is decided as in the code: pairs of getters are tried in order (`Probes`, `Recognised`), and a getter that
does not exist and a read that is lost look the same. Two reads the code awaits one after the other
with no decision between them are one batch here, and reads that decide nothing (names, prices for the record) are left out;
`lost` and `trouble` are history and bound. What an oracle really is (`Getters`, `Child`, `KindOf`) is a constant; the
properties compare what the scan recorded with it. Two assumptions say what contracts those are: each answers the pair of getters of its own shape
and of no other, an aggregator's aside, which every feed answers (`ShapesAssumption`); what a getter that is followed returns is a contract or zero (`ChildAssumption`).
`filter` is `Select`, a recursive function rather than the library's recursive operator, because theorems speak of what it selects. The cache `pendleMarketCache` lives for the whole scan and keeps failures too.

**`Survey`** knows no reads: an agenda is set, each market of it gets one record with feeds among those it really has, in
order, and the whole is published or abandoned. `MarketScan` implements it (`KeepsPromise`): `phase` maps to `status`, `selected`
to `agenda`, the kinds and windows recorded are forgotten and of a record's nodes only the addresses of its PT feeds are kept. All steps that read or
probe map to stuttering.

**`Experiments`** (extends `LeverageLoop`, `DisplacementSearch`, `MorphoMarket`, `PtValuation`, `PendleAmm`, one on the other). `phase` is the sweep, `todo`
its combinations without a row, `row` the row made last. A row that needs a search runs it step by step: `search` is the local
state of `solveDisplacement`, `loop` that of `runLoop` and `buy` that of `solvePtForAsset`. A step is one trial trade. Where the code
throws or returns null, a predicate of the model fails (`Takes`, `RefusesTrade`, `Open`) or a value says so (`Unsellable`). A throw of
`executeTrade` inside the loop is caught by nobody and would end the program: `Buy` is not enabled then. That it does not happen is checked as the absence of deadlock in `experiments`, whose only state without
a next row is the end of the last sweep (`Ended` in `MCExperiments`).

Numbers: the code computes with doubles, the model with integers in units of `1/ONE`, rounded down. So the model's claims are
about the formulas with their signs, limits and order, not about the last bits of a double; each comparison that rounding
could turn has its tolerance in the property. `Math.exp` and `Math.log` are five terms of their series (external
functions). A bisection by a fixed number of halvings ends at neighbouring integers here. The rows of a sweep do not depend on each other
and are made in a fixed arbitrary order; the leverage and the stress sweep take their displacements from one set. The rows hold
the columns the properties or other rows need; columns computed from others of the same row are left out.

A definition whose comment calls it a *slip* is not the code: it is a plausible mistake in the definition
that follows it, kept so that each property can be shown to notice it. No action uses one.

## Runs

| run | checks | shows |
|---|---|---|
| `protocol_math` | `RoundTripExact`, `ScalingErrorBound`, `BorrowPowerCovered` | what is read of a scaled balance burns exactly that balance; conversion is off by at most half an index; a loan admitted at the LTV is not liquidatable |
| `pool_liquidation` | `TypeOK`, `LiquidationLimits`, `LiquidationKeepsCover` | at most half a debt per call, at most its value plus the bonus; a position that covers its debt plus the bonus still does |
| `pool_interest` | `DebtIsFlagged`, `HealthPreserved`, `BooksBalance`, `FrozenWindsDown` | with interest accruing, indices that do not divide the amounts, and a reserve frozen at any moment |
| `pool_consent` | `OnlyWithConsent`, `OptOutRespected` | with allowances and credit delegation |
| `configurator` | `TypeOK`, `ListsAgree`, `LoansCoverBonus`, `OffWhenEmpty` | three assets, room for two reserves, seven transactions: ids and list agree; collateral parameters leave room for the bonus; a reserve is switched off only when nothing is deposited or owed |
| `configurator_full_factor` | `OffWhenEmpty` with a reserve factor of 100%, violated | see findings |
| `reserve_interest` | `TypeOK`, `StampsOrdered`, `StableTotalBacked`, `RatesFresh`, `InterestShared`, `VariableDebtKept` | one reserve over years, from nothing, little lent, and almost all lent, with reserve factors of 10%, 60% and 100% changed between transactions |
| `reserve_total` | `TotalKeepsDebt`, violated | see findings |
| `reserve_same_asset` | `RatesFresh` with liquidations paid out of the reserve they repay, violated | see findings |
| `scan` | `TypeOK`, `ExactUnlessLost`, `EveryEndpointTried`, `CacheAgrees`, `ScenariosBacked`, `MapAddsUp`, `ScanEnds`, `KeepsPromise` | five markets that cover every composition layer, up to two requests that go wrong anywhere: a record without a lost read is the path deployed; records, scenarios and market map agree; the scan ends and implements `Survey` |
| `experiments` | `TypeOK`, `FoundSizeMinimal`, `RoundTripLoses`, `LoopBacked`, `LeverageBelowIdeal`, `InsolvencyNeedsDisplacement`, `ShortfallIsReal`, `TransmissionBounded`, `PricesOrdered`, `Advances` | all seven sweeps from both anchors, every trial trade of every search |
| `displacement` | `UnreachableMeansNone`, violated | see findings |

### Bounds and why they are enough

* *Precision.* A ray is 10 (pool, arithmetic) or 10 000 (reserve) instead of 10^27, a wad 1 000 or 7. The code's
  formulas do not depend on the value, and a coarse ray makes rounding large: at 10^27 the cases the
  properties are about (a remainder that rounds to nothing, a product that rounds up) would not occur with
  small amounts. `ProtocolMathProofs` proves the arithmetic facts for every precision.
* *Users and reserves.* Two users suffice for every property that speaks of one user and "somebody else"; in
  the pool bob is the treasury, a lender and a liquidator. Two reserves: one for collateral, one to be lent,
  and bob's deposits in the lent one are collateral as well. The users are not symmetric, so no symmetry
  is declared there. In `configurator` the three assets are interchangeable (no definition names one, and no constant treats one
  differently), and are declared so; one asset more than `MAX_NUMBER_RESERVES` makes the limit bite.
* *Starting points.* From an empty pool the interesting positions are three or four steps away. Most runs
  therefore also (or only) start in `FundedState`, a state `Init` leads to with the amounts given there, so that all
  steps go into what happens next. The proofs are about `Init`.
* *Steps.* `MaxSteps` (five in `pool_liquidation` and `pool_interest`, four in `pool_consent`, three
  transactions plus passage of time in the reserve, seven in `configurator`, two more than it takes to add,
  enable, fill and empty a reserve). `MaxIndex`, `MaxTime`, `DepositCap` bound the rest. A
  behaviour stops at these bounds, so deadlock is not checked; the code itself has no state in which it waits.
* *View.* `pool_*` runs identify states that differ in `sender` and `steps` only; no guard but the bound reads them, and
  the action properties read `sender'` of the step itself. Breadth-first search meets a state first at its
  least number of steps, so nothing within the bound is lost; with several workers the order is not strict, and a
  few states at the very last step may be.
* *Percentages.* In `configurator` 95.23%, 96% and 105.01%: threshold times bonus is 100.001%, which rounds to the whole and
  passes, for one threshold and not for the other, and the factor 65536 does not fit its field. The loans of
  `LoansCoverBonus` are tried against every configuration reached; the theorem has them all.
* *Scan.* Five markets (one with no oracle), at most `Top` = 3 taken from two listings, one of them with a duplicate and one longer than `Top`. Chains with two endpoints, with one, and one
  the endpoint list does not know. `MaxTrouble` = 2 requests go wrong beyond the getters a contract does not have: two are what it takes to lose a call
  on the chain with two endpoints, or to lose reads of two markets. `MaxDepth` = 5 is the code's, and the wrapper of itself
  reaches it. Two feeds read one Pendle market with different windows.
* *Experiments.* Prices in ten-thousandths, times in days, pools of 20 000 to 60 000 tokens: a price moves by less than a unit
  per token, so that bisection has a neighbour to get wrong. One anchor has the rates of the market the committed results are anchored
  to, the other a steeper curve, a larger fee and an SY below its index. The grid takes the extremes and a middle of the code's lists; depth 20,
  the largest, is what a reverted price needs to leave a position only partly cleared, or its liquidation worth while with debt left. The first size is a
  thousandth (a millionth in the code; doubling reaches 0.512 and 0.524 of the pool before it would pass the limit) and the fallback
  has 20 rounds (120): both are the number of halvings the integers of the model need. `OWN_SHARES` has 50%, from
  `test/phase5/recursive-leverage.js`, beside the driver's 1%, since only then a loan exceeds what the pool can sell. `PROBES` = 50 trial
  sizes stand for "every smaller size"; the neighbour is always among them.
* *Amounts.* One or two each, with `MaxUint` standing for `type(uint256).max`; in `pool_interest` 61, which no
  index divides.

### Tolerances

`LoansCoverBonus` allows one unit and one part in 20 000 of the collateral, which its theorem derives from three roundings.
`RoundingDust`, `PositionDust` and the `Dust` of `Reserve` are the rounding a step may cause, derived from the operations it
performs (one conversion is half an index off, see `ScalingErrorBound` and its proof). `StableTotalBacked` allows a unit per
step; with none it fails. In the experiments a quotient is off by less than a unit, and a property allows as many units as quotients lie
between the two sides: four in a round trip, three per purchase in a loop, two in a threshold. `ShortfallIsReal` has none: a seizure is rounded up, as it is sized, and what it
repays down, so the residue of a billionth of the debt that `liquidationOutcome` drops does not arise. `LiquidationLimits`, `CoverDust` and `BooksBalance` allow the dust of the balances a transaction touches.
The allowances of the pool's properties are the ones their theorems derive: in `PositionDust` one balance, the values truncated, the average threshold truncated to a basis
point and the share it gives rounded, and the health factor rounded to a wad.

## Findings

* `configurator_full_factor`: `_checkNoLiquidity` is to ensure that "no liquidity is deposited". It looks at the aToken's cash and at the liquidity rate.
  When the reserve factor is 100% that rate is zero by definition, so a reserve that is lent out to the last unit
  can be deactivated, after which its loans cannot be repaid until it is activated again.
* `reserve_total`: the comments in `StableDebtToken.burn` explain the reset of the total supply by the *last*
  borrower's repayment. The condition does not say last: when the borrower with the higher rate repays, the interest on
  the repayment can exceed what the average rate gives for the whole, and the total is set to zero while the
  other still owes. After that the treasury share and the rates no longer see that debt, and
  `InterestShared` allows the interest on what is then not backed (`Unbacked`), no more.
* `reserve_same_asset`: where debt and collateral are one reserve and the collateral is paid out as underlying, the rates stored last
  are computed with the payout but before the repayment has arrived. They stay until the next operation.

* `displacement`: `solveDisplacement` doubles from a millionth of the PT reserve until the price is reached, and stops when the next size would pass 0.999 of
  it. The last size it tries is 0.524 of the reserve; larger purchases, which the pool takes, are never tried, and the answer is that the target
  is unreachable on the curve. The run finds a target of +3% at a maturity of a year that three fifths of the reserve would reach. In the committed
  `research/data/phase5-results.json` there are 171 rows with this answer; of the 27 of the displacement sweep, 24 have a reachable size.

Divergences met while modelling that no run is spent on:

* `swapBorrowRateMode` takes the mode the debt *is in* (`LendingPool.sol:315-336`); its documentation (line 296) calls it the mode
  "the user wants to swap to".
* `setReserveFactor` (`LendingPoolConfigurator.sol:423`) does not update the reserve first. The depositors' interest up to then runs at the
  rate computed with the old factor, the treasury's share of the same interest is taken with the new one, and the two
  need not add up to the interest. `InterestShared` does not exclude such steps: it allows the difference between the two shares of the interest pending, and
  afterwards the interest on deposits beyond the liquidity the rates were computed from.
* Where the liquidity rate is zero (a reserve factor of 100%, or a rate that rounds to zero) `_updateIndexes` stores no interest on the variable debts, while
  `getNormalizedDebt` and with it `balanceOf` read it. The next operation takes that interest back (`InterestDropped`). And `repay` takes the payback amount from
  the balance read, but `burn` divides it by the index stored: repaying all of it, with time passed since the last update, burns more than there is and reverts.
  A smaller amount, or a second transaction in the same block, goes through.
* `oracle-probe.js:5-11` promises an `UNKNOWN` rather than a guess; a lost read makes a node fall through to a later shape as well. `describePath`'s
  "every distinct kind" holds duplicates.
* In the scan the block numbers are read outside every `try`: an empty answer there loses the whole scan (`HeadRead`). Failed reads of a Pendle
  market are cached for the markets after it, and so is the window of the first feed that asked.
* `marketFromScan` (`phase5-scenarios.js:48-56`) gives decimals that were not read the value 18, where it is documented to return null when
  a field is missing.
* `solvePtForAsset` (`pt-recursive-leverage.js:134-147`) falls back on the largest purchase the pool takes, whatever it costs; the documentation (line 117)
  says the cost is within the budget, and the comment at line 135 that even the whole range costs less, which it does not when a trial failed for another
  reason. Hence `fellBack` in `LoopBacked` and in `LeverageBelowIdeal`: at an own share of 50% such a purchase costs more than the loan that pays for it.
* `idealisedGeometricLeverage` is no bound when the oracle price is above the market's; `LeverageBelowIdeal` speaks of loops without displacement.
* `pendle-pt-valuation.js:153` calls the realizable value strictly below the market-implied one; with an SY below its index it is above,
  because what a sale returns has no haircut. `PricesOrdered` has the condition.

## Fairness and liveness

The contracts have none. No code schedules anything there: every operation runs when somebody sends it, and nobody is obliged to (a
liquidator may stay away for ever, a flash loan ends within its transaction or never happened). Their properties are safety
properties: invariants and properties of steps.

The scan has `WF_scanVars(Next)`: `post` gives up after 30 seconds and the query of the indexer after 60, so that every
`await` comes back, and the program does nothing else meanwhile. No particular answer is assumed, only an end of each request. `ScanEnds`
says that the scan then ends, done or failed, whatever the oracle contracts look like, wrappers of themselves included.

The experiments are one synchronous program, so `WF_vars(Next)` is that it is not stopped. That it ends is shown without
fairness, by a measure: `Left` is a tuple of what each loop still has to do, and every step makes it smaller (`Advances`).

## Proofs

All theorems hold for every value of the constants that satisfies the named assumptions (`PrecisionAssumption`,
`InterestAssumption`, `AmountsAssumption`, ...): any number of users and reserves, any amounts, prices and precision.

* `ProtocolMathProofs`: `RayRoundTrip`, `ScalingError`, `BorrowPower`, from lemmas on rounded division. `MCProtocolMathProofs` concludes that
  the three invariants of `protocol_math` hold for every precision, amount, index and percentage: `ClosingIsExact`, `ScalingAlwaysClose`,
  `LoansStartCovered` (percentages from one to 100%, as `validateBorrow` refuses collateral without an LTV).
* `InterestRatesProofs` holds lemmas: quotients rounded half up are monotone in both arguments, growth factors are at least one ray
  and grow with time, and for every admissible strategy rates are natural numbers.
* `LendingPoolProofs`:
  * `TypeCorrect` (`Spec => []TypeOK`). Not a formality: a balance is a natural number only because every burn is of at most what
    is stored, which for full repayments rests on the round trip.
  * `DebtAlwaysFlagged` (`Spec => []DebtIsFlagged`). The inductive invariant is `FlagInv == TypeOK /\ DebtIsFlagged`. The
    decisive case is `repay`: the bit is cleared when the balances read before the burn sum up to the payment; the
    round trip then says that the scaled balance burned is the one stored. That needs indices of at least one ray, which is
    in `TypeOK`.
  * `OptOutStands` and `ConsentNeeded` (`Spec => OptOutRespected`, `Spec => OnlyWithConsent`): properties of steps, from
    `TypeOK` and a case for each action. In `ConsentNeeded` the liquidation case shows that debt really falls, and the
    credit case that the scaled debt minted is at most the credit used up, both by the rounding lemmas.
  * `FrozenOnlyShrinks` and `BooksAlwaysBalance` (`Spec => FrozenWindsDown`, `Spec => BooksBalance`) are about sums over all users.
    A transaction changes at most a few entries of a balance table, and each reading by the amount moved, give or take half an index. The lemmas say
    what replacing one entry does to a sum (by induction on the set summed over); a transaction that changes several
    tables or entries is a chain of such replacements, and the dust the property allows is the sum of theirs.
  * `LiquidationsLimited` and `CoverSurvives` (`Spec => LiquidationLimits`, `Spec => LiquidationKeepsCover`). `ConfigInv` says that every configuration is one of `Configs`, so
    that collateral which may be liquidated has a bonus above 100% (`CollateralAssumption`, what `configureReserveAsCollateral` requires). Values and percentages of sums split up to
    a unit (`ValueSplits`, `PercentMulSplits`); with them the exchange of either branch of `_calculateAvailableCollateralToLiquidate` is worth what it should be
    (`SeizedWorth`). `Exchange` collects what a liquidation does to one debt and one deposit, and both properties follow from it: for the first with the rounding of two balances, for the
    second by replacing one term in each of the two sums of the account data, of which the collateral's may also lose its bit (`DebtSide`, `CollateralSide`). A debt counts
    in the sum because `FlagInv` says that it is flagged.
  * `HealthKept` (`Spec => HealthPreserved`), from `FlagInv` and `ConfigInv`. A position is two sums over all reserves: what is `Due`, and its `Backing`, deposits
    weighted by their thresholds. `Safe(due, backing, slack)` compares them. A healthy position is `Safe` with no slack (`HealthyIsSafe`), and one that is `Safe` with the
    slack of one balance is `NearlyHealthy` (`SafeEnds`), so what is left is that an operation moves the two sums by no more than that (`HealthStep`). Withdrawals and
    transfers do because `balanceDecreaseAllowed` compared the sums without the amount (`GivesUp`); a collateral bit goes only with the last scaled token (`MoveHealth`).
    A loan does because the LTV is within the threshold (`CollateralAssumption`) and `validateBorrow` saw every debt (`Borrowed`), which is where `FlagInv` is needed.
    Swapping the mode moves a debt from one table to the other, half an index off. A liquidation's victim is not healthy, and anybody else it touches only gains.
* `ConfiguratorProofs`:
  * `ListsAlwaysAgree` (`Spec => []ListsAgree`). The code reads an id of zero as "not added", unless the asset is the first of the list. `ListInv`
    adds to `ListsAgree` that an asset never initialized has id zero; with it `initReserve` always appends, and since a list holds at most 128
    entries before it does, the narrowing to eight bits changes nothing.
  * `BonusAlwaysCovered` (`Spec => []LoansCoverBonus`). `CollateralInv` says that parameters with an LTV passed
    `ValidCollateral`, whichever operation wrote the configuration last; `FreshLoanCovered` is the arithmetic: three roundings, of
    threshold times bonus, of loan by LTV and of loan times bonus, cost one unit and one part in 20 000.
  * `TypeCorrect` (`Spec => []TypeOK`): every field fits its bits, and no sum of a reserve underflows.
  * `SwitchedOffEmpty` (`Spec => OffWhenEmpty`) has two hypotheses. No reserve factor is 100%, else the property fails
    (`configurator_full_factor`). And the strategy's highest rate is visible on a debt of one unit (`RatesVisible`), about half a unit of interest in
    a wad a year; the instance satisfies it. Then `BooksInv` is inductive: deposits are cash and debt, and a reserve without cash whose depositors earn nothing has no debt.
* `ReserveProofs`:
  * `StampsStayOrdered` (`Spec => []StampsOrdered`). `StampInv` adds the types of the timestamps. Each transaction is an
    update to the block's time and calls of the token stamped with it.
  * `RatesStayFresh` (`Spec => []RatesFresh`, where no liquidation pays out of the reserve it repays; `reserve_same_asset` shows that the
    hypothesis is needed). `RatesFresh` is inductive by itself: each transaction computes the rates from the liquidity it leaves behind,
    whatever was computed inside a flash loan.
  * `TypeCorrect` (`Spec => []TypeOK`), inductive together with `StampsOrdered`: no balance, debt, rate or cash goes below zero and no index below
    a ray. The cases that need work are the burns, where the round trip bounds what is subtracted, and `StableDebtToken.burn`, where the total is
    clipped at zero.
  * `VariableDebtStays` (`Spec => VariableDebtKept`). An update stores the index getNormalizedDebt reads, unless the liquidity rate is zero
    (`WhatIsStored`), and both indices only grow, so a debt of which nothing is burned is read as no less than before (`Kept`). With a rate of zero the
    update stores nothing: the property then says to what the debt falls back, and the proof has both cases. `reserve_interest` reaches the second with a factor of 100%.

* `MarketScanProofs`, for every set of markets, contracts, chains and endpoints and any number of failures:
  * `EndpointsAlwaysTried` (`Spec => []EveryEndpointTried`). `CallInv` adds that no call is left over outside the three awaits, so that
    the chain the calls are told of only changes when there are none.
  * `CacheAlwaysAgrees` (`Spec => []CacheAgrees`). `CacheInv`: every Pendle state in a record, or pending for the current one, is the one the cache holds for
    its chain and market, and while a market is read its key is not yet in the cache. Entries are never overwritten, so records agree.
  * `TypeCorrect` (`Spec => []TypeOK`). `Planned` says that there is one record for each market of the selection so far, in order, and
    `Probing` that the node being probed is a contract within the depth limit and that only getters it has were read, so that its children can be followed.
  * `ScanKeepsPromise` (`Spec => KeepsPromise`), the refinement of `Survey`. `OnPath`: everything still on the stack, with what it leads to, lies on the market's deployed
    path (`Within`), and a node taken for a PT feed is one, at that place (`PtIn`), whichever reads were lost. With it writing a record is a step of
    `Survey`, publishing or abandoning is another, and all others stutter.
  * `ScenariosAlwaysBacked` (`Spec => []ScenariosBacked`). `Looked` and `Anchored`: every Pendle market of a record was looked up for
    a TWAP feed of that record, whether it came from the chain or from the cache. With `OnPath` that feed is deployed, and its window is the scenario's.
  * `RecordsExact` (`Spec => []ExactUnlessLost`). `Complete`, the loop invariant of the traversal: the nodes so far, followed by what the nodes on the
    stack lead to, are the deployed path. It is kept because a node whose reads all arrived is taken for its own shape (`ShapeFound`), its legs
    are read completely (`LegsRead`) and replaced by their children in order; `Ahead` says what the stack leads to.
  * `MapAlwaysAddsUp` (`Spec => []MapAddsUp`). Each number of the file counts a set of positions (`ShownAre`, `CountedIs`, `UnknownCounted`, `DefencesCount`), and
    the sets are related by what a record can be.

* `ExperimentsProofs`, for every pool, target, price, LLTV, depth and grid (`SearchAssumption`, `UtilisationAssumption`, `IncentiveAssumption`, `GridAssumption`,
  `WindowAssumption`: windows, targets and probes are positive; and `FineAssumption`: a unit is small against every pool, so that a price, a first purchase and a
  rate are not rounded to zero, nor the rise a target asks of the price; at every horizon, and for a pool of its own size or scaled, with a hundred PT
  at least, so that a loop's own share of it in percent, which is positive, is not rounded to zero either):
  * `FoundAtTheEdge` (`Spec => []EdgeFound`, a part of `FoundSizeMinimal`). `Bracketed` says of the bracket that its lower end, unless zero, does not
    reach the price and that its upper end does once the doubling is over. Nothing is assumed of the curve, so the bisection is right even where
    the price is not defined everywhere.
  * `FoundAlwaysMinimal` (`Spec => []FoundSizeMinimal`), that no *other* smaller size would do. The rounded curve is shown to be monotone, link by link: the
    logarithm's and the exponential's series, the logit of the proportion, the rate after a purchase, the price (`PurchasesBetween`: whatever lies between
    zero and a purchase the pool takes, the pool takes too, and the price after it lies between). So sizes that reach the price
    form an interval, which the edge found begins. Where the answer is that par is in the way, `CeilingInTheWay` needs `PriceUpToOne`, that
    a rounded price never exceeds par.
  * `PricesAlwaysOrdered` (`Spec => []PricesOrdered`). `PoolInv` and `RowAll` say from which pool a row was made, and that this pool is one the
    assumptions speak of, traded with or not; `ComparedOrdered` relates the prices of one pool: a sale lowers the implied price before its fee
    (`SaleBelowPrice`), and two roundings between asset and SY stay within a unit of the SY (`SyPriceRounds`).
  * `TransmissionAlwaysBounded` (`Spec => []TransmissionBounded`). A TWAP over two segments is a weighted mean (`TwapOfTwo`), so it lies between them and
    moves with the weight (`DilutedBetween`); the price is monotone in the mean, and a smallest-of feed in each of its legs.
  * `LoopAlwaysCovered` (`Spec => []LoopCovered`). `Backed` is the position, `Sizing` the purchase under way: its loan
    fits under the limit with the collateral there is *before* the purchase, and the size kept is one the pool takes, so PT stays positive and the limit,
    which is monotone in the collateral, holds after it.
  * `LeverageAlwaysBelowIdeal` (`Spec => []LeverageBelowIdeal`). The rounded exponential of a rounded logarithm never exceeds the number it was taken of
    (`ExpOfLn`). So a purchase leaves a pool whose exchange rate is no higher than before (`PurchaseLowersRate`), though `executeTrade` stores the
    logarithm of it, and costs at least its PT at that rate (`PurchaseCosts`); the implied price is at most its inverse
    (`PriceExchanges`). Hence the first part of the inductive invariant `Ideal`: all PT bought were paid for at the undisplaced price or more (`PaidFor`). The
    second, `WithinSeries`, says that the debt after n loans is within n terms of the geometric series: one more loan multiplies
    by q and adds the first (`DebtGrows`, `SeriesGrows`), powers of q being a recursive function (`PowerUnfolds`) that is rounded down.
  * `LoopAlwaysBacked` (`Spec => []LoopBacked`). In addition `PaidIn`: a purchase that costs c brings the pool c to c + 3, three quotients; and `Affords`: the size kept costs
    no more than the loan, unless the search fell back.
  * `TypeCorrect` (`Spec => []TypeOK`). Amounts stay natural numbers because a size is only taken if the pool takes it; prices because the rate after a
    trade is defined.
  * `ShortfallAlwaysReal` (`Spec => []ShortfallIsReal`) and `InsolvencyAlwaysNeedsDisplacement` (`Spec => []InsolvencyNeedsDisplacement`, of which
    `DeductibleAlwaysCovers` is the part about a position). `RowsInv` connects the row last made to the position and the prices it was settled from; the rest is arithmetic. For the first, of the two roundings of a
    seizure (`SeizureClears`, `RepaidMonotone`), and that collateral worth liquidating repays no more than it sells for (`RepaidBelowWorth`), so that `OutcomeReal` says what is left at
    either price, once what a PT sells for is known to be a number (`SaleInt`). For the second, that of the threshold, and that an oracle displaced by no more than the incentive leaves lends within the reference value, and
    one displaced by more lends beyond it (`LendsMoreBeyond`, with `NoneOutOfReach` for thresholds beyond every displacement).
  * `AlwaysAdvances` (`Spec => Advances`), termination of the driver. `EndInv` keeps every part of `Left` a natural number: a search keeps its size within the pool, a loop its
    depth below the one asked for, a fallback its rounds below `MaxIter`; and it counts rows against combinations for the two crossed sweeps. `LoopStepCounts` and
    `SearchStepCounts` say which part each step makes smaller, `Shrinks` does for the program, and `ShrinksLess` turns that into the order of tuples. It assumes that the driver's lists
    are finite (`ListsAssumption`). Steps that change nothing are not counted: doubling a budget that rounded to zero for a pool that refuses even that would be one, which
    the doubles of the code, where the budget stays positive, do not have.

Recursive functions and folds appear in these proofs only through lemmas of their own: that a recursive function exists and unfolds, and what it or a sum
does when one element is added. Where an induction is needed it is a least counterexample, or induction on numbers for one stated set: the library's
induction theorems cannot be instantiated with an operator here.

Model-checked only, and why:

* `ScanEnds` is liveness under fairness, which the prover does not do.
* `StableTotalBacked` and `InterestShared`: compounded growth of several debts at different rates against one growth at their average.
* `RoundTripLoses` of the experiments does not hold for all constants. The rounded exponential of the logarithm `executeTrade` stores may lie a few
  units below the rate, and on a curve flat enough that is worth more to a large trade than the four units of tolerance: half of 60 000 PT, bought
  without fees from as much SY on a curve without slope, comes back six tokens dearer. `ExpOfLn` proves the
  side a purchase depends on; this property needs the other as well. On the grid, where the curves are those of a market, it holds.
* `UnreachableMeansNone`, `TotalKeepsDebt` and the like are violated, see findings.

## Not modelled

* Overflow of `uint256` and `uint128`: the code reverts on it, the amounts of the instances never reach it.
* The incentives controller (a hook into a contract that is not in the repository), events, referral codes, delegation of governance power
  (`DelegationAwareAToken`), EIP-712 hashing.
* Reentrancy through underlying tokens: the modelled underlying tokens make no calls; reentry through flash loan receivers is modelled.
* The migrator and the flash loan receivers: their calls are some of the calls the pool admits.
* Overflow of doubles, their rounding, decimals of tokens, and the price scale conversions of `morpho-market.js`; `metaOracleDeviation`, which
  nothing modelled calls.
* ABI encoding, the text of the indexer query, the wording and layout of the market map, of the CSV files and of the console.
* The addresses provider, registry and proxies; the constant-product pair and the oracle that reads it in `contracts/lab`.
* Vendored contracts, mocks, build and deployment scripts (`compile.js`, `hardhat.config`), generated artifacts, research notes.

## What is left

1. *Bit layout*: `ReserveConfiguration` and `UserConfiguration` as functions on words, shown to implement
   records and sets (their abstract specification); replacing a reserve's strategy. Then `LendingPool`'s `Configs` becomes what `Configurator`
   reaches instead of an assumption.
2. *An abstract pool*: what depositors, borrowers and treasury are promised, without indices, and `Reserve` shown to implement it up to rounding.
3. *Token approvals*: `increaseAllowance`, `decreaseAllowance`, `permit` with its nonces and deadline, one module.
4. *Addresses provider, proxies, `VersionedInitializable`*: revisions and initialization.
5. *Laboratory AMM and oracle*: the constant product with its fee, and the pool model with a price read from it.
