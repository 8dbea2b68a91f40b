SPECIFICATION MCSpec
CONSTANTS
    RAY = 10000
    WAD = 10000
    WAD_RAY_RATIO = 10
    SECONDS_PER_YEAR = 1
    Strategy <- MCStrategy
    MarketBorrowRate = 300
    Users <- MCUsers
    Amounts = {60, 250}
    MaxUint = 100000
    Delays = {1, 2}
    ReserveFactors = {1000}
    PaidOut = {TRUE, FALSE}
    LiquidationBonus = 11000
    DepositCap = 800
    MaxTime = 4
    MaxSteps = 3
    MAX_STABLE_RATE_BORROW_SIZE_PERCENT = 2500
    REBALANCE_UP_USAGE_RATIO_THRESHOLD = 9500
    REBALANCE_UP_LIQUIDITY_RATE_THRESHOLD = 4000
INVARIANTS
    RatesFresh
\* A behaviour ends after MaxSteps transactions.
CHECK_DEADLOCK FALSE
