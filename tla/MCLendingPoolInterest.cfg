SPECIFICATION BothModesSpec
CONSTANTS
    RAY = 10
    WAD = 1000
    Users <- MCUsers
    Reserves <- MCReserves
    Unit <- MCUnit
    MaxUint = 20000
    Treasury = "bob"
    Amounts = {61}
    Approvals = {}
    Configs <- FreezingConfigs
    Prices <- MCPrices
    Accruals <- MCAccruals
    DepositCap <- MCDepositCap
    MaxIndex = 16
    MaxSteps = 5
    MAX_STABLE_RATE_BORROW_SIZE_PERCENT = 2500
    Environment = "none"
VIEW View
INVARIANTS
    DebtIsFlagged
PROPERTIES
    HealthPreserved
    BooksBalance
    FrozenWindsDown
\* A behaviour ends after MaxSteps steps.
CHECK_DEADLOCK FALSE
