SPECIFICATION LentOutSpec
CONSTANTS
    RAY = 10
    WAD = 1000
    Users <- MCUsers
    Reserves <- MCReserves
    Unit <- MCUnit
    MaxUint = 20000
    Treasury = "bob"
    Amounts = {60, 200}
    Approvals = {}
    Configs <- VariableConfigs
    Prices <- MCPrices
    Accruals <- NoAccruals
    DepositCap <- MCDepositCap
    MaxIndex = 10
    MaxSteps = 5
    MAX_STABLE_RATE_BORROW_SIZE_PERCENT = 2500
    Environment = "none"
VIEW View
INVARIANTS
    TypeOK
PROPERTIES
    LiquidationLimits
    LiquidationKeepsCover
\* A behaviour ends after MaxSteps steps.
CHECK_DEADLOCK FALSE
