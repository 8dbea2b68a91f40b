SPECIFICATION Spec
CONSTANTS
    a1 = a1
    a2 = a2
    a3 = a3
    Assets = {a1, a2, a3}
    RAY = 10000
    WAD = 10000
    WAD_RAY_RATIO = 10
    SECONDS_PER_YEAR = 1
    Strategy <- MCStrategy
    MarketBorrowRate = 300
    MAX_NUMBER_RESERVES = 2
    Percentages = {0, 9523, 9600, 10501}
    ReserveFactors = {2000, 65536}
    Amounts = {60}
    MaxSteps = 7
    Loans = {1, 3, 7, 999, 190460}
SYMMETRY Interchangeable
INVARIANTS
    TypeOK
    ListsAgree
    LoansCoverBonus
PROPERTIES
    OffWhenEmpty
\* A behaviour ends after MaxSteps transactions.
CHECK_DEADLOCK FALSE
