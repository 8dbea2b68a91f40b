SPECIFICATION Spec
CONSTANTS
    RAY = 10
    WAD = 7
    MaxAmount = 40
    MaxIndex = 34
    Percentages = {1, 3333, 5000, 6600, 7499, 9999, 10000}
INVARIANTS
    RoundTripExact
    ScalingErrorBound
    BorrowPowerCovered
CHECK_DEADLOCK FALSE
