----------------------------- MODULE InterestRates -----------------------------
(***************************************************************************)
(* How fast a reserve's interest runs: the growth factors of                *)
(* libraries/math/MathUtils.sol and the rates that                           *)
(* DefaultReserveInterestRateStrategy.sol derives from how much of the        *)
(* reserve is borrowed. Pure functions of their arguments.                    *)
(***************************************************************************)
EXTENDS ProtocolMath

CONSTANTS
    SECONDS_PER_YEAR,
    WAD_RAY_RATIO,      \* 1e9 in the code
    Strategy,           \* the parameters the strategy contract is deployed with
    MarketBorrowRate    \* what the lending rate oracle reports for the reserve

ASSUME InterestAssumption ==
    /\ SECONDS_PER_YEAR \in Nat \ {0}
    /\ WAD_RAY_RATIO \in Nat \ {0}
    /\ MarketBorrowRate \in Nat
    \* The constructor divides by both sides of the optimal utilization rate.
    /\ Strategy \in [optimal : 1 .. RAY - 1, baseVariable : Nat, variableSlope1 : Nat,
                     variableSlope2 : Nat, stableSlope1 : Nat, stableSlope2 : Nat]

WadToRay(a) == a * WAD_RAY_RATIO

LinearInterest(rate, elapsed) == (rate * elapsed) \div SECONDS_PER_YEAR + RAY

\* The first four terms of the binomial expansion of (1 + rate per second) ^ elapsed.
CompoundedInterest(rate, elapsed) ==
    LET perSecond == rate \div SECONDS_PER_YEAR
        square    == RayMul(perSecond, perSecond)
        cube      == RayMul(square, perSecond)
        pairs     == elapsed * (elapsed - 1)
        triples   == IF elapsed > 2 THEN pairs * (elapsed - 2) ELSE 0
    IN  RAY + perSecond * elapsed + (pairs * square) \div 2 + (triples * cube) \div 6

-----------------------------------------------------------------------------
UtilizationRate(liquidity, debt) ==
    IF debt = 0 THEN 0 ELSE RayDiv(debt, liquidity + debt)

\* The rate the borrowers pay on average.
OverallBorrowRate(stable, variable, variableRate, averageStableRate) ==
    IF stable + variable = 0
    THEN 0
    ELSE RayDiv(RayMul(WadToRay(variable), variableRate)
                  + RayMul(WadToRay(stable), averageStableRate),
                WadToRay(stable + variable))

\* Up to the optimal utilization a rate follows its first slope, above it the second.
VariableBorrowRate(utilization) ==
    IF utilization > Strategy.optimal
    THEN Strategy.baseVariable + Strategy.variableSlope1
           + RayMul(Strategy.variableSlope2,
                    RayDiv(utilization - Strategy.optimal, RAY - Strategy.optimal))
    ELSE Strategy.baseVariable
           + RayDiv(RayMul(utilization, Strategy.variableSlope1), Strategy.optimal)

StableBorrowRate(utilization) ==
    IF utilization > Strategy.optimal
    THEN MarketBorrowRate + Strategy.stableSlope1
           + RayMul(Strategy.stableSlope2,
                    RayDiv(utilization - Strategy.optimal, RAY - Strategy.optimal))
    ELSE MarketBorrowRate
           + RayMul(Strategy.stableSlope1, RayDiv(utilization, Strategy.optimal))

\* A slip: depositors are paid the borrowers' rate on all they deposited.
InterestRatesIgnoringIdle(liquidity, stable, variable, averageStableRate, reserveFactor) ==
    LET utilization  == UtilizationRate(liquidity, stable + variable)
        variableRate == VariableBorrowRate(utilization)
    IN  [liquidity |-> PercentMul(OverallBorrowRate(stable, variable, variableRate,
                                                    averageStableRate),
                                  PERCENTAGE_FACTOR - reserveFactor),
         stable    |-> StableBorrowRate(utilization),
         variable  |-> variableRate]

CalculateInterestRates(liquidity, stable, variable, averageStableRate, reserveFactor) ==
    LET utilization  == UtilizationRate(liquidity, stable + variable)
        variableRate == VariableBorrowRate(utilization)
        overall      == OverallBorrowRate(stable, variable, variableRate, averageStableRate)
    IN  [liquidity |-> PercentMul(RayMul(overall, utilization),
                                  PERCENTAGE_FACTOR - reserveFactor),
         stable    |-> StableBorrowRate(utilization),
         variable  |-> variableRate]

MaxVariableBorrowRate ==
    Strategy.baseVariable + Strategy.variableSlope1 + Strategy.variableSlope2
==============================================================================
