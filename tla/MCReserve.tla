------------------------------- MODULE MCReserve -------------------------------
(***************************************************************************)
(* Small instances of one reserve. Time runs in years: the interest of one   *)
(* step is then large against the rounding.                                   *)
(***************************************************************************)
EXTENDS Reserve

MCUsers == {"alice", "bob"}

MCStrategy ==
    [optimal |-> 8000, baseVariable |-> 100, variableSlope1 |-> 400, variableSlope2 |-> 6000,
     stableSlope1 |-> 200, stableSlope2 |-> 6000]

\* Lenders have deposited 400, of which bob has borrowed 60 at the stable rate of an
\* idle reserve and alice `variable`. Init leads here in three steps.
FundedState(variable) ==
    /\ now = 1
    /\ cash = 340 - variable
    /\ aSupply = 400
    /\ vBal = [u \in Users |-> IF u = "alice" THEN variable ELSE 0]
    /\ token = StableMint(NoStableDebt, "bob", 60, StableBorrowRate(0), 1)
    /\ liquidityIndex = RAY
    /\ variableBorrowIndex = RAY
    /\ reserveFactor = 1000
    /\ rates = CalculateInterestRates(cash, 60, variable, token.average, reserveFactor)
    /\ lastUpdate = 1
    /\ flash = 0
    /\ ratedFactor = reserveFactor
    /\ steps = 0

\* From nothing, with little lent, or with all but 5% lent.
MCSpec == (Init \/ FundedState(0) \/ FundedState(320)) /\ [][Next]_vars
==============================================================================
