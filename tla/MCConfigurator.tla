----------------------------- MODULE MCConfigurator -----------------------------
(***************************************************************************)
(* Small instances of the configurator: as many assets as reserves are       *)
(* allowed, and one more.                                                      *)
(***************************************************************************)
EXTENDS Configurator, TLC

MCStrategy ==
    [optimal |-> 8000, baseVariable |-> 100, variableSlope1 |-> 400, variableSlope2 |-> 6000,
     stableSlope1 |-> 200, stableSlope2 |-> 6000]

\* The assets are interchangeable.
Interchangeable == Permutations(Assets)
==============================================================================
