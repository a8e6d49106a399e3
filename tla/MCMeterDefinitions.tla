------------------------- MODULE MCMeterDefinitions -------------------------
(* MeterDefinitions for TLC: the names of meters are interchangeable.      *)
EXTENDS MeterDefinitions, TLC

CONSTANTS alpha, beta

MCNames == {alpha, beta}
Symmetry == Permutations(MCNames)
=============================================================================
