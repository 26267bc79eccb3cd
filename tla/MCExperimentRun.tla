--------------------------- MODULE MCExperimentRun ---------------------------
(* ExperimentRun on a small instance.                                      *)
EXTENDS ExperimentRun, TLC

CONSTANTS p1, p2, r1, r2

MCSymmetry == Permutations({p1, p2}) \cup Permutations({r1, r2})
=============================================================================
