--------------------------- MODULE MCVerdictRouting ---------------------------
(* Small instances of VerdictRouting. *)
EXTENDS VerdictRouting, TLC
CONSTANTS a, b, j1, j2
TwoKeys == {a, b}
TwoJobs == {j1, j2}
OneRollout == {0}
Symmetry == Permutations(TwoKeys) \cup Permutations(TwoJobs)
=============================================================================
