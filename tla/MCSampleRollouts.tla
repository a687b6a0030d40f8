-------------------------- MODULE MCSampleRollouts --------------------------
(* Small instances of SampleRollouts: samples and rollouts are interchangeable. *)
EXTENDS SampleRollouts, TLC
CONSTANTS s1, s2, s3, r1, r2
ThreeSamples  == {s1, s2, s3}
TwoRollouts   == {r1, r2}
Interchangeable == Permutations(ThreeSamples) \cup Permutations(TwoRollouts)
=============================================================================
