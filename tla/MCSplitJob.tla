----------------------------- MODULE MCSplitJob -----------------------------
(* Small instances of SplitJob: the rows are numbers because the worker    *)
(* takes them in file order, jobs and launchers are model values.          *)
EXTENDS SplitJob
CONSTANTS j1, j2, l1, l2

ThreeRows == 0 .. 2
TwoRows   == 0 .. 1
LastMayBeBad == {1}
NoRows    == {}
OtherRow  == {7}
TwoJobs   == {j1, j2}
OneLauncher  == {l1}
TwoLaunchers == {l1, l2}
=============================================================================
