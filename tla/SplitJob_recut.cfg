\* The split files were rebuilt with other boundaries; the old JSONL file is still there.
SPECIFICATION Spec
CONSTANTS
    j1 = j1
    j2 = j2
    l1 = l1
    l2 = l2
    Rows <- TwoRows
    Leftover <- OtherRow
    BadImage <- NoRows
    Launchers <- OneLauncher
    Jobs <- TwoJobs
    MaxPending = 2
    MultiByte = TRUE
    MaxLosses = 1
    MaxStops = 0
INVARIANTS
    FlagMeansComplete
\* The launchers and their jobs stop when the split is complete.
CHECK_DEADLOCK FALSE
