\* Liveness: one launcher, stopped and started again.
SPECIFICATION FairSpec
CONSTANTS
    j1 = j1
    j2 = j2
    l1 = l1
    l2 = l2
    Rows <- ThreeRows
    Leftover <- NoRows
    BadImage <- NoRows
    Launchers <- OneLauncher
    Jobs <- TwoJobs
    MaxPending = 2
    MultiByte = TRUE
    MaxLosses = 1
    MaxStops = 1
INVARIANTS
    WindowIsFull
PROPERTIES
    EventuallyComplete
\* The launchers and their jobs stop when the split is complete.
CHECK_DEADLOCK FALSE
