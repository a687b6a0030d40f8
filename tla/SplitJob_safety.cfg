\* One launcher, stopped and started again over dying jobs, or two at once; a bad image or none.
SPECIFICATION Spec
CONSTANTS
    j1 = j1
    j2 = j2
    l1 = l1
    l2 = l2
    Rows <- TwoRows
    Leftover <- NoRows
    BadImage <- LastMayBeBad
    Launchers <- TwoLaunchers
    Jobs <- TwoJobs
    MaxPending = 2
    MultiByte = TRUE
    MaxLosses = 1
    MaxStops = 1
INVARIANTS
    TypeOK
    FlagMeansComplete
    OneWantedJob
    NothingLeftRunning
    NoRepeatedRequest
PROPERTIES
    
    PromiseSpec
\* The launchers and their jobs stop when the split is complete.
CHECK_DEADLOCK FALSE
