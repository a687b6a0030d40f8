\* Jobs cancelled, lost and overlapping over rollout files with repeated, short and unparsable records.
SPECIFICATION FairSpec
CONSTANTS
    a = a
    b = b
    j1 = j1
    j2 = j2
    Keys <- TwoKeys
    Rollouts <- EveryFile
    Loose = TRUE
    Expected = 3
    BatchSize = 1
    Jobs <- TwoJobs
    MultiByte = TRUE
    MaxLosses = 1
    MaxRaises = 1
INVARIANTS
    FlagMeansVerified
    JudgedOnItsOwn
    NoRepeatedVerdict
PROPERTIES
    EventuallyVerified
\* The launcher leaves when the split is verified.
CHECK_DEADLOCK FALSE
