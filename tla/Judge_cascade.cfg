\* One split judged, then filtered, merged and cut by programs killed and run again.
SPECIFICATION Spec
CONSTANTS
    Indexes <- Rows
    Inputs <- EveryInput
    Expected = 1
    MaxPending = 2
    j1 = j1
    j2 = j2
    Jobs <- TwoJobs
    MultiByte = TRUE
    Source <- TwoSplits
    Given <- OtherSplit
    KeepCounts <- OneOfTwo
    NumNine = 2
SYMMETRY Interchangeable
CONSTRAINT FilteredIfOneRow
INVARIANTS
    FlagMeansJudged
    RowsSurvive
    NineInOrder
    DoneSplitIsFinal
\* The programs are run by hand and need not be run at all.
CHECK_DEADLOCK FALSE
