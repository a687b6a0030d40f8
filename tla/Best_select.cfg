\* Two splits in one or two shards, scored by jobs that overlap and are killed, then merged.
SPECIFICATION Spec
CONSTANTS
    Ids = {1, 2}
    RolloutIds = {1, 2}
    NumSplits = 2
    MaxShards = 2
    Inputs <- EveryInput
    Jobs = {j1, j2}
    MultiByte = FALSE
INVARIANTS
    FlagMeansScored
    ChoicesAgree
    SpoiledNeverMerges
SYMMETRY JobSymmetry
\* The programs are run by hand and need not be run at all.
CHECK_DEADLOCK FALSE
