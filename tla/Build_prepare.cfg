\* Every kind of source, anything left behind by earlier runs; kills and failed writes.
SPECIFICATION FairSpec
CONSTANTS
    Splits <- ThreeSplits
    Setups <- EverySetup
    Leftovers <- AnyFile
    Workers = 2
    MaxRuns = 3
    MaxFailures = 2
INVARIANTS
    DoneMeansPrepared
    HopelessIsNeverDone
PROPERTIES
    NeverTorn
    ResumeKeepsWhole
    RunsEnd
\* The operator stops after the last run.
CHECK_DEADLOCK FALSE
