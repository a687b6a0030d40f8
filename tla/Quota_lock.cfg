\* Three launchers for two places in the reserved quota; one stop or kill, and any squeue failures.
SPECIFICATION FairSpec
CONSTANTS
    s1 = s1
    s2 = s2
    s3 = s3
    Splits <- ThreeSplits
    ReservedMin = 2
    DefaultQuota = "spot"
    Locked = TRUE
    SqueueFails = TRUE
    MaxStops = 1
INVARIANTS
    TypeOK
    QuotaBound
    NoStaleMarker
PROPERTIES
    EveryoneSubmits
\* The launchers leave when their splits are complete.
CHECK_DEADLOCK FALSE
