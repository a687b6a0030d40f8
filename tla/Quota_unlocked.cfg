\* The scripts whose flock has no descriptor.
SPECIFICATION Spec
CONSTANTS
    s1 = s1
    s2 = s2
    s3 = s3
    Splits <- ThreeSplits
    ReservedMin = 1
    DefaultQuota = "spot"
    Locked = FALSE
    SqueueFails = FALSE
    MaxStops = 0
INVARIANTS
    QuotaBound
\* The launchers leave when their splits are complete.
CHECK_DEADLOCK FALSE
