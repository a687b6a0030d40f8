\* Both policies, fewer connections than requests, one sample that has to wait its turn.
SPECIFICATION FairSpec
CONSTANTS
    s1 = s1
    s2 = s2
    s3 = s3
    r1 = r1
    r2 = r2
    Samples <- ThreeSamples
    Rollouts <- TwoRollouts
    MaxRetries = 2
    MaxPending = 2
    Connections = 3
INVARIANTS
    TypeOK
    ValidIsCounted
    ValidIsAnswered
PROPERTIES
    EverySampleRecorded
\* The worker ends when every sample has its record.
CHECK_DEADLOCK FALSE
