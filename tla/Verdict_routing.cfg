\* Both pairs of programs over every verify file that overlapping jobs can leave, run at any time.
SPECIFICATION Spec
CONSTANTS
    a = a
    b = b
    j1 = j1
    j2 = j2
    Keys <- TwoKeys
    Rollouts <- OneRollout
    Jobs <- TwoJobs
    MaxLines = 4
SYMMETRY Symmetry
INVARIANTS
    RoutedOnce
    NobodyLeftOut
    TotalIsEnough
PROPERTIES
    RetryBlocksBuild
\* A verify file is finished, and the programs need not be run.
CHECK_DEADLOCK FALSE
