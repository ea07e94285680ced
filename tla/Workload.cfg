SPECIFICATION FairSpec
CONSTANTS
    Longs = {1, 2}
    Mixed = TRUE
    Backends = {b1, b2}
    NoBackend = NoBackend
    MaxTime = 2
INVARIANT PassedTogether
PROPERTIES SessionKept WorkloadEnds
\* The system stops when both workloads have been judged.
CHECK_DEADLOCK FALSE
