SPECIFICATION FairSpec
CONSTANTS
    Backends = {1, 2}
    Gap = 1
    AfterTime = 1
    Startup = 4
    MaxCount = 1
INVARIANTS MeasuredOnIdle PassedClean
PROPERTY VerdictComes
\* The system stops with the verdict.
CHECK_DEADLOCK FALSE
