SPECIFICATION FairSpec
CONSTANTS
    Runs = {r1}
    NoRun = NoRun
    Replicas = 2
    Precisions = 1
    Strangers = 1
    DaemonLags = TRUE
    Kills = FALSE
INVARIANT NoRunningOrphan
PROPERTY CallsEnd
\* The system stops when every run id of the bound has been drawn.
CHECK_DEADLOCK FALSE
