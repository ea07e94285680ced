SPECIFICATION Spec
CONSTANTS
    Runs = {r1, r2}
    NoRun = NoRun
    Replicas = 2
    Precisions = 1
    Strangers = 1
    DaemonLags = FALSE
    Kills = TRUE
SYMMETRY RunSymmetry
INVARIANTS NoOrphan LedgerAgrees ServingComplete
PROPERTIES ForeignSpared WritesAhead
\* The system stops when every run id of the bound has been drawn.
CHECK_DEADLOCK FALSE
