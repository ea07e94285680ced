SPECIFICATION FairSpec
CONSTANTS
    Longs = {1, 2}
    Extras = {3}
    MaxTime = 3
INVARIANTS PassedBeside LastSnapshotStays
PROPERTIES CheckEnds
\* The system stops when main() has returned.
CHECK_DEADLOCK FALSE
