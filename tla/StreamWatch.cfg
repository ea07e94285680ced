SPECIFICATION FairStreamSpec
INVARIANTS PassedInTime StreamAborted
PROPERTY StreamEnds
\* The system stops when the request has ended.
CHECK_DEADLOCK FALSE
