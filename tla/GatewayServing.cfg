SPECIFICATION ServingSpec
CONSTANTS
    Owners = {o1, o2}
    NoOwner = NoOwner
    Kills = TRUE
    Servers = {w1, w2}
    Sessions = {s1, s2}
    Connections = {c1, c2, c3}
    Active = 1
    Queued = 1
    MaxSessions = 1
    Nobody = Nobody
SYMMETRY Symmetry
INVARIANTS WithinLimits
PROPERTIES AffinityKept WritesAhead ForeignUntouched
\* The system stops when every owner id of the bound has been drawn.
CHECK_DEADLOCK FALSE
