SPECIFICATION Spec
CONSTANTS
    c1 = c1
    c2 = c2
    k1 = k1
    k2 = k2
    v1 = v1
    v2 = v2
    None = None
    Absent = Absent
    Client = {c1, c2}
    Owner = {c1}
    Card = {k1, k2}
    Value = {v1, v2}
    Stored <- OnlyFirst
    FirstRevision = 1
    MaxRevision = 4
    MaxConns = 2
    MaxEdits = 2
    MaxFaults = 1
    MaxSequence = 3
INVARIANTS
    TypeOK
    QueueMoves
    GapsNoticed
    
    CurrentNeverStale
CHECK_DEADLOCK FALSE
