SPECIFICATION FairSpec
CONSTANTS
    o1 = o1
    o2 = o2
    o3 = o3
    s1 = s1
    s2 = s2
    p1 = p1
    p2 = p2
    k1 = k1
    k2 = k2
    k3 = k3
    k4 = k4
    k5 = k5
    None = None
    Plain = Plain
    Op <- MCOp
    Process = {p1}
    ProcessOf <- OneProcess
    Session = {s1, s2}
    SessionOf <- MCSessionOf
    DataKey = {k1, k2}
    Fault = {"refused", "crash"}
    Retention = 2
    MaxDoc = 3
INVARIANTS
    TypeOK
    UpdatesSerialised
    FailedLinkSparesPointer
PROPERTIES
    UpdatesEnd
CHECK_DEADLOCK FALSE
