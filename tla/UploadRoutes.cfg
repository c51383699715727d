SPECIFICATION FairSpec
CONSTANTS
    None = None
    d1 = d1
    d2 = d2
    d3 = d3
    r1 = r1
    r2 = r2
    r3 = r3
    r4 = r4
    a1 = a1
    a2 = a2
    a3 = a3
    Draft = {d1}
    GraphRequestCap = 1
    CanvasOf <- OneCanvas
    TempOf <- OwnTemp
    GraphOf <- OneGraph
    Request = {r1, r2, r3}
    Attempt = {a1, a2}
    Routes = {"graph", "bulk", "rest"}
    Faults = {"rest answer"}
CONSTRAINT InTurn
INVARIANTS
    OneRowPerAttempt
PROPERTIES
    UploadEnds
CHECK_DEADLOCK FALSE
