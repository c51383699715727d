SPECIFICATION Spec
CONSTANTS
    None = None
    d1 = d1
    d2 = d2
    d3 = d3
    r1 = r1
    r2 = r2
    r3 = r3
    r4 = r4
    a1 = a1
    a2 = a2
    a3 = a3
    Draft = {d1, d2}
    GraphRequestCap = 1
    CanvasOf <- OneCanvas
    TempOf <- OwnTemp
    GraphOf <- OwnGraph
    Request = {r1, r2}
    Attempt = {a1, a2}
    Routes = {"graph"}
    Faults = {"early close", "reload", "forget"}
SYMMETRY SymDraft
INVARIANTS
    TypeOK
    OneRowPerDraft
    FreeDraftIsUnwritten
    LinkedIsOwn
    LedgerIsTrue
    IntentFirst
    SettledIsUnwritten
PROPERTIES
    RecoveryIsFinal
    ImplementsOnce
CHECK_DEADLOCK FALSE
