SPECIFICATION Spec
CHECK_DEADLOCK FALSE
SYMMETRY Symmetry
CONSTANTS
    f1 = f1
    f2 = f2
    p1 = p1
    p2 = p2
    None = None
    Field = {f1}
    Page = {p1}
    MaxWrites = 2
    MaxFills = 2
    MaxVersion = 3
    MaxFaults = 1
INVARIANTS
    TypeOK
    MergedIsSaved
    AcknowledgedIsShown
PROPERTIES
    MergeOnBase
