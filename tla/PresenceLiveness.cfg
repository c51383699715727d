SPECIFICATION FairDraftSpec
CONSTANTS
    c1 = c1
    c2 = c2
    owner = owner
    peer = peer
    w1 = w1
    w2 = w2
    r1 = r1
    r2 = r2
    card1 = card1
    card2 = card2
    f1 = f1
    l1 = l1
    l2 = l2
    l3 = l3
    l4 = l4
    None = None
    Conn <- MCConn
    User <- MCUser
    UserOf <- MCUserOf
    OwnerUser = owner
    Field = {f1}
    Workspace = {w1, w2}
    WorkspaceOf <- TwoWorkspaces
    RolesOf <- Editors
    Card = {card1, card2}
    Ref = {r1}
    CardOf <- OneEach
    Slot <- NoSlots
    InvalidPayload = {}
    LeaseId = {l1}
    LeaseTicks = 2
    IdleTicks = 2
    HandoffTicks = 2
    MaxRevision = 2
    MaxSaves = 0
    MaxRepairs = 1
PROPERTIES
    HandoffEnds
    LeaseEnds
    UnsavedWorkSurvives
