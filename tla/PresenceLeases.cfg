SPECIFICATION RequestSpec
CONSTANTS
    c1 = c1
    c2 = c2
    owner = owner
    peer = peer
    w1 = w1
    w2 = w2
    r1 = r1
    r2 = r2
    card1 = card1
    card2 = card2
    f1 = f1
    l1 = l1
    l2 = l2
    l3 = l3
    l4 = l4
    None = None
    Conn <- MCConn
    User <- MCUser
    UserOf <- MCUserOf
    OwnerUser = owner
    Field = {f1}
    Workspace = {w1}
    WorkspaceOf <- OneWorkspace
    RolesOf <- Collaborators
    Card = {card1}
    Ref = {r1, r2}
    CardOf <- AliasedCard
    Slot <- PeerSlots
    InvalidPayload = {}
    LeaseId = {l1, l2, l3, l4}
    LeaseTicks = 1
    IdleTicks = 1
    HandoffTicks = 1
    MaxRevision = 2
    MaxSaves = 0
    MaxRepairs = 0
INVARIANTS
    TypeOK
    LeasesOfConnected
    LeaseBaseCurrent
    RevisionsOrdered
PROPERTIES
    LeasedFieldStable
    ImplementsLeases
    WritersAuthorised
SYMMETRY LeaseSymmetry
