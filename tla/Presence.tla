------------------------------ MODULE Presence ------------------------------
(***************************************************************************)
(* The in-process live-collaboration state of ONE presence scope (one       *)
(* canvas of one Salesforce org): src/src/canvas-presence.js and the routes *)
(* of src/src/canvas-routes.js that call it.                                *)
(*                                                                          *)
(* Every exported function of canvas-presence.js is synchronous, so each is *)
(* one atomic action.  What interleaves is what the routes put around them: *)
(* a subscription that awaits the store before it seeds and subscribes, a   *)
(* save that awaits the store before it publishes, a contributor's fill     *)
(* that awaits Salesforce between its validation and its commit, and a      *)
(* client's request that is in flight while its lease is lost and won back. *)
(*                                                                          *)
(* The wall clock is a set of countdowns that Tick moves (LeaseTicks for    *)
(* FIELD_LOCK_LEASE_MS, IdleTicks for IDLE_THRESHOLD_MS, HandoffTicks for   *)
(* LIVE_SNAPSHOT_HANDOFF_TTL_MS).  A field value is the revision that wrote *)
(* it.  A record request ("slot") is the set of <<user, field>> pairs it    *)
(* lets a contributor write.  Random identifiers are fresh LeaseIds.        *)
(***************************************************************************)
EXTENDS Naturals, FiniteSets

CONSTANTS
    Conn,          \* slots for live connections (browser tabs)
    User,          \* Salesforce identities
    UserOf,        \* [Conn -> User]
    OwnerUser,     \* the user who owns the canvas
    Workspace,     \* teams
    WorkspaceOf,   \* [Conn -> Workspace]
    RolesOf,       \* [User -> SUBSET Role]: the roles a user may be granted
    Card,          \* cards of the canvas (a canvasRecordId each)
    Ref,           \* record references the clients use
    CardOf,        \* [Ref -> Card]: what a reference resolves to
    Field,         \* field names
    Slot,          \* the record requests an editor may configure
    InvalidPayload, \* contents _validLiveSnapshot refuses: more than 5000
                   \* records or 5 MB
    LeaseId,       \* lease identifiers (crypto.randomUUID)
    LeaseTicks, IdleTicks, HandoffTicks,
    MaxRevision,   \* bound: revisions of one life of the scope
    MaxSaves,      \* bound: versions of the stored canvas
    MaxRepairs,    \* bound: repairs in flight at a time
    None           \* no value

Role == {"owner", "editor", "contributor", "viewer", "revoked"}

Key == Ref \X Field

ASSUME ConstantsAssumption ==
    /\ UserOf \in [Conn -> User]
    /\ OwnerUser \in User
    /\ WorkspaceOf \in [Conn -> Workspace]
    /\ RolesOf \in [User -> SUBSET (Role \ {"revoked"})]
    /\ CardOf \in [Ref -> Card]
    /\ Slot \subseteq SUBSET (User \X Field)

ASSUME TimersAssumption ==
    /\ LeaseTicks \in Nat \ {0}
    /\ IdleTicks \in Nat \ {0}
    /\ HandoffTicks \in Nat \ {0}
    /\ MaxRevision \in Nat
    /\ MaxSaves \in Nat
    /\ MaxRepairs \in Nat

VARIABLES
    conns,      \* _presenceByCanvas: the connected slots
    role,       \* entry.role; "revoked" stands for accessRevoked
    idle,       \* ticks since entry.lastSeenAt
    joining,    \* subscriptions that have read the store but not subscribed
    lock,       \* _fieldLocksByCanvas: the lease on a key, or None
    version,    \* _fieldVersionsByCanvas
    request,    \* a field commit of a client on its way through a route
    revision,   \* _revisionByCanvas .revision
    durable,    \* _revisionByCanvas .durableRevision
    live,       \* _liveSnapshotsByCanvas: [revision, cards], or None
    orphan,     \* _orphanedLiveSnapshotsByCanvas: [workspace, left], or None
    stored,     \* the canvas in Salesforce: [version, cards]
    save,       \* saves on their way through PUT /api/canvas/:id
    repair,     \* field-lock requests that read the stored canvas for a record
    event       \* the revisioned event the last step broadcast, or None

peerVars  == <<conns, role, idle, joining>>
leaseVars == <<lock, version, request>>
liveVars  == <<revision, durable, live, orphan>>
storeVars == <<stored, save, repair>>
vars == <<peerVars, leaseVars, liveVars, storeVars, event>>

-----------------------------------------------------------------------------
(* Types *)

Lease == [owner : Conn, id : LeaseId, left : 0..LeaseTicks, base : Nat]

CardState == [kind : {"draft", "loaded"}, val : [Field -> Nat], slot : SUBSET (User \X Field)]

Cards == [Card -> CardState \cup {None}]

LiveState == [revision : Nat, cards : Cards]

Presented == [id : LeaseId, base : Nat]

Request == [stage : {"sent", "validated"}, ref : Ref, fields : (SUBSET Field) \ {{}},
            leases : [Field -> Presented \cup {None}], fill : BOOLEAN]

Save == [stage : {"sent", "stored"}, cards : Cards, expected : Nat \cup {None}]

Event == [type : {"field-update", "draft-update", "draft-remove", "loaded-update",
                  "create", "loaded-removed", "slot-update", "record-layout",
                  "draft-link"},
          by : Conn, card : Card \cup {None}, dup : Card \cup {None},
          fields : SUBSET Field]

Orphan == [workspace : Workspace, left : 0..HandoffTicks]

ASSUME NoneAssumption ==
    /\ None \notin Conn /\ None \notin Lease /\ None \notin Request
    /\ None \notin LiveState /\ None \notin Orphan /\ None \notin Event

TypeOK ==
    /\ conns \subseteq Conn
    /\ role \in [Conn -> Role]
    /\ idle \in [Conn -> 0..IdleTicks]
    /\ joining \in [Conn -> [role : Role, cards : Cards] \cup {None}]
    /\ lock \in [Key -> Lease \cup {None}]
    /\ version \in [Key -> Nat]
    /\ request \in [Conn -> Request \cup {None}]
    /\ revision \in Nat
    /\ durable \in Nat
    /\ live \in LiveState \cup {None}
    /\ orphan \in Orphan \cup {None}
    /\ stored \in [version : Nat, cards : Cards]
    /\ save \in [Conn -> Save \cup {None}]
    /\ repair \in [Conn -> [card : Card, cards : Cards] \cup {None}]
    /\ event \in Event \cup {None}

-----------------------------------------------------------------------------
(* What the handlers read *)

\* _payloadRecordForRef: the live payload has a record for the card.
Present(card) == live # None /\ live.cards[card] # None

\* _validLiveSnapshot
ValidLiveSnapshot(cards) == cards \notin InvalidPayload

\* live.revision > state.durableRevision
HasUnsavedEdits == live # None /\ live.revision > durable

\* entry.canEdit
CanEdit(c) == role[c] \in {"owner", "editor"}

\* _entryCanEditField, with _slotAllowsContributor
EntryCanEditField(c, card, f) ==
    /\ Present(card)
    /\ \/ CanEdit(c)
       \/ role[c] = "contributor" /\ <<UserOf[c], f>> \in live.cards[card].slot

\* _hasForeignFieldLock: leases are compared by the card they resolve to.
ForeignLock(c, card, F) ==
    \E r \in Ref, f \in F :
        /\ lock[<<r, f>>] # None
        /\ lock[<<r, f>>].owner # c
        /\ CardOf[r] = card
        /\ Present(card)

\* _validateFieldCommit, on the leases the request presents
ValidFieldCommit(c, q) ==
    \A f \in q.fields :
        /\ EntryCanEditField(c, CardOf[q.ref], f)
        /\ role[c] = "contributor" => q.fill
        /\ lock[<<q.ref, f>>] # None
        /\ lock[<<q.ref, f>>].owner = c
        /\ lock[<<q.ref, f>>].id = q.leases[f].id
        /\ version[<<q.ref, f>>] = q.leases[f].base

\* Mutant of FreshLeaseIds: identifiers come back while a request still has one.
ReusedLeaseIds == {id \in LeaseId : \A k \in Key : lock[k] # None => lock[k].id # id}

\* identifiers that nothing refers to any more stand for fresh ones
FreshLeaseIds ==
    {id \in LeaseId :
        /\ \A k \in Key : lock[k] # None => lock[k].id # id
        /\ \A c \in Conn : request[c] # None =>
              \A f \in request[c].fields : request[c].leases[f].id # id}

-----------------------------------------------------------------------------
(* _broadcastMutation and _applySnapshotMutation *)

\* One more revision; the live payload, if there is one, becomes cards.
Mutate(e, cards) ==
    /\ revision < MaxRevision
    /\ revision' = revision + 1
    /\ live' = IF live = None THEN None
               ELSE [revision |-> revision + 1, cards |-> cards]
    /\ event' = e
    /\ UNCHANGED <<durable, orphan, storeVars, conns, role, joining>>

Blank == [f \in Field |-> 0]

Stamped(val, F) == [f \in Field |-> IF f \in F THEN revision + 1 ELSE val[f]]

\* The record keeps its kind and request and takes the fields F.
WithFields(card, F) ==
    IF Present(card)
    THEN [live.cards EXCEPT ![card] =
             [kind |-> @.kind, val |-> Stamped(@.val, F), slot |-> @.slot]]
    ELSE live.cards

\* The record keeps its kind and request; only the changes to F are left.
Rebased(card, F) ==
    IF Present(card)
    THEN [live.cards EXCEPT ![card] =
             [kind |-> @.kind, val |-> Stamped(Blank, F), slot |-> @.slot]]
    ELSE live.cards

WithSlot(card, s) ==
    IF Present(card)
    THEN [live.cards EXCEPT ![card] = [kind |-> @.kind, val |-> @.val, slot |-> s]]
    ELSE live.cards

IsLoaded(card) == Present(card) /\ live.cards[card].kind = "loaded"

\* entry.lastSeenAt = Date.now()
Seen(c) == idle' = [idle EXCEPT ![c] = 0]

EventOf(type, c, card, F) ==
    [type |-> type, by |-> c, card |-> card, dup |-> None, fields |-> F]

-----------------------------------------------------------------------------
(* Subscribing, leaving and the end of a scope *)

\* The subscribe route reads the stored canvas and the caller's role ...
StartSubscribe(c) ==
    /\ c \notin conns
    /\ joining[c] = None
    /\ \E r \in RolesOf[UserOf[c]] :
          joining' = [joining EXCEPT ![c] = [role |-> r, cards |-> stored.cards]]
    /\ event' = None
    /\ UNCHANGED <<conns, role, idle, leaseVars, liveVars, storeVars>>

\* Mutant of Seeded: the owner's copy replaces the live payload in any case.
SeededOverEdits(c) ==
    IF ~ValidLiveSnapshot(joining[c].cards) THEN live
    ELSE IF live = None THEN [revision |-> revision, cards |-> joining[c].cards]
    ELSE IF joining[c].role = "owner"
         THEN [revision |-> durable, cards |-> joining[c].cards]
         ELSE live

\* seedLiveSnapshot, replaceIfDurable for the owner.  The route subscribes
\* whatever it answers, also when it refused the payload and there is none.
Seeded(c) ==
    IF ~ValidLiveSnapshot(joining[c].cards) THEN live
    ELSE IF live = None THEN [revision |-> revision, cards |-> joining[c].cards]
    ELSE IF joining[c].role = "owner" /\ ~HasUnsavedEdits
         THEN [revision |-> durable, cards |-> joining[c].cards]
         ELSE live

\* Mutant of DiscardCanvasState: the field versions stay.
DiscardKeepingVersions ==
    /\ revision' = 0
    /\ durable' = 0
    /\ live' = None
    /\ orphan' = None
    /\ lock' = [k \in Key |-> None]
    /\ UNCHANGED version

DiscardCanvasState ==
    /\ revision' = 0
    /\ durable' = 0
    /\ live' = None
    /\ orphan' = None
    /\ lock' = [k \in Key |-> None]
    /\ version' = [k \in Key |-> 0]

\* Mutant of Subscribe: the scope stays marked as orphaned.
SubscribeKeepingOrphan(c) ==
    /\ joining[c] # None
    /\ conns' = conns \cup {c}
    /\ role' = [role EXCEPT ![c] = joining[c].role]
    /\ joining' = [joining EXCEPT ![c] = None]
    /\ Seen(c)
    /\ IF orphan # None /\ orphan.workspace # WorkspaceOf[c]
       THEN DiscardCanvasState
       ELSE /\ live' = Seeded(c)
            /\ UNCHANGED <<orphan, revision, durable, lock, version>>
    /\ event' = None
    /\ UNCHANGED <<request, storeVars>>

\* ... and, awaits later, seeds the scope and subscribes in one step.
Subscribe(c) ==
    /\ joining[c] # None
    /\ conns' = conns \cup {c}
    /\ role' = [role EXCEPT ![c] = joining[c].role]
    /\ joining' = [joining EXCEPT ![c] = None]
    /\ Seen(c)
    /\ IF orphan # None /\ orphan.workspace # WorkspaceOf[c]
       THEN DiscardCanvasState
       ELSE /\ live' = Seeded(c)
            /\ orphan' = None
            /\ UNCHANGED <<revision, durable, lock, version>>
    /\ event' = None
    /\ UNCHANGED <<request, storeVars>>

\* _handleEmptyPresenceScope
EmptyScope(w) ==
    IF HasUnsavedEdits
    THEN /\ orphan' = [workspace |-> w, left |-> HandoffTicks]
         /\ lock' = [k \in Key |-> None]
         /\ version' = [k \in Key |-> 0]
         /\ UNCHANGED <<revision, durable, live>>
    ELSE DiscardCanvasState

\* Mutant of ReleaseConnectionLocks: the leases stay.
KeepConnectionLocks(S) == UNCHANGED lock

\* _releaseConnectionLocks
ReleaseConnectionLocks(S) ==
    lock' = [k \in Key |-> IF lock[k] # None /\ lock[k].owner \in S
                           THEN None ELSE lock[k]]

\* The connections S leave.  A request of theirs that is still in flight will
\* name a connection the server no longer knows.
Leave(S) ==
    /\ conns' = conns \ S
    /\ role' = [c \in Conn |-> IF c \in S THEN "viewer" ELSE role[c]]
    /\ idle' = [c \in Conn |-> IF c \in S THEN 0 ELSE idle[c]]
    /\ request' = [c \in Conn |-> IF c \in S THEN None ELSE request[c]]
    /\ event' = None
    /\ UNCHANGED <<joining, storeVars>>

LeaveScope(S, w) ==
    /\ Leave(S)
    /\ IF conns \ S = {}
       THEN EmptyScope(w)
       ELSE /\ ReleaseConnectionLocks(S)
            /\ UNCHANGED <<version, liveVars>>

\* The stream closed or failed, or the account was purged from the workspace.
Unsubscribe(c) ==
    /\ c \in conns
    /\ LeaveScope({c}, WorkspaceOf[c])

\* _sweep, connections: the workspace it records is that of one of them.
SweepIdle ==
    LET S == {c \in conns : idle[c] = IdleTicks}
    IN  /\ S # {}
        /\ \E c \in conns : LeaveScope(S, WorkspaceOf[c])

\* Mutant of SweepOrphan: it looks only at scopes that somebody is connected to.
SweepConnectedOrphan ==
    /\ orphan # None
    /\ orphan.left = 0
    /\ conns # {}
    /\ DiscardCanvasState
    /\ event' = None
    /\ UNCHANGED <<peerVars, request, storeVars>>

\* _sweep, orphaned snapshots
SweepOrphan ==
    /\ orphan # None
    /\ orphan.left = 0
    /\ DiscardCanvasState
    /\ event' = None
    /\ UNCHANGED <<peerVars, request, storeVars>>

\* Its connections leave; a snapshot orphaned in the workspace is discarded.
PurgeWorkspace(w) ==
    LET S == {c \in conns : WorkspaceOf[c] = w}
    IN  /\ S # {} \/ (orphan # None /\ orphan.workspace = w)
        /\ Leave(S)
        /\ IF conns \ S = {}
           THEN DiscardCanvasState
           ELSE /\ ReleaseConnectionLocks(S)
                /\ UNCHANGED <<version, liveVars>>

\* The keepalive timer of an open stream, a cursor or a focus event.
KeepAlive(c) ==
    /\ c \in conns
    /\ Seen(c)
    /\ event' = None
    /\ UNCHANGED <<conns, role, joining, leaseVars, liveVars, storeVars>>

\* The owner changes the role of a user, or revokes it ("revoked").
UpdateCanvasAccess(u, r) ==
    LET S == {c \in conns : UserOf[c] = u /\ (r = "revoked" \/ role[c] # r)}
    IN  /\ u # OwnerUser
        /\ S # {}
        /\ role' = [c \in Conn |-> IF c \in S THEN r ELSE role[c]]
        /\ idle' = [c \in Conn |-> IF c \in S THEN 0 ELSE idle[c]]
        /\ event' = None
        /\ UNCHANGED <<conns, joining, leaseVars, liveVars, storeVars>>

-----------------------------------------------------------------------------
(* Time *)

\* Mutants of Aged: an expired lease is not dropped.
AgedBelowZero(l) == IF l = None THEN None ELSE [l EXCEPT !.left = @ - 1]
AgedForEver(l) == IF l = None THEN None
                  ELSE IF l.left <= 1 THEN l
                  ELSE [l EXCEPT !.left = @ - 1]

\* _activeFieldLocks drops a lease once its time is up.
Aged(l) == IF l = None THEN None
           ELSE IF l.left <= 1 THEN None
           ELSE [l EXCEPT !.left = @ - 1]

Tick ==
    /\ lock' = [k \in Key |-> Aged(lock[k])]
    /\ idle' = [c \in Conn |-> IF c \in conns /\ idle[c] < IdleTicks
                               THEN idle[c] + 1 ELSE idle[c]]
    /\ orphan' = IF orphan # None /\ orphan.left > 0
                 THEN [orphan EXCEPT !.left = @ - 1] ELSE orphan
    /\ event' = None
    /\ UNCHANGED <<conns, role, joining, version, request, revision, durable,
                   live, storeVars>>

-----------------------------------------------------------------------------
(* Field leases *)

\* acquireFieldLock: the key is free, or the caller's already (the lease keeps
\* its identifier), or another's and the caller asks to take it over.
AcquireFieldLock(c, k, takeover) ==
    LET mine == lock[k] # None /\ lock[k].owner = c
    IN  /\ c \in conns
        /\ EntryCanEditField(c, CardOf[k[1]], k[2])
        /\ lock[k] = None \/ mine \/ takeover
        /\ \E id \in IF mine THEN {lock[k].id} ELSE FreshLeaseIds :
              lock' = [lock EXCEPT ![k] =
                  [owner |-> c, id |-> id, left |-> LeaseTicks, base |-> version[k]]]
        /\ Seen(c)
        /\ event' = None
        /\ UNCHANGED <<conns, role, joining, version, request, liveVars, storeVars>>

\* renewFieldLock asks for no permission.
RenewFieldLock(c, k) ==
    /\ c \in conns
    /\ lock[k] # None
    /\ lock[k].owner = c
    /\ lock' = [lock EXCEPT ![k].left = LeaseTicks]
    /\ Seen(c)
    /\ event' = None
    /\ UNCHANGED <<conns, role, joining, version, request, liveVars, storeVars>>

ReleaseFieldLock(c, k) ==
    /\ c \in conns
    /\ lock[k] # None
    /\ lock[k].owner = c
    /\ lock' = [lock EXCEPT ![k] = None]
    /\ event' = None
    /\ UNCHANGED <<peerVars, version, request, liveVars, storeVars>>

\* The field-lock route found no record the caller may edit: it reads the
\* stored canvas ...
StartRepair(c, r) ==
    /\ c \in conns
    /\ repair[c] = None
    /\ Cardinality({d \in Conn : repair[d] # None}) < MaxRepairs
    /\ \E f \in Field : ~EntryCanEditField(c, CardOf[r], f)
    /\ repair' = [repair EXCEPT ![c] = [card |-> CardOf[r], cards |-> stored.cards]]
    /\ event' = None
    /\ UNCHANGED <<peerVars, leaseVars, liveVars, stored, save>>

\* Mutant of RepairRecord: the stored canvas replaces all of the live payload.
RepairPayload(c) ==
    /\ repair[c] # None
    /\ LET q == repair[c]
       IN  live' = IF /\ live # None /\ ~Present(q.card)
                      /\ ValidLiveSnapshot(q.cards) /\ q.cards[q.card] # None
                   THEN [live EXCEPT !.cards = q.cards] ELSE live
    /\ repair' = [repair EXCEPT ![c] = None]
    /\ event' = None
    /\ UNCHANGED <<peerVars, leaseVars, revision, durable, orphan, stored, save>>

\* ... and mergeLiveSnapshotRecord puts the record back if it is missing,
\* whoever is connected by then; only then does the caller try again.
RepairRecord(c) ==
    /\ repair[c] # None
    /\ LET q == repair[c]
       IN  live' = IF /\ live # None /\ ~Present(q.card)
                      /\ ValidLiveSnapshot(q.cards) /\ q.cards[q.card] # None
                   THEN [live EXCEPT !.cards[q.card] = q.cards[q.card]] ELSE live
    /\ repair' = [repair EXCEPT ![c] = None]
    /\ event' = None
    /\ UNCHANGED <<peerVars, leaseVars, revision, durable, orphan, stored, save>>

-----------------------------------------------------------------------------
(* Field commits: the client sends the leases it was given; the server reads *)
(* them later, when it may have given the field to somebody else.            *)

SendFieldCommit(c, r, F, fill) ==
    /\ c \in conns
    /\ request[c] = None
    /\ \A f \in F : lock[<<r, f>>] # None /\ lock[<<r, f>>].owner = c
    /\ request' = [request EXCEPT ![c] =
          [stage |-> "sent", ref |-> r, fields |-> F, fill |-> fill,
           leases |-> [f \in Field |-> IF f \in F
              THEN [id |-> lock[<<r, f>>].id, base |-> lock[<<r, f>>].base]
              ELSE None]]]
    /\ event' = None
    /\ UNCHANGED <<peerVars, lock, version, liveVars, storeVars>>

\* slot-fill validates, then awaits the contribution's creation in Salesforce.
ValidateSlotFill(c) ==
    /\ request[c] # None
    /\ request[c].stage = "sent"
    /\ request[c].fill
    /\ ValidFieldCommit(c, request[c])
    /\ request' = [request EXCEPT ![c].stage = "validated"]
    /\ event' = None
    /\ UNCHANGED <<peerVars, lock, version, liveVars, storeVars>>

\* Mutants of CommitFieldValues: the leases it used stay; a contribution that
\* was validated before it was stored is not validated again.
CommitKeepingLeases(c) ==
    LET q == request[c]
        done == {<<q.ref, f>> : f \in q.fields}
    IN  /\ q # None
        /\ q.stage = (IF q.fill THEN "validated" ELSE "sent")
        /\ ValidFieldCommit(c, q)
        /\ Mutate(EventOf("field-update", c, CardOf[q.ref], q.fields),
                  WithFields(CardOf[q.ref], q.fields))
        /\ version' = [k \in Key |-> IF k \in done THEN revision + 1 ELSE version[k]]
        /\ request' = [request EXCEPT ![c] = None]
        /\ UNCHANGED <<idle, lock>>

CommitOnOldValidation(c) ==
    LET q == request[c]
        done == {<<q.ref, f>> : f \in q.fields}
    IN  /\ q # None
        /\ q.stage = (IF q.fill THEN "validated" ELSE "sent")
        /\ q.stage = "sent" => ValidFieldCommit(c, q)
        /\ Mutate(EventOf("field-update", c, CardOf[q.ref], q.fields),
                  WithFields(CardOf[q.ref], q.fields))
        /\ version' = [k \in Key |-> IF k \in done THEN revision + 1 ELSE version[k]]
        /\ lock' = [k \in Key |-> IF k \in done THEN None ELSE lock[k]]
        /\ request' = [request EXCEPT ![c] = None]
        /\ UNCHANGED idle

\* commitFieldValues validates again, or for the first time.
CommitFieldValues(c) ==
    LET q == request[c]
        done == {<<q.ref, f>> : f \in q.fields}
    IN  /\ q # None
        /\ q.stage = (IF q.fill THEN "validated" ELSE "sent")
        /\ ValidFieldCommit(c, q)
        /\ Mutate(EventOf("field-update", c, CardOf[q.ref], q.fields),
                  WithFields(CardOf[q.ref], q.fields))
        /\ version' = [k \in Key |-> IF k \in done THEN revision + 1 ELSE version[k]]
        /\ lock' = [k \in Key |-> IF k \in done THEN None ELSE lock[k]]
        /\ request' = [request EXCEPT ![c] = None]
        /\ UNCHANGED idle

\* The validation fails, or the contribution could not be stored.
RejectFieldCommit(c) ==
    /\ request[c] # None
    /\ request[c].stage = "sent" => ~ValidFieldCommit(c, request[c])
    /\ request' = [request EXCEPT ![c] = None]
    /\ event' = None
    /\ UNCHANGED <<peerVars, lock, version, liveVars, storeVars>>

-----------------------------------------------------------------------------
(* Mutations without a lease (updateDraft, updateLoadedRecord, ...) *)

CanMutate(c) == c \in conns /\ CanEdit(c)

\* updateDraft, an edit: nothing happens to a card that is already loaded.
UpdateDraft(c, card, F) ==
    /\ CanMutate(c)
    /\ ~IsLoaded(card)
    /\ ~ForeignLock(c, card, F)
    /\ Mutate(EventOf("draft-update", c, card, F), WithFields(card, F))
    /\ Seen(c)
    /\ UNCHANGED leaseVars

\* Mutant of CreateDraft: a create asks for no lease even if the card is there.
CreateOverLease(c, card, F, s) ==
    /\ CanMutate(c)
    /\ ~IsLoaded(card)
    /\ LET val == IF Present(card) THEN live.cards[card].val ELSE Blank
       IN  Mutate(EventOf("create", c, card, F),
                  [live.cards EXCEPT ![card] =
                      [kind |-> "draft", val |-> Stamped(val, F), slot |-> s]])
    /\ Seen(c)
    /\ UNCHANGED leaseVars

\* updateDraft, kind "create": a card that is not there needs no lease check.
CreateDraft(c, card, F, s) ==
    /\ CanMutate(c)
    /\ ~IsLoaded(card)
    /\ Present(card) => ~ForeignLock(c, card, F)
    /\ LET val == IF Present(card) THEN live.cards[card].val ELSE Blank
       IN  Mutate(EventOf("create", c, card, F),
                  [live.cards EXCEPT ![card] =
                      [kind |-> "draft", val |-> Stamped(val, F), slot |-> s]])
    /\ Seen(c)
    /\ UNCHANGED leaseVars

RemoveDraft(c, card) ==
    /\ CanMutate(c)
    /\ ~IsLoaded(card)
    /\ Mutate(EventOf("draft-remove", c, card, {}), [live.cards EXCEPT ![card] = None])
    /\ Seen(c)
    /\ UNCHANGED leaseVars

\* updateLoadedRecord, kind "update".  One that carries a new baseline starts
\* the card's changes anew: it asks for leases on the fields it names only.
UpdateLoadedRecord(c, card, F, rebase) ==
    /\ CanMutate(c)
    /\ ~ForeignLock(c, card, F)
    /\ Mutate(EventOf("loaded-update", c, card, F),
              IF rebase THEN Rebased(card, F) ELSE WithFields(card, F))
    /\ Seen(c)
    /\ UNCHANGED leaseVars

\* updateLoadedRecord, kind "create": loads a record, or promotes the draft of
\* the card, and starts its changes anew; leases are not consulted.  If another
\* card already shows the record that the draft became, it is dropped.
CreateLoadedRecord(c, card, dup, F, s) ==
    /\ CanMutate(c)
    /\ dup # None => dup # card /\ Present(card) /\ IsLoaded(dup)
    /\ Mutate([EventOf("create", c, card, F) EXCEPT !.dup = dup],
              [other \in Card |->
                  IF other = card
                  THEN [kind |-> "loaded", val |-> Stamped(Blank, F), slot |-> s]
                  ELSE IF other = dup THEN None
                  ELSE live.cards[other]])
    /\ Seen(c)
    /\ UNCHANGED leaseVars

RemoveLoadedRecord(c, card) ==
    /\ CanMutate(c)
    /\ Mutate(EventOf("loaded-removed", c, card, {}), [live.cards EXCEPT ![card] = None])
    /\ Seen(c)
    /\ UNCHANGED leaseVars

UpdateSlot(c, card, s) ==
    /\ CanMutate(c)
    /\ Mutate(EventOf("slot-update", c, card, {}), WithSlot(card, s))
    /\ Seen(c)
    /\ UNCHANGED leaseVars

\* Positions and relationships are not modelled, the revision they take is.
UpdateLayout(c, card) ==
    /\ CanMutate(c)
    /\ live # None => Present(card)
    /\ Mutate(EventOf("record-layout", c, card, {}), live.cards)
    /\ Seen(c)
    /\ UNCHANGED leaseVars

UpdateDraftLink(c) ==
    /\ CanMutate(c)
    /\ Mutate(EventOf("draft-link", c, None, {}), live.cards)
    /\ Seen(c)
    /\ UNCHANGED leaseVars

-----------------------------------------------------------------------------
(* Saving: PUT /api/canvas/:id *)

\* What a client shows: the live payload or, without one, the canvas it opened.
\* That one without a card stands for what it has edited in it.
Shown ==
    IF live # None THEN {live.cards}
    ELSE {stored.cards} \cup {[stored.cards EXCEPT ![card] = None] : card \in Card}

\* A client sends what it shows with the version it knows, or with none ("Save
\* anyway", after a version conflict).
SendSave(c, anyway) ==
    /\ CanMutate(c)
    /\ save[c] = None
    /\ stored.version < MaxSaves
    /\ \E cards \in Shown :
          save' = [save EXCEPT ![c] =
              [stage |-> "sent", cards |-> cards,
               expected |-> IF anyway THEN None ELSE stored.version]]
    /\ event' = None
    /\ UNCHANGED <<peerVars, leaseVars, liveVars, stored, repair>>

\* store.update with expectedVersionId
StoreSave(c) ==
    /\ save[c] # None
    /\ save[c].stage = "sent"
    /\ save[c].expected \in {stored.version, None}
    /\ stored' = [version |-> stored.version + 1, cards |-> save[c].cards]
    /\ save' = [save EXCEPT ![c].stage = "stored"]
    /\ event' = None
    /\ UNCHANGED <<peerVars, leaseVars, liveVars, repair>>

\* A version conflict, a lost permission or a Salesforce failure.
RefuseSave(c) ==
    /\ save[c] # None
    /\ save[c].stage = "sent"
    /\ save' = [save EXCEPT ![c] = None]
    /\ event' = None
    /\ UNCHANGED <<peerVars, leaseVars, liveVars, stored, repair>>

\* broadcastCanvasSaved, after the store and the audit were awaited: it counts
\* the revision as durable also when it refuses the payload.
BroadcastCanvasSaved(c) ==
    /\ save[c] # None
    /\ save[c].stage = "stored"
    /\ durable' = revision
    /\ live' = IF ~ValidLiveSnapshot(save[c].cards) THEN live
               ELSE [revision |-> revision, cards |-> save[c].cards]
    /\ save' = [save EXCEPT ![c] = None]
    /\ event' = None
    /\ UNCHANGED <<peerVars, leaseVars, revision, orphan, stored, repair>>

-----------------------------------------------------------------------------
Init ==
    /\ conns = {}
    /\ role = [c \in Conn |-> "viewer"]
    /\ idle = [c \in Conn |-> 0]
    /\ joining = [c \in Conn |-> None]
    /\ lock = [k \in Key |-> None]
    /\ version = [k \in Key |-> 0]
    /\ request = [c \in Conn |-> None]
    /\ revision = 0
    /\ durable = 0
    /\ live = None
    /\ orphan = None
    /\ \E cards \in [Card -> [kind : {"draft", "loaded"}, val : {Blank}, slot : Slot]
                             \cup {None}] :
          stored = [version |-> 0, cards |-> cards]
    /\ save = [c \in Conn |-> None]
    /\ repair = [c \in Conn |-> None]
    /\ event = None

Connection(c) ==
    \/ StartSubscribe(c)
    \/ Subscribe(c)
    \/ Unsubscribe(c)
    \/ KeepAlive(c)

Leasing(c) ==
    \/ \E k \in Key, takeover \in BOOLEAN : AcquireFieldLock(c, k, takeover)
    \/ \E k \in Key : RenewFieldLock(c, k)
    \/ \E k \in Key : ReleaseFieldLock(c, k)
    \/ \E r \in Ref : StartRepair(c, r)
    \/ RepairRecord(c)

Committing(c) ==
    \/ \E r \in Ref, F \in (SUBSET Field) \ {{}}, fill \in BOOLEAN :
          SendFieldCommit(c, r, F, fill)
    \/ ValidateSlotFill(c)
    \/ CommitFieldValues(c)
    \/ RejectFieldCommit(c)

Mutating(c) ==
    \/ \E card \in Card, F \in (SUBSET Field) \ {{}} : UpdateDraft(c, card, F)
    \/ \E card \in Card, F \in SUBSET Field, s \in Slot : CreateDraft(c, card, F, s)
    \/ \E card \in Card : RemoveDraft(c, card)
    \/ \E card \in Card, F \in (SUBSET Field) \ {{}}, rebase \in BOOLEAN :
          UpdateLoadedRecord(c, card, F, rebase)
    \/ \E card \in Card, dup \in Card \cup {None}, F \in SUBSET Field, s \in Slot :
          CreateLoadedRecord(c, card, dup, F, s)
    \/ \E card \in Card : RemoveLoadedRecord(c, card)
    \/ \E card \in Card, s \in Slot : UpdateSlot(c, card, s)
    \/ \E card \in Card : UpdateLayout(c, card)
    \/ UpdateDraftLink(c)

Saving(c) ==
    \/ \E anyway \in BOOLEAN : SendSave(c, anyway)
    \/ StoreSave(c)
    \/ RefuseSave(c)
    \/ BroadcastCanvasSaved(c)

Server ==
    \/ SweepIdle
    \/ SweepOrphan
    \/ \E w \in Workspace : PurgeWorkspace(w)
    \/ \E u \in User : \E r \in RolesOf[u] \cup {"revoked"} : UpdateCanvasAccess(u, r)
    \/ Tick

Next ==
    \/ Server
    \/ \E c \in Conn :
          Connection(c) \/ Leasing(c) \/ Committing(c) \/ Mutating(c) \/ Saving(c)

Spec == Init /\ [][Next]_vars

\* The clock moves and the sweep timer fires; no client is obliged to do anything.
Fairness == WF_vars(Tick) /\ WF_vars(SweepIdle) /\ WF_vars(SweepOrphan)

FairSpec == Spec /\ Fairness

-----------------------------------------------------------------------------
(* Safety *)

\* A lease never outlives the connection that holds it: however a connection
\* goes (close, idle sweep, purge), its leases go with it, so no field stays
\* locked by somebody who can neither renew nor release it.
LeasesOfConnected == \A k \in Key : lock[k] # None => lock[k].owner \in conns

\* The base version in a lease is the current version of the field for as long
\* as the lease stands: nothing commits the field under a lease without ending
\* the lease, and no two leases of a field overlap.
LeaseBaseCurrent == \A k \in Key : lock[k] # None => lock[k].base = version[k]

\* A commit in flight whose lease is still the one the server has was prepared
\* on the current version of the field, although the lease may have been lost
\* to somebody else and won back since the request was sent.
PresentedLeaseCurrent ==
    \A c \in Conn : request[c] # None =>
        \A f \in request[c].fields :
            LET k == <<request[c].ref, f>>
            IN  lock[k] # None /\ lock[k].id = request[c].leases[f].id
                => version[k] = request[c].leases[f].base

\* The counters of a scope move together through joins, handoffs, discards and
\* saves: what is durable, what the live payload shows and what a field was
\* last committed at never lie ahead of the scope's revision.
RevisionsOrdered ==
    /\ durable <= revision
    /\ live # None => live.revision <= revision
    /\ \A k \in Key : version[k] <= revision

\* A scope is kept for a handoff only when nobody is connected to it, and there
\* is then a payload to hand over and no lease; and unsaved work that nobody is
\* connected to is always kept for one.
OrphanIsAbandoned ==
    /\ orphan # None => conns = {} /\ live # None /\ \A k \in Key : lock[k] = None
    /\ conns = {} /\ HasUnsavedEdits => orphan # None

-----------------------------------------------------------------------------
(* What a step may never do *)

\* The state of a step that writes fields of a card while somebody holds the
\* lease on one of them, under whatever reference the writer names the card.
\* Two writes are outside it: a promotion, which starts the card's changes anew
\* without asking for leases, and a commit under a lease on another reference.
LeaseRespected ==
    \A r \in Ref, f \in Field :
        /\ lock[<<r, f>>] # None
        /\ Present(CardOf[r])
        /\ event' # None
        /\ event'.card = CardOf[r]
        /\ f \in event'.fields
        => \/ event'.by = lock[<<r, f>>].owner
           \/ event'.type = "create" /\ live'.cards[CardOf[r]].kind = "loaded"
           \/ event'.type = "field-update"

\* While somebody holds the lease on a field of a card, only they edit it.
LeasedFieldStable == [][LeaseRespected]_vars

WriteAuthorised ==
    event' # None =>
        LET c == event'.by
        IN  /\ c \in conns
            /\ \/ CanEdit(c)
               \/ /\ role[c] = "contributor"
                  /\ event'.type = "field-update"
                  /\ Present(event'.card)
                  /\ \A f \in event'.fields :
                        <<UserOf[c], f>> \in live.cards[event'.card].slot

\* Every mutation the server applies is by a connection that may make it at
\* that moment: an owner or editor, or a contributor whose record request still
\* asks for each field, even when the request was withdrawn or the role taken
\* away while the contribution was being stored.
WritersAuthorised == [][WriteAuthorised]_vars

\* the card a repair puts into a live payload that lacks it
PutBack(card) ==
    /\ live.cards[card] = None
    /\ \E c \in Conn :
          /\ repair[c] # None /\ repair'[c] = None
          /\ repair[c].card = card
          /\ live'.cards[card] = repair[c].cards[card]

UnsavedWorkKept ==
    HasUnsavedEdits =>
        \/ durable' # durable
        \/ live' = None /\ orphan # None
        \/ \E w \in Workspace : PurgeWorkspace(w)
        \/ /\ live' # None
           /\ conns' = {} => orphan' # None
           /\ \A card \in Card :
                 \/ live'.cards[card] = live.cards[card]
                 \/ event' # None /\ card \in {event'.card, event'.dup}
                 \/ PutBack(card)

\* Work that no save has stored, removals included, is changed only by an edit of
\* that card (or by the promotion of a card it is a duplicate of), and is given up
\* only when a save publishes another payload, when the workspace is purged, or
\* when its handoff ends without an heir: joins, departures and sweeps leave it as
\* it is.  One change is outside it: a field-lock request for a card that is not
\* there puts back that card, as it was stored, and no other, even if the card had
\* been removed and the removal was not saved.
UnsavedWorkSurvives == [][UnsavedWorkKept]_vars

LiveViewKept ==
    conns' # {} /\ live' = None =>
        \/ live = None /\ \A c \in conns' \ conns : ~ValidLiveSnapshot(joining[c].cards)
        \/ orphan # None /\ \E c \in conns' \ conns : WorkspaceOf[c] # orphan.workspace

\* Whoever is connected has a live payload to work on and keeps it for as long as
\* somebody is there, through leaves, sweeps, purges and handoffs.  A subscriber is
\* left without one in two cases only: the canvas it brings is one that
\* _validLiveSnapshot refuses and nobody brought another, or the work it meets was
\* left behind in another workspace and is discarded with what it brings.
SubscribersKeepLiveView == [][LiveViewKept]_vars

-----------------------------------------------------------------------------
(* Liveness, under the clock and the sweep timer alone *)

\* Unsaved work of an abandoned scope does not stay in memory for ever: it is
\* taken over by a subscriber or discarded.
HandoffEnds == orphan # None ~> orphan = None

\* A lease that is no longer renewed ends, even if its holder never releases it
\* and its event stream stays open.
LeaseEnds ==
    \A k \in Key :
        \/ []<>(lock[k] = None)
        \/ []<>(lock[k] # None /\ lock[k].left = LeaseTicks)

-----------------------------------------------------------------------------
(* What the code's documentation says and the code does not do *)

\* A test says that a save marks the matching snapshot durable: a save should
\* not count a live payload as durable that is not the one it stored.
MatchingSnapshotDurable ==
    [][\A c \in Conn :
          /\ BroadcastCanvasSaved(c)
          /\ live # None
          /\ live.cards # save[c].cards
          => durable' < live.revision]_vars

-----------------------------------------------------------------------------
(* Leases, requests and versions amount to a register whose edits are applied *)
(* only by whoever held their fields all the while.                           *)

Holder == [k \in Key |-> IF lock[k] = None THEN None ELSE lock[k].owner]

\* the keys a commit in flight asks to write
Asked(c) == IF request[c] = None THEN {} ELSE {request[c].ref} \X request[c].fields

\* the lease it presents is still the one the server has
Stands(c, k) ==
    /\ lock[k] # None
    /\ lock[k].owner = c
    /\ lock[k].id = request[c].leases[k[2]].id

Editing == [c \in Conn |-> Asked(c)]

\* the base versions it presents
Saw == [c \in Conn |->
    [k \in Key |-> IF k \in Asked(c) THEN request[c].leases[k[2]].base ELSE 0]]

Lost == [c \in Conn |-> {k \in Asked(c) : ~Stands(c, k)}]

Leases == INSTANCE LeaseRegister WITH
    Client <- Conn, Version <- 0..MaxRevision,
    holder <- Holder, editing <- Editing, saw <- Saw, lost <- Lost

\* However leases are taken over, renewed, lost and won back while commits are on
\* their way, a commit is applied only if its connection has held every field of
\* it since it was sent.
ImplementsLeases == Leases!Spec
=============================================================================
