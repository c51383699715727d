--------------------------- MODULE PresenceProofs ---------------------------
(* Safety of the live-collaboration state for every set of connections, users, *)
(* cards, references and fields, every lease and idle time and every bound.    *)
EXTENDS Presence, TLAPS

USE DEF Role, Key, Orphan

-----------------------------------------------------------------------------
(* What the helpers return *)

LEMMA CardsBasics ==
    ASSUME TypeOK, live # None
    PROVE  /\ live \in LiveState
           /\ live.cards \in Cards
           /\ \A card \in Card : live.cards[card] # None =>
                 live.cards[card] \in CardState
  BY DEF TypeOK, LiveState, Cards

LEMMA StampedType ==
    ASSUME TypeOK, NEW val \in [Field -> Nat], NEW F
    PROVE  Stamped(val, F) \in [Field -> Nat]
  BY DEF Stamped, TypeOK

LEMMA WithFieldsType ==
    ASSUME TypeOK, live # None, NEW card \in Card, NEW F
    PROVE  WithFields(card, F) \in Cards
  <1>1. CASE ~Present(card)
    BY <1>1, CardsBasics DEF WithFields
  <1>2. CASE Present(card)
    <2>1. live.cards \in Cards /\ live.cards[card] \in CardState
      BY <1>2, CardsBasics DEF Present
    <2>2. Stamped(live.cards[card].val, F) \in [Field -> Nat]
      BY <2>1, StampedType DEF CardState
    <2>3. [kind |-> live.cards[card].kind, val |-> Stamped(live.cards[card].val, F),
           slot |-> live.cards[card].slot] \in CardState
      BY <2>1, <2>2 DEF CardState
    <2>. QED BY <1>2, <2>1, <2>3 DEF WithFields, Cards
  <1>. QED BY <1>1, <1>2

LEMMA RebasedType ==
    ASSUME TypeOK, live # None, NEW card \in Card, NEW F
    PROVE  Rebased(card, F) \in Cards
  <1>1. CASE ~Present(card)
    BY <1>1, CardsBasics DEF Rebased
  <1>2. CASE Present(card)
    <2>1. live.cards \in Cards /\ live.cards[card] \in CardState
      BY <1>2, CardsBasics DEF Present
    <2>2. Stamped(Blank, F) \in [Field -> Nat]
      BY StampedType DEF Blank
    <2>3. [kind |-> live.cards[card].kind, val |-> Stamped(Blank, F),
           slot |-> live.cards[card].slot] \in CardState
      BY <2>1, <2>2 DEF CardState
    <2>. QED BY <1>2, <2>1, <2>3 DEF Rebased, Cards
  <1>. QED BY <1>1, <1>2

LEMMA WithSlotType ==
    ASSUME TypeOK, live # None, NEW card \in Card, NEW s \in Slot
    PROVE  WithSlot(card, s) \in Cards
  <1>1. CASE ~Present(card)
    BY <1>1, CardsBasics DEF WithSlot
  <1>2. CASE Present(card)
    <2>1. live.cards \in Cards /\ live.cards[card] \in CardState
      BY <1>2, CardsBasics DEF Present
    <2>2. [kind |-> live.cards[card].kind, val |-> live.cards[card].val, slot |-> s]
             \in CardState
      BY <2>1, ConstantsAssumption DEF CardState
    <2>. QED BY <1>2, <2>1, <2>2 DEF WithSlot, Cards
  <1>. QED BY <1>1, <1>2

\* What a load or a promotion makes of the live payload
Loaded(card, dup, x) ==
    [other \in Card |-> IF other = card THEN x
                        ELSE IF other = dup THEN None
                        ELSE live.cards[other]]

LEMMA LoadedType ==
    ASSUME TypeOK, live # None, NEW card \in Card, NEW dup, NEW x \in CardState
    PROVE  Loaded(card, dup, x) \in Cards
  BY CardsBasics DEF Loaded, Cards

\* A card put into the live payload, or taken out of it
LEMMA PutType ==
    ASSUME TypeOK, live # None, NEW card \in Card, NEW x \in CardState \cup {None}
    PROVE  [live.cards EXCEPT ![card] = x] \in Cards
  BY CardsBasics DEF Cards

LEMMA MutateType ==
    ASSUME TypeOK, NEW e \in Event, NEW cards, live # None => cards \in Cards,
           Mutate(e, cards)
    PROVE  /\ revision' \in Nat
           /\ live' \in LiveState \cup {None}
           /\ event' \in Event \cup {None}
           /\ revision' = revision + 1
           /\ UNCHANGED <<durable, orphan, stored, save, repair, conns, role, joining>>
  BY DEF TypeOK, Mutate, LiveState, storeVars

LEMMA DiscardType ==
    ASSUME TypeOK, DiscardCanvasState
    PROVE  /\ lock' \in [Key -> Lease \cup {None}]
           /\ version' \in [Key -> Nat]
           /\ revision' \in Nat
           /\ durable' \in Nat
           /\ live' \in LiveState \cup {None}
           /\ orphan' \in Orphan \cup {None}
  BY DEF DiscardCanvasState

LEMMA EmptyScopeType ==
    ASSUME TypeOK, NEW w \in Workspace, EmptyScope(w)
    PROVE  /\ lock' \in [Key -> Lease \cup {None}]
           /\ version' \in [Key -> Nat]
           /\ revision' \in Nat
           /\ durable' \in Nat
           /\ live' \in LiveState \cup {None}
           /\ orphan' \in Orphan \cup {None}
  BY DiscardType, TimersAssumption DEF EmptyScope, TypeOK

LEMMA LeaveType ==
    ASSUME TypeOK, NEW S \in SUBSET Conn, Leave(S)
    PROVE  /\ conns' \subseteq Conn
           /\ role' \in [Conn -> Role]
           /\ idle' \in [Conn -> 0..IdleTicks]
           /\ joining' \in [Conn -> [role : Role, cards : Cards] \cup {None}]
           /\ request' \in [Conn -> Request \cup {None}]
           /\ stored' \in [version : Nat, cards : Cards]
           /\ save' \in [Conn -> Save \cup {None}]
           /\ repair' \in [Conn -> [card : Card, cards : Cards] \cup {None}]
           /\ event' \in Event \cup {None}
  BY TimersAssumption DEF TypeOK, Leave, storeVars

LEMMA LeaveScopeType ==
    ASSUME TypeOK, NEW S \in SUBSET Conn, NEW w \in Workspace, LeaveScope(S, w)
    PROVE  TypeOK'
  <1>1. CASE conns \ S = {}
    BY <1>1, LeaveType, EmptyScopeType DEF LeaveScope, TypeOK
  <1>2. CASE conns \ S # {}
    <2>1. lock' \in [Key -> Lease \cup {None}]
      BY <1>2 DEF LeaveScope, ReleaseConnectionLocks, TypeOK
    <2>. QED BY <1>2, <2>1, LeaveType DEF LeaveScope, TypeOK, liveVars
  <1>. QED BY <1>1, <1>2

-----------------------------------------------------------------------------
(* Type correctness *)

LEMMA InitType == Init => TypeOK
  <1>. SUFFICES ASSUME Init PROVE TypeOK
    OBVIOUS
  <1>1. stored \in [version : Nat, cards : Cards]
    <2>1. [kind : {"draft", "loaded"}, val : {Blank}, slot : Slot] \subseteq CardState
      BY ConstantsAssumption DEF CardState, Blank
    <2>. QED BY <2>1 DEF Init, Cards
  <1>. QED BY <1>1, TimersAssumption DEF Init, TypeOK

LEMMA ConnectionType ==
    ASSUME TypeOK, NEW c \in Conn, Connection(c)
    PROVE  TypeOK'
  <1>1. CASE StartSubscribe(c)
    <2>1. PICK r \in RolesOf[UserOf[c]] :
             joining' = [joining EXCEPT ![c] = [role |-> r, cards |-> stored.cards]]
      BY <1>1 DEF StartSubscribe
    <2>2. UserOf[c] \in User /\ RolesOf[UserOf[c]] \in SUBSET (Role \ {"revoked"})
      BY ConstantsAssumption
    <2>3. r \in Role
      BY <2>1, <2>2
    <2>4. joining' \in [Conn -> [role : Role, cards : Cards] \cup {None}]
      BY <2>1, <2>3 DEF TypeOK
    <2>. QED BY <1>1, <2>4 DEF StartSubscribe, TypeOK, leaseVars, liveVars, storeVars
  <1>2. CASE Subscribe(c)
    <2>1. joining[c] \in [role : Role, cards : Cards]
      BY <1>2 DEF Subscribe, TypeOK
    <2>2. Seeded(c) \in LiveState \cup {None}
      BY <2>1 DEF Seeded, TypeOK, LiveState
    <2>3. /\ lock' \in [Key -> Lease \cup {None}]
          /\ version' \in [Key -> Nat]
          /\ revision' \in Nat
          /\ durable' \in Nat
          /\ live' \in LiveState \cup {None}
          /\ orphan' \in Orphan \cup {None}
      <3>1. CASE orphan # None /\ orphan.workspace # WorkspaceOf[c]
        BY <1>2, <3>1, DiscardType DEF Subscribe
      <3>2. CASE ~(orphan # None /\ orphan.workspace # WorkspaceOf[c])
        BY <1>2, <2>2, <3>2 DEF Subscribe, TypeOK
      <3>. QED BY <3>1, <3>2
    <2>4. idle' \in [Conn -> 0..IdleTicks]
      BY <1>2, TimersAssumption DEF Subscribe, Seen, TypeOK
    <2>. QED BY <1>2, <2>1, <2>3, <2>4 DEF Subscribe, TypeOK, storeVars
  <1>3. CASE Unsubscribe(c)
    BY <1>3, LeaveScopeType, ConstantsAssumption DEF Unsubscribe
  <1>4. CASE KeepAlive(c)
    BY <1>4, TimersAssumption
    DEF KeepAlive, Seen, TypeOK, leaseVars, liveVars, storeVars
  <1>. QED BY <1>1, <1>2, <1>3, <1>4 DEF Connection

\* A repair leaves the payload as it is or puts the card it is for into it.
LEMMA RepairedLive ==
    ASSUME TypeOK, NEW c \in Conn, RepairRecord(c)
    PROVE  \/ live' = live
           \/ /\ live # None
              /\ live' \in LiveState
              /\ live'.revision = live.revision
              /\ \A card \in Card :
                    \/ live'.cards[card] = live.cards[card]
                    \/ PutBack(card)
  <1>1. CASE live' = live
    BY <1>1
  <1>2. CASE live' # live
    <2>. DEFINE q == repair[c]
                cards == [live.cards EXCEPT ![q.card] = q.cards[q.card]]
    <2>1. /\ live # None /\ live.cards[q.card] = None
          /\ live' = [live EXCEPT !.cards[q.card] = q.cards[q.card]]
      BY <1>2 DEF RepairRecord, Present
    <2>2. q \in [card : Card, cards : Cards]
      BY DEF RepairRecord, TypeOK
    <2>3. live \in LiveState
      BY <2>1 DEF TypeOK
    <2>4. live' = [live EXCEPT !.cards = cards]
      BY <2>1, <2>3 DEF LiveState
    <2>5. cards \in Cards
      BY <2>2, <2>3 DEF LiveState, Cards
    <2>6. /\ \A card \in Card : card # q.card => cards[card] = live.cards[card]
          /\ cards[q.card] = q.cards[q.card]
      BY <2>2, <2>3 DEF LiveState, Cards
    <2>7. live' \in LiveState /\ live'.revision = live.revision /\ live'.cards = cards
      <3>. HIDE DEF cards
      <3>. QED BY <2>3, <2>4, <2>5 DEF LiveState
    <2>8. repair[c] # None /\ repair'[c] = None
      BY DEF RepairRecord, TypeOK
    <2>. HIDE DEF cards
    <2>9. PutBack(q.card)
      BY <2>1, <2>6, <2>7, <2>8 DEF PutBack
    <2>. QED BY <2>1, <2>6, <2>7, <2>9
  <1>. QED BY <1>1, <1>2

LEMMA LeasingType ==
    ASSUME TypeOK, NEW c \in Conn, Leasing(c)
    PROVE  TypeOK'
  <1>1. ASSUME NEW k \in Key, NEW takeover \in BOOLEAN, AcquireFieldLock(c, k, takeover)
        PROVE  TypeOK'
    <2>1. PICK id \in LeaseId :
             lock' = [lock EXCEPT ![k] =
                 [owner |-> c, id |-> id, left |-> LeaseTicks, base |-> version[k]]]
      BY <1>1 DEF AcquireFieldLock, FreshLeaseIds, TypeOK, Lease
    <2>2. lock' \in [Key -> Lease \cup {None}]
      BY <2>1, TimersAssumption DEF TypeOK, Lease
    <2>. QED BY <1>1, <2>2, TimersAssumption
             DEF AcquireFieldLock, Seen, TypeOK, liveVars, storeVars
  <1>2. ASSUME NEW k \in Key, RenewFieldLock(c, k)
        PROVE  TypeOK'
    <2>1. lock' \in [Key -> Lease \cup {None}]
      BY <1>2, TimersAssumption DEF RenewFieldLock, TypeOK, Lease
    <2>. QED BY <1>2, <2>1, TimersAssumption
             DEF RenewFieldLock, Seen, TypeOK, liveVars, storeVars
  <1>3. ASSUME NEW k \in Key, ReleaseFieldLock(c, k)
        PROVE  TypeOK'
    BY <1>3 DEF ReleaseFieldLock, TypeOK, peerVars, liveVars, storeVars
  <1>4. ASSUME NEW r \in Ref, StartRepair(c, r)
        PROVE  TypeOK'
    <2>. DEFINE q == [card |-> CardOf[r], cards |-> stored.cards]
    <2>1. q \in [card : Card, cards : Cards]
      BY ConstantsAssumption DEF TypeOK
    <2>2. repair' = [repair EXCEPT ![c] = q]
      BY <1>4 DEF StartRepair
    <2>3. repair' \in [Conn -> [card : Card, cards : Cards] \cup {None}]
      <3>. HIDE DEF q
      <3>. QED BY <2>1, <2>2 DEF TypeOK
    <2>. QED BY <1>4, <2>3 DEF StartRepair, TypeOK, peerVars, leaseVars, liveVars
  <1>5. CASE RepairRecord(c)
    <2>1. live' \in LiveState \cup {None}
      BY <1>5, RepairedLive DEF TypeOK
    <2>2. repair' \in [Conn -> [card : Card, cards : Cards] \cup {None}]
      BY <1>5 DEF RepairRecord, TypeOK
    <2>. QED BY <1>5, <2>1, <2>2 DEF RepairRecord, TypeOK, peerVars, leaseVars
  <1>. QED BY <1>1, <1>2, <1>3, <1>4, <1>5 DEF Leasing

LEMMA CommittingType ==
    ASSUME TypeOK, NEW c \in Conn, Committing(c)
    PROVE  TypeOK'
  <1>1. ASSUME NEW r \in Ref, NEW F \in (SUBSET Field) \ {{}}, NEW fill \in BOOLEAN,
               SendFieldCommit(c, r, F, fill)
        PROVE  TypeOK'
    <2>1. \A f \in F : lock[<<r, f>>] \in Lease
      BY <1>1 DEF SendFieldCommit, TypeOK
    <2>2. [f \in Field |-> IF f \in F
              THEN [id |-> lock[<<r, f>>].id, base |-> lock[<<r, f>>].base]
              ELSE None] \in [Field -> Presented \cup {None}]
      BY <2>1 DEF Lease, Presented
    <2>. DEFINE q == [stage |-> "sent", ref |-> r, fields |-> F, fill |-> fill,
                      leases |-> [f \in Field |-> IF f \in F
                         THEN [id |-> lock[<<r, f>>].id, base |-> lock[<<r, f>>].base]
                         ELSE None]]
    <2>3. q \in Request
      BY <2>2 DEF Request
    <2>4. request' = [request EXCEPT ![c] = q]
      BY <1>1 DEF SendFieldCommit
    <2>5. request' \in [Conn -> Request \cup {None}]
      <3>. HIDE DEF q
      <3>. QED BY <2>3, <2>4 DEF TypeOK
    <2>. QED BY <1>1, <2>5 DEF SendFieldCommit, TypeOK, peerVars, liveVars, storeVars
  <1>2. CASE ValidateSlotFill(c)
    <2>. DEFINE q == [request[c] EXCEPT !.stage = "validated"]
    <2>1. request' \in [Conn -> Request \cup {None}]
      <3>1. request[c] \in Request
        BY <1>2 DEF ValidateSlotFill, TypeOK
      <3>2. q \in Request
        BY <3>1 DEF Request
      <3>3. request' = [request EXCEPT ![c] = q]
        BY <1>2 DEF ValidateSlotFill
      <3>. HIDE DEF q
      <3>. QED BY <3>2, <3>3 DEF TypeOK
    <2>. QED BY <1>2, <2>1 DEF ValidateSlotFill, TypeOK, peerVars, liveVars, storeVars
  <1>3. CASE CommitFieldValues(c)
    <2>. DEFINE q == request[c]
                e == EventOf("field-update", c, CardOf[q.ref], q.fields)
                cards == WithFields(CardOf[q.ref], q.fields)
    <2>1. q \in Request
      BY <1>3 DEF CommitFieldValues, TypeOK
    <2>2. CardOf[q.ref] \in Card /\ q.fields \subseteq Field
      BY <2>1, ConstantsAssumption DEF Request
    <2>3. e \in Event
      BY <2>2 DEF EventOf, Event
    <2>4. live # None => cards \in Cards
      BY <2>2, WithFieldsType
    <2>5. Mutate(e, cards)
      BY <1>3 DEF CommitFieldValues
    <2>6. /\ revision' \in Nat
          /\ live' \in LiveState \cup {None}
          /\ event' \in Event \cup {None}
          /\ UNCHANGED <<durable, orphan, stored, save, repair, conns, role, joining>>
      <3>. HIDE DEF q, e, cards
      <3>. QED BY <2>3, <2>4, <2>5, MutateType
    <2>7. /\ version' \in [Key -> Nat]
          /\ lock' \in [Key -> Lease \cup {None}]
          /\ request' \in [Conn -> Request \cup {None}]
          /\ idle' = idle
      BY <1>3 DEF CommitFieldValues, TypeOK
    <2>. QED BY <2>6, <2>7 DEF TypeOK
  <1>4. CASE RejectFieldCommit(c)
    BY <1>4 DEF RejectFieldCommit, TypeOK, peerVars, liveVars, storeVars
  <1>. QED BY <1>1, <1>2, <1>3, <1>4 DEF Committing

\* The rest of a mutation that touches no lease
LEMMA MutationType ==
    ASSUME TypeOK, NEW c \in Conn, NEW e \in Event, NEW cards,
           live # None => cards \in Cards,
           Mutate(e, cards), Seen(c), UNCHANGED leaseVars
    PROVE  TypeOK'
  <1>1. idle' \in [Conn -> 0..IdleTicks]
    BY TimersAssumption DEF Seen, TypeOK
  <1>. QED BY <1>1, MutateType DEF TypeOK, leaseVars

\* Every change an editor makes is a mutation of that kind.
Mutates(c) ==
    \E e \in Event : \E cards :
        /\ live # None => cards \in Cards
        /\ Mutate(e, cards) /\ Seen(c) /\ UNCHANGED leaseVars

LEMMA MutatesBy ==
    ASSUME NEW c \in Conn, NEW e \in Event, NEW cards,
           live # None => cards \in Cards,
           Mutate(e, cards), Seen(c), UNCHANGED leaseVars
    PROVE  Mutates(c)
  BY DEF Mutates

LEMMA MutatingMutates ==
    ASSUME TypeOK, NEW c \in Conn, Mutating(c)
    PROVE  Mutates(c)
  <1>0. \A card \in Card \cup {None}, F \in SUBSET Field,
           type \in {"field-update", "draft-update", "draft-remove", "loaded-update",
                     "create", "loaded-removed", "slot-update", "record-layout",
                     "draft-link"} :
           EventOf(type, c, card, F) \in Event
    BY DEF EventOf, Event
  <1>1. ASSUME NEW card \in Card, NEW F \in SUBSET Field, UpdateDraft(c, card, F)
        PROVE  Mutates(c)
    BY <1>0, <1>1, WithFieldsType, MutatesBy DEF UpdateDraft
  <1>2. ASSUME NEW card \in Card, NEW F \in SUBSET Field, NEW s \in Slot,
               CreateDraft(c, card, F, s)
        PROVE  Mutates(c)
    <2>. DEFINE val == IF Present(card) THEN live.cards[card].val ELSE Blank
                x == [kind |-> "draft", val |-> Stamped(val, F), slot |-> s]
    <2>1. val \in [Field -> Nat]
      BY CardsBasics DEF Present, CardState, Blank
    <2>2. x \in CardState
      <3>1. Stamped(val, F) \in [Field -> Nat]
        BY <2>1, StampedType
      <3>. QED BY <3>1, ConstantsAssumption DEF CardState
    <2>3. live # None => [live.cards EXCEPT ![card] = x] \in Cards
      BY <2>2, PutType
    <2>4. Mutate(EventOf("create", c, card, F), [live.cards EXCEPT ![card] = x])
      BY <1>2 DEF CreateDraft
    <2>. HIDE DEF x
    <2>. QED BY <1>0, <1>2, <2>3, <2>4, MutatesBy DEF CreateDraft
  <1>3. ASSUME NEW card \in Card, RemoveDraft(c, card)
        PROVE  Mutates(c)
    BY <1>0, <1>3, PutType, MutatesBy DEF RemoveDraft
  <1>4. ASSUME NEW card \in Card, NEW F \in SUBSET Field, NEW rebase \in BOOLEAN,
               UpdateLoadedRecord(c, card, F, rebase)
        PROVE  Mutates(c)
    <2>1. CASE rebase
      BY <1>0, <1>4, <2>1, RebasedType, MutatesBy DEF UpdateLoadedRecord
    <2>2. CASE ~rebase
      BY <1>0, <1>4, <2>2, WithFieldsType, MutatesBy DEF UpdateLoadedRecord
    <2>. QED BY <2>1, <2>2
  <1>5. ASSUME NEW card \in Card, NEW dup \in Card \cup {None}, NEW F \in SUBSET Field,
               NEW s \in Slot, CreateLoadedRecord(c, card, dup, F, s)
        PROVE  Mutates(c)
    <2>. DEFINE x == [kind |-> "loaded", val |-> Stamped(Blank, F), slot |-> s]
                e == [EventOf("create", c, card, F) EXCEPT !.dup = dup]
    <2>1. x \in CardState
      <3>1. Stamped(Blank, F) \in [Field -> Nat]
        BY StampedType DEF Blank
      <3>. QED BY <3>1, ConstantsAssumption DEF CardState
    <2>2. live # None => Loaded(card, dup, x) \in Cards
      BY <2>1, LoadedType
    <2>3. Mutate(e, Loaded(card, dup, x))
      BY <1>5 DEF CreateLoadedRecord, Loaded
    <2>4. e \in Event
      BY DEF EventOf, Event
    <2>5. Seen(c) /\ UNCHANGED leaseVars
      BY <1>5 DEF CreateLoadedRecord
    <2>. HIDE DEF x, e
    <2>. QED BY <2>2, <2>3, <2>4, <2>5, MutatesBy
  <1>6. ASSUME NEW card \in Card, RemoveLoadedRecord(c, card)
        PROVE  Mutates(c)
    BY <1>0, <1>6, PutType, MutatesBy DEF RemoveLoadedRecord
  <1>7. ASSUME NEW card \in Card, NEW s \in Slot, UpdateSlot(c, card, s)
        PROVE  Mutates(c)
    BY <1>0, <1>7, WithSlotType, MutatesBy DEF UpdateSlot
  <1>8. ASSUME NEW card \in Card, UpdateLayout(c, card)
        PROVE  Mutates(c)
    BY <1>0, <1>8, CardsBasics, MutatesBy DEF UpdateLayout
  <1>9. CASE UpdateDraftLink(c)
    BY <1>0, <1>9, CardsBasics, MutatesBy DEF UpdateDraftLink
  <1>. QED BY <1>1, <1>2, <1>3, <1>4, <1>5, <1>6, <1>7, <1>8, <1>9 DEF Mutating

LEMMA MutatingType ==
    ASSUME TypeOK, NEW c \in Conn, Mutating(c)
    PROVE  TypeOK'
  <1>1. PICK e \in Event : \E cards :
            /\ live # None => cards \in Cards
            /\ Mutate(e, cards) /\ Seen(c) /\ UNCHANGED leaseVars
    BY MutatingMutates DEF Mutates
  <1>. QED BY <1>1, MutationType

LEMMA SavingType ==
    ASSUME TypeOK, NEW c \in Conn, Saving(c)
    PROVE  TypeOK'
  <1>1. ASSUME NEW anyway \in BOOLEAN, SendSave(c, anyway)
        PROVE  TypeOK'
    <2>1. Shown \subseteq Cards
      BY DEF Shown, TypeOK, LiveState, Cards
    <2>2. PICK cards \in Shown :
             save' = [save EXCEPT ![c] =
                 [stage |-> "sent", cards |-> cards,
                  expected |-> IF anyway THEN None ELSE stored.version]]
      BY <1>1 DEF SendSave
    <2>3. [stage |-> "sent", cards |-> cards,
           expected |-> IF anyway THEN None ELSE stored.version] \in Save
      BY <2>1 DEF Save, TypeOK
    <2>. QED BY <1>1, <2>2, <2>3 DEF SendSave, TypeOK, peerVars, leaseVars, liveVars
  <1>2. CASE StoreSave(c)
    BY <1>2 DEF StoreSave, TypeOK, Save, peerVars, leaseVars, liveVars
  <1>3. CASE RefuseSave(c)
    BY <1>3 DEF RefuseSave, TypeOK, peerVars, leaseVars, liveVars
  <1>4. CASE BroadcastCanvasSaved(c)
    <2>1. save[c] \in Save
      BY <1>4 DEF BroadcastCanvasSaved, TypeOK
    <2>2. live' \in LiveState \cup {None}
      BY <1>4, <2>1 DEF BroadcastCanvasSaved, TypeOK, Save, LiveState
    <2>. QED BY <1>4, <2>2 DEF BroadcastCanvasSaved, TypeOK, peerVars, leaseVars
  <1>. QED BY <1>1, <1>2, <1>3, <1>4 DEF Saving

LEMMA ServerType ==
    ASSUME TypeOK, Server
    PROVE  TypeOK'
  <1>1. CASE SweepIdle
    BY <1>1, LeaveScopeType, ConstantsAssumption DEF SweepIdle, TypeOK
  <1>2. CASE SweepOrphan
    BY <1>2, DiscardType DEF SweepOrphan, TypeOK, peerVars, storeVars
  <1>3. ASSUME NEW w \in Workspace, PurgeWorkspace(w)
        PROVE  TypeOK'
    <2>. DEFINE S == {c \in conns : WorkspaceOf[c] = w}
    <2>1. S \in SUBSET Conn /\ Leave(S)
      BY <1>3 DEF PurgeWorkspace, TypeOK
    <2>2. CASE conns \ S = {}
      <3>1. DiscardCanvasState
        BY <1>3, <2>2 DEF PurgeWorkspace
      <3>. HIDE DEF S
      <3>. QED BY <2>1, <3>1, LeaveType, DiscardType DEF TypeOK
    <2>3. CASE conns \ S # {}
      <3>1. ReleaseConnectionLocks(S) /\ UNCHANGED <<version, liveVars>>
        BY <1>3, <2>3 DEF PurgeWorkspace
      <3>. HIDE DEF S
      <3>2. lock' \in [Key -> Lease \cup {None}]
        BY <3>1 DEF ReleaseConnectionLocks, TypeOK
      <3>. QED BY <2>1, <3>1, <3>2, LeaveType DEF TypeOK, liveVars
    <2>. QED BY <2>2, <2>3
  <1>4. ASSUME NEW u \in User, NEW r \in RolesOf[u] \cup {"revoked"},
               UpdateCanvasAccess(u, r)
        PROVE  TypeOK'
    <2>1. r \in Role
      BY ConstantsAssumption
    <2>2. /\ role' \in [Conn -> Role]
          /\ idle' \in [Conn -> 0..IdleTicks]
      BY <1>4, <2>1, TimersAssumption DEF UpdateCanvasAccess, TypeOK
    <2>. QED BY <1>4, <2>2
             DEF UpdateCanvasAccess, TypeOK, leaseVars, liveVars, storeVars
  <1>5. CASE Tick
    <2>1. \A l \in Lease \cup {None} : Aged(l) \in Lease \cup {None}
      BY TimersAssumption DEF Aged, Lease
    <2>2. lock' \in [Key -> Lease \cup {None}]
      BY <1>5, <2>1 DEF Tick, TypeOK
    <2>3. idle' \in [Conn -> 0..IdleTicks]
      BY <1>5, TimersAssumption DEF Tick, TypeOK
    <2>4. orphan' \in Orphan \cup {None}
      BY <1>5, TimersAssumption DEF Tick, TypeOK
    <2>. QED BY <1>5, <2>2, <2>3, <2>4 DEF Tick, TypeOK, storeVars
  <1>. QED BY <1>1, <1>2, <1>3, <1>4, <1>5 DEF Server

LEMMA NextType == TypeOK /\ [Next]_vars => TypeOK'
  <1>. SUFFICES ASSUME TypeOK, [Next]_vars PROVE TypeOK'
    OBVIOUS
  <1>1. CASE Server
    BY <1>1, ServerType
  <1>2. ASSUME NEW c \in Conn,
               Connection(c) \/ Leasing(c) \/ Committing(c) \/ Mutating(c) \/ Saving(c)
        PROVE  TypeOK'
    BY <1>2, ConnectionType, LeasingType, CommittingType, MutatingType, SavingType
  <1>3. CASE UNCHANGED vars
    BY <1>3 DEF vars, peerVars, leaseVars, liveVars, storeVars, TypeOK
  <1>. QED BY <1>1, <1>2, <1>3 DEF Next

\* Every reachable state has the shape the handlers rely on: the maps of
\* canvas-presence.js, the requests and the saves in flight are well formed.
THEOREM TypeCorrect == Spec => []TypeOK
  <1>. QED BY InitType, NextType, PTL DEF Spec

-----------------------------------------------------------------------------
(* Leases.  The three facts need one another: an accepted commit ends its     *)
(* lease, so the base of a standing lease never falls behind the version, and *)
(* a request that presents a standing lease took its base from it.            *)

LeaseInv == LeasesOfConnected /\ LeaseBaseCurrent /\ PresentedLeaseCurrent

\* Steps that only end leases or let them age, and only drop or advance requests
LEMMA LeasesShrink ==
    ASSUME TypeOK, LeaseInv,
           \A k \in Key : \/ lock'[k] = None
                          \/ /\ lock[k] # None
                             /\ lock'[k].owner = lock[k].owner
                             /\ lock'[k].id = lock[k].id
                             /\ lock'[k].base = lock[k].base
                             /\ version'[k] = version[k]
                             /\ lock[k].owner \in conns',
           \A c \in Conn : \/ request'[c] = None
                           \/ /\ request[c] # None
                              /\ request'[c].ref = request[c].ref
                              /\ request'[c].fields = request[c].fields
                              /\ request'[c].leases = request[c].leases
    PROVE  LeaseInv'
  <1>1. LeasesOfConnected'
    BY DEF LeaseInv, LeasesOfConnected
  <1>2. LeaseBaseCurrent'
    BY DEF LeaseInv, LeaseBaseCurrent
  <1>3. PresentedLeaseCurrent'
    <2>. SUFFICES ASSUME NEW c \in Conn, request'[c] # None,
                         NEW f \in request'[c].fields,
                         lock'[<<request'[c].ref, f>>] # None,
                         lock'[<<request'[c].ref, f>>].id = request'[c].leases[f].id
                  PROVE  version'[<<request'[c].ref, f>>] = request'[c].leases[f].base
      BY DEF PresentedLeaseCurrent
    <2>1. /\ request[c] # None
          /\ request'[c].ref = request[c].ref
          /\ request'[c].fields = request[c].fields
          /\ request'[c].leases = request[c].leases
      OBVIOUS
    <2>2. request[c] \in Request
      BY <2>1 DEF TypeOK
    <2>3. <<request[c].ref, f>> \in Key
      BY <2>1, <2>2 DEF Request
    <2>. QED BY <2>1, <2>3 DEF LeaseInv, PresentedLeaseCurrent
  <1>. QED BY <1>1, <1>2, <1>3 DEF LeaseInv

\* Steps that leave leases, versions and requests alone and disconnect nobody
LEMMA LeasesUnchanged ==
    ASSUME TypeOK, LeaseInv, UNCHANGED leaseVars, conns \subseteq conns'
    PROVE  LeaseInv'
  <1>1. \A k \in Key : lock[k] # None => lock[k].owner \in conns'
    BY DEF LeaseInv, LeasesOfConnected
  <1>. QED BY <1>1, LeasesShrink DEF leaseVars

\* Leaving: the leases of those who leave end, or all of them do.
LEMMA LeavingLeases ==
    ASSUME TypeOK, LeaseInv, NEW S, Leave(S),
           \/ lock' = [k \in Key |-> None]
           \/ ReleaseConnectionLocks(S) /\ UNCHANGED version
    PROVE  LeaseInv'
  <1>1. \A k \in Key : \/ lock'[k] = None
                       \/ /\ lock[k] # None
                          /\ lock'[k] = lock[k]
                          /\ version'[k] = version[k]
                          /\ lock[k].owner \in conns'
    BY DEF LeaseInv, LeasesOfConnected, Leave, ReleaseConnectionLocks
  <1>2. \A c \in Conn : request'[c] = None \/ request'[c] = request[c]
    BY DEF Leave
  <1>. QED BY <1>1, <1>2, LeasesShrink

LEMMA LeaveScopeLeases ==
    ASSUME TypeOK, LeaseInv, NEW S, NEW w, LeaveScope(S, w)
    PROVE  LeaseInv'
  BY LeavingLeases DEF LeaveScope, EmptyScope, DiscardCanvasState, liveVars

\* A lease won afresh: no request in flight can present it.
LEMMA AcquireLeases ==
    ASSUME TypeOK, LeaseInv, NEW c \in Conn, NEW k \in Key, NEW takeover,
           AcquireFieldLock(c, k, takeover)
    PROVE  LeaseInv'
  <1>. DEFINE mine == lock[k] # None /\ lock[k].owner = c
  <1>1. PICK id \in IF mine THEN {lock[k].id} ELSE FreshLeaseIds :
           lock' = [lock EXCEPT ![k] =
               [owner |-> c, id |-> id, left |-> LeaseTicks, base |-> version[k]]]
    BY DEF AcquireFieldLock
  <1>2. /\ lock'[k] = [owner |-> c, id |-> id, left |-> LeaseTicks, base |-> version[k]]
        /\ \A j \in Key : j # k => lock'[j] = lock[j]
    BY <1>1 DEF TypeOK
  <1>3. c \in conns /\ UNCHANGED <<conns, version, request>>
    BY DEF AcquireFieldLock
  <1>4. LeasesOfConnected'
    BY <1>2, <1>3 DEF LeaseInv, LeasesOfConnected
  <1>5. LeaseBaseCurrent'
    BY <1>2, <1>3 DEF LeaseInv, LeaseBaseCurrent
  <1>6. PresentedLeaseCurrent'
    <2>. SUFFICES ASSUME NEW d \in Conn, request[d] # None, NEW f \in request[d].fields,
                         NEW j, j = <<request[d].ref, f>>,
                         lock'[j] # None, lock'[j].id = request[d].leases[f].id
                  PROVE  version[j] = request[d].leases[f].base
      BY <1>3 DEF PresentedLeaseCurrent
    <2>1. request[d] \in Request
      BY DEF TypeOK
    <2>2. j \in Key
      BY <2>1 DEF Request
    <2>3. CASE j # k
      BY <1>2, <2>2, <2>3 DEF LeaseInv, PresentedLeaseCurrent
    <2>4. CASE j = k /\ mine
      <3>1. lock[j].id = request[d].leases[f].id
        BY <1>1, <1>2, <2>4
      <3>. QED BY <2>4, <3>1 DEF LeaseInv, PresentedLeaseCurrent
    <2>5. CASE j = k /\ ~mine
      <3>1. id \in FreshLeaseIds
        BY <1>1, <2>5
      <3>2. request[d].leases[f].id # id
        BY <3>1 DEF FreshLeaseIds
      <3>. QED BY <1>2, <2>5, <3>2
    <2>. QED BY <2>3, <2>4, <2>5
  <1>. QED BY <1>4, <1>5, <1>6 DEF LeaseInv

LEMMA SendLeases ==
    ASSUME TypeOK, LeaseInv, NEW c \in Conn, NEW r \in Ref, NEW F \in SUBSET Field,
           NEW fill, SendFieldCommit(c, r, F, fill)
    PROVE  LeaseInv'
  <1>1. UNCHANGED <<conns, lock, version>>
    BY DEF SendFieldCommit, peerVars
  <1>2. LeasesOfConnected' /\ LeaseBaseCurrent'
    BY <1>1 DEF LeaseInv, LeasesOfConnected, LeaseBaseCurrent
  <1>3. PresentedLeaseCurrent'
    <2>. SUFFICES ASSUME NEW d \in Conn, request'[d] # None, NEW f \in request'[d].fields,
                         lock[<<request'[d].ref, f>>] # None,
                         lock[<<request'[d].ref, f>>].id = request'[d].leases[f].id
                  PROVE  version[<<request'[d].ref, f>>] = request'[d].leases[f].base
      BY <1>1 DEF PresentedLeaseCurrent
    <2>1. CASE d # c
      <3>1. request'[d] = request[d]
        BY <2>1 DEF SendFieldCommit, TypeOK
      <3>. QED BY <3>1 DEF LeaseInv, PresentedLeaseCurrent
    <2>2. CASE d = c
      <3>1. request'[d] = [stage |-> "sent", ref |-> r, fields |-> F, fill |-> fill,
               leases |-> [g \in Field |-> IF g \in F
                  THEN [id |-> lock[<<r, g>>].id, base |-> lock[<<r, g>>].base]
                  ELSE None]]
        BY <2>2 DEF SendFieldCommit, TypeOK
      <3>2. f \in F /\ f \in Field /\ request'[d].ref = r
        BY <3>1
      <3>3. request'[d].leases[f].base = lock[<<r, f>>].base
        BY <3>1, <3>2
      <3>4. <<r, f>> \in Key /\ lock[<<r, f>>] # None
        BY <3>2
      <3>. QED BY <3>2, <3>3, <3>4 DEF LeaseInv, LeaseBaseCurrent
    <2>. QED BY <2>1, <2>2
  <1>. QED BY <1>2, <1>3 DEF LeaseInv

LEMMA CommitLeases ==
    ASSUME TypeOK, LeaseInv, NEW c \in Conn, CommitFieldValues(c)
    PROVE  LeaseInv'
  <1>1. \A k \in Key : \/ lock'[k] = None
                       \/ lock'[k] = lock[k] /\ version'[k] = version[k]
    BY DEF CommitFieldValues, TypeOK
  <1>2. \A d \in Conn : request'[d] = None \/ request'[d] = request[d]
    BY DEF CommitFieldValues, TypeOK
  <1>3. conns' = conns
    BY DEF CommitFieldValues, Mutate
  <1>4. \A k \in Key : lock[k] # None => lock[k].owner \in conns'
    BY <1>3 DEF LeaseInv, LeasesOfConnected
  <1>. QED BY <1>1, <1>2, <1>4, LeasesShrink

LEMMA NextLeases == TypeOK /\ LeaseInv /\ [Next]_vars => LeaseInv'
  <1>. SUFFICES ASSUME TypeOK, LeaseInv, [Next]_vars PROVE LeaseInv'
    OBVIOUS
  <1>1. CASE SweepIdle
    BY <1>1, LeaveScopeLeases DEF SweepIdle
  <1>2. CASE SweepOrphan
    BY <1>2, LeasesShrink DEF SweepOrphan, DiscardCanvasState
  <1>3. ASSUME NEW w \in Workspace, PurgeWorkspace(w)
        PROVE  LeaseInv'
    <2>1. PICK S : /\ Leave(S)
                   /\ IF conns \ S = {}
                      THEN DiscardCanvasState
                      ELSE ReleaseConnectionLocks(S) /\ UNCHANGED <<version, liveVars>>
      BY <1>3 DEF PurgeWorkspace
    <2>. QED BY <2>1, LeavingLeases DEF DiscardCanvasState
  <1>4. ASSUME NEW u, NEW r, UpdateCanvasAccess(u, r)
        PROVE  LeaseInv'
    BY <1>4, LeasesUnchanged DEF UpdateCanvasAccess
  <1>5. CASE Tick
    <2>1. \A k \in Key : \/ Aged(lock[k]) = None
                         \/ /\ lock[k] # None
                            /\ Aged(lock[k]).owner = lock[k].owner
                            /\ Aged(lock[k]).id = lock[k].id
                            /\ Aged(lock[k]).base = lock[k].base
      <3>. SUFFICES ASSUME NEW k \in Key, lock[k] # None, lock[k] \in Lease
                    PROVE  \/ Aged(lock[k]) = None
                           \/ /\ Aged(lock[k]).owner = lock[k].owner
                              /\ Aged(lock[k]).id = lock[k].id
                              /\ Aged(lock[k]).base = lock[k].base
        BY DEF Aged, TypeOK
      <3>. QED BY DEF Aged, Lease
    <2>2. /\ \A k \in Key : lock'[k] = Aged(lock[k])
          /\ UNCHANGED <<conns, version, request>>
      BY <1>5 DEF Tick
    <2>3. \A k \in Key : lock[k] # None => lock[k].owner \in conns'
      BY <2>2 DEF LeaseInv, LeasesOfConnected
    <2>. QED BY <2>1, <2>2, <2>3, LeasesShrink
  <1>6. ASSUME NEW c \in Conn, Connection(c)
        PROVE  LeaseInv'
    <2>1. CASE StartSubscribe(c) \/ KeepAlive(c)
      BY <2>1, LeasesUnchanged DEF StartSubscribe, KeepAlive
    <2>2. CASE Subscribe(c)
      <3>1. \/ lock' = [k \in Key |-> None]
            \/ UNCHANGED <<lock, version>>
        BY <2>2 DEF Subscribe, DiscardCanvasState
      <3>2. conns \subseteq conns' /\ UNCHANGED request
        BY <2>2 DEF Subscribe
      <3>3. CASE lock' = [k \in Key |-> None]
        BY <3>2, <3>3, LeasesShrink
      <3>4. CASE UNCHANGED <<lock, version>>
        BY <3>2, <3>4, LeasesUnchanged DEF leaseVars
      <3>. QED BY <3>1, <3>3, <3>4
    <2>3. CASE Unsubscribe(c)
      BY <2>3, LeaveScopeLeases DEF Unsubscribe
    <2>. QED BY <1>6, <2>1, <2>2, <2>3 DEF Connection
  <1>7. ASSUME NEW c \in Conn, Leasing(c)
        PROVE  LeaseInv'
    <2>1. ASSUME NEW k \in Key, NEW takeover \in BOOLEAN, AcquireFieldLock(c, k, takeover)
          PROVE  LeaseInv'
      BY <2>1, AcquireLeases
    <2>2. ASSUME NEW k \in Key, RenewFieldLock(c, k)
          PROVE  LeaseInv'
      <3>1. lock[k] \in Lease /\ lock' = [lock EXCEPT ![k].left = LeaseTicks]
        BY <2>2 DEF RenewFieldLock, TypeOK
      <3>2. \A j \in Key : /\ lock'[j].owner = lock[j].owner
                           /\ lock'[j].id = lock[j].id
                           /\ lock'[j].base = lock[j].base
                           /\ lock[j] = None => lock'[j] = None
        BY <2>2, <3>1 DEF RenewFieldLock, TypeOK, Lease
      <3>3. UNCHANGED <<conns, version, request>>
        BY <2>2 DEF RenewFieldLock
      <3>4. \A j \in Key : lock[j] # None => lock[j].owner \in conns'
        BY <3>3 DEF LeaseInv, LeasesOfConnected
      <3>. QED BY <3>2, <3>3, <3>4, LeasesShrink
    <2>3. ASSUME NEW k \in Key, ReleaseFieldLock(c, k)
          PROVE  LeaseInv'
      <3>1. \A j \in Key : lock'[j] = None \/ lock'[j] = lock[j]
        BY <2>3 DEF ReleaseFieldLock, TypeOK
      <3>2. UNCHANGED <<conns, version, request>>
        BY <2>3 DEF ReleaseFieldLock, peerVars
      <3>3. \A j \in Key : lock[j] # None => lock[j].owner \in conns'
        BY <3>2 DEF LeaseInv, LeasesOfConnected
      <3>. QED BY <3>1, <3>2, <3>3, LeasesShrink
    <2>4. ASSUME NEW r \in Ref, StartRepair(c, r)
          PROVE  LeaseInv'
      BY <2>4, LeasesUnchanged DEF StartRepair, peerVars
    <2>5. CASE RepairRecord(c)
      BY <2>5, LeasesUnchanged DEF RepairRecord, peerVars
    <2>. QED BY <1>7, <2>1, <2>2, <2>3, <2>4, <2>5 DEF Leasing
  <1>8. ASSUME NEW c \in Conn, Committing(c)
        PROVE  LeaseInv'
    <2>1. ASSUME NEW r \in Ref, NEW F \in SUBSET Field, NEW fill \in BOOLEAN,
                 SendFieldCommit(c, r, F, fill)
          PROVE  LeaseInv'
      BY <2>1, SendLeases
    <2>2. CASE ValidateSlotFill(c) \/ RejectFieldCommit(c)
      <3>1. UNCHANGED <<conns, lock, version>>
        BY <2>2 DEF ValidateSlotFill, RejectFieldCommit, peerVars
      <3>2. \A d \in Conn : \/ request'[d] = None
                            \/ /\ request[d] # None
                               /\ request'[d].ref = request[d].ref
                               /\ request'[d].fields = request[d].fields
                               /\ request'[d].leases = request[d].leases
        BY <2>2 DEF ValidateSlotFill, RejectFieldCommit, TypeOK, Request
      <3>3. \A k \in Key : lock[k] # None => lock[k].owner \in conns'
        BY <3>1 DEF LeaseInv, LeasesOfConnected
      <3>. QED BY <3>1, <3>2, <3>3, LeasesShrink
    <2>3. CASE CommitFieldValues(c)
      BY <2>3, CommitLeases
    <2>. QED BY <1>8, <2>1, <2>2, <2>3 DEF Committing
  <1>9. ASSUME NEW c \in Conn, Mutating(c)
        PROVE  LeaseInv'
    <2>1. UNCHANGED leaseVars /\ conns' = conns
      BY <1>9 DEF Mutating, UpdateDraft, CreateDraft, RemoveDraft, UpdateLoadedRecord,
                  CreateLoadedRecord, RemoveLoadedRecord, UpdateSlot, UpdateLayout,
                  UpdateDraftLink, Mutate
    <2>. QED BY <2>1, LeasesUnchanged
  <1>10. ASSUME NEW c \in Conn, Saving(c)
         PROVE  LeaseInv'
    <2>1. UNCHANGED leaseVars /\ conns' = conns
      BY <1>10 DEF Saving, SendSave, StoreSave, RefuseSave, BroadcastCanvasSaved, peerVars
    <2>. QED BY <2>1, LeasesUnchanged
  <1>11. CASE UNCHANGED vars
    BY <1>11, LeasesUnchanged DEF vars, peerVars
  <1>. QED BY <1>1, <1>2, <1>3, <1>4, <1>5, <1>6, <1>7, <1>8, <1>9, <1>10, <1>11
           DEF Next, Server

LEMMA InitLeases == Init => LeaseInv
  BY DEF Init, LeaseInv, LeasesOfConnected, LeaseBaseCurrent, PresentedLeaseCurrent

\* A lease belongs to a live connection, however connections come and go.
THEOREM LeasesAlwaysOfConnected == Spec => []LeasesOfConnected
  <1>1. LeaseInv => LeasesOfConnected
    BY DEF LeaseInv
  <1>. QED BY <1>1, InitLeases, NextLeases, TypeCorrect, PTL DEF Spec

\* The base version of a standing lease is the field's current version.
THEOREM LeaseBaseAlwaysCurrent == Spec => []LeaseBaseCurrent
  <1>1. LeaseInv => LeaseBaseCurrent
    BY DEF LeaseInv
  <1>. QED BY <1>1, InitLeases, NextLeases, TypeCorrect, PTL DEF Spec

\* A commit that presents a standing lease was prepared on the current version:
\* no commit of somebody else is overwritten unseen under a lease.
THEOREM PresentedLeaseAlwaysCurrent == Spec => []PresentedLeaseCurrent
  <1>1. LeaseInv => PresentedLeaseCurrent
    BY DEF LeaseInv
  <1>. QED BY <1>1, InitLeases, NextLeases, TypeCorrect, PTL DEF Spec

-----------------------------------------------------------------------------
(* The scope's counters and the handoff of unsaved work *)

ScopeInv == RevisionsOrdered /\ OrphanIsAbandoned

LEMMA DiscardScope ==
    ASSUME DiscardCanvasState
    PROVE  ScopeInv'
  BY DEF DiscardCanvasState, ScopeInv, RevisionsOrdered, OrphanIsAbandoned, HasUnsavedEdits

\* Steps that leave the scope's payload and counters alone, and nobody leaves
LEMMA ScopeUnchanged ==
    ASSUME ScopeInv, UNCHANGED <<conns, version, liveVars>>,
           orphan # None => lock' = lock
    PROVE  ScopeInv'
  BY DEF ScopeInv, RevisionsOrdered, OrphanIsAbandoned, HasUnsavedEdits, liveVars

\* Nobody is connected to an orphaned scope.
LEMMA ConnectedNotOrphaned ==
    ASSUME ScopeInv, conns # {}
    PROVE  orphan = None
  BY DEF ScopeInv, OrphanIsAbandoned

LEMMA EmptyScopeScope ==
    ASSUME TypeOK, ScopeInv, NEW w \in Workspace, EmptyScope(w), conns' = {}
    PROVE  ScopeInv'
  <1>1. CASE HasUnsavedEdits
    <2>1. orphan' # None
      BY <1>1, NoneAssumption, TimersAssumption DEF EmptyScope
    <2>. QED BY <1>1, <2>1 DEF EmptyScope, TypeOK, ScopeInv, RevisionsOrdered,
                               OrphanIsAbandoned, HasUnsavedEdits
  <1>2. CASE ~HasUnsavedEdits
    BY <1>2, DiscardScope DEF EmptyScope
  <1>. QED BY <1>1, <1>2

LEMMA LeaveScopeScope ==
    ASSUME TypeOK, ScopeInv, NEW S \in SUBSET conns, S # {}, NEW w \in Workspace,
           LeaveScope(S, w)
    PROVE  ScopeInv'
  <1>1. CASE conns \ S = {}
    BY <1>1, EmptyScopeScope DEF LeaveScope, Leave
  <1>2. CASE conns \ S # {}
    <2>1. orphan = None /\ conns' # {}
      BY <1>2, ConnectedNotOrphaned DEF LeaveScope, Leave
    <2>2. UNCHANGED <<version, liveVars>>
      BY <1>2 DEF LeaveScope
    <2>. QED BY <2>1, <2>2 DEF ScopeInv, RevisionsOrdered, OrphanIsAbandoned, liveVars
  <1>. QED BY <1>1, <1>2

\* A mutation: the revision and the live payload move on together.
MovedOn ==
    /\ revision' = revision + 1
    /\ live' # None => live'.revision = revision + 1
    /\ UNCHANGED <<conns, durable, orphan>>

LEMMA MutateMovesOn ==
    ASSUME NEW e, NEW cards, Mutate(e, cards)
    PROVE  MovedOn
  BY DEF Mutate, MovedOn

LEMMA MovedOnScope ==
    ASSUME TypeOK, ScopeInv, conns # {}, MovedOn,
           \A k \in Key : version'[k] = version[k] \/ version'[k] = revision + 1
    PROVE  ScopeInv'
  <1>1. orphan = None
    BY ConnectedNotOrphaned
  <1>. QED BY <1>1 DEF MovedOn, TypeOK, ScopeInv, RevisionsOrdered, OrphanIsAbandoned

LEMMA NextScope == TypeOK /\ LeasesOfConnected /\ ScopeInv /\ [Next]_vars => ScopeInv'
  <1>. SUFFICES ASSUME TypeOK, LeasesOfConnected, ScopeInv, [Next]_vars PROVE ScopeInv'
    OBVIOUS
  <1>1. CASE SweepIdle
    <2>. DEFINE S == {c \in conns : idle[c] = IdleTicks}
    <2>1. PICK c \in conns : S # {} /\ LeaveScope(S, WorkspaceOf[c])
      BY <1>1 DEF SweepIdle
    <2>2. WorkspaceOf[c] \in Workspace /\ S \in SUBSET conns
      BY <2>1, ConstantsAssumption DEF TypeOK
    <2>. HIDE DEF S
    <2>. QED BY <2>1, <2>2, LeaveScopeScope
  <1>2. CASE SweepOrphan
    BY <1>2, DiscardScope DEF SweepOrphan
  <1>3. ASSUME NEW w \in Workspace, PurgeWorkspace(w)
        PROVE  ScopeInv'
    <2>. DEFINE S == {c \in conns : WorkspaceOf[c] = w}
    <2>1. CASE conns \ S = {}
      BY <1>3, <2>1, DiscardScope DEF PurgeWorkspace
    <2>2. CASE conns \ S # {}
      <3>1. orphan = None
        BY <2>2, ConnectedNotOrphaned
      <3>2. conns' # {} /\ UNCHANGED <<version, liveVars>>
        BY <1>3, <2>2 DEF PurgeWorkspace, Leave
      <3>. QED BY <3>1, <3>2 DEF ScopeInv, RevisionsOrdered, OrphanIsAbandoned, liveVars
    <2>. QED BY <2>1, <2>2
  <1>4. ASSUME NEW u, NEW r, UpdateCanvasAccess(u, r)
        PROVE  ScopeInv'
    BY <1>4, ScopeUnchanged DEF UpdateCanvasAccess, leaseVars
  <1>5. CASE Tick
    <2>1. UNCHANGED <<conns, version, revision, durable, live>>
      BY <1>5 DEF Tick
    <2>2. orphan' = None <=> orphan = None
      <3>1. CASE orphan = None
        BY <1>5, <3>1 DEF Tick
      <3>2. CASE orphan # None
        <4>1. orphan' \in Orphan
          BY <1>5, <3>2, TimersAssumption DEF Tick, TypeOK
        <4>. QED BY <3>2, <4>1, NoneAssumption
      <3>. QED BY <3>1, <3>2
    <2>3. \A k \in Key : lock[k] = None => lock'[k] = None
      BY <1>5 DEF Tick, Aged
    <2>. QED BY <2>1, <2>2, <2>3
             DEF ScopeInv, RevisionsOrdered, OrphanIsAbandoned, HasUnsavedEdits
  <1>6. ASSUME NEW c \in Conn, Connection(c)
        PROVE  ScopeInv'
    <2>1. CASE StartSubscribe(c) \/ KeepAlive(c)
      BY <2>1, ScopeUnchanged DEF StartSubscribe, KeepAlive, leaseVars
    <2>2. CASE Subscribe(c)
      <3>1. CASE orphan # None /\ orphan.workspace # WorkspaceOf[c]
        BY <2>2, <3>1, DiscardScope DEF Subscribe
      <3>2. CASE ~(orphan # None /\ orphan.workspace # WorkspaceOf[c])
        <4>1. /\ live' = Seeded(c)
              /\ orphan' = None
              /\ UNCHANGED <<revision, durable, lock, version>>
          BY <2>2, <3>2 DEF Subscribe
        <4>2. Seeded(c) # None => Seeded(c).revision <= revision
          BY DEF Seeded, TypeOK, ScopeInv, RevisionsOrdered
        <4>3. c \in conns'
          BY <2>2 DEF Subscribe
        <4>. QED BY <4>1, <4>2, <4>3 DEF ScopeInv, RevisionsOrdered, OrphanIsAbandoned
      <3>. QED BY <3>1, <3>2
    <2>3. CASE Unsubscribe(c)
      <3>1. {c} \in SUBSET conns /\ WorkspaceOf[c] \in Workspace
        BY <2>3, ConstantsAssumption DEF Unsubscribe
      <3>. QED BY <2>3, <3>1, LeaveScopeScope DEF Unsubscribe
    <2>. QED BY <1>6, <2>1, <2>2, <2>3 DEF Connection
  <1>7. ASSUME NEW c \in Conn, Leasing(c)
        PROVE  ScopeInv'
    <2>1. CASE RepairRecord(c)
      <3>1. UNCHANGED <<conns, lock, version, revision, durable, orphan>>
        BY <2>1 DEF RepairRecord, peerVars, leaseVars
      <3>2. \/ live' = live
            \/ live # None /\ live' \in LiveState /\ live'.revision = live.revision
        BY <2>1, RepairedLive
      <3>. QED BY <3>1, <3>2, NoneAssumption
               DEF ScopeInv, RevisionsOrdered, OrphanIsAbandoned, HasUnsavedEdits
    <2>2. CASE ~RepairRecord(c)
      <3>1. c \in conns /\ UNCHANGED <<conns, version, liveVars>>
        BY <1>7, <2>2 DEF Leasing, AcquireFieldLock, RenewFieldLock, ReleaseFieldLock,
                          StartRepair, peerVars, leaseVars
      <3>2. orphan = None
        BY <3>1, ConnectedNotOrphaned
      <3>. QED BY <3>1, <3>2 DEF ScopeInv, RevisionsOrdered, OrphanIsAbandoned, liveVars
    <2>. QED BY <2>1, <2>2
  <1>8. ASSUME NEW c \in Conn, Committing(c)
        PROVE  ScopeInv'
    <2>1. CASE CommitFieldValues(c)
      <3>1. \A k \in Key : version'[k] = version[k] \/ version'[k] = revision + 1
        BY <2>1 DEF CommitFieldValues
      <3>0. request[c] \in Request
        BY <2>1 DEF CommitFieldValues, TypeOK
      <3>2. PICK f \in request[c].fields : TRUE
        BY <3>0 DEF Request
      <3>3. <<request[c].ref, f>> \in Key
        BY <3>0, <3>2 DEF Request
      <3>4. c \in conns
        BY <2>1, <3>2, <3>3 DEF CommitFieldValues, ValidFieldCommit, LeasesOfConnected
      <3>5. MovedOn
        BY <2>1, MutateMovesOn DEF CommitFieldValues
      <3>. QED BY <3>1, <3>4, <3>5, MovedOnScope
    <2>2. CASE ~CommitFieldValues(c)
      <3>1. UNCHANGED <<conns, lock, version, liveVars>>
        BY <1>8, <2>2 DEF Committing, SendFieldCommit, ValidateSlotFill,
                          RejectFieldCommit, peerVars
      <3>. QED BY <3>1, ScopeUnchanged
    <2>. QED BY <2>1, <2>2
  <1>9. ASSUME NEW c \in Conn, Mutating(c)
        PROVE  ScopeInv'
    <2>1. /\ c \in conns
          /\ version' = version
          /\ MovedOn
      BY <1>9, MutateMovesOn DEF Mutating, UpdateDraft, CreateDraft, RemoveDraft, UpdateLoadedRecord,
                  CreateLoadedRecord, RemoveLoadedRecord, UpdateSlot, UpdateLayout,
                  UpdateDraftLink, CanMutate, leaseVars
    <2>. QED BY <2>1, MovedOnScope
  <1>10. ASSUME NEW c \in Conn, Saving(c)
         PROVE  ScopeInv'
    <2>1. CASE BroadcastCanvasSaved(c)
      <3>. DEFINE published == [revision |-> revision, cards |-> save[c].cards]
      <3>1. published # None /\ published.revision = revision
        <4>1. save[c] \in Save
          BY <2>1 DEF BroadcastCanvasSaved, TypeOK
        <4>2. published \in LiveState
          BY <4>1 DEF TypeOK, Save, LiveState
        <4>. QED BY <4>2, NoneAssumption
      <3>2. /\ durable' = revision
            /\ live' = live \/ live' = published
            /\ UNCHANGED <<conns, lock, version, revision, orphan>>
        BY <2>1 DEF BroadcastCanvasSaved, peerVars, leaseVars
      <3>. HIDE DEF published
      <3>3. /\ live # None => live' # None
            /\ live' # None => live'.revision \in Nat /\ live'.revision <= revision'
        <4>1. live # None => live \in LiveState /\ live.revision <= revision
          BY DEF TypeOK, ScopeInv, RevisionsOrdered
        <4>. QED BY <3>1, <3>2, <4>1 DEF TypeOK, LiveState
      <3>4. ~HasUnsavedEdits'
        BY <3>2, <3>3 DEF HasUnsavedEdits, TypeOK
      <3>. QED BY <3>2, <3>3, <3>4 DEF TypeOK, ScopeInv, RevisionsOrdered, OrphanIsAbandoned
    <2>2. CASE ~BroadcastCanvasSaved(c)
      BY <1>10, <2>2, ScopeUnchanged
      DEF Saving, SendSave, StoreSave, RefuseSave, peerVars, leaseVars
    <2>. QED BY <2>1, <2>2
  <1>11. CASE UNCHANGED vars
    BY <1>11, ScopeUnchanged DEF vars, peerVars, leaseVars
  <1>. QED BY <1>1, <1>2, <1>3, <1>4, <1>5, <1>6, <1>7, <1>8, <1>9, <1>10, <1>11
           DEF Next, Server

LEMMA InitScope == Init => ScopeInv
  BY DEF Init, ScopeInv, RevisionsOrdered, OrphanIsAbandoned, HasUnsavedEdits

\* Nothing in a scope is ever ahead of its revision.
THEOREM RevisionsAlwaysOrdered == Spec => []RevisionsOrdered
  <1>1. ScopeInv => RevisionsOrdered
    BY DEF ScopeInv
  <1>. QED BY <1>1, InitScope, NextScope, TypeCorrect, LeasesAlwaysOfConnected, PTL DEF Spec

\* A scope is orphaned exactly when it keeps work for somebody to come back to.
THEOREM OrphansAlwaysAbandoned == Spec => []OrphanIsAbandoned
  <1>1. ScopeInv => OrphanIsAbandoned
    BY DEF ScopeInv
  <1>. QED BY <1>1, InitScope, NextScope, TypeCorrect, LeasesAlwaysOfConnected, PTL DEF Spec

-----------------------------------------------------------------------------
(* What subscribers work on *)

\* A live payload is not given up, and nobody subscribes.
ViewStays == (live # None => live' # None) /\ conns' \subseteq conns

LEMMA ViewStaysKept == ViewStays => LiveViewKept
  BY DEF ViewStays, LiveViewKept

\* The steps of somebody who works
LEMMA LiveUnchangedStays ==
    ASSUME UNCHANGED <<conns, live>> PROVE ViewStays
  BY DEF ViewStays

LEMMA MutateStays ==
    ASSUME TypeOK, NEW e, NEW cards, live # None => cards \in Cards, Mutate(e, cards)
    PROVE  ViewStays
  <1>1. UNCHANGED conns
    BY DEF Mutate
  <1>2. live # None => live' \in LiveState
    BY DEF Mutate, LiveState, TypeOK
  <1>. QED BY <1>1, <1>2, NoneAssumption DEF ViewStays

LEMMA LeaveScopeView ==
    ASSUME NEW S, NEW w, LeaveScope(S, w) PROVE LiveViewKept
  <1>1. CASE conns \ S = {}
    BY <1>1 DEF LeaveScope, Leave, LiveViewKept
  <1>2. CASE conns \ S # {}
    BY <1>2, ViewStaysKept DEF LeaveScope, Leave, ViewStays, liveVars
  <1>. QED BY <1>1, <1>2

\* A subscription ends with a payload, or meets one of the two cases.
LEMMA SubscribeView ==
    ASSUME TypeOK, OrphanIsAbandoned, NEW c \in Conn, Subscribe(c)
    PROVE  LiveViewKept
  <1>1. CASE c \in conns
    <2>1. conns' = conns /\ orphan = None
      BY <1>1 DEF Subscribe, OrphanIsAbandoned
    <2>2. live' = Seeded(c) /\ joining[c] \in [role : Role, cards : Cards]
      BY <2>1 DEF Subscribe, TypeOK
    <2>3. live # None => Seeded(c) \in LiveState
      BY <2>2 DEF Seeded, LiveState, TypeOK
    <2>. QED BY <2>1, <2>2, <2>3, ViewStaysKept, NoneAssumption DEF ViewStays
  <1>2. CASE c \notin conns
    <2>1. conns' \ conns = {c} /\ joining[c] \in [role : Role, cards : Cards]
      BY <1>2 DEF Subscribe, TypeOK
    <2>2. CASE orphan # None /\ orphan.workspace # WorkspaceOf[c]
      BY <2>1, <2>2 DEF LiveViewKept
    <2>3. CASE ~(orphan # None /\ orphan.workspace # WorkspaceOf[c])
      <3>1. live' = Seeded(c)
        BY <2>3 DEF Subscribe
      <3>2. live # None \/ ValidLiveSnapshot(joining[c].cards) => Seeded(c) \in LiveState
        BY <2>1 DEF Seeded, LiveState, TypeOK
      <3>. QED BY <2>1, <3>1, <3>2, NoneAssumption DEF LiveViewKept
    <2>. QED BY <2>2, <2>3
  <1>. QED BY <1>1, <1>2

LEMMA NextView == TypeOK /\ OrphanIsAbandoned /\ Next => LiveViewKept
  <1>. SUFFICES ASSUME TypeOK, OrphanIsAbandoned, Next PROVE LiveViewKept
    OBVIOUS
  <1>1. CASE SweepIdle
    BY <1>1, LeaveScopeView DEF SweepIdle
  <1>2. CASE SweepOrphan
    <2>1. conns' = {}
      BY <1>2 DEF SweepOrphan, OrphanIsAbandoned, peerVars
    <2>. QED BY <2>1 DEF LiveViewKept
  <1>3. ASSUME NEW w \in Workspace, PurgeWorkspace(w) PROVE LiveViewKept
    <2>. DEFINE S == {c \in conns : WorkspaceOf[c] = w}
    <2>1. conns' = conns \ S
      BY <1>3 DEF PurgeWorkspace, Leave
    <2>2. CASE conns \ S = {}
      BY <2>1, <2>2 DEF LiveViewKept
    <2>3. CASE conns \ S # {}
      BY <1>3, <2>1, <2>3, ViewStaysKept DEF PurgeWorkspace, ViewStays, liveVars
    <2>. QED BY <2>2, <2>3
  <1>4. ASSUME NEW u, NEW r, UpdateCanvasAccess(u, r) PROVE LiveViewKept
    BY <1>4, LiveUnchangedStays, ViewStaysKept DEF UpdateCanvasAccess, liveVars
  <1>5. CASE Tick
    BY <1>5, LiveUnchangedStays, ViewStaysKept DEF Tick
  <1>6. ASSUME NEW c \in Conn, Connection(c) PROVE LiveViewKept
    <2>1. CASE StartSubscribe(c) \/ KeepAlive(c)
      BY <2>1, LiveUnchangedStays, ViewStaysKept DEF StartSubscribe, KeepAlive, liveVars
    <2>2. CASE Subscribe(c)
      BY <2>2, SubscribeView
    <2>3. CASE Unsubscribe(c)
      BY <2>3, LeaveScopeView DEF Unsubscribe
    <2>. QED BY <1>6, <2>1, <2>2, <2>3 DEF Connection
  <1>7. ASSUME NEW c \in Conn, Leasing(c) PROVE LiveViewKept
    <2>1. CASE RepairRecord(c)
      <3>1. UNCHANGED conns
        BY <2>1 DEF RepairRecord, peerVars
      <3>2. live' = live \/ (live # None /\ live' \in LiveState)
        BY <2>1, RepairedLive
      <3>. QED BY <3>1, <3>2, ViewStaysKept, NoneAssumption DEF ViewStays
    <2>2. CASE ~RepairRecord(c)
      BY <1>7, <2>2, LiveUnchangedStays, ViewStaysKept
      DEF Leasing, AcquireFieldLock, RenewFieldLock, ReleaseFieldLock, StartRepair, peerVars, liveVars
    <2>. QED BY <2>1, <2>2
  <1>8. ASSUME NEW c \in Conn, Committing(c) PROVE LiveViewKept
    <2>1. CASE CommitFieldValues(c)
      <3>1. request[c] \in Request
        BY <2>1 DEF CommitFieldValues, TypeOK
      <3>2. CardOf[request[c].ref] \in Card /\ request[c].fields \in SUBSET Field
        BY <3>1, ConstantsAssumption DEF Request
      <3>3. live # None => WithFields(CardOf[request[c].ref], request[c].fields) \in Cards
        BY <3>2, WithFieldsType
      <3>4. Mutate(EventOf("field-update", c, CardOf[request[c].ref], request[c].fields),
                   WithFields(CardOf[request[c].ref], request[c].fields))
        BY <2>1 DEF CommitFieldValues
      <3>. QED BY <3>3, <3>4, MutateStays, ViewStaysKept
    <2>2. CASE ~CommitFieldValues(c)
      BY <1>8, <2>2, LiveUnchangedStays, ViewStaysKept
      DEF Committing, SendFieldCommit, ValidateSlotFill, RejectFieldCommit, peerVars, liveVars
    <2>. QED BY <2>1, <2>2
  <1>9. ASSUME NEW c \in Conn, Mutating(c) PROVE LiveViewKept
    <2>1. PICK e \in Event : \E cards : (live # None => cards \in Cards) /\ Mutate(e, cards)
      BY <1>9, MutatingMutates DEF Mutates
    <2>. QED BY <2>1, MutateStays, ViewStaysKept
  <1>10. ASSUME NEW c \in Conn, Saving(c) PROVE LiveViewKept
    <2>1. CASE BroadcastCanvasSaved(c)
      <3>1. /\ UNCHANGED conns
            /\ live' = live \/ live' = [revision |-> revision, cards |-> save[c].cards]
        BY <2>1 DEF BroadcastCanvasSaved, peerVars
      <3>2. save[c] \in Save
        BY <2>1 DEF BroadcastCanvasSaved, TypeOK
      <3>3. [revision |-> revision, cards |-> save[c].cards] \in LiveState
        BY <3>2 DEF Save, LiveState, TypeOK
      <3>. QED BY <3>1, <3>3, ViewStaysKept, NoneAssumption DEF ViewStays
    <2>2. CASE ~BroadcastCanvasSaved(c)
      BY <1>10, <2>2, LiveUnchangedStays, ViewStaysKept
      DEF Saving, SendSave, StoreSave, RefuseSave, peerVars, liveVars
    <2>. QED BY <2>1, <2>2
  <1>. QED BY <1>1, <1>2, <1>3, <1>4, <1>5, <1>6, <1>7, <1>8, <1>9, <1>10 DEF Next, Server

\* Whoever is connected keeps a payload to work on, and a subscriber is given one
\* unless the server refuses what it brings or discards it with the abandoned work
\* of another workspace.
THEOREM SubscribersAlwaysKeepLiveView == Spec => SubscribersKeepLiveView
  <1>1. TypeOK /\ OrphanIsAbandoned /\ [Next]_vars => [LiveViewKept]_vars
    BY NextView
  <1>. QED BY <1>1, TypeCorrect, OrphansAlwaysAbandoned, PTL DEF Spec, SubscribersKeepLiveView

-----------------------------------------------------------------------------
(* What a step may never do *)

\* The steps that broadcast an event are a commit and the nine mutations.
LEMMA SilentSteps ==
    ASSUME Next,
           \A c \in Conn : ~CommitFieldValues(c) /\ ~Mutating(c)
    PROVE  event' = None
  <1>1. CASE Server
    BY <1>1 DEF Server, SweepIdle, SweepOrphan, PurgeWorkspace, UpdateCanvasAccess, Tick,
                LeaveScope, Leave
  <1>2. ASSUME NEW c \in Conn, Connection(c)
        PROVE  event' = None
    BY <1>2 DEF Connection, StartSubscribe, Subscribe, Unsubscribe, KeepAlive,
                LeaveScope, Leave
  <1>3. ASSUME NEW c \in Conn, Leasing(c)
        PROVE  event' = None
    BY <1>3 DEF Leasing, AcquireFieldLock, RenewFieldLock, ReleaseFieldLock, StartRepair,
                RepairRecord
  <1>4. ASSUME NEW c \in Conn, Committing(c)
        PROVE  event' = None
    BY <1>4 DEF Committing, SendFieldCommit, ValidateSlotFill, RejectFieldCommit
  <1>5. ASSUME NEW c \in Conn, Saving(c)
        PROVE  event' = None
    BY <1>5 DEF Saving, SendSave, StoreSave, RefuseSave, BroadcastCanvasSaved
  <1>. QED BY <1>1, <1>2, <1>3, <1>4, <1>5 DEF Next

\* A commit is made by the holder of a lease on each of its fields.
LEMMA CommitterHoldsLeases ==
    ASSUME TypeOK, NEW c \in Conn, CommitFieldValues(c)
    PROVE  /\ request[c] \in Request
           /\ \A f \in request[c].fields :
                 /\ <<request[c].ref, f>> \in Key
                 /\ lock[<<request[c].ref, f>>] # None
                 /\ lock[<<request[c].ref, f>>].owner = c
                 /\ EntryCanEditField(c, CardOf[request[c].ref], f)
           /\ event' = EventOf("field-update", c, CardOf[request[c].ref],
                               request[c].fields)
  <1>1. request[c] \in Request
    BY DEF CommitFieldValues, TypeOK
  <1>2. ValidFieldCommit(c, request[c])
    BY DEF CommitFieldValues
  <1>3. \A f \in request[c].fields : <<request[c].ref, f>> \in Key
    BY <1>1 DEF Request
  <1>4. event' = EventOf("field-update", c, CardOf[request[c].ref], request[c].fields)
    BY DEF CommitFieldValues, Mutate
  <1>. QED BY <1>1, <1>2, <1>3, <1>4 DEF ValidFieldCommit

LEMMA NextWriteAuthorised == TypeOK /\ LeasesOfConnected /\ Next => WriteAuthorised
  <1>. SUFFICES ASSUME TypeOK, LeasesOfConnected, Next PROVE WriteAuthorised
    OBVIOUS
  <1>1. ASSUME NEW c \in Conn, CommitFieldValues(c)
        PROVE  WriteAuthorised
    <2>. DEFINE q == request[c]
    <2>1. /\ q \in Request
          /\ \A f \in q.fields : /\ <<q.ref, f>> \in Key
                                 /\ lock[<<q.ref, f>>] # None
                                 /\ lock[<<q.ref, f>>].owner = c
                                 /\ EntryCanEditField(c, CardOf[q.ref], f)
          /\ event' = EventOf("field-update", c, CardOf[q.ref], q.fields)
      BY <1>1, CommitterHoldsLeases
    <2>2. /\ event'.by = c
          /\ event'.type = "field-update"
          /\ event'.card = CardOf[q.ref]
          /\ event'.fields = q.fields
      BY <2>1 DEF EventOf
    <2>3. PICK g \in q.fields : TRUE
      BY <2>1 DEF Request
    <2>4. c \in conns
      BY <2>1, <2>3 DEF LeasesOfConnected
    <2>5. CASE CanEdit(c)
      BY <2>2, <2>4, <2>5 DEF WriteAuthorised
    <2>6. CASE ~CanEdit(c)
      <3>1. role[c] = "contributor" /\ Present(CardOf[q.ref])
        BY <2>1, <2>3, <2>6 DEF EntryCanEditField
      <3>2. \A f \in q.fields : <<UserOf[c], f>> \in live.cards[CardOf[q.ref]].slot
        BY <2>1, <2>6 DEF EntryCanEditField
      <3>. HIDE DEF q
      <3>. QED BY <2>2, <2>4, <3>1, <3>2 DEF WriteAuthorised
    <2>. QED BY <2>5, <2>6
  <1>2. ASSUME NEW c \in Conn, Mutating(c)
        PROVE  WriteAuthorised
    <2>1. c \in conns /\ CanEdit(c)
      BY <1>2 DEF Mutating, UpdateDraft, CreateDraft, RemoveDraft, UpdateLoadedRecord,
                  CreateLoadedRecord, RemoveLoadedRecord, UpdateSlot, UpdateLayout,
                  UpdateDraftLink, CanMutate
    <2>2. ASSUME NEW card \in Card, NEW dup, NEW F, NEW s,
                 CreateLoadedRecord(c, card, dup, F, s)
          PROVE  event'.by = c
      BY <2>2 DEF CreateLoadedRecord, Mutate, EventOf
    <2>3. event'.by = c
      BY <1>2, <2>2 DEF Mutating, UpdateDraft, CreateDraft, RemoveDraft,
                        UpdateLoadedRecord, RemoveLoadedRecord, UpdateSlot,
                        UpdateLayout, UpdateDraftLink, Mutate, EventOf
    <2>. QED BY <2>1, <2>3 DEF WriteAuthorised
  <1>3. CASE \A c \in Conn : ~CommitFieldValues(c) /\ ~Mutating(c)
    BY <1>3, SilentSteps DEF WriteAuthorised
  <1>. QED BY <1>1, <1>2, <1>3

\* Whoever writes to the live canvas is allowed to when the write is applied.
THEOREM WritersAlwaysAuthorised == Spec => WritersAuthorised
  <1>1. TypeOK /\ LeasesOfConnected /\ [Next]_vars => [WriteAuthorised]_vars
    BY NextWriteAuthorised
  <1>. QED BY <1>1, TypeCorrect, LeasesAlwaysOfConnected, PTL DEF Spec, WritersAuthorised

LEMMA NextLeaseRespected == TypeOK /\ Next => LeaseRespected
  <1>. SUFFICES ASSUME TypeOK, Next,
                       NEW r \in Ref, NEW f \in Field,
                       lock[<<r, f>>] # None,
                       Present(CardOf[r]),
                       event' # None,
                       event'.card = CardOf[r],
                       f \in event'.fields
                PROVE  \/ event'.by = lock[<<r, f>>].owner
                       \/ event'.type = "create" /\ live'.cards[CardOf[r]].kind = "loaded"
                       \/ event'.type = "field-update"
    BY DEF LeaseRespected
  <1>1. ASSUME NEW c \in Conn, CommitFieldValues(c)
        PROVE  event'.type = "field-update"
    BY <1>1 DEF CommitFieldValues, Mutate, EventOf
  <1>2. ASSUME NEW c \in Conn, Mutating(c)
        PROVE  \/ event'.by = lock[<<r, f>>].owner
               \/ event'.type = "create" /\ live'.cards[CardOf[r]].kind = "loaded"
    <2>1. ASSUME NEW card \in Card, NEW F,
                 \/ UpdateDraft(c, card, F)
                 \/ \E rebase \in BOOLEAN : UpdateLoadedRecord(c, card, F, rebase)
                 \/ \E s \in Slot : CreateDraft(c, card, F, s)
          PROVE  event'.by = lock[<<r, f>>].owner
      <3>1. event'.by = c /\ event'.card = card /\ event'.fields = F
        BY <2>1 DEF UpdateDraft, UpdateLoadedRecord, CreateDraft, Mutate, EventOf
      <3>2. ~ForeignLock(c, card, F)
        BY <2>1, <3>1 DEF UpdateDraft, UpdateLoadedRecord, CreateDraft
      <3>3. f \in F /\ CardOf[r] = card /\ Present(card)
        BY <3>1
      <3>. QED BY <3>1, <3>2, <3>3 DEF ForeignLock
    <2>2. ASSUME NEW card \in Card, NEW dup, NEW F, NEW s \in Slot,
                 CreateLoadedRecord(c, card, dup, F, s)
          PROVE  event'.type = "create" /\ live'.cards[CardOf[r]].kind = "loaded"
      <3>. DEFINE x == [kind |-> "loaded", val |-> Stamped(Blank, F), slot |-> s]
      <3>1. event'.type = "create" /\ card = CardOf[r]
        BY <2>2 DEF CreateLoadedRecord, Mutate, EventOf
      <3>2. live # None
        BY DEF Present
      <3>3. live'.cards = Loaded(card, dup, x)
        BY <2>2, <3>2 DEF CreateLoadedRecord, Mutate, Loaded
      <3>. QED BY <3>1, <3>3 DEF Loaded
    <2>3. ASSUME \/ \E card \in Card : \/ RemoveDraft(c, card)
                                       \/ RemoveLoadedRecord(c, card)
                                       \/ UpdateLayout(c, card)
                                       \/ \E s \in Slot : UpdateSlot(c, card, s)
                 \/ UpdateDraftLink(c)
          PROVE  FALSE
      BY <2>3 DEF RemoveDraft, RemoveLoadedRecord, UpdateLayout, UpdateSlot,
                  UpdateDraftLink, Mutate, EventOf
    <2>. QED BY <1>2, <2>1, <2>2, <2>3 DEF Mutating
  <1>3. CASE \A c \in Conn : ~CommitFieldValues(c) /\ ~Mutating(c)
    BY <1>3, SilentSteps
  <1>. QED BY <1>1, <1>2, <1>3

\* Nobody but the holder of a lease edits the field, under any reference.
THEOREM LeasedFieldsAlwaysStable == Spec => LeasedFieldStable
  <1>1. TypeOK /\ [Next]_vars => [LeaseRespected]_vars
    BY NextLeaseRespected
  <1>. QED BY <1>1, TypeCorrect, PTL DEF Spec, LeasedFieldStable

-----------------------------------------------------------------------------
(* Unsaved work *)

\* What a step must do with unsaved work when it neither publishes another
\* payload, nor discards an orphan, nor purges a workspace.
LiveKept ==
    /\ live' # None
    /\ conns' = {} => orphan' # None
    /\ \A card \in Card :
          \/ live'.cards[card] = live.cards[card]
          \/ event' # None /\ card \in {event'.card, event'.dup}
          \/ PutBack(card)

LEMMA LiveKeptSuffices == LiveKept => UnsavedWorkKept
  BY DEF LiveKept, UnsavedWorkKept

\* The payload stays, and so does who is connected and what is orphaned.
LEMMA LiveUnchangedKept ==
    ASSUME ScopeInv, HasUnsavedEdits, live' = live,
           conns' = {} => conns = {}, orphan' = None => orphan = None
    PROVE  LiveKept
  BY DEF LiveKept, ScopeInv, OrphanIsAbandoned, HasUnsavedEdits

\* A mutation of one card, or of none
LEMMA MutateKept ==
    ASSUME TypeOK, ScopeInv, HasUnsavedEdits, NEW e \in Event, NEW cards \in Cards,
           Mutate(e, cards),
           \A card \in Card : card \notin {e.card, e.dup} => cards[card] = live.cards[card]
    PROVE  LiveKept
  <1>1. /\ live # None
        /\ live' = [revision |-> revision + 1, cards |-> cards]
        /\ event' = e
        /\ UNCHANGED <<conns, orphan>>
    BY DEF Mutate, HasUnsavedEdits
  <1>2. live' \in LiveState /\ live' # None
    BY <1>1, NoneAssumption DEF LiveState, TypeOK
  <1>3. e # None
    BY NoneAssumption
  <1>4. conns' = {} => orphan' # None
    BY <1>1 DEF ScopeInv, OrphanIsAbandoned
  <1>. QED BY <1>1, <1>2, <1>3, <1>4 DEF LiveKept

LEMMA LeaveScopeKept ==
    ASSUME TypeOK, ScopeInv, HasUnsavedEdits, NEW S, NEW w \in Workspace, LeaveScope(S, w)
    PROVE  LiveKept
  <1>1. CASE conns \ S = {}
    <2>1. /\ live' = live
          /\ orphan' = [workspace |-> w, left |-> HandoffTicks]
      BY <1>1 DEF LeaveScope, EmptyScope
    <2>2. orphan' \in Orphan
      BY <2>1, TimersAssumption
    <2>3. orphan' # None
      BY <2>2, NoneAssumption
    <2>. QED BY <2>1, <2>3 DEF LiveKept, HasUnsavedEdits
  <1>2. CASE conns \ S # {}
    BY <1>2 DEF LeaveScope, Leave, liveVars, LiveKept, HasUnsavedEdits
  <1>. QED BY <1>1, <1>2

\* The payloads of an update differ from the live one in its card only.
LEMMA FieldsOfOneCard ==
    ASSUME TypeOK, live # None, NEW card \in Card, NEW other \in Card, other # card, NEW F
    PROVE  WithFields(card, F)[other] = live.cards[other]
  BY CardsBasics DEF WithFields, Cards

LEMMA RebasedOneCard ==
    ASSUME TypeOK, live # None, NEW card \in Card, NEW other \in Card, other # card, NEW F
    PROVE  Rebased(card, F)[other] = live.cards[other]
  BY CardsBasics DEF Rebased, Cards

LEMMA SlotOfOneCard ==
    ASSUME TypeOK, live # None, NEW card \in Card, NEW other \in Card, other # card, NEW s
    PROVE  WithSlot(card, s)[other] = live.cards[other]
  BY CardsBasics DEF WithSlot, Cards

\* A card put into the payload, or taken out of it
LEMMA PutKept ==
    ASSUME TypeOK, ScopeInv, HasUnsavedEdits, NEW card \in Card,
           NEW x \in CardState \cup {None}, NEW e \in Event, e.card = card,
           Mutate(e, [live.cards EXCEPT ![card] = x])
    PROVE  LiveKept
  <1>. DEFINE cards == [live.cards EXCEPT ![card] = x]
  <1>1. live # None
    BY DEF HasUnsavedEdits
  <1>2. cards \in Cards
    BY <1>1, PutType
  <1>3. \A other \in Card : other # e.card => cards[other] = live.cards[other]
    BY <1>1, CardsBasics DEF Cards
  <1>4. Mutate(e, cards)
    OBVIOUS
  <1>. HIDE DEF cards
  <1>. QED BY <1>2, <1>3, <1>4, MutateKept

LEMMA MutatingKept ==
    ASSUME TypeOK, ScopeInv, HasUnsavedEdits, NEW c \in Conn, Mutating(c)
    PROVE  LiveKept
  <1>. live # None /\ live.cards \in Cards
    BY CardsBasics DEF HasUnsavedEdits
  <1>0. \A card \in Card \cup {None}, F \in SUBSET Field,
           type \in {"field-update", "draft-update", "draft-remove", "loaded-update",
                     "create", "loaded-removed", "slot-update", "record-layout",
                     "draft-link"} :
           /\ EventOf(type, c, card, F) \in Event
           /\ EventOf(type, c, card, F).card = card
    BY DEF EventOf, Event
  <1>1. ASSUME NEW card \in Card, NEW F \in SUBSET Field, UpdateDraft(c, card, F)
        PROVE  LiveKept
    BY <1>0, <1>1, WithFieldsType, FieldsOfOneCard, MutateKept DEF UpdateDraft
  <1>2. ASSUME NEW card \in Card, NEW F \in SUBSET Field, NEW s \in Slot,
               CreateDraft(c, card, F, s)
        PROVE  LiveKept
    <2>. DEFINE val == IF Present(card) THEN live.cards[card].val ELSE Blank
                x == [kind |-> "draft", val |-> Stamped(val, F), slot |-> s]
    <2>1. val \in [Field -> Nat]
      BY CardsBasics DEF Present, CardState, Blank
    <2>2. Stamped(val, F) \in [Field -> Nat]
      BY <2>1, StampedType
    <2>3. x \in CardState
      BY <2>2, ConstantsAssumption DEF CardState
    <2>4. Mutate(EventOf("create", c, card, F), [live.cards EXCEPT ![card] = x])
      BY <1>2 DEF CreateDraft
    <2>. HIDE DEF x
    <2>. QED BY <1>0, <2>3, <2>4, PutKept
  <1>3. ASSUME NEW card \in Card, RemoveDraft(c, card) \/ RemoveLoadedRecord(c, card)
        PROVE  LiveKept
    BY <1>0, <1>3, PutKept DEF RemoveDraft, RemoveLoadedRecord
  <1>4. ASSUME NEW card \in Card, NEW F \in SUBSET Field, NEW rebase \in BOOLEAN,
               UpdateLoadedRecord(c, card, F, rebase)
        PROVE  LiveKept
    <2>1. CASE rebase
      BY <1>0, <1>4, <2>1, RebasedType, RebasedOneCard, MutateKept DEF UpdateLoadedRecord
    <2>2. CASE ~rebase
      BY <1>0, <1>4, <2>2, WithFieldsType, FieldsOfOneCard, MutateKept
      DEF UpdateLoadedRecord
    <2>. QED BY <2>1, <2>2
  <1>5. ASSUME NEW card \in Card, NEW dup \in Card \cup {None}, NEW F \in SUBSET Field,
               NEW s \in Slot, CreateLoadedRecord(c, card, dup, F, s)
        PROVE  LiveKept
    <2>. DEFINE x == [kind |-> "loaded", val |-> Stamped(Blank, F), slot |-> s]
                e == [EventOf("create", c, card, F) EXCEPT !.dup = dup]
                cards == Loaded(card, dup, x)
    <2>1. Stamped(Blank, F) \in [Field -> Nat]
      BY StampedType DEF Blank
    <2>2. x \in CardState
      BY <2>1, ConstantsAssumption DEF CardState
    <2>3. cards \in Cards
      BY <2>2, LoadedType
    <2>4. e \in Event /\ e.card = card /\ e.dup = dup
      BY DEF EventOf, Event
    <2>5. \A other \in Card : other \notin {e.card, e.dup} => cards[other] = live.cards[other]
      BY <2>4 DEF Loaded
    <2>6. Mutate(e, cards)
      BY <1>5 DEF CreateLoadedRecord, Loaded
    <2>. HIDE DEF cards, e
    <2>. QED BY <2>3, <2>4, <2>5, <2>6, MutateKept
  <1>6. ASSUME NEW card \in Card, NEW s \in Slot, UpdateSlot(c, card, s)
        PROVE  LiveKept
    BY <1>0, <1>6, WithSlotType, SlotOfOneCard, MutateKept DEF UpdateSlot
  <1>7. ASSUME NEW card \in Card, UpdateLayout(c, card)
        PROVE  LiveKept
    BY <1>0, <1>7, MutateKept DEF UpdateLayout
  <1>8. CASE UpdateDraftLink(c)
    BY <1>0, <1>8, MutateKept DEF UpdateDraftLink
  <1>. QED BY <1>1, <1>2, <1>3, <1>4, <1>5, <1>6, <1>7, <1>8 DEF Mutating

LEMMA NextUnsavedWorkKept ==
    TypeOK /\ LeasesOfConnected /\ ScopeInv /\ Next => UnsavedWorkKept
  <1>. SUFFICES ASSUME TypeOK, ScopeInv, HasUnsavedEdits, Next
                PROVE  UnsavedWorkKept
    BY DEF UnsavedWorkKept
  <1>1. CASE SweepIdle
    <2>. DEFINE S == {c \in conns : idle[c] = IdleTicks}
    <2>1. PICK c \in conns : LeaveScope(S, WorkspaceOf[c])
      BY <1>1 DEF SweepIdle
    <2>2. WorkspaceOf[c] \in Workspace
      BY <2>1, ConstantsAssumption DEF TypeOK
    <2>. HIDE DEF S
    <2>. QED BY <2>1, <2>2, LeaveScopeKept, LiveKeptSuffices
  <1>2. CASE SweepOrphan
    BY <1>2 DEF SweepOrphan, DiscardCanvasState, UnsavedWorkKept
  <1>3. CASE \E w \in Workspace : PurgeWorkspace(w)
    BY <1>3 DEF UnsavedWorkKept
  <1>4. ASSUME NEW u, NEW r, UpdateCanvasAccess(u, r)
        PROVE  UnsavedWorkKept
    BY <1>4, LiveUnchangedKept, LiveKeptSuffices DEF UpdateCanvasAccess, liveVars
  <1>5. CASE Tick
    <2>1. orphan' = None => orphan = None
      <3>1. CASE orphan # None
        <4>1. orphan' \in Orphan
          BY <1>5, <3>1, TimersAssumption DEF Tick, TypeOK
        <4>. QED BY <4>1, NoneAssumption
      <3>. QED BY <3>1
    <2>2. live' = live /\ conns' = conns
      BY <1>5 DEF Tick
    <2>. QED BY <2>1, <2>2, LiveUnchangedKept, LiveKeptSuffices
  <1>6. ASSUME NEW c \in Conn, Connection(c)
        PROVE  UnsavedWorkKept
    <2>1. CASE StartSubscribe(c) \/ KeepAlive(c)
      BY <2>1, LiveUnchangedKept, LiveKeptSuffices DEF StartSubscribe, KeepAlive, liveVars
    <2>2. CASE Subscribe(c)
      <3>1. CASE orphan # None /\ orphan.workspace # WorkspaceOf[c]
        BY <2>2, <3>1 DEF Subscribe, DiscardCanvasState, UnsavedWorkKept
      <3>2. CASE ~(orphan # None /\ orphan.workspace # WorkspaceOf[c])
        <4>1. live' = live /\ conns' # {}
          BY <2>2, <3>2 DEF Subscribe, Seeded, HasUnsavedEdits
        <4>. QED BY <4>1, LiveKeptSuffices DEF LiveKept, HasUnsavedEdits
      <3>. QED BY <3>1, <3>2
    <2>3. CASE Unsubscribe(c)
      <3>1. WorkspaceOf[c] \in Workspace
        BY ConstantsAssumption
      <3>. QED BY <2>3, <3>1, LeaveScopeKept, LiveKeptSuffices DEF Unsubscribe
    <2>. QED BY <1>6, <2>1, <2>2, <2>3 DEF Connection
  <1>7. ASSUME NEW c \in Conn, Leasing(c)
        PROVE  UnsavedWorkKept
    <2>1. CASE RepairRecord(c)
      <3>1. UNCHANGED <<conns, orphan>>
        BY <2>1 DEF RepairRecord, peerVars
      <3>2. CASE live' = live
        BY <3>1, <3>2, LiveUnchangedKept, LiveKeptSuffices
      <3>3. CASE live' # live
        <4>1. /\ live' \in LiveState
              /\ \A card \in Card :
                    live'.cards[card] = live.cards[card] \/ PutBack(card)
          BY <2>1, <3>3, RepairedLive
        <4>. QED BY <3>1, <4>1, LiveKeptSuffices, NoneAssumption
                 DEF LiveKept, ScopeInv, OrphanIsAbandoned
      <3>. QED BY <3>2, <3>3
    <2>2. CASE ~RepairRecord(c)
      BY <1>7, <2>2, LiveUnchangedKept, LiveKeptSuffices
      DEF Leasing, AcquireFieldLock, RenewFieldLock, ReleaseFieldLock, StartRepair,
          peerVars, liveVars
    <2>. QED BY <2>1, <2>2, LiveKeptSuffices
  <1>8. ASSUME NEW c \in Conn, Committing(c)
        PROVE  UnsavedWorkKept
    <2>1. CASE CommitFieldValues(c)
      <3>. DEFINE card == CardOf[request[c].ref]
                  F == request[c].fields
                  e == EventOf("field-update", c, card, F)
      <3>1. card \in Card /\ F \subseteq Field
        BY <2>1, CommitterHoldsLeases, ConstantsAssumption DEF Request
      <3>2. e \in Event /\ e.card = card
        BY <3>1 DEF EventOf, Event
      <3>3. Mutate(e, WithFields(card, F))
        BY <2>1 DEF CommitFieldValues
      <3>4. live # None
        BY DEF HasUnsavedEdits
      <3>. HIDE DEF card, F, e
      <3>. QED BY <3>1, <3>2, <3>3, <3>4, WithFieldsType, FieldsOfOneCard, MutateKept,
                  LiveKeptSuffices
    <2>2. CASE ~CommitFieldValues(c)
      BY <1>8, <2>2, LiveUnchangedKept, LiveKeptSuffices
      DEF Committing, SendFieldCommit, ValidateSlotFill, RejectFieldCommit, peerVars, liveVars
    <2>. QED BY <2>1, <2>2
  <1>9. ASSUME NEW c \in Conn, Mutating(c)
        PROVE  UnsavedWorkKept
    BY <1>9, MutatingKept, LiveKeptSuffices
  <1>10. ASSUME NEW c \in Conn, Saving(c)
         PROVE  UnsavedWorkKept
    <2>1. CASE BroadcastCanvasSaved(c)
      <3>1. durable' # durable
        BY <2>1 DEF BroadcastCanvasSaved, HasUnsavedEdits, TypeOK, LiveState, ScopeInv,
                    RevisionsOrdered
      <3>. QED BY <3>1 DEF UnsavedWorkKept
    <2>2. CASE ~BroadcastCanvasSaved(c)
      BY <1>10, <2>2, LiveUnchangedKept, LiveKeptSuffices
      DEF Saving, SendSave, StoreSave, RefuseSave, peerVars, liveVars
    <2>. QED BY <2>1, <2>2
  <1>. QED BY <1>1, <1>2, <1>3, <1>4, <1>5, <1>6, <1>7, <1>8, <1>9, <1>10 DEF Next, Server

\* Unsaved work, removals included, is lost in none but the three ways that are
\* meant to end it, and a repair puts back none but the card it is for.
THEOREM UnsavedWorkAlwaysSurvives == Spec => UnsavedWorkSurvives
  <1>1. TypeOK /\ LeasesOfConnected /\ ScopeInv /\ [Next]_vars => [UnsavedWorkKept]_vars
    BY NextUnsavedWorkKept
  <1>. QED BY <1>1, TypeCorrect, LeasesAlwaysOfConnected, InitScope, NextScope, PTL
           DEF Spec, UnsavedWorkSurvives

-----------------------------------------------------------------------------
(* The promise of the leases.  Each step of the scope is a step of the          *)
(* register, or changes nothing of it: a lease stands for the requests that      *)
(* present it until it ends, and an identifier never comes back while a request  *)
(* still presents it.                                                            *)

LEMMA AskedKeys ==
    ASSUME TypeOK, NEW c \in Conn
    PROVE  /\ Asked(c) \subseteq Key
           /\ \A k \in Asked(c) : /\ request[c] # None
                                  /\ request[c].ref = k[1]
                                  /\ k[2] \in request[c].fields
                                  /\ k = <<request[c].ref, k[2]>>
           /\ request[c] # None => \A f \in request[c].fields : <<request[c].ref, f>> \in Asked(c)
           /\ request[c] # None => Asked(c) # {}
  <1>1. CASE request[c] = None
    BY <1>1 DEF Asked
  <1>2. CASE request[c] # None
    <2>. DEFINE r == request[c].ref
                F == request[c].fields
    <2>1. r \in Ref /\ F \subseteq Field /\ F # {}
      BY <1>2 DEF TypeOK, Request
    <2>2. Asked(c) = {r} \X F
      BY <1>2 DEF Asked
    <2>. HIDE DEF r, F
    <2>3. Asked(c) \subseteq Key /\ Asked(c) # {}
      <3>1. PICK f : f \in F
        BY <2>1
      <3>2. <<r, f>> \in {r} \X F
        BY <3>1
      <3>3. {r} \X F \subseteq Key
        BY <2>1 DEF Key
      <3>. QED BY <2>2, <3>2, <3>3
    <2>4. \A k \in Asked(c) : r = k[1] /\ k[2] \in F /\ k = <<r, k[2]>>
      BY <2>2
    <2>5. \A f \in F : <<r, f>> \in Asked(c)
      BY <2>2
    <2>. QED BY <1>2, <2>3, <2>4, <2>5 DEF r, F
  <1>. QED BY <1>1, <1>2

\* The request is dropped if its connection is one of C, or goes on presenting
\* the same leases.
Carried(C) ==
    \A c \in Conn :
        IF c \in C THEN request'[c] = None
        ELSE \/ request'[c] = None /\ request[c] = None
             \/ /\ request'[c] # None /\ request[c] # None
                /\ request'[c].ref = request[c].ref
                /\ request'[c].fields = request[c].fields
                /\ request'[c].leases = request[c].leases

LEMMA CarriedAsked ==
    ASSUME NEW C, Carried(C), NEW c \in Conn
    PROVE  /\ c \in C => Asked(c)' = {}
           /\ c \notin C => Asked(c)' = Asked(c)
  BY DEF Carried, Asked

\* Requests are carried on, and a lease that a request presents goes on standing
\* exactly as long as its connection goes on holding the field.
LEMMA DropsEdits ==
    ASSUME TypeOK, NEW C \in SUBSET Conn, Carried(C),
           \A c \in Conn \ C : \A k \in Asked(c) :
              /\ Stands(c, k)' => Stands(c, k)
              /\ Stands(c, k) /\ Holder'[k] = c => Stands(c, k)'
    PROVE  Leases!Drop(C)
  <1>1. Editing' = [c \in Conn |-> IF c \in C THEN {} ELSE Editing[c]]
    BY CarriedAsked DEF Editing
  <1>2. Saw' = [c \in Conn |-> IF c \in C THEN [k \in Key |-> 0] ELSE Saw[c]]
    <2>1. ASSUME NEW c \in Conn
          PROVE  [k \in Key |-> IF k \in Asked(c)' THEN request'[c].leases[k[2]].base ELSE 0]
                 = IF c \in C THEN [k \in Key |-> 0] ELSE Saw[c]
      <3>1. CASE c \in C
        BY <3>1, CarriedAsked
      <3>2. CASE c \notin C
        <4>1. \A k \in Asked(c) : request'[c].leases = request[c].leases
          BY <3>2 DEF Carried, Asked
        <4>. QED BY <3>2, <4>1, CarriedAsked DEF Saw
      <3>. QED BY <3>1, <3>2
    <2>. QED BY <2>1 DEF Saw
  <1>3. Lost' = [c \in Conn |->
                   IF c \in C THEN {}
                   ELSE Lost[c] \cup {k \in Editing[c] : Holder'[k] # c}]
    <2>1. ASSUME NEW c \in Conn
          PROVE  {k \in Asked(c)' : ~Stands(c, k)'}
                 = IF c \in C THEN {} ELSE Lost[c] \cup {k \in Editing[c] : Holder'[k] # c}
      <3>1. CASE c \in C
        BY <3>1, CarriedAsked
      <3>2. CASE c \notin C
        <4>1. \A k \in Key : Stands(c, k)' => Holder'[k] = c
          BY DEF Stands, Holder
        <4>2. \A k \in Asked(c) : ~Stands(c, k)' <=> (~Stands(c, k) \/ Holder'[k] # c)
          BY <3>2, <4>1, AskedKeys
        <4>. QED BY <3>2, <4>2, CarriedAsked DEF Lost, Editing
      <3>. QED BY <3>1, <3>2
    <2>. QED BY <2>1 DEF Lost
  <1>. QED BY <1>1, <1>2, <1>3 DEF Leases!Drop

\* Steps that end leases or leave them standing.
LeasesEnd ==
    \A k \in Key : \/ lock'[k] = None
                   \/ /\ lock'[k] # None /\ lock[k] # None
                      /\ lock'[k].owner = lock[k].owner
                      /\ lock'[k].id = lock[k].id

LEMMA EndingDrops ==
    ASSUME TypeOK, NEW C \in SUBSET Conn, Carried(C), LeasesEnd
    PROVE  Leases!Drop(C)
  <1>1. ASSUME NEW c \in Conn \ C, NEW k \in Asked(c)
        PROVE  /\ Stands(c, k)' => Stands(c, k)
               /\ Stands(c, k) /\ Holder'[k] = c => Stands(c, k)'
    <2>1. k \in Key /\ request'[c].leases = request[c].leases
      BY AskedKeys DEF Carried
    <2>2. c # None
      BY NoneAssumption
    <2>3. CASE lock'[k] = None
      BY <2>1, <2>2, <2>3 DEF Stands, Holder
    <2>4. CASE lock'[k] # None
      BY <2>1, <2>4 DEF LeasesEnd, Stands
    <2>. QED BY <2>3, <2>4
  <1>. QED BY <1>1, DropsEdits

LEMMA EndingFrees ==
    ASSUME LeasesEnd
    PROVE  Leases!Free({k \in Key : lock'[k] = None})
  BY DEF LeasesEnd, Holder, Leases!Free

\* Leases end, requests are dropped, and no version moves.
LEMMA StepGivesUp ==
    ASSUME TypeOK, NEW C \in SUBSET Conn, Carried(C), LeasesEnd, version' = version
    PROVE  Leases!Next
  <1>1. Leases!GiveUp(C, {k \in Key : lock'[k] = None})
    BY EndingDrops, EndingFrees DEF Leases!GiveUp
  <1>. QED BY <1>1 DEF Leases!Next

\* The scope forgets its leases and versions.
LEMMA StepForgets ==
    ASSUME TypeOK, NEW C \in SUBSET Conn, Carried(C),
           lock' = [k \in Key |-> None], version' = [k \in Key |-> 0]
    PROVE  Leases!Next
  <1>1. LeasesEnd
    BY DEF LeasesEnd
  <1>2. Leases!Free(Key)
    BY DEF Holder, Leases!Free
  <1>3. Leases!Forget(C)
    BY <1>1, <1>2, EndingDrops DEF Leases!Forget
  <1>. QED BY <1>3 DEF Leases!Next

\* Nothing happens to leases, versions and requests.
LEMMA StepStutters ==
    ASSUME UNCHANGED leaseVars
    PROVE  [Leases!Next]_(Leases!vars)
  <1>1. UNCHANGED <<version, Holder, Editing, Saw, Lost>>
    BY DEF leaseVars, Holder, Editing, Saw, Lost, Asked, Stands
  <1>. QED BY <1>1 DEF Leases!vars

\* The connections S leave, and with them their leases or all leases.
LEMMA StepLeaves ==
    ASSUME TypeOK, NEW S \in SUBSET Conn, Leave(S),
           \/ lock' = [k \in Key |-> None] /\ version' = [k \in Key |-> 0]
           \/ ReleaseConnectionLocks(S) /\ version' = version
    PROVE  Leases!Next
  <1>1. Carried(S)
    BY DEF Leave, Carried
  <1>2. CASE lock' = [k \in Key |-> None] /\ version' = [k \in Key |-> 0]
    BY <1>1, <1>2, StepForgets
  <1>3. CASE ReleaseConnectionLocks(S) /\ version' = version
    <2>1. LeasesEnd
      BY <1>3 DEF ReleaseConnectionLocks, LeasesEnd
    <2>. QED BY <1>1, <1>3, <2>1, StepGivesUp
  <1>. QED BY <1>2, <1>3

LEMMA LeaveScopeLeaves ==
    ASSUME TypeOK, NEW S \in SUBSET Conn, NEW w, LeaveScope(S, w)
    PROVE  Leases!Next
  BY StepLeaves DEF LeaveScope, EmptyScope, DiscardCanvasState

\* A lease won afresh does not stand for any request that is on its way.
LEMMA StepAcquires ==
    ASSUME TypeOK, NEW c \in Conn, NEW k \in Key, NEW takeover,
           AcquireFieldLock(c, k, takeover)
    PROVE  Leases!Next
  <1>. DEFINE mine == lock[k] # None /\ lock[k].owner = c
  <1>1. PICK id \in IF mine THEN {lock[k].id} ELSE FreshLeaseIds :
           lock' = [lock EXCEPT ![k] =
               [owner |-> c, id |-> id, left |-> LeaseTicks, base |-> version[k]]]
    BY DEF AcquireFieldLock
  <1>. DEFINE l == [owner |-> c, id |-> id, left |-> LeaseTicks, base |-> version[k]]
  <1>2. /\ lock'[k] = l
        /\ \A j \in Key : j # k => lock'[j] = lock[j]
    BY <1>1 DEF TypeOK
  <1>3. l # None
    <2>1. id \in LeaseId
      BY <1>1 DEF TypeOK, Lease, FreshLeaseIds
    <2>2. l \in Lease
      BY <2>1, TimersAssumption DEF TypeOK, Lease
    <2>. QED BY <2>2, NoneAssumption
  <1>4. l.owner = c /\ l.id = id
    OBVIOUS
  <1>. HIDE DEF l
  <1>5. UNCHANGED <<version, request>>
    BY DEF AcquireFieldLock
  <1>6. Holder' = [Holder EXCEPT ![k] = c]
    BY <1>2, <1>3, <1>4 DEF Holder
  <1>7. Carried({})
    BY <1>5 DEF Carried
  <1>8. ASSUME NEW d \in Conn, NEW j \in Asked(d)
        PROVE  /\ Stands(d, j)' => Stands(d, j)
               /\ Stands(d, j) /\ Holder'[j] = d => Stands(d, j)'
    <2>1. j \in Key /\ request[d] # None /\ j[2] \in request[d].fields
      BY AskedKeys
    <2>2. CASE j # k
      BY <1>2, <1>5, <2>1, <2>2 DEF Stands
    <2>3. CASE j = k /\ mine
      BY <1>1, <1>2, <1>3, <1>4, <1>5, <2>3 DEF Stands
    <2>4. CASE j = k /\ ~mine
      <3>1. request[d].leases[j[2]].id # id
        BY <1>1, <2>1, <2>4 DEF FreshLeaseIds
      <3>2. ~Stands(d, j)'
        BY <1>2, <1>4, <1>5, <2>4, <3>1 DEF Stands
      <3>3. Holder'[j] = c
        BY <1>2, <1>3, <1>4, <2>1, <2>4 DEF Holder
      <3>. QED BY <2>4, <3>2, <3>3 DEF Stands
    <2>. QED BY <2>2, <2>3, <2>4
  <1>9. Leases!Drop({})
    BY <1>7, <1>8, DropsEdits
  <1>10. Leases!Acquire(c, k)
    BY <1>5, <1>6, <1>9 DEF Leases!Acquire
  <1>. QED BY <1>10 DEF Leases!Next

\* What a client sends was prepared under leases it holds.
LEMMA StepPrepares ==
    ASSUME TypeOK, LeaseInv, NEW c \in Conn, NEW r \in Ref, NEW F \in SUBSET Field,
           NEW fill \in BOOLEAN, F # {}, SendFieldCommit(c, r, F, fill)
    PROVE  Leases!Next
  <1>. DEFINE K == {r} \X F
              q == [stage |-> "sent", ref |-> r, fields |-> F, fill |-> fill,
                    leases |-> [f \in Field |-> IF f \in F
                       THEN [id |-> lock[<<r, f>>].id, base |-> lock[<<r, f>>].base]
                       ELSE None]]
  <1>1. /\ request[c] = None /\ request' = [request EXCEPT ![c] = q]
        /\ UNCHANGED <<lock, version>>
        /\ \A f \in F : lock[<<r, f>>] # None /\ lock[<<r, f>>].owner = c
    BY DEF SendFieldCommit
  <1>2. /\ q.ref = r /\ q.fields = F
        /\ \A f \in F : /\ q.leases[f].id = lock[<<r, f>>].id
                        /\ q.leases[f].base = lock[<<r, f>>].base
    OBVIOUS
  <1>3. request'[c] = q /\ \A d \in Conn : d # c => request'[d] = request[d]
    BY <1>1 DEF TypeOK
  <1>4. \A k \in K : /\ k \in Key /\ k[2] \in F /\ k = <<r, k[2]>>
                     /\ lock[k] # None /\ lock[k].owner = c
    BY <1>1 DEF Key
  <1>5. q # None
    <2>1. \A f \in F : lock[<<r, f>>] \in Lease
      BY <1>1 DEF TypeOK
    <2>2. [f \in Field |-> IF f \in F
              THEN [id |-> lock[<<r, f>>].id, base |-> lock[<<r, f>>].base]
              ELSE None] \in [Field -> Presented \cup {None}]
      BY <2>1 DEF Lease, Presented
    <2>3. q \in Request
      BY <2>2 DEF Request
    <2>. HIDE DEF q
    <2>. QED BY <2>3, NoneAssumption
  <1>. HIDE DEF q
  <1>6. \A k \in K : q.leases[k[2]].id = lock[k].id /\ q.leases[k[2]].base = lock[k].base
    BY <1>2, <1>4
  <1>7. Asked(c) = {} /\ Asked(c)' = K
    BY <1>1, <1>2, <1>3, <1>5 DEF Asked
  <1>8. \A d \in Conn : d # c => Asked(d)' = Asked(d)
    BY <1>3 DEF Asked
  <1>. HIDE DEF K
  <1>9. Holder' = Holder
    BY <1>1 DEF Holder
  <1>10. \A k \in K : Holder[k] = c
    BY <1>4 DEF Holder
  <1>11. Editing[c] = {} /\ Editing' = [Editing EXCEPT ![c] = K]
    BY <1>7, <1>8 DEF Editing
  <1>12. Saw' = [Saw EXCEPT ![c] = [k \in Key |-> IF k \in K THEN version[k] ELSE 0]]
    <2>1. \A k \in K : request'[c].leases[k[2]].base = version[k]
      BY <1>3, <1>4, <1>6 DEF LeaseInv, LeaseBaseCurrent
    <2>2. \A d \in Conn : d # c =>
             [k \in Key |-> IF k \in Asked(d)' THEN request'[d].leases[k[2]].base ELSE 0] = Saw[d]
      BY <1>3, <1>8 DEF Saw
    <2>3. [k \in Key |-> IF k \in Asked(c)' THEN request'[c].leases[k[2]].base ELSE 0]
          = [k \in Key |-> IF k \in K THEN version[k] ELSE 0]
      BY <1>7, <2>1
    <2>4. Saw' = [d \in Conn |->
             [k \in Key |-> IF k \in Asked(d)' THEN request'[d].leases[k[2]].base ELSE 0]]
      BY DEF Saw
    <2>5. Saw' = [d \in Conn |-> IF d = c THEN [k \in Key |-> IF k \in K THEN version[k] ELSE 0]
                                ELSE Saw[d]]
      <3>. DEFINE x == [k \in Key |-> IF k \in K THEN version[k] ELSE 0]
                  s[d \in Conn] == [k \in Key |-> IF k \in Asked(d)' THEN request'[d].leases[k[2]].base ELSE 0]
      <3>1. Saw' = s /\ s[c] = x /\ \A d \in Conn : d # c => s[d] = Saw[d]
        BY <2>2, <2>3, <2>4
      <3>2. s = [d \in Conn |-> s[d]]
        OBVIOUS
      <3>. HIDE DEF x, s
      <3>. QED BY <3>1, <3>2 DEF x
    <2>6. Saw = [d \in Conn |-> Saw[d]]
      BY DEF Saw
    <2>. QED BY <2>5, <2>6
  <1>13. Lost' = Lost
    <2>1. \A k \in K : Stands(c, k)'
      BY <1>1, <1>3, <1>4, <1>6 DEF Stands
    <2>2. Lost'[c] = {} /\ Lost[c] = {}
      BY <1>7, <2>1 DEF Lost
    <2>3. \A d \in Conn : d # c => Lost'[d] = Lost[d]
      BY <1>1, <1>3, <1>8 DEF Lost, Stands
    <2>4. Lost = [d \in Conn |-> Lost[d]] /\ Lost' = [d \in Conn |-> Lost'[d]]
      BY DEF Lost
    <2>. QED BY <2>2, <2>3, <2>4
  <1>14. K \in SUBSET Key
    BY <1>4
  <1>15. Leases!Prepare(c, K)
    BY <1>1, <1>9, <1>10, <1>11, <1>12, <1>13 DEF Leases!Prepare
  <1>. QED BY <1>14, <1>15 DEF Leases!Next

\* A commit that the server accepts presents leases that all stand.
LEMMA StepCommits ==
    ASSUME TypeOK, RevisionsOrdered, NEW c \in Conn, CommitFieldValues(c)
    PROVE  Leases!Next
  <1>. DEFINE q == request[c]
              done == {<<q.ref, f>> : f \in q.fields}
              n == revision + 1
  <1>1. /\ q # None
        /\ ValidFieldCommit(c, q)
        /\ revision < MaxRevision
        /\ version' = [k \in Key |-> IF k \in done THEN revision + 1 ELSE version[k]]
        /\ lock' = [k \in Key |-> IF k \in done THEN None ELSE lock[k]]
        /\ request' = [request EXCEPT ![c] = None]
    BY DEF CommitFieldValues, Mutate
  <1>2. Editing[c] = done
    <2>1. done = {q.ref} \X q.fields
      OBVIOUS
    <2>. QED BY <1>1, <2>1 DEF Editing, Asked
  <1>3. Editing[c] # {} /\ Editing[c] \subseteq Key
    BY <1>1, AskedKeys DEF Editing
  <1>4. Lost[c] = {}
    <2>1. \A k \in Asked(c) : Stands(c, k)
      BY <1>1, AskedKeys DEF ValidFieldCommit, Stands
    <2>. QED BY <2>1 DEF Lost
  <1>5. Carried({c})
    BY <1>1 DEF Carried, TypeOK
  <1>6. LeasesEnd
    BY <1>1 DEF LeasesEnd
  <1>7. n \in 0..MaxRevision /\ \A k \in Key : n > version[k]
    BY <1>1, TimersAssumption DEF RevisionsOrdered, TypeOK
  <1>8. Leases!Drop({c})
    BY <1>5, <1>6, EndingDrops
  <1>9. Leases!Free(Editing[c])
    BY <1>1, <1>2 DEF Holder, Leases!Free
  <1>10. Leases!Commit(c, n)
    BY <1>1, <1>2, <1>3, <1>4, <1>7, <1>8, <1>9 DEF Leases!Commit
  <1>. QED BY <1>7, <1>10 DEF Leases!Next

LEMMA NextIsLeases ==
    TypeOK /\ LeaseInv /\ RevisionsOrdered /\ [Next]_vars => [Leases!Next]_(Leases!vars)
  <1>. SUFFICES ASSUME TypeOK, LeaseInv, RevisionsOrdered, [Next]_vars
                PROVE  [Leases!Next]_(Leases!vars)
    OBVIOUS
  <1>1. CASE SweepIdle
    <2>1. {c \in conns : idle[c] = IdleTicks} \in SUBSET Conn
      BY DEF TypeOK
    <2>. QED BY <1>1, <2>1, LeaveScopeLeaves DEF SweepIdle
  <1>2. CASE SweepOrphan
    <2>1. Carried({})
      BY <1>2 DEF SweepOrphan, Carried
    <2>. QED BY <1>2, <2>1, StepForgets DEF SweepOrphan, DiscardCanvasState
  <1>3. ASSUME NEW w \in Workspace, PurgeWorkspace(w)
        PROVE  Leases!Next
    <2>. DEFINE S == {c \in conns : WorkspaceOf[c] = w}
    <2>1. S \in SUBSET Conn
      BY DEF TypeOK
    <2>2. /\ Leave(S)
          /\ IF conns \ S = {}
             THEN DiscardCanvasState
             ELSE ReleaseConnectionLocks(S) /\ UNCHANGED <<version, liveVars>>
      BY <1>3 DEF PurgeWorkspace
    <2>. HIDE DEF S
    <2>. QED BY <2>1, <2>2, StepLeaves DEF DiscardCanvasState
  <1>4. ASSUME NEW u, NEW r, UpdateCanvasAccess(u, r)
        PROVE  [Leases!Next]_(Leases!vars)
    BY <1>4, StepStutters DEF UpdateCanvasAccess
  <1>5. CASE Tick
    <2>1. \A k \in Key : \/ Aged(lock[k]) = None
                         \/ /\ lock[k] # None
                            /\ Aged(lock[k]).owner = lock[k].owner
                            /\ Aged(lock[k]).id = lock[k].id
      <3>. SUFFICES ASSUME NEW k \in Key, lock[k] # None, lock[k] \in Lease
                    PROVE  \/ Aged(lock[k]) = None
                           \/ /\ Aged(lock[k]).owner = lock[k].owner
                              /\ Aged(lock[k]).id = lock[k].id
        BY DEF Aged, TypeOK
      <3>. QED BY DEF Aged, Lease
    <2>2. /\ \A k \in Key : lock'[k] = Aged(lock[k])
          /\ UNCHANGED <<version, request>>
      BY <1>5 DEF Tick
    <2>3. Carried({})
      BY <2>2 DEF Carried
    <2>4. LeasesEnd
      BY <2>1, <2>2 DEF LeasesEnd
    <2>. QED BY <2>2, <2>3, <2>4, StepGivesUp
  <1>6. ASSUME NEW c \in Conn, Connection(c)
        PROVE  [Leases!Next]_(Leases!vars)
    <2>1. CASE StartSubscribe(c) \/ KeepAlive(c)
      BY <2>1, StepStutters DEF StartSubscribe, KeepAlive
    <2>2. CASE Subscribe(c)
      <3>1. \/ lock' = [k \in Key |-> None] /\ version' = [k \in Key |-> 0]
            \/ UNCHANGED <<lock, version>>
        BY <2>2 DEF Subscribe, DiscardCanvasState
      <3>2. UNCHANGED request /\ Carried({})
        BY <2>2 DEF Subscribe, Carried
      <3>3. CASE lock' = [k \in Key |-> None] /\ version' = [k \in Key |-> 0]
        BY <3>2, <3>3, StepForgets
      <3>4. CASE UNCHANGED <<lock, version>>
        BY <3>2, <3>4, StepStutters DEF leaseVars
      <3>. QED BY <3>1, <3>3, <3>4
    <2>3. CASE Unsubscribe(c)
      BY <2>3, LeaveScopeLeaves DEF Unsubscribe
    <2>. QED BY <1>6, <2>1, <2>2, <2>3 DEF Connection
  <1>7. ASSUME NEW c \in Conn, Leasing(c)
        PROVE  [Leases!Next]_(Leases!vars)
    <2>1. ASSUME NEW k \in Key, NEW takeover \in BOOLEAN, AcquireFieldLock(c, k, takeover)
          PROVE  Leases!Next
      BY <2>1, StepAcquires
    <2>2. ASSUME NEW k \in Key, RenewFieldLock(c, k)
          PROVE  Leases!Next
      <3>. DEFINE l == [lock[k] EXCEPT !.left = LeaseTicks]
      <3>1. lock[k] \in Lease /\ lock' = [lock EXCEPT ![k] = l]
        BY <2>2 DEF RenewFieldLock, TypeOK
      <3>2. l \in Lease
        BY <3>1, TimersAssumption DEF Lease
      <3>3. l.owner = lock[k].owner /\ l.id = lock[k].id
        BY <3>1 DEF Lease
      <3>. HIDE DEF l
      <3>4. LeasesEnd
        BY <2>2, <3>1, <3>2, <3>3, NoneAssumption DEF RenewFieldLock, TypeOK, LeasesEnd
      <3>5. UNCHANGED <<version, request>> /\ Carried({})
        BY <2>2 DEF RenewFieldLock, Carried
      <3>. QED BY <3>4, <3>5, StepGivesUp
    <2>3. ASSUME NEW k \in Key, ReleaseFieldLock(c, k)
          PROVE  Leases!Next
      <3>1. LeasesEnd
        BY <2>3 DEF ReleaseFieldLock, TypeOK, LeasesEnd
      <3>2. UNCHANGED <<version, request>> /\ Carried({})
        BY <2>3 DEF ReleaseFieldLock, Carried
      <3>. QED BY <3>1, <3>2, StepGivesUp
    <2>4. ASSUME NEW r \in Ref, StartRepair(c, r)
          PROVE  [Leases!Next]_(Leases!vars)
      BY <2>4, StepStutters DEF StartRepair
    <2>5. CASE RepairRecord(c)
      BY <2>5, StepStutters DEF RepairRecord
    <2>. QED BY <1>7, <2>1, <2>2, <2>3, <2>4, <2>5 DEF Leasing
  <1>8. ASSUME NEW c \in Conn, Committing(c)
        PROVE  Leases!Next
    <2>1. ASSUME NEW r \in Ref, NEW F \in (SUBSET Field) \ {{}}, NEW fill \in BOOLEAN,
                 SendFieldCommit(c, r, F, fill)
          PROVE  Leases!Next
      BY <2>1, StepPrepares
    <2>2. CASE ValidateSlotFill(c) \/ RejectFieldCommit(c)
      <3>1. UNCHANGED <<lock, version>> /\ LeasesEnd
        BY <2>2 DEF ValidateSlotFill, RejectFieldCommit, LeasesEnd
      <3>2. CASE ValidateSlotFill(c)
        <4>. DEFINE q == [request[c] EXCEPT !.stage = "validated"]
        <4>1. request[c] \in Request /\ request[c] # None
          BY <3>2 DEF ValidateSlotFill, TypeOK
        <4>2. q \in Request /\ q.ref = request[c].ref /\ q.fields = request[c].fields
              /\ q.leases = request[c].leases
          BY <4>1 DEF Request
        <4>3. request' = [request EXCEPT ![c] = q]
          BY <3>2 DEF ValidateSlotFill
        <4>. HIDE DEF q
        <4>4. Carried({})
          BY <4>1, <4>2, <4>3, NoneAssumption DEF Carried, TypeOK
        <4>. QED BY <3>1, <4>4, StepGivesUp
      <3>3. CASE RejectFieldCommit(c)
        <4>1. Carried({c})
          BY <3>3 DEF RejectFieldCommit, Carried, TypeOK
        <4>. QED BY <3>1, <4>1, StepGivesUp
      <3>. QED BY <2>2, <3>2, <3>3
    <2>3. CASE CommitFieldValues(c)
      BY <2>3, StepCommits
    <2>. QED BY <1>8, <2>1, <2>2, <2>3 DEF Committing
  <1>9. ASSUME NEW c \in Conn, Mutating(c)
        PROVE  [Leases!Next]_(Leases!vars)
    <2>1. UNCHANGED leaseVars
      BY <1>9 DEF Mutating, UpdateDraft, CreateDraft, RemoveDraft, UpdateLoadedRecord,
                  CreateLoadedRecord, RemoveLoadedRecord, UpdateSlot, UpdateLayout,
                  UpdateDraftLink
    <2>. QED BY <2>1, StepStutters
  <1>10. ASSUME NEW c \in Conn, Saving(c)
         PROVE  [Leases!Next]_(Leases!vars)
    <2>1. UNCHANGED leaseVars
      BY <1>10 DEF Saving, SendSave, StoreSave, RefuseSave, BroadcastCanvasSaved
    <2>. QED BY <2>1, StepStutters
  <1>11. CASE UNCHANGED vars
    BY <1>11, StepStutters DEF vars
  <1>. QED BY <1>1, <1>2, <1>3, <1>4, <1>5, <1>6, <1>7, <1>8, <1>9, <1>10, <1>11
           DEF Next, Server

LEMMA InitIsLeases == Init => Leases!Init
  BY DEF Init, Leases!Init, Holder, Editing, Saw, Lost, Asked

\* The scope keeps the promise of LeaseRegister: whatever happens to leases while
\* a commit is on its way, it is applied only under leases held all the while.
THEOREM PresenceImplementsLeases == Spec => ImplementsLeases
  <1>1. TypeOK /\ LeaseInv /\ RevisionsOrdered /\ [Next]_vars
        => [Leases!Next]_(Leases!vars)
    BY NextIsLeases
  <1>2. Spec => []LeaseInv
    BY InitLeases, NextLeases, TypeCorrect, PTL DEF Spec
  <1>. QED BY <1>1, <1>2, InitIsLeases, TypeCorrect, RevisionsAlwaysOrdered, PTL
           DEF Spec, ImplementsLeases, Leases!Spec

\* What the register promises is worth having: an edit that may still be applied was
\* made on the current versions, although the register compares none.
RegisterInv == Leases!EditsCurrent /\ Editing \in [Conn -> SUBSET Key]

LEMMA DroppedEdits ==
    ASSUME RegisterInv, NEW C, Leases!Drop(C), NEW d \in Conn, NEW k \in Editing'[d] \ Lost'[d]
    PROVE  /\ k \in Editing[d] \ Lost[d] /\ k \in Key /\ Editing'[d] \in SUBSET Key
           /\ Holder'[k] = d /\ d # None
           /\ Saw'[d][k] = version[k]
  <1>1. d \notin C /\ k \in Editing[d] /\ k \notin Lost[d] /\ Holder'[k] = d
        /\ Saw'[d] = Saw[d] /\ Editing'[d] = Editing[d]
    BY DEF Leases!Drop
  <1>. QED BY <1>1, NoneAssumption DEF RegisterInv, Leases!EditsCurrent

LEMMA DroppedType ==
    ASSUME RegisterInv, NEW C, Leases!Drop(C)
    PROVE  Editing' \in [Conn -> SUBSET Key]
  BY DEF Leases!Drop, RegisterInv

LEMMA NextRegister == RegisterInv /\ [Leases!Next]_(Leases!vars) => RegisterInv'
  <1>. SUFFICES ASSUME RegisterInv, [Leases!Next]_(Leases!vars) PROVE RegisterInv'
    OBVIOUS
  <1>1. ASSUME NEW C \in SUBSET Conn, NEW K \in SUBSET Key, Leases!GiveUp(C, K)
        PROVE  RegisterInv'
    BY <1>1, DroppedEdits, DroppedType DEF Leases!GiveUp, RegisterInv, Leases!EditsCurrent
  <1>2. ASSUME NEW c \in Conn, NEW k \in Key, Leases!Acquire(c, k)
        PROVE  RegisterInv'
    BY <1>2, DroppedEdits, DroppedType DEF Leases!Acquire, RegisterInv, Leases!EditsCurrent
  <1>3. ASSUME NEW c \in Conn, NEW K \in SUBSET Key, Leases!Prepare(c, K)
        PROVE  RegisterInv'
    <2>1. Editing' \in [Conn -> SUBSET Key] /\ Editing'[c] = K
          /\ \A d \in Conn : d # c => Editing'[d] = Editing[d]
      BY <1>3 DEF Leases!Prepare, RegisterInv
    <2>2. Saw'[c] = [k \in Key |-> IF k \in K THEN version[k] ELSE 0]
          /\ \A d \in Conn : d # c => Saw'[d] = Saw[d]
      BY <1>3 DEF Leases!Prepare, Saw
    <2>3. UNCHANGED <<version, Holder, Lost>> /\ \A k \in K : Holder[k] = c
      BY <1>3 DEF Leases!Prepare
    <2>4. ASSUME NEW d \in Conn, NEW k \in Editing'[d] \ Lost'[d]
          PROVE  Holder'[k] = d /\ Saw'[d][k] = version'[k]
      <3>1. CASE d = c
        BY <2>1, <2>2, <2>3, <2>4, <3>1
      <3>2. CASE d # c
        BY <2>1, <2>2, <2>3, <2>4, <3>2 DEF RegisterInv, Leases!EditsCurrent
      <3>. QED BY <3>1, <3>2
    <2>. QED BY <2>1, <2>4 DEF RegisterInv, Leases!EditsCurrent
  <1>4. ASSUME NEW c \in Conn, NEW n \in 0..MaxRevision, Leases!Commit(c, n)
        PROVE  RegisterInv'
    <2>1. \A k \in Key : \/ version'[k] = version[k]
                         \/ Holder'[k] = None
      BY <1>4 DEF Leases!Commit, Leases!Free
    <2>2. Leases!Drop({c})
      BY <1>4 DEF Leases!Commit
    <2>. QED BY <2>1, <2>2, DroppedEdits, DroppedType DEF RegisterInv, Leases!EditsCurrent
  <1>5. ASSUME NEW C \in SUBSET Conn, Leases!Forget(C)
        PROVE  RegisterInv'
    <2>1. \A k \in Key : Holder'[k] = None
      BY <1>5 DEF Leases!Forget, Leases!Free
    <2>2. Leases!Drop(C)
      BY <1>5 DEF Leases!Forget
    <2>. QED BY <2>1, <2>2, DroppedEdits, DroppedType DEF RegisterInv, Leases!EditsCurrent
  <1>6. CASE UNCHANGED Leases!vars
    BY <1>6 DEF Leases!vars, RegisterInv, Leases!EditsCurrent
  <1>. QED BY <1>1, <1>2, <1>3, <1>4, <1>5, <1>6 DEF Leases!Next

\* Whoever implements the register overwrites nobody's edit unseen: an edit that may
\* still be applied was made on the current version of each of its keys.
THEOREM RegisterEditsCurrent == ImplementsLeases => []Leases!EditsCurrent
  <1>1. Leases!Init => RegisterInv
    BY DEF Leases!Init, RegisterInv, Leases!EditsCurrent
  <1>2. RegisterInv => Leases!EditsCurrent
    BY DEF RegisterInv
  <1>. QED BY <1>1, <1>2, NextRegister, PTL DEF ImplementsLeases, Leases!Spec
=============================================================================
