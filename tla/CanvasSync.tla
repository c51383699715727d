----------------------------- MODULE CanvasSync -----------------------------
(* How the browsers on one canvas keep their cards equal to the live payload of *)
(* the server (src/public/js/presence.js and src/canvas-presence.js): the queue *)
(* of mutations with its sequence numbers, the stream of events with their      *)
(* revisions, and the snapshots that start a client anew.  Who may write, and   *)
(* how long leases live, is the subject of Presence.  A further browser that    *)
(* only watches keeps the scope open throughout.                                *)
EXTENDS Naturals, FiniteSets, Sequences, SequencesExt

CONSTANTS
    Client,        \* browsers
    Owner,         \* the clients of the canvas's owner
    Card,          \* draft cards
    Value,         \* what a card holds
    Absent,        \* a card that is not on the canvas
    None,
    Stored,        \* the cards of the stored canvas
    FirstRevision, \* the revision, saved, from which the scope starts
    MaxRevision,   \* bound: revisions of the scope
    MaxConns,      \* bound: connections opened
    MaxEdits,      \* bound: edits by the users
    MaxSequence,   \* bound: the sequence numbers of a subscription
    MaxFaults      \* bound: lost calls and answers, failed snapshots, restarts

Cards == [Card -> Value \cup {Absent}]

ASSUME ClientAssumption == Owner \subseteq Client /\ IsFiniteSet(Card)
ASSUME StoredAssumption == Absent \notin Value /\ Stored \in Cards
ASSUME BoundAssumption ==
    /\ FirstRevision \in Nat /\ MaxRevision \in Nat /\ MaxConns \in Nat
    /\ MaxEdits \in Nat /\ MaxSequence \in Nat /\ MaxFaults \in Nat

VARIABLES
    live,      \* the live payload
    revision, durableRevision,
    instance,  \* the server process
    conn,      \* conn[c]: the connection the server has of c, 0 for none
    lastSequence,  \* lastSequence[c]: the last sequence number taken on it
    syncing,   \* syncing[c]: None, or the snapshot being projected for c
    held,      \* held[c]: events kept back until that snapshot is sent
    refresh,   \* refresh[c]: a refresh of c's snapshot is due
    lease,     \* lease[k]: the client editing a field of card k, or None
    stream,    \* stream[c]: events on their way to c
    client,    \* client[c]: the state of the browser c, see Fresh
    edits, conns, faults  \* counters of the bounds

serverVars == <<live, revision, durableRevision, instance, conn, lastSequence,
                syncing, held, refresh, lease>>
counters == <<edits, conns, faults>>
vars == <<serverVars, stream, client, counters>>

-----------------------------------------------------------------------------
\* The state of a browser.

NoCards == [k \in Card |-> Absent]
NothingTold == [k \in Card |-> [value |-> Absent, revision |-> 0]]

\* No connection, nothing known, nothing under way; generation g.
Fresh(view, g) ==
    [ me |-> 0, instance |-> 0,
      view |-> view,          \* canvasState.bulkRecords
      base |-> NoCards,       \* _lastBroadcastDraftValues
      known |-> {k \in Card : view[k] # Absent},  \* cards whose object is selected
      creating |-> {},        \* creations of peers that wait for the card's object
      adrift |-> {},          \* history: cards such a creation left other than they were told
      told |-> NothingTold,   \* history: the newest word of the server on each card
      latest |-> 0, gap |-> FALSE,
      since |-> 0,            \* history: the revision of the last snapshot, 0 once the
                              \* word of an earlier server process was taken for new
      overrun |-> FALSE,      \* history: events were left to replay that it contains
      wrote |-> FALSE,        \* history: the user changed something, or a card came twice
      awaiting |-> FALSE,     \* _awaitingLayoutSnapshot
      recover |-> FALSE,      \* _recoverOwnerStateAfterSnapshot
      presence |-> None,      \* canvasState._presenceRevision
      dirty |-> FALSE,        \* _resumeCanvasWasDirty
      resume |-> None,        \* _resumeCanvasRevision
      applying |-> None,      \* the snapshot being applied
      queued |-> <<>>,        \* _queuedSnapshotEvents
      later |-> <<>>,         \* events whose replay waits for a nested snapshot
      inFlight |-> [k \in Card |-> 0],  \* the generation of a card's mutation
      queue |-> <<>>, active |-> 0,
      sequence |-> 0, generation |-> g,
      failed |-> {},          \* _failedMutationKeys
      calls |-> {}, answers |-> {} ]

Init ==
    /\ live = Stored
    /\ revision = FirstRevision
    /\ durableRevision = FirstRevision
    /\ instance = 1
    /\ conn = [c \in Client |-> 0]
    /\ lastSequence = [c \in Client |-> 0]
    /\ syncing = [c \in Client |-> None]
    /\ held = [c \in Client |-> <<>>]
    /\ refresh = [c \in Client |-> FALSE]
    /\ lease = [k \in Card |-> None]
    /\ stream = [c \in Client |-> <<>>]
    /\ client = [c \in Client |-> Fresh(Stored, 1)]
    /\ edits = 0
    /\ conns = 0
    /\ faults = 0

Becomes(c, s) == client' = [client EXCEPT ![c] = s]

Fault == faults < MaxFaults /\ faults' = faults + 1

-----------------------------------------------------------------------------
\* The browser: revisions, baselines and the queue of mutations.

\* Mutant of Observe: a revision that skips others is taken as the next one.
ObserveBlindly(s, r) ==
    LET top == IF r > s.latest THEN r ELSE s.latest
    IN  [s EXCEPT !.latest = top, !.presence = top]

Observe(s, r) ==
    LET top == IF r > s.latest THEN r ELSE s.latest
    IN  [s EXCEPT !.gap = @ \/ (s.latest > 0 /\ r > s.latest + 1),
                  !.latest = top, !.presence = top]

\* Revision x.revision, in which a card became x.now, was announced to s.
Told(s, x) ==
    IF x.instance # s.instance THEN [s EXCEPT !.since = 0]
    ELSE IF x.revision < s.told[x.card].revision THEN s
    ELSE [s EXCEPT !.told[x.card] = [value |-> x.now, revision |-> x.revision]]

SeedBaselines(s) == [s EXCEPT !.base = s.view]

\* Mutant of ResetTracking: the numbering starts again on the same connection.
ResetNumbering(s) ==
    [s EXCEPT !.generation = @ + 1, !.inFlight = [k \in Card |-> 0],
              !.queue = <<>>, !.active = 0, !.sequence = 0, !.failed = {}]

ResetTracking(s) ==
    [s EXCEPT !.generation = @ + 1, !.inFlight = [k \in Card |-> 0],
              !.queue = <<>>, !.active = 0, !.failed = {}]

\* One request at a time: the next one is numbered and sent when none is out.
Drain(s) ==
    IF s.active # 0 \/ s.queue = <<>> THEN s
    ELSE [s EXCEPT !.queue = Tail(@), !.active = s.generation, !.sequence = @ + 1,
                   !.calls = @ \cup {[Head(s.queue) EXCEPT !.sequence = s.sequence + 1]}]

CanPublish(s) == s.me # 0 /\ s.applying = None /\ ~s.awaiting

Unsent(s) == {k \in Card : s.view[k] # s.base[k] /\ s.inFlight[k] = 0}

Mutation(s, k) ==
    [ type |-> IF s.base[k] = Absent THEN "create"
               ELSE IF s.view[k] = Absent THEN "remove" ELSE "update",
      card |-> k, value |-> s.view[k], conn |-> s.me, sequence |-> 0,
      generation |-> s.generation ]

\* Every difference from the baseline is queued, removals after the others.
BroadcastDeltas(s, due) ==
    LET puts == SetToSeq({k \in due : s.view[k] # Absent})
        cuts == SetToSeq({k \in due : s.view[k] = Absent})
        order == puts \o cuts
    IN  Drain([s EXCEPT !.queue = @ \o [i \in 1..Len(order) |-> Mutation(s, order[i])],
                        !.inFlight = [k \in Card |-> IF k \in due THEN s.generation ELSE @[k]]])

-----------------------------------------------------------------------------
\* The browser: events.

Present(s, k) == s.view[k] # Absent

\* What a card becomes by x.
Written(x) == IF x.type = "remove" THEN Absent ELSE x.value

\* The object of the card is not selected yet: its graph is fetched first.
Awaits(s, e) == e.type = "create" /\ ~Present(s, e.card) /\ e.card \notin s.known

\* Nothing waits for a creation that does: an update is dropped, and a removal is
\* undone when the card comes.
ApplyMutation(s, e) ==
    IF Awaits(s, e) THEN [s EXCEPT !.creating = @ \cup {e}]
    ELSE IF e.type = "update" /\ ~Present(s, e.card) THEN s
    ELSE [s EXCEPT !.view[e.card] = Written(e), !.base[e.card] = Written(e)]

\* A peer's field seeds the baselines of all cards from what is on the canvas.
ApplyField(s, e) ==
    IF Present(s, e.card) THEN SeedBaselines([s EXCEPT !.view[e.card] = e.value]) ELSE s

StartSnapshot(s, e) == [ResetTracking(s) EXCEPT !.applying = e, !.overrun = FALSE]

ApplyEvent(s, e) == IF e.type = "field" THEN ApplyField(s, e) ELSE ApplyMutation(s, e)

OnEvent(s, e) ==
    CASE s.applying # None -> [s EXCEPT !.queued = Append(@, e)]
      [] s.applying = None /\ e.type = "snapshot" -> StartSnapshot(s, e)
      [] s.applying = None /\ e.type = "unavailable" -> [s EXCEPT !.gap = TRUE]
      [] OTHER -> Told(ApplyEvent(Observe(s, e.revision), e), e)

\* The events q in the order of their revisions, those of one revision as they came.
Before(q, j, i) ==
    q[j].revision < q[i].revision \/ (q[j].revision = q[i].revision /\ j <= i)
Rank(q, i) == Cardinality({j \in 1..Len(q) : Before(q, j, i)})
ByRevision(q) == [n \in 1..Len(q) |-> q[CHOOSE i \in 1..Len(q) : Rank(q, i) = n]]

\* s after the first n events of q.
After(s, q, n) ==
    LET f[i \in 0..n] == IF i = 0 THEN s ELSE OnEvent(f[i - 1], q[i]) IN f[n]

\* Replays the events q; those after a snapshot among them wait until it is applied.
Replay(s, q) ==
    LET snaps == {i \in 1..Len(q) : q[i].type = "snapshot"}
        upto == IF snaps = {} THEN Len(q) ELSE CHOOSE i \in snaps : \A j \in snaps : i <= j
        left == SubSeq(q, upto + 1, Len(q))
    IN  [After(s, q, upto) EXCEPT !.later = left,
            !.overrun = @ \/ \E i \in 1..Len(left) : left[i].revision <= q[upto].revision]

\* Mutant of ReplayQueued: the queue is not emptied.
ReplayAgain(s) == Replay([s EXCEPT !.applying = None], ByRevision(s.queued) \o s.later)

ReplayQueued(s) ==
    Replay([s EXCEPT !.applying = None, !.queued = <<>>], ByRevision(s.queued) \o s.later)

\* The owner keeps what is on the canvas when the server has nothing newer than
\* the last save: after a restart of the server, or on a canvas left dirty at a
\* revision that is not older or was never known.
Resumes(c, s, e) ==
    /\ c \in Owner
    /\ e.revision <= e.durable
    /\ s.recover \/ (s.dirty /\ (s.resume = None \/ s.resume >= e.revision))

AfterSnapshot(s, e) ==
    [s EXCEPT !.applying = None, !.recover = FALSE, !.resume = None, !.dirty = FALSE,
              !.awaiting = FALSE, !.latest = e.revision, !.presence = e.revision, !.gap = FALSE,
              !.since = IF e.instance = s.instance THEN e.revision ELSE 0,
              !.told = [k \in Card |-> IF e.instance # s.instance \/ e.revision < s.told[k].revision THEN s.told[k]
                                      ELSE [value |-> e.payload[k], revision |-> e.revision]]]

ApplySnapshot(c, s, e) ==
    IF Resumes(c, s, e)
    THEN LET t == ResetTracking([AfterSnapshot(s, e) EXCEPT !.base = e.payload])
         IN  BroadcastDeltas(t, Unsent(t))
    ELSE SeedBaselines([AfterSnapshot(s, e) EXCEPT
             !.view = e.payload, !.adrift = {}, !.known = {k \in Card : e.payload[k] # Absent}])

OnInit(c, s, e) ==
    SeedBaselines([s EXCEPT !.me = e.conn, !.instance = e.instance,
        !.recover = c \in Owner /\ s.instance \notin {0, e.instance},
        !.latest = e.durable, !.gap = e.revision > e.durable, !.awaiting = TRUE,
        !.told = IF e.instance = s.instance THEN @ ELSE NothingTold])

Receive(c) ==
    /\ stream[c] # <<>>
    /\ LET e == Head(stream[c])
       IN  Becomes(c, IF e.type = "init" THEN OnInit(c, client[c], e) ELSE OnEvent(client[c], e))
    /\ stream' = [stream EXCEPT ![c] = Tail(@)]
    /\ UNCHANGED <<serverVars, counters>>

\* The snapshot is on the canvas, and what arrived meanwhile is replayed.
FinishSnapshot(c) ==
    /\ client[c].applying # None
    /\ Becomes(c, ReplayQueued(ApplySnapshot(c, client[c], client[c].applying)))
    /\ UNCHANGED <<serverVars, stream, counters>>

\* The snapshot could not be applied.
FailSnapshot(c) ==
    /\ client[c].applying # None
    /\ Fault
    /\ Becomes(c, ReplayQueued([client[c] EXCEPT !.gap = TRUE, !.awaiting = TRUE]))
    /\ UNCHANGED <<serverVars, stream, edits, conns>>

\* v is the newest word on card k, of a revision that s counts as seen.
LastTold(s, k, v) == v = s.told[k].value /\ s.told[k].revision <= s.latest

\* The fetch behind the creation e ends and card e.card is shown as v.
Concluded(s, e, v) ==
    [s EXCEPT !.creating = @ \ {e}, !.view[e.card] = v,
              !.adrift = IF LastTold(s, e.card, v) THEN @ ELSE @ \cup {e.card}]

Created(s, e, v) ==
    [Concluded(s, e, v) EXCEPT !.base[e.card] = e.value, !.known = @ \cup {e.card},
                               !.wrote = @ \/ Present(s, e.card)]

\* The card is put on the canvas, a second time if it came meanwhile: either of the
\* two records may then be the one that is compared with the baseline.
FetchDone(c, e, v) ==
    /\ v = e.value \/ (Present(client[c], e.card) /\ v = client[c].view[e.card])
    /\ Becomes(c, Created(client[c], e, v))
    /\ UNCHANGED <<serverVars, stream, counters>>

\* The object cannot be fetched, and the creation is dropped.
FetchFail(c, e) ==
    /\ Fault
    /\ Becomes(c, Concluded(client[c], e, client[c].view[e.card]))
    /\ UNCHANGED <<serverVars, stream, edits, conns>>

-----------------------------------------------------------------------------
\* The browser: edits, the clock of the broadcasts, and answers.

\* The record dialog waits for the answer to its last save.
DialogWaits(s) == \E x \in s.calls \cup s.answers : x.type = "field"

\* The user adds, changes or removes a card.
Edit(c, k, v) ==
    /\ edits < MaxEdits
    /\ client[c].applying = None /\ ~DialogWaits(client[c])
    /\ client[c].view[k] # v
    /\ Becomes(c, [client[c] EXCEPT !.view[k] = v, !.wrote = TRUE,
                       !.known = IF v = Absent THEN @ ELSE @ \cup {k}])
    /\ edits' = edits + 1
    /\ UNCHANGED <<serverVars, stream, conns, faults>>

\* The interval of the broadcasts; mutations in `early` still wait for their retry.
Tick(c, early) ==
    /\ CanPublish(client[c])
    /\ client[c].sequence < MaxSequence
    /\ early \subseteq client[c].failed
    /\ Unsent(client[c]) \ early # {}
    /\ Becomes(c, BroadcastDeltas(client[c], Unsent(client[c]) \ early))
    /\ UNCHANGED <<serverVars, stream, counters>>

Accepted(s, a) ==
    [Told(Observe(s, a.revision), a) EXCEPT
        !.base[a.card] = a.value, !.failed = @ \ {a.card}]

\* Mutant of Refused: what failed is remembered by its number, not by its card.
RefusedNumber(s, a) == [s EXCEPT !.failed = @ \cup {a.sequence}]

Refused(s, a) == [s EXCEPT !.failed = @ \cup {a.card}]

\* Mutant of Finished: an answer does not send the next request.
FinishedAlone(s, a) ==
    LET t == [s EXCEPT !.inFlight[a.card] = IF @ = a.generation THEN 0 ELSE @]
    IN  IF s.active = a.generation THEN [t EXCEPT !.active = 0] ELSE t

Finished(s, a) ==
    LET t == [s EXCEPT !.inFlight[a.card] = IF @ = a.generation THEN 0 ELSE @]
    IN  IF s.active = a.generation THEN Drain([t EXCEPT !.active = 0]) ELSE t

\* The answer to a mutation; one of an older generation changes no baseline.
Answer(c, a) ==
    LET s == [client[c] EXCEPT !.answers = @ \ {a}]
    IN  /\ a.type # "field"
        /\ Becomes(c, Finished(IF a.generation # s.generation THEN s
                               ELSE IF a.ok THEN Accepted(s, a) ELSE Refused(s, a), a))
        /\ UNCHANGED <<serverVars, stream, counters>>

\* The user saves a field of card k in the record dialog, which takes its lease.
CommitField(c, k, v) ==
    LET s == client[c]
    IN  /\ edits < MaxEdits
        /\ s.me # 0 /\ s.me = conn[c] /\ s.applying = None /\ ~DialogWaits(s)
        /\ Present(s, k) /\ s.view[k] # v /\ v # Absent
        /\ lease[k] = None
        /\ live[k] # Absent
        /\ lease' = [lease EXCEPT ![k] = c]
        /\ Becomes(c, [s EXCEPT !.wrote = TRUE, !.calls = @ \cup
               {[type |-> "field", card |-> k, value |-> v, conn |-> s.me, sequence |-> 0,
                 generation |-> s.generation]}])
        /\ edits' = edits + 1
        /\ UNCHANGED <<live, revision, durableRevision, instance, conn, lastSequence,
                       syncing, held, refresh, stream, conns, faults>>

\* Its answer, of whatever generation, puts the value on the canvas and seeds all
\* baselines anew.
AnswerField(c, a) ==
    LET s == [client[c] EXCEPT !.answers = @ \ {a}]
        t == IF Present(s, a.card) THEN [s EXCEPT !.view[a.card] = a.value] ELSE s
    IN  /\ a.type = "field"
        /\ Becomes(c, IF a.ok THEN SeedBaselines(Told(Observe(t, a.revision), a)) ELSE s)
        /\ UNCHANGED <<serverVars, stream, counters>>

-----------------------------------------------------------------------------
\* The server.

Snapshot == [type |-> "snapshot", instance |-> instance, revision |-> revision, durable |-> durableRevision,
             payload |-> live]

\* What m makes of the live payload.
Mutated(m) ==
    IF m.type # "create" /\ live[m.card] = Absent THEN live
    ELSE [live EXCEPT ![m.card] = Written(m)]

AcceptsSequence(c, m) == m.type = "field" \/ m.sequence > lastSequence[c]

\* A mutation needs the fields it writes free of other clients' leases, a field
\* commit needs the lease.
LeaseAllows(c, m) ==
    IF m.type = "field" THEN lease[m.card] = c
    ELSE live[m.card] = Absent \/ lease[m.card] \in {None, c}

Accepts(c, m) == m.conn = conn[c] /\ AcceptsSequence(c, m) /\ LeaseAllows(c, m)

\* `now` and `instance`, which are no part of the code's event, are what the card
\* holds afterwards and the process that says so.
Event(m) == [type |-> m.type, instance |-> instance, revision |-> revision + 1,
             card |-> m.card, value |-> m.value, now |-> Mutated(m)[m.card]]

Reply(c, m, ok, r) ==
    Becomes(c, [client[c] EXCEPT !.calls = @ \ {m}, !.answers = @ \cup
        {[type |-> m.type, instance |-> instance, card |-> m.card, value |-> m.value, now |-> Mutated(m)[m.card],
          generation |-> m.generation, sequence |-> m.sequence, ok |-> ok, revision |-> r]}])

\* The others get the event, in their stream or after the snapshot under way;
\* a creation may show them objects whose visibility is not known yet.
BroadcastMutation(c, m, unknown) ==
    LET others == {d \in Client \ {c} : conn[d] # 0}
        behind == {d \in others : syncing[d] # None}
    IN  /\ stream' = [d \in Client |-> IF d \in others \ behind THEN Append(stream[d], Event(m)) ELSE stream[d]]
        /\ held' = [d \in Client |-> IF d \in behind THEN Append(held[d], Event(m)) ELSE held[d]]
        /\ refresh' = [d \in Client |-> refresh[d] \/ (d \in unknown \cap others)]

TakeSequence(c, m) ==
    lastSequence' = IF m.type # "field" /\ m.conn = conn[c] /\ m.sequence > lastSequence[c]
                    THEN [lastSequence EXCEPT ![c] = m.sequence] ELSE lastSequence

\* The answer reaches the client, or is lost and the call counts as failed.
Handle(c, m, heard, unknown) ==
    /\ revision < MaxRevision
    /\ unknown = {} \/ m.type = "create"
    /\ IF heard THEN UNCHANGED faults ELSE Fault
    /\ TakeSequence(c, m)
    /\ IF Accepts(c, m)
       THEN /\ live' = Mutated(m)
            /\ revision' = revision + 1
            /\ BroadcastMutation(c, m, unknown)
            /\ lease' = IF m.type = "field" THEN [lease EXCEPT ![m.card] = None] ELSE lease
            /\ Reply(c, m, heard, revision + 1)
       ELSE /\ Reply(c, m, FALSE, 0)
            /\ UNCHANGED <<live, revision, held, refresh, lease, stream>>
    /\ UNCHANGED <<durableRevision, instance, conn, syncing, edits, conns>>

\* The call is lost.
LoseCall(c, m) ==
    /\ Fault
    /\ Reply(c, m, FALSE, 0)
    /\ UNCHANGED <<serverVars, stream, edits, conns>>

\* A refresh that is due starts a projection, unless one is under way.
Refresh(c) ==
    /\ refresh[c] /\ conn[c] # 0 /\ syncing[c] = None
    /\ refresh' = [refresh EXCEPT ![c] = FALSE]
    /\ syncing' = [syncing EXCEPT ![c] = Snapshot]
    /\ UNCHANGED <<live, revision, durableRevision, instance, conn, lastSequence, held,
                   lease, stream, client, counters>>

\* The events of q that are newer than revision r.
Newer(q, r) ==
    LET f[i \in 0..Len(q)] ==
            IF i = 0 THEN <<>>
            ELSE IF q[i].revision > r THEN Append(f[i - 1], q[i]) ELSE f[i - 1]
    IN  f[Len(q)]

\* The projection is ready: the snapshot goes out, then what it does not contain.
DeliverSnapshot(c) ==
    /\ syncing[c] # None
    /\ stream' = [stream EXCEPT ![c] =
           Append(@, [syncing[c] EXCEPT !.durable = durableRevision])
           \o Newer(held[c], syncing[c].revision)]
    /\ syncing' = [syncing EXCEPT ![c] = None]
    /\ held' = [held EXCEPT ![c] = <<>>]
    /\ UNCHANGED <<live, revision, durableRevision, instance, conn, lastSequence, refresh,
                   lease, client, counters>>

\* The projection fails: the events held back are dropped and the client told.
DeliverUnavailable(c) ==
    /\ syncing[c] # None
    /\ Fault
    /\ stream' = [stream EXCEPT ![c] =
           Append(@, [type |-> "unavailable", revision |-> syncing[c].revision])]
    /\ syncing' = [syncing EXCEPT ![c] = None]
    /\ held' = [held EXCEPT ![c] = <<>>]
    /\ UNCHANGED <<live, revision, durableRevision, instance, conn, lastSequence, refresh,
                   lease, client, edits, conns>>

\* The stream opens: an owner's snapshot follows at once, another's is projected.
Subscribe(c) ==
    /\ conn[c] = 0 /\ client[c].me = 0
    /\ conns < MaxConns
    /\ conns' = conns + 1
    /\ conn' = [conn EXCEPT ![c] = conns + 1]
    /\ lastSequence' = [lastSequence EXCEPT ![c] = 0]
    /\ LET init == [type |-> "init", conn |-> conns + 1, instance |-> instance,
                    revision |-> revision, durable |-> durableRevision]
       IN  stream' = [stream EXCEPT ![c] = IF c \in Owner THEN <<init, Snapshot>> ELSE <<init>>]
    /\ syncing' = [syncing EXCEPT ![c] = IF c \in Owner THEN None ELSE Snapshot]
    /\ UNCHANGED <<live, revision, durableRevision, instance, held, refresh, lease, client,
                   edits, faults>>

Ended(gone) ==
    /\ conn' = [c \in Client |-> IF c \in gone THEN 0 ELSE conn[c]]
    /\ syncing' = [c \in Client |-> IF c \in gone THEN None ELSE syncing[c]]
    /\ held' = [c \in Client |-> IF c \in gone THEN <<>> ELSE held[c]]
    /\ refresh' = [c \in Client |-> refresh[c] /\ c \notin gone]
    /\ lease' = [k \in Card |-> IF lease[k] \in gone THEN None ELSE lease[k]]
    /\ stream' = [c \in Client |-> IF c \in gone THEN <<>> ELSE stream[c]]

\* The stream breaks; the EventSource will open it again by itself.
Drop(c) ==
    /\ conn[c] # 0 /\ conns < MaxConns
    /\ Ended({c})
    /\ Becomes(c, [client[c] EXCEPT !.me = 0])
    /\ UNCHANGED <<live, revision, durableRevision, instance, lastSequence, counters>>

\* Drafts make a canvas dirty; the stored one has nothing to resume.
Dirty(s) == s.view # Stored /\ \E k \in Card : Present(s, k)

\* The client closes its stream and subscribes again; it may resume a dirty canvas.
\* What it waits for to create comes nevertheless.
Resubscribe(c) ==
    LET s == client[c]
        t == Fresh(s.view, s.generation + 1)
    IN  /\ conn[c] # 0 /\ conns < MaxConns
        /\ Ended({c})
        /\ Becomes(c, [t EXCEPT !.instance = s.instance, !.calls = s.calls, !.answers = s.answers,
                           !.known = s.known, !.creating = s.creating, !.adrift = s.adrift,
                           !.wrote = s.wrote, !.presence = s.presence,
                           !.dirty = Dirty(s), !.resume = s.presence])
        /\ UNCHANGED <<live, revision, durableRevision, instance, lastSequence, counters>>

\* The server starts anew: its memory is gone, the next subscription seeds the
\* scope from the stored canvas.
Restart ==
    /\ Fault
    /\ Ended(Client)
    /\ live' = Stored
    /\ revision' = 0
    /\ durableRevision' = 0
    /\ instance' = instance + 1
    /\ client' = [c \in Client |-> [client[c] EXCEPT !.me = 0]]
    /\ UNCHANGED <<lastSequence, edits, conns>>

-----------------------------------------------------------------------------
Next ==
    \/ Restart
    \/ \E c \in Client :
        \/ Receive(c) \/ FinishSnapshot(c) \/ FailSnapshot(c)
        \/ Refresh(c) \/ DeliverSnapshot(c) \/ DeliverUnavailable(c)
        \/ Subscribe(c) \/ Drop(c) \/ Resubscribe(c)
        \/ \E k \in Card, v \in Value \cup {Absent} : Edit(c, k, v)
        \/ \E k \in Card, v \in Value : CommitField(c, k, v)
        \/ \E early \in SUBSET Card : Tick(c, early)
        \/ \E a \in client[c].answers : Answer(c, a) \/ AnswerField(c, a)
        \/ \E e \in client[c].creating :
            FetchFail(c, e) \/ \E v \in Value \cup {Absent} : FetchDone(c, e, v)
        \/ \E m \in client[c].calls :
            \/ LoseCall(c, m)
            \/ \E heard \in BOOLEAN, unknown \in SUBSET (Client \ Owner) :
                Handle(c, m, heard, unknown)

Spec == Init /\ [][Next]_vars

-----------------------------------------------------------------------------
\* Properties.

Kind == {"create", "update", "remove", "field"}
Held == Value \cup {Absent}
Mutations == [type : Kind, card : Card, value : Held, conn : Nat, sequence : Nat, generation : Nat]
Answers == [type : Kind, card : Card, value : Held, now : Held, instance : Nat,
            generation : Nat, sequence : Nat, ok : BOOLEAN, revision : Nat]
Changes == [type : Kind, instance : Nat, card : Card, value : Held, now : Held, revision : Nat]
Snapshots == [type : {"snapshot"}, instance : Nat, revision : Nat, durable : Nat, payload : Cards]
Events == Changes \cup Snapshots \cup [type : {"unavailable"}, revision : Nat]
Inits == [type : {"init"}, conn : Nat, instance : Nat, revision : Nat, durable : Nat]

\* No snapshot is taken for none.
ASSUME NoneAssumption == None \notin Snapshots

Browsers ==
    [me : Nat, instance : Nat, view : Cards, base : Cards,
     known : SUBSET Card, creating : SUBSET Changes, adrift : SUBSET Card,
     told : [Card -> [value : Held, revision : Nat]],
     latest : Nat, gap : BOOLEAN, since : Nat, overrun : BOOLEAN, wrote : BOOLEAN,
     awaiting : BOOLEAN, recover : BOOLEAN,
     presence : Nat \cup {None}, dirty : BOOLEAN, resume : Nat \cup {None},
     applying : Snapshots \cup {None}, queued : Seq(Events), later : Seq(Events),
     inFlight : [Card -> Nat], queue : Seq(Mutations), active : Nat, sequence : Nat,
     generation : Nat, failed : SUBSET Card, calls : SUBSET Mutations, answers : SUBSET Answers]

\* The types of the variables of both sides.
TypeOK ==
    /\ live \in Cards
    /\ {revision, durableRevision, instance, edits, conns, faults} \subseteq Nat
    /\ conn \in [Client -> Nat] /\ lastSequence \in [Client -> Nat]
    /\ syncing \in [Client -> Snapshots \cup {None}]
    /\ held \in [Client -> Seq(Changes)]
    /\ refresh \in [Client -> BOOLEAN]
    /\ lease \in [Card -> Client \cup {None}]
    /\ stream \in [Client -> Seq(Events \cup Inits)]
    /\ client \in [Client -> Browsers]

\* c believes that it has seen all there is, and no snapshot is on its way.
Current(c) ==
    LET s == client[c]
    IN  /\ CanPublish(s) /\ s.me = conn[c]
        /\ s.latest = revision /\ ~s.gap /\ s.since > 0
        /\ syncing[c] = None
        /\ \A i \in 1..Len(stream[c]) : stream[c][i].type # "snapshot"

\* A browser that has reached the server's revision and has no gap flagged was
\* told the newest value of every card, whatever was lost, answered out of order,
\* held back during a projection or projected anew.  `gap` is what an owner's save
\* relies on.
GapsNoticed ==
    \A c \in Client : Current(c) => \A k \in Card : client[c].told[k].value = live[k]

\* Cards whose creation waits, or was overtaken or dropped since the last snapshot.
Loose(s) == s.adrift \cup {e.card : e \in s.creating}

\* And if its user only reads, its canvas is the live payload: the events that
\* arrived while a snapshot was applied were replayed, in order and only once.
\* There are three exceptions: events left to replay that a second snapshot contains
\* already; a card whose creation waits for its object, and until the next snapshot
\* one whose creation was overtaken by other events or failed; and a browser on
\* which such a creation put a card twice.
ReadersAgree ==
    \A c \in Client :
        Current(c) /\ ~client[c].wrote /\ ~client[c].overrun =>
            \A k \in Card \ Loose(client[c]) : client[c].view[k] = live[k]

\* The sequence numbers of the server drop requests of an earlier queue only: a
\* request that a browser still counts on is above the last number taken.
CurrentNeverStale ==
    \A c \in Client : \A m \in client[c].calls :
        m.type # "field" /\ m.conn = conn[c] /\ m.conn # 0 /\ m.generation = client[c].generation
        => m.sequence > lastSequence[c]

\* The queue never stands still with nothing under way: what is marked as being
\* sent is in the queue or at the server, through failures, snapshots that throw
\* the queue away, and answers that arrive after them.
QueueMoves ==
    \A c \in Client :
        LET s == client[c]
            out == {x \in s.calls \cup s.answers : x.type # "field"}
        IN  /\ s.active # 0 => \E x \in out : x.generation = s.active
            /\ s.queue # <<>> => s.active # 0
            /\ \A k \in Card : s.inFlight[k] # 0 =>
                   \/ \E x \in out : x.card = k /\ x.generation = s.inFlight[k]
                   \/ \E i \in 1..Len(s.queue) :
                          s.queue[i].card = k /\ s.queue[i].generation = s.inFlight[k]
=============================================================================
