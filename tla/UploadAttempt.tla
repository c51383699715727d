---------------------------- MODULE UploadAttempt ----------------------------
(***************************************************************************)
(* Uploading the drafts of a canvas to Salesforce: the upload dialog of one *)
(* browser tab and its recovery journal, the three upload routes of the     *)
(* server with their claim on an attempt id, the encrypted upload ledger    *)
(* that is kept in Salesforce, and Salesforce itself.                       *)
(*                                                                          *)
(* Requests are handled concurrently (a tab may ask again while an older    *)
(* request of it still runs).  Every message can be lost: the browser may   *)
(* never see the reply, the server may never see Salesforce's answer to a   *)
(* write that was, or will later be, committed.  The server may crash; the  *)
(* tab may reload.                                                          *)
(***************************************************************************)
EXTENDS Naturals, FiniteSets

CONSTANTS
    Draft,           \* drafts of the user's canvases
    CanvasOf,        \* the canvas of a draft
    TempOf,          \* its tempId, unique within a canvas only
    GraphOf,         \* its connected component; the drafts of one are all related
    GraphRequestCap, \* graphs per Composite Graph request (75 in the code)
    Request,         \* upload requests: each is sent once
    Attempt,         \* attempt ids: random, so each is drawn once
    Routes,          \* the routes in use, of "graph", "bulk" and "rest"
    Faults,          \* what may go wrong beside crashes, lost replies and lost answers
    None

ASSUME CapAssumption == GraphRequestCap \in Nat \ {0}
ASSUME RoutesAssumption == Routes \subseteq {"graph", "bulk", "rest"}
ASSUME NoneAssumption == None \notin Request \cup Attempt

\* "early close": a connection closes before its handler ends; "reload": the page
\* is reloaded; "rest answer": the answer to a single REST write is lost; "forget":
\* the user deletes the ledger of an upload; "broken recovery": a look-up of the
\* recovery fails after others have succeeded.
ASSUME FaultsAssumption ==
    Faults \subseteq {"early close", "reload", "rest answer", "forget", "broken recovery"}

VARIABLES
    rows,     \* Salesforce: <<r, d>> is the record request r made of draft d
    wire,     \* writes sent and not executed: <<r, drafts>>
    answers,  \* answers not read: [req, drafts, made, told]
    ledger,   \* the ledger file a request created
    claims,   \* the requests whose attempt id is in _activeUploadAttempts
    h,        \* the handler of a request
    reply,    \* its HTTP reply
    phase,    \* what the dialog is doing
    cur,      \* the request it waits for
    sel,      \* the records in scope of the current upload
    attempt,  \* _uploadAttemptId
    journal,  \* journal[d]: the attempt a draft was last sent with, if unresolved
    linked,   \* linked[d]: the request whose record is the draft's loadedFromId
    left      \* attempts the recovery has still to look up

salesforce == <<rows, wire, answers>>
server == <<ledger, claims, h, reply>>
client == <<phase, cur, sel, attempt, journal, linked, left>>
vars == <<salesforce, server, client>>

LedgerStatus == {"none", "pending", "uploaded", "failed", "removed"}
NoLedger == [status |-> "none", logged |-> FALSE, started |-> {},
             confirmed |-> {}, failed |-> {}, stopped |-> FALSE]
Unsent == [pc |-> "unsent", mode |-> "graph", attempt |-> None, drafts |-> {},
           todo |-> {}, sent |-> {}, confirmed |-> {}, failed |-> {}]
NoReply == [kind |-> "none", made |-> {}, failed |-> {}, fallback |-> FALSE]

Init ==
    /\ rows = {} /\ wire = {} /\ answers = {}
    /\ ledger = [r \in Request |-> NoLedger]
    /\ claims = {}
    /\ h = [r \in Request |-> Unsent]
    /\ reply = [r \in Request |-> NoReply]
    /\ phase = "idle" /\ cur = None /\ sel = {} /\ attempt = None /\ left = {}
    /\ journal = [d \in Draft |-> None]
    /\ linked = [d \in Draft |-> None]

-----------------------------------------------------------------------------
(* The upload ledger *)

Exists(l) == ledger[l].status \in {"pending", "uploaded", "failed"}

\* Mutant of FindByAttemptId: only ledgers of finished uploads are found.
FindFinished(a) == {l \in Request : h[l].attempt = a /\ ledger[l].status \in {"uploaded", "failed"}}

\* Latest by CreatedDate, which has a resolution of a second: when an attempt
\* has two ledgers, either may be found.
FindByAttemptId(a) == {l \in Request : h[l].attempt = a /\ Exists(l)}

\* uploadAttemptRecovery: what may safely be sent again after ledger l.
Stopped(l) == ledger[l].stopped \/ ledger[l].status \in {"uploaded", "failed"}
\* Mutant of Retryable: whatever the ledger does not confirm.
AllUnconfirmed(l) ==
    IF Stopped(l) /\ ledger[l].logged THEN h[l].drafts \ ledger[l].confirmed ELSE {}

\* Mutant of Retryable: while the upload runs, what it has not started.
NotStarted(l) == IF ledger[l].logged THEN h[l].drafts \ ledger[l].started ELSE {}

Retryable(l) ==
    IF Stopped(l) /\ ledger[l].logged
    THEN {d \in h[l].drafts \ ledger[l].confirmed :
              d \notin ledger[l].started \/ d \in ledger[l].failed}
    ELSE {}

\* Mutant of Checkpoint: a graph counts as started when its answer is known.
CheckpointAnswered(l, s, stop) ==
    [ledger EXCEPT ![l] = [@ EXCEPT !.logged = TRUE,
                                    !.started = s.confirmed \cup s.failed,
                                    !.confirmed = s.confirmed,
                                    !.failed = s.failed,
                                    !.stopped = stop]]

\* checkpointGraph with the progress of handler state s.
Checkpoint(l, s, stop) ==
    [ledger EXCEPT ![l] = [@ EXCEPT !.logged = TRUE,
                                    !.started = s.drafts \ s.todo,
                                    !.confirmed = s.confirmed,
                                    !.failed = s.failed,
                                    !.stopped = stop]]

\* Mutants of Finalize: all that was asked for counts as made; what was made is
\* kept by the canvas only.
FinalizeAll(l, made) ==
    {ledger} \cup
    (IF Exists(l)
     THEN {[ledger EXCEPT ![l].status = "uploaded", ![l].confirmed = h[l].drafts]} ELSE {})
FinalizeBare(l, made) ==
    {ledger} \cup
    (IF Exists(l)
     THEN {[ledger EXCEPT ![l].status = "uploaded", ![l].confirmed = {}]} ELSE {})

\* finalize: fails when the ledger is gone or cannot be written.
Finalize(l, made) ==
    {ledger} \cup
    (IF Exists(l)
     THEN {[ledger EXCEPT ![l].status = "uploaded", ![l].confirmed = made]} ELSE {})

\* _settleKnownNoCommit: mark the ledger failed, then remove it; either half
\* may fail.
SettleKnownNoCommit(l) ==
    {ledger} \cup
    (IF Exists(l)
     THEN {[ledger EXCEPT ![l] = [@ EXCEPT !.status = s, !.confirmed = {}]]
               : s \in {"failed", "removed"}}
     ELSE {})

-----------------------------------------------------------------------------
(* Salesforce *)

\* A graph commits or rolls back as a whole; other writes are independent.
Whole(r, D, S) ==
    h[r].mode = "graph" => \A d \in D, e \in S : GraphOf[d] = GraphOf[e] => e \in D

\* A write is executed some time after it was sent, whether or not the handler
\* still waits for it.  The answer to a graph request may leave graphs out, and of
\* a graph that was committed single records.
Execute ==
    \E w \in wire : \E made, told \in SUBSET w[2] :
        LET r == w[1] IN
        /\ Whole(r, made, w[2])
        /\ Whole(r, made \cup told, w[2]) /\ (h[r].mode # "graph" => told = w[2])
        /\ rows' = rows \cup {<<r, d>> : d \in made}
        /\ wire' = wire \ {w}
        /\ answers' = answers \cup {[req |-> r, drafts |-> w[2], made |-> made, told |-> told]}
        /\ UNCHANGED <<server, client>>

-----------------------------------------------------------------------------
(* The server: one handler per request *)

\* The claim is released when the response finishes or its connection closes.
Unclaim(r) == claims \ {r}

Respond(r, kind, made, failed, fallback) ==
    reply' = [reply EXCEPT ![r] = [kind |-> kind, made |-> made, failed |-> failed,
                                   fallback |-> fallback]]

Refuse(r, kind) ==
    /\ Respond(r, kind, {}, {}, FALSE)
    /\ h' = [h EXCEPT ![r].pc = "done"]

\* Gates, size caps, the pre-upload snapshot: "rejected" replies make the graph
\* client clear its journal, "unavailable" ones (a failed snapshot, a rate
\* limit, no workspace) do not.
RefuseEarly(r) ==
    /\ h[r].pc = "new"
    /\ \E kind \in {"rejected", "unavailable"} : Refuse(r, kind)
    /\ UNCHANGED <<salesforce, ledger, claims, client>>

\* _claimUploadAttempt.
Claim(r) ==
    /\ h[r].pc = "new"
    /\ \/ /\ \E q \in claims : h[q].attempt = h[r].attempt
          /\ Refuse(r, "unavailable")
          /\ UNCHANGED claims
       \/ /\ \A q \in claims : h[q].attempt # h[r].attempt
          /\ claims' = claims \cup {r}
          /\ h' = [h EXCEPT ![r].pc = "claimed"]
          /\ UNCHANGED reply
    /\ UNCHANGED <<salesforce, ledger, client>>

\* The look-up of an earlier ledger of the attempt: replay it, refuse, or go on.
Lookup(r) ==
    /\ h[r].pc = "claimed"
    /\ \/ \E l \in FindByAttemptId(h[r].attempt) :
             /\ ledger[l].status = "uploaded"
             /\ IF h[r].mode = "bulk"
                THEN Refuse(r, "incomplete")
                ELSE /\ Respond(r, "results", {<<l, d>> : d \in ledger[l].confirmed}, {}, FALSE)
                     /\ h' = [h EXCEPT ![r].pc = "done"]
             /\ claims' = Unclaim(r)
       \/ \E l \in FindByAttemptId(h[r].attempt) :
             /\ ledger[l].status = "pending"
             /\ Refuse(r, "incomplete")
             /\ claims' = Unclaim(r)
       \/ /\ Refuse(r, "rejected")           \* the ledger cannot be read
          /\ claims' = Unclaim(r)
       \/ /\ \/ FindByAttemptId(h[r].attempt) = {}
             \/ \E l \in FindByAttemptId(h[r].attempt) : ledger[l].status = "failed"
          /\ h' = [h EXCEPT ![r].pc = "cleared"]
          /\ UNCHANGED <<claims, reply>>
    /\ UNCHANGED <<salesforce, ledger, client>>

\* Workspace and quota, then createPending.
Intend(r) ==
    /\ h[r].pc = "cleared"
    /\ \/ /\ \E kind \in {"rejected", "unavailable"} : Refuse(r, kind)
          /\ claims' = Unclaim(r)
          /\ UNCHANGED ledger
       \/ /\ ledger' = [ledger EXCEPT ![r].status = "pending"]
          /\ h' = [h EXCEPT ![r].pc = "writing"]
          /\ UNCHANGED <<claims, reply>>
    /\ UNCHANGED <<salesforce, client>>

\* Composite Graph needs every describe before it writes.
DescribeFails(r) ==
    /\ h[r].pc = "writing" /\ h[r].mode = "graph" /\ h[r].todo = h[r].drafts
    /\ ledger' \in SettleKnownNoCommit(r)
    /\ Refuse(r, "rejected")
    /\ claims' = Unclaim(r)
    /\ UNCHANGED <<salesforce, client>>

Graphs(D) == {GraphOf[d] : d \in D}

\* The drafts of the next write: a batch of whole graphs, as many as fit;
GraphBatches(todo) ==
    {{d \in todo : GraphOf[d] \in G} : G \in
        {G \in (SUBSET Graphs(todo)) \ {{}} :
            \/ Cardinality(G) = GraphRequestCap
            \/ G = Graphs(todo) /\ Cardinality(G) < GraphRequestCap}}

\* the bulk jobs of a level and object;
BulkJobs(todo) == (SUBSET todo) \ {{}}

\* or a single record.
SingleRecords(todo) == {{d} : d \in todo}

NextWrites(r) ==
    CASE h[r].mode = "graph" -> GraphBatches(h[r].todo)
      [] h[r].mode = "bulk" -> BulkJobs(h[r].todo)
      [] h[r].mode = "rest" -> SingleRecords(h[r].todo)

\* Mutant of StopGraph: an interrupted upload counts as one that wrote nothing.
SettleGraph(r, s) ==
    /\ ledger' \in SettleKnownNoCommit(r)
    /\ h' = [h EXCEPT ![r] = [s EXCEPT !.pc = "done", !.sent = {}]]
    /\ Respond(r, "incomplete", {}, {}, FALSE)
    /\ claims' = Unclaim(r)

\* An interrupted graph upload: the ledger is told, if it can be, that nothing
\* more will be sent.
StopGraph(r, s) ==
    /\ ledger' \in {ledger} \cup
           (IF ledger[r].status = "pending"
            THEN {Checkpoint(r, s, stop) : stop \in BOOLEAN} ELSE {})
    /\ h' = [h EXCEPT ![r] = [s EXCEPT !.pc = "done", !.sent = {}]]
    /\ Respond(r, "incomplete", {}, {}, FALSE)
    /\ claims' = Unclaim(r)

\* beforeBatch records what is about to be sent; if that fails nothing is sent.
Send(r) ==
    /\ h[r].pc = "writing"
    /\ \E D \in NextWrites(r) :
          LET s == [h[r] EXCEPT !.pc = "waiting", !.todo = @ \ D, !.sent = D] IN
          \/ /\ h[r].mode = "graph" => ledger[r].status = "pending"
             /\ ledger' = IF h[r].mode = "graph" THEN Checkpoint(r, s, FALSE) ELSE ledger
             /\ h' = [h EXCEPT ![r] = s]
             /\ wire' = wire \cup {<<r, D>>}
             /\ UNCHANGED <<rows, answers, claims, reply>>
          \/ /\ h[r].mode = "graph"
             /\ StopGraph(r, s)
             /\ UNCHANGED salesforce
    /\ UNCHANGED client

\* What the handler may take answer a to say was made.  The results of a bulk job
\* are fetched after it, as two lists of rows, those made and those refused, which
\* are assigned to the records in turn.  If the first list cannot be fetched all
\* records count as failed; rows that look alike, or a second list that cannot be
\* fetched, leave their number right and not their assignment.
Reported(r, a) ==
    CASE h[r].mode = "graph" -> {a.made \cap a.told}
      [] h[r].mode = "bulk" ->
             {D \in SUBSET a.drafts : D = {} \/ Cardinality(D) = Cardinality(a.made)}
      [] h[r].mode = "rest" -> {a.made}

\* parseGraphResults and afterBatch; a bulk job's results; a REST answer.
Receive(r) ==
    /\ h[r].pc = "waiting"
    /\ \E a \in answers : \E D \in Reported(r, a) :
          LET s == [h[r] EXCEPT !.pc = "writing", !.sent = {},
                                !.confirmed = @ \cup D,
                                !.failed = @ \cup (a.told \ D)] IN
          /\ a.req = r /\ a.drafts = h[r].sent
          /\ answers' = answers \ {a}
          /\ \/ /\ h[r].mode = "graph" => a.told = a.drafts /\ ledger[r].status = "pending"
                /\ ledger' = IF h[r].mode = "graph" THEN Checkpoint(r, s, FALSE) ELSE ledger
                /\ h' = [h EXCEPT ![r] = s]
                /\ UNCHANGED <<claims, reply>>
             \/ /\ h[r].mode = "graph"       \* unknown outcome or failed checkpoint
                /\ StopGraph(r, s)
    /\ UNCHANGED <<rows, wire, client>>

\* An interrupted bulk upload: the ledger stays pending.
StopBulk(r) ==
    /\ h' = [h EXCEPT ![r].pc = "done", ![r].sent = {}]
    /\ Respond(r, "incomplete", {}, {}, FALSE)
    /\ claims' = Unclaim(r)
    /\ UNCHANGED ledger

\* REST takes a lost answer for a failure of the record and goes on.
FailRecord(r) ==
    /\ h' = [h EXCEPT ![r].pc = "writing", ![r].sent = {}, ![r].failed = @ \cup h[r].sent]
    /\ UNCHANGED <<ledger, claims, reply>>

\* The write fails on the server's side: a timeout or a lost answer.
NoAnswer(r) ==
    /\ h[r].pc = "waiting"
    /\ \/ h[r].mode = "graph" /\ StopGraph(r, h[r])
       \/ h[r].mode = "bulk" /\ StopBulk(r)
       \/ h[r].mode = "rest" /\ "rest answer" \in Faults /\ FailRecord(r)
    /\ UNCHANGED <<salesforce, client>>

\* All is written: finalize (which may fail and is then only logged), or settle
\* an attempt that wrote nothing; then reply.  Bulk replies before it finalizes,
\* which the browser cannot tell apart from a failed finalize.
Finish(r) ==
    /\ h[r].pc = "writing" /\ h[r].todo = {}
    /\ IF h[r].confirmed # {}
       THEN ledger' \in Finalize(r, h[r].confirmed)
       ELSE ledger' \in SettleKnownNoCommit(r)
    /\ \E fb \in BOOLEAN :
          /\ fb => h[r].mode = "graph" /\ h[r].confirmed = {}
          /\ Respond(r, "results", {<<r, d>> : d \in h[r].confirmed}, h[r].failed, fb)
    /\ h' = [h EXCEPT ![r].pc = "done"]
    /\ claims' = Unclaim(r)
    /\ UNCHANGED <<salesforce, client>>

Live(r) == h[r].pc \in {"new", "claimed", "cleared", "writing", "waiting"}

\* The process restarts: claims and handlers are gone, the ledger is not.
Crash ==
    /\ \E r \in Request : Live(r)
    /\ claims' = {}
    /\ h' = [r \in Request |-> IF Live(r) THEN [h[r] EXCEPT !.pc = "dead", !.sent = {}]
                               ELSE h[r]]
    /\ UNCHANGED <<salesforce, ledger, reply, client>>

\* DELETE /api/upload-batches/:id: the user forgets an upload.
Forget(l) ==
    /\ "forget" \in Faults /\ Exists(l)
    /\ ledger' = [ledger EXCEPT ![l].status = "removed"]
    /\ UNCHANGED <<salesforce, claims, h, reply, client>>

-----------------------------------------------------------------------------
(* The upload dialog *)

Fresh(r) == h[r].pc = "unsent"
Drawn == {h[r].attempt : r \in Request} \cup {attempt}

\* Post drafts D by a route under attempt a.
Post(r, mode, a, D) ==
    /\ Fresh(r)
    /\ h' = [h EXCEPT ![r] = [Unsent EXCEPT !.pc = "new", !.mode = mode, !.attempt = a,
                                            !.drafts = D, !.todo = D]]
    /\ phase' = "posted" /\ cur' = r /\ attempt' = a

Unlinked(S) == {d \in S : linked[d] = None}
\* Mutant of Journaled: all records that are not tied yet.
AllUnlinked(S) == Unlinked(S)

Journaled(S) == {d \in S : journal[d] # None}

\* confirmUpload: unresolved records are recovered first, and nothing is sent.
\* Else the records are sent; only the graph route is journaled.
ConfirmUpload ==
    /\ phase = "idle"
    /\ \E S \in (SUBSET Draft) \ {{}} :
        /\ \A d, e \in S : CanvasOf[d] = CanvasOf[e]
        /\ sel' = S
        /\ \/ /\ Journaled(S) # {}
              /\ phase' = "recovering"
              /\ left' = {journal[d] : d \in Journaled(S)}
              /\ UNCHANGED <<h, cur, attempt, journal>>
           \/ /\ Journaled(S) = {} /\ Unlinked(S) # {}
              /\ \E r \in Request, mode \in Routes \cap {"graph", "bulk"},
                    a \in IF attempt # None THEN {attempt} ELSE Attempt \ Drawn :
                    /\ Post(r, mode, a, Unlinked(S))
                    /\ journal' = IF mode = "graph"
                                  THEN [d \in Draft |-> IF d \in Unlinked(S) THEN a
                                                        ELSE journal[d]]
                                  ELSE journal
              /\ UNCHANGED left
        /\ UNCHANGED <<salesforce, ledger, claims, reply, linked>>

\* recoverPendingUploads after an interrupted graph upload.
StartRecovery ==
    /\ phase' = "recovering"
    /\ left' = {journal[d] : d \in Journaled(sel)}

GraphSent == h[cur].mode = "graph"

\* Mutant of MayBreak: the dialog does not notice a server that died.
MayNotBreak == "early close" \in Faults

\* The connection of the awaited request can break.
MayBreak == "early close" \in Faults \/ ~Live(cur)

\* The reply never arrives: the connection broke or the server died.
LoseReply ==
    /\ phase = "posted"
    /\ MayBreak
    /\ claims' = Unclaim(cur)
    /\ IF GraphSent THEN StartRecovery
       ELSE phase' = "reconciling" /\ UNCHANGED left
    /\ UNCHANGED <<salesforce, ledger, h, reply, cur, sel, attempt, journal, linked>>

Got(kind) == phase = "posted" /\ reply[cur].kind = kind

\* A reply that says nothing was sent: the graph client forgets what it
\* journaled and the user may retry, after some refusals under another attempt id.
\* The other routes take some of these refusals for a lost reply.
OnRejected ==
    /\ Got("rejected")
    /\ journal' = IF GraphSent
                  THEN [d \in Draft |-> IF d \in h[cur].drafts THEN None ELSE journal[d]]
                  ELSE journal
    /\ \/ phase' = "idle" /\ attempt' \in {attempt, None}
       \/ ~GraphSent /\ phase' = "reconciling" /\ UNCHANGED attempt
    /\ UNCHANGED <<salesforce, server, cur, sel, linked, left>>

\* Any other refusal is taken for an interruption.
OnInterrupted ==
    /\ phase = "posted"
    /\ \/ /\ Got("unavailable") \/ Got("incomplete")
          /\ GraphSent /\ StartRecovery
       \/ /\ ~GraphSent
          /\ Got("unavailable") \/ (Got("incomplete") /\ h[cur].mode = "bulk")
          /\ phase' = "reconciling" /\ UNCHANGED left
       \/ /\ Got("incomplete") /\ h[cur].mode = "rest"
          /\ phase' = "idle" /\ UNCHANGED left
    /\ UNCHANGED <<salesforce, server, cur, sel, attempt, journal, linked>>

\* displayUploadResults: tie the drafts that succeeded, forget what is resolved.
\* Results name records by tempId, on the canvas that is open.
\* Mutant of Named: results are matched by position in the wrong list.
NamedAny(d, e) == CanvasOf[e] \in {CanvasOf[x] : x \in sel}

Named(d, e) == TempOf[d] = TempOf[e] /\ CanvasOf[e] \in {CanvasOf[x] : x \in sel}
OnResults ==
    /\ Got("results")
    /\ ~reply[cur].fallback \/ Routes \subseteq {"graph"}
    /\ linked' = [e \in Draft |->
                    IF \E p \in reply[cur].made : Named(p[2], e)
                    THEN (CHOOSE p \in reply[cur].made : Named(p[2], e))[1]
                    ELSE linked[e]]
    /\ journal' = [e \in Draft |->
                    IF \/ \E p \in reply[cur].made : Named(p[2], e)
                       \/ \E d \in reply[cur].failed : Named(d, e)
                    THEN None ELSE journal[e]]
    /\ attempt' = None
    /\ phase' = "idle"
    /\ UNCHANGED <<salesforce, server, cur, sel, left>>

\* retryWithoutGraph: every graph rolled back; send the records one by one, or in
\* bulk if they are many.
FallBack ==
    /\ Got("results") /\ reply[cur].fallback
    /\ \E r \in Request, mode \in Routes \ {"graph"}, a \in Attempt \ Drawn :
           Post(r, mode, a, h[cur].drafts)
    /\ journal' = [d \in Draft |-> IF d \in h[cur].drafts THEN None ELSE journal[d]]
    /\ UNCHANGED <<salesforce, ledger, claims, reply, sel, linked, left>>

\* One attempt of recoverPendingUploads: GET /api/upload-attempts/:id.  A failed
\* reply leaves its records unresolved.
Recover ==
    /\ phase = "recovering" /\ left # {}
    /\ \E a \in left :
        LET Group(D) == {e \in Journaled(sel) : journal[e] = a /\ \E d \in D : TempOf[d] = TempOf[e]} IN
        /\ left' = left \ {a}
        /\ \/ UNCHANGED <<journal, linked>>
           \/ \E l \in FindByAttemptId(a) :
                LET restored == Group(ledger[l].confirmed)
                    safe == restored \cup Group(Retryable(l))
                IN /\ linked' = [d \in Draft |-> IF d \in restored THEN l ELSE linked[d]]
                   /\ journal' = [d \in Draft |-> IF d \in safe THEN None ELSE journal[d]]
    /\ UNCHANGED <<salesforce, server, phase, cur, sel, attempt>>

\* The end of the recovery forgets the attempt; a look-up that throws keeps it.
EndRecovery ==
    /\ phase = "recovering"
    /\ \/ left = {} /\ attempt' = None
       \/ left # {} /\ "broken recovery" \in Faults /\ UNCHANGED attempt
    /\ left' = {}
    /\ phase' = "idle"
    /\ UNCHANGED <<salesforce, server, cur, sel, journal, linked>>

\* reconcileLostUpload after a lost bulk or REST reply: the records of the
\* ledgers with this attempt id or, when there is none, of any recent ledger
\* whose records all look like records of this upload.
Candidates ==
    LET found == {l \in Request : Exists(l)}
        token == {l \in found : h[l].attempt = attempt}
        Looks(l) == ledger[l].confirmed # {} /\
                    \A d \in ledger[l].confirmed :
                        \E e \in Unlinked(sel) : TempOf[d] = TempOf[e]
    IN IF token # {} THEN token ELSE {l \in found : Looks(l)}

Reconcile ==
    /\ phase = "reconciling"
    /\ \/ UNCHANGED linked
       \/ \E pick \in [Draft -> Candidates \cup {None}] :
             /\ \A e \in Draft :
                   LET hits == {l \in Candidates : \E d \in ledger[l].confirmed : Named(d, e)}
                   IN pick[e] \in hits \/ (hits = {} /\ pick[e] = None)
             /\ linked' = [e \in Draft |-> IF pick[e] = None THEN linked[e] ELSE pick[e]]
    /\ phase' = "idle"
    /\ UNCHANGED <<salesforce, server, cur, sel, attempt, journal, left>>

\* Mutant of Reload: the journal was in memory.
ReloadAll ==
    /\ "reload" \in Faults
    /\ <<phase, attempt>> # <<"idle", None>>
    /\ phase = "posted" => MayBreak
    /\ claims' = IF phase = "posted" THEN Unclaim(cur) ELSE claims
    /\ phase' = "idle" /\ cur' = None /\ sel' = {} /\ attempt' = None /\ left' = {}
    /\ journal' = [d \in Draft |-> None]
    /\ UNCHANGED <<salesforce, ledger, h, reply, linked>>

\* The page reloads: the journal and the canvas are in session storage.
Reload ==
    /\ "reload" \in Faults
    /\ <<phase, attempt>> # <<"idle", None>>
    /\ phase = "posted" => MayBreak
    /\ claims' = IF phase = "posted" THEN Unclaim(cur) ELSE claims
    /\ phase' = "idle" /\ cur' = None /\ sel' = {} /\ attempt' = None /\ left' = {}
    /\ UNCHANGED <<salesforce, ledger, h, reply, journal, linked>>

-----------------------------------------------------------------------------
Handle(r) ==
    \/ RefuseEarly(r) \/ Claim(r) \/ Lookup(r) \/ Intend(r) \/ DescribeFails(r)
    \/ Send(r) \/ Receive(r) \/ NoAnswer(r) \/ Finish(r)

Dialog ==
    \/ LoseReply \/ OnRejected \/ OnInterrupted \/ OnResults \/ FallBack
    \/ Recover \/ EndRecovery \/ Reconcile

Next ==
    \/ Execute \/ Crash
    \/ \E r \in Request : Handle(r) \/ Forget(r)
    \/ ConfirmUpload \/ Dialog \/ Reload

Spec == Init /\ [][Next]_vars

\* A handler runs until it ends: every call it awaits has a time limit.  The
\* dialog handles what it is waiting for.
Fairness ==
    /\ \A r \in Request : WF_vars(Handle(r))
    /\ WF_vars(Dialog)

FairSpec == Spec /\ Fairness

-----------------------------------------------------------------------------
(* Properties *)

\* Types of the variables.
Handler == [pc : {"unsent", "new", "claimed", "cleared", "writing", "waiting", "done", "dead"},
            mode : {"graph", "bulk", "rest"}, attempt : Attempt \cup {None},
            drafts : SUBSET Draft, todo : SUBSET Draft, sent : SUBSET Draft,
            confirmed : SUBSET Draft, failed : SUBSET Draft]
Ledger == [status : LedgerStatus, logged : BOOLEAN, started : SUBSET Draft,
           confirmed : SUBSET Draft, failed : SUBSET Draft, stopped : BOOLEAN]
Reply == [kind : {"none", "rejected", "unavailable", "incomplete", "results"},
          made : SUBSET (Request \X Draft), failed : SUBSET Draft, fallback : BOOLEAN]
TypeOK ==
    /\ rows \subseteq Request \X Draft
    /\ wire \subseteq Request \X SUBSET Draft
    /\ answers \subseteq [req : Request, drafts : SUBSET Draft, made : SUBSET Draft,
                          told : SUBSET Draft]
    /\ ledger \in [Request -> Ledger]
    /\ claims \subseteq Request
    /\ h \in [Request -> Handler]
    /\ reply \in [Request -> Reply]
    /\ phase \in {"idle", "posted", "recovering", "reconciling"}
    /\ cur \in Request \cup {None} /\ sel \subseteq Draft
    /\ attempt \in Attempt \cup {None} /\ left \subseteq Attempt
    /\ journal \in [Draft -> Attempt \cup {None}]
    /\ linked \in [Draft -> Request \cup {None}]

\* No draft becomes two Salesforce records, whatever is lost, retried or
\* restarted: "Upload paused to prevent duplicate records".
OneRowPerDraft ==
    \A d \in Draft : \A q, r \in Request :
        <<q, d>> \in rows /\ <<r, d>> \in rows => q = r

\* Whichever route a retry takes, two requests under one attempt id do not both make
\* a record of a draft: "the server can distinguish a retry from a new transaction".
\* But for two exceptions.  REST or bulk may have reported all records of one of the
\* two as failed, this one included: a REST answer was lost, or the results of a bulk
\* job were, and a request that seems to have written nothing is settled.  And the
\* look-up may find a ledger that is settled as failed in the place of another of the
\* same attempt.
Misreported(r, d) == h[r].mode # "graph" /\ h[r].confirmed = {} /\ d \in h[r].failed
Settled(a) == \E l \in Request : h[l].attempt = a /\ ledger[l].status = "failed"
OneRowPerAttempt ==
    \A d \in Draft : \A q, r \in Request :
        <<q, d>> \in rows /\ <<r, d>> \in rows /\ q # r /\ h[q].attempt = h[r].attempt
            => Misreported(q, d) \/ Misreported(r, d) \/ Settled(h[r].attempt)

\* A draft that the dialog is free to send has never been written by an earlier
\* request, and no write of it is still on its way or can still be sent.
MayWrite(r, d) ==
    \/ <<r, d>> \in rows
    \/ \E w \in wire : w[1] = r /\ d \in w[2]
    \/ Live(r) /\ d \in h[r].todo
FreeDraftIsUnwritten ==
    \A d \in Draft :
        phase = "idle" /\ journal[d] = None /\ linked[d] = None
            => \A r \in Request : ~MayWrite(r, d)

\* The id the canvas shows for a draft is that of a record made of that draft.
LinkedIsOwn == \A d \in Draft : linked[d] # None => <<linked[d], d>> \in rows

\* What a ledger confirms is in Salesforce; what it reports as failed is not and
\* never will be.
LedgerIsTrue ==
    \A r \in Request :
        Exists(r) =>
            /\ \A d \in ledger[r].confirmed : <<r, d>> \in rows
            /\ \A d \in ledger[r].failed : ~MayWrite(r, d)

\* No graph is sent before the ledger says so: after a crash every record that
\* may have been made is found under the attempt as started.
IntentFirst ==
    \A r \in Request : \A d \in Draft :
        h[r].mode = "graph" /\ Exists(r)
            /\ (<<r, d>> \in rows \/ \E w \in wire : w[1] = r /\ d \in w[2])
            => ledger[r].logged /\ d \in ledger[r].started

\* An attempt that is settled as having written nothing wrote nothing, and never
\* will.
SettledIsUnwritten ==
    \A r \in Request : ledger[r].status = "failed" => \A d \in Draft : ~MayWrite(r, d)

\* What an attempt confirmed stays confirmed, and what it released for another
\* attempt stays released, unless its ledger is removed: by the user, or with an
\* attempt that is settled as having written nothing.
Confirms(r) == IF Exists(r) THEN ledger[r].confirmed ELSE {}
RecoveryIsFinal ==
    [][\A r \in Request : Exists(r) /\ ledger'[r].status # "removed" =>
           /\ Confirms(r) \subseteq Confirms(r)'
           /\ Retryable(r) \subseteq Retryable(r)']_vars

\* Every upload the user starts comes back to the user.
UploadEnds == phase # "idle" ~> phase = "idle"

-----------------------------------------------------------------------------
\* The abstract promise, with the records counted in Salesforce.
Made == [d \in Draft |-> Cardinality({r \in Request : <<r, d>> \in rows})]
Tied == {d \in Draft : linked[d] # None}
Once == INSTANCE UploadOnce WITH made <- Made, tied <- Tied
ImplementsOnce == Once!Spec
=============================================================================
