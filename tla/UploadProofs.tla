---------------------------- MODULE UploadProofs ----------------------------
(* Safety of the uploads by Composite Graph, for every set of drafts, canvases, *)
(* graphs, requests and attempts: what may be lost or repeated, and whenever    *)
(* the server or the page restarts, no draft becomes two records.               *)
EXTENDS UploadAttempt, FiniteSetTheorems, TLAPS

\* The uploads of the dialog's own route; a recovery ends only when every attempt
\* was looked up. A tempId is unique within a canvas.
GraphOnly ==
    /\ Routes = {"graph"} /\ "broken recovery" \notin Faults
    /\ \A d, e \in Draft : CanvasOf[d] = CanvasOf[e] /\ TempOf[d] = TempOf[e] => d = e

-----------------------------------------------------------------------------
(* The invariant of one request: its handler, its writes and its ledger *)

Row(r, d) == <<r, d>> \in rows
OnWire(r, d) == \E w \in wire : w[1] = r /\ d \in w[2]
Written(r, d) == Row(r, d) \/ OnWire(r, d)
Rejected(r) == reply[r].kind = "rejected"

\* What a handler has sent, and what it knows of it.
HandlerInv(r) ==
    /\ h[r].pc = "unsent" => h[r] = Unsent
    /\ h[r].pc # "unsent" => h[r].attempt \in Attempt
    /\ h[r].mode = "graph"
    /\ h[r].todo \subseteq h[r].drafts
    /\ h[r].sent \cup h[r].confirmed \cup h[r].failed \subseteq h[r].drafts \ h[r].todo
    /\ h[r].pc \in {"unsent", "new", "claimed", "cleared"} =>
           /\ h[r].todo = h[r].drafts
           /\ ledger[r] = NoLedger
    /\ h[r].pc = "writing" => h[r].sent = {}
    /\ h[r].pc = "waiting" => h[r].todo # h[r].drafts
    /\ h[r].pc \in {"writing", "waiting"} =>
           h[r].drafts \subseteq h[r].todo \cup h[r].sent \cup h[r].confirmed \cup h[r].failed

\* A draft is written once by a request, after the ledger says so, and what is
\* known of it is true.
WritesInv(r) ==
    /\ \A d \in Draft : Written(r, d) =>
           d \in h[r].drafts \ h[r].todo /\ ledger[r].logged /\ d \in ledger[r].started
    /\ \A w \in wire : w[1] = r => \A d \in w[2] :
           ~Row(r, d) /\ \A v \in wire : v[1] = r /\ d \in v[2] => v = w
    /\ \A a \in answers : a.req = r =>
           /\ a.made \cup a.told \subseteq a.drafts
           /\ a.drafts \subseteq h[r].drafts \ h[r].todo
           /\ \A d \in a.drafts : ~OnWire(r, d) /\ (Row(r, d) <=> d \in a.made)
    /\ \A d \in h[r].confirmed : Row(r, d)
    /\ \A d \in h[r].failed : ~Written(r, d)

\* The ledger knows no more than the handler, and is closed after it.
LedgerInv(r) ==
    /\ ledger[r].confirmed \subseteq h[r].confirmed
    /\ ledger[r].failed \subseteq h[r].failed
    /\ ledger[r].started \subseteq h[r].drafts \ h[r].todo
    /\ ledger[r].logged => h[r].todo # h[r].drafts
    /\ ~ledger[r].logged => ledger[r].confirmed = {}
    /\ Stopped(r) => h[r].pc \in {"done", "dead"}
    /\ ledger[r].status = "failed" => \A d \in Draft : ~Written(r, d)

\* A rejected request has written nothing and leaves nothing to recover.
ReplyInv(r) ==
    /\ reply[r].kind # "none" => h[r].pc = "done"
    /\ Rejected(r) => ~ledger[r].logged /\ ledger[r].status # "uploaded"
    /\ reply[r].kind = "results" =>
           /\ reply[r].made \subseteq {<<r, d>> : d \in h[r].confirmed}
           /\ reply[r].failed \subseteq h[r].failed

RequestInv(r) == HandlerInv(r) /\ WritesInv(r) /\ LedgerInv(r) /\ ReplyInv(r)

-----------------------------------------------------------------------------
(* The invariant between requests and dialog *)

OneCanvasOnly(D) == \A d, e \in D : CanvasOf[d] = CanvasOf[e]

\* Of the requests under one attempt all but one were rejected.
OnlyOne(r) ==
    \A q \in Request \ {r} : h[q].attempt = h[r].attempt => Rejected(q)

AttemptsInv ==
    /\ \A r \in Request : OneCanvasOnly(h[r].drafts)
    /\ \A r \in Request : \A q \in Request \ {r} :
           h[q].attempt = h[r].attempt /\ h[r].attempt # None => Rejected(q) \/ Rejected(r)

\* Only one request may write a draft, and the draft is tied or journaled then.
DraftsInv ==
    /\ \A d \in Draft : \A q, r \in Request : MayWrite(q, d) /\ MayWrite(r, d) => q = r
    /\ \A d \in Draft : \A r \in Request :
           MayWrite(r, d) => linked[d] # None \/ journal[d] = h[r].attempt

\* The journal names the attempt of the request that may have written the draft.
JournalInv ==
    \A e \in Draft : journal[e] # None =>
        \E q \in Request : h[q].attempt = journal[e] /\ e \in h[q].drafts /\ OnlyOne(q)

\* What the dialog waits for.
DialogInv ==
    /\ phase # "reconciling"
    /\ OneCanvasOnly(sel)
    /\ phase = "idle" /\ attempt # None =>
           /\ \A q \in Request : h[q].attempt = attempt => Rejected(q)
           /\ \A e \in Draft : journal[e] # attempt
    /\ phase = "posted" =>
           /\ cur \in Request /\ h[cur].pc # "unsent" /\ h[cur].attempt = attempt
           /\ OnlyOne(cur)
           /\ h[cur].drafts \subseteq sel
           /\ \A e \in Draft : journal[e] = attempt => e \in h[cur].drafts
           /\ \A d \in h[cur].drafts : \A r \in Request \ {cur} : ~MayWrite(r, d)

ClientInv == AttemptsInv /\ DraftsInv /\ JournalInv /\ DialogInv /\ LinkedIsOwn

UploadInv == TypeOK /\ (\A r \in Request : RequestInv(r)) /\ ClientInv

-----------------------------------------------------------------------------
(* Types *)

LEMMA RespondType ==
    ASSUME TypeOK, NEW r \in Request, NEW kind \in {"rejected", "unavailable", "incomplete", "results"},
           NEW made \in SUBSET (Request \X Draft), NEW failed \in SUBSET Draft,
           NEW fallback \in BOOLEAN, Respond(r, kind, made, failed, fallback)
    PROVE  reply' \in [Request -> Reply]
  BY DEF TypeOK, Respond, Reply

LEMMA DoneType ==
    ASSUME TypeOK, NEW r \in Request,
           NEW pc \in {"new", "claimed", "cleared", "writing", "waiting", "done", "dead"}
    PROVE  [h EXCEPT ![r].pc = pc] \in [Request -> Handler]
  BY SMTT(30) DEF TypeOK, Handler

LEMMA RefuseType ==
    ASSUME TypeOK, NEW r \in Request, NEW kind \in {"rejected", "unavailable", "incomplete"},
           Refuse(r, kind)
    PROVE  reply' \in [Request -> Reply] /\ h' \in [Request -> Handler]
  <1>1. Respond(r, kind, {}, {}, FALSE) /\ h' = [h EXCEPT ![r].pc = "done"]
    BY DEF Refuse
  <1>2. h' \in [Request -> Handler]
    BY <1>1, DoneType
  <1>3. reply' \in [Request -> Reply]
    BY <1>1, RespondType
  <1>. QED BY <1>2, <1>3

LEMMA UnclaimType ==
    ASSUME TypeOK, NEW r PROVE Unclaim(r) \subseteq Request
  BY DEF TypeOK, Unclaim

LEMMA SettleType ==
    ASSUME TypeOK, NEW r \in Request, ledger' \in SettleKnownNoCommit(r)
    PROVE  ledger' \in [Request -> Ledger]
  <1>1. \A s \in LedgerStatus :
           [ledger EXCEPT ![r] = [@ EXCEPT !.status = s, !.confirmed = {}]] \in [Request -> Ledger]
    BY DEF TypeOK, Ledger
  <1>2. ledger' = ledger \/ \E s \in LedgerStatus :
           ledger' = [ledger EXCEPT ![r] = [@ EXCEPT !.status = s, !.confirmed = {}]]
    BY DEF SettleKnownNoCommit, LedgerStatus
  <1>. QED BY <1>1, <1>2 DEF TypeOK

LEMMA FinalizeType ==
    ASSUME TypeOK, NEW r \in Request, NEW made \in SUBSET Draft, ledger' \in Finalize(r, made)
    PROVE  ledger' \in [Request -> Ledger]
  BY DEF TypeOK, Finalize, Ledger, LedgerStatus

LEMMA CheckpointType ==
    ASSUME TypeOK, NEW r \in Request, NEW s \in Handler, NEW stop \in BOOLEAN
    PROVE  Checkpoint(r, s, stop) \in [Request -> Ledger]
  <1>1. [ledger[r] EXCEPT !.logged = TRUE, !.started = s.drafts \ s.todo, !.confirmed = s.confirmed,
                          !.failed = s.failed, !.stopped = stop] \in Ledger
    <2>1. ledger[r] \in Ledger
      BY DEF TypeOK
    <2>2. s.drafts \ s.todo \in SUBSET Draft /\ s.confirmed \in SUBSET Draft /\ s.failed \in SUBSET Draft
      BY DEF Handler
    <2>. QED BY <2>1, <2>2 DEF Ledger
  <1>. QED BY <1>1 DEF Checkpoint, TypeOK

LEMMA StopGraphType ==
    ASSUME TypeOK, NEW r \in Request, NEW s \in Handler, StopGraph(r, s)
    PROVE  /\ ledger' \in [Request -> Ledger] /\ h' \in [Request -> Handler]
           /\ reply' \in [Request -> Reply] /\ claims' \subseteq Request
  <1>1. ledger' \in [Request -> Ledger]
    BY CheckpointType DEF StopGraph, TypeOK
  <1>2. [s EXCEPT !.pc = "done", !.sent = {}] \in Handler
    BY DEF Handler
  <1>. QED BY <1>1, <1>2, RespondType, UnclaimType DEF StopGraph, TypeOK

LEMMA ExecuteType == TypeOK /\ Execute => TypeOK'
  <1>. SUFFICES ASSUME TypeOK, NEW w \in wire, NEW made \in SUBSET w[2], NEW told \in SUBSET w[2],
                rows' = rows \cup {<<w[1], d>> : d \in made},
                wire' = wire \ {w},
                answers' = answers \cup {[req |-> w[1], drafts |-> w[2], made |-> made, told |-> told]},
                UNCHANGED <<server, client>>
         PROVE  TypeOK'
    BY DEF Execute
  <1>1. w[1] \in Request /\ w[2] \in SUBSET Draft
    BY DEF TypeOK
  <1>2. rows' \subseteq Request \X Draft
    BY <1>1 DEF TypeOK
  <1>3. answers' \subseteq [req : Request, drafts : SUBSET Draft, made : SUBSET Draft, told : SUBSET Draft]
    BY <1>1 DEF TypeOK
  <1>4. wire' \subseteq Request \X SUBSET Draft
    BY DEF TypeOK
  <1>. QED BY <1>2, <1>3, <1>4 DEF TypeOK, server, client

\* What a handler takes for made is among what it sent.
LEMMA ReportedType ==
    ASSUME TypeOK, NEW r \in Request, NEW a \in answers, NEW D \in Reported(r, a)
    PROVE  D \subseteq Draft
  <1>1. a.made \subseteq Draft /\ a.drafts \subseteq Draft /\ h[r].mode \in {"graph", "bulk", "rest"}
    BY DEF TypeOK, Handler
  <1>2. CASE h[r].mode = "graph"
    BY <1>1, <1>2 DEF Reported
  <1>3. CASE h[r].mode = "bulk"
    BY <1>1, <1>3 DEF Reported
  <1>4. CASE h[r].mode = "rest"
    BY <1>1, <1>4 DEF Reported
  <1>. QED BY <1>1, <1>2, <1>3, <1>4

LEMMA HandleType == ASSUME TypeOK, NEW r \in Request, Handle(r) PROVE TypeOK'
  <1>. h[r] \in Handler
    BY DEF TypeOK
  <1>1. CASE RefuseEarly(r)
    BY <1>1, RefuseType DEF RefuseEarly, TypeOK, salesforce, client
  <1>2. CASE Claim(r)
    <2>1. CASE Refuse(r, "unavailable") /\ UNCHANGED claims
      BY <1>2, <2>1, RefuseType DEF Claim, TypeOK, salesforce, client
    <2>2. CASE /\ claims' = claims \cup {r}
               /\ h' = [h EXCEPT ![r].pc = "claimed"]
               /\ UNCHANGED reply
      <3>1. h' \in [Request -> Handler]
        BY <2>2, DoneType
      <3>. QED BY <1>2, <2>2, <3>1 DEF Claim, TypeOK, salesforce, client
    <2>. QED BY <1>2, <2>1, <2>2 DEF Claim
  <1>3. CASE Lookup(r)
    <2>1. \A l \in Request : {<<l, d>> : d \in ledger[l].confirmed} \in SUBSET (Request \X Draft)
      BY DEF TypeOK, Ledger
    <2>2. \A l : l \in FindByAttemptId(h[r].attempt) => l \in Request
      BY DEF FindByAttemptId
    <2>3. UNCHANGED <<salesforce, ledger, client>> /\ Unclaim(r) \subseteq Request
      BY <1>3, UnclaimType DEF Lookup
    <2>4. ASSUME NEW kind \in {"incomplete", "rejected"}, Refuse(r, kind), claims' = Unclaim(r)
          PROVE  TypeOK'
      BY <2>3, <2>4, RefuseType DEF TypeOK, salesforce, client
    <2>5. ASSUME NEW l \in Request, claims' = Unclaim(r), h' = [h EXCEPT ![r].pc = "done"],
                 Respond(r, "results", {<<l, d>> : d \in ledger[l].confirmed}, {}, FALSE)
          PROVE  TypeOK'
      <3>1. reply' \in [Request -> Reply]
        BY <2>1, <2>5, RespondType
      <3>2. h' \in [Request -> Handler]
        BY <2>5, DoneType
      <3>. QED BY <2>3, <2>5, <3>1, <3>2 DEF TypeOK, salesforce, client
    <2>6. ASSUME h' = [h EXCEPT ![r].pc = "cleared"], UNCHANGED <<claims, reply>>
          PROVE  TypeOK'
      <3>1. h' \in [Request -> Handler]
        BY <2>6, DoneType
      <3>. QED BY <2>3, <2>6, <3>1 DEF TypeOK, salesforce, client
    <2>. QED BY <1>3, <2>2, <2>4, <2>5, <2>6 DEF Lookup
  <1>4. CASE Intend(r)
    <2>1. [ledger EXCEPT ![r].status = "pending"] \in [Request -> Ledger]
      BY DEF TypeOK, Ledger, LedgerStatus
    <2>2. UNCHANGED <<salesforce, client>> /\ Unclaim(r) \subseteq Request
      BY <1>4, UnclaimType DEF Intend
    <2>3. ASSUME NEW kind \in {"rejected", "unavailable"}, Refuse(r, kind), claims' = Unclaim(r),
                 UNCHANGED ledger
          PROVE  TypeOK'
      BY <2>2, <2>3, RefuseType DEF TypeOK, salesforce, client
    <2>4. ASSUME ledger' = [ledger EXCEPT ![r].status = "pending"],
                 h' = [h EXCEPT ![r].pc = "writing"], UNCHANGED <<claims, reply>>
          PROVE  TypeOK'
      <3>1. h' \in [Request -> Handler]
        BY <2>4, DoneType
      <3>. QED BY <2>1, <2>2, <2>4, <3>1 DEF TypeOK, salesforce, client
    <2>. QED BY <1>4, <2>3, <2>4 DEF Intend
  <1>5. CASE DescribeFails(r)
    BY <1>5, RefuseType, SettleType, UnclaimType DEF DescribeFails, TypeOK, salesforce, client
  <1>6. CASE Send(r)
    <2>1. PICK D \in NextWrites(r) :
              LET s == [h[r] EXCEPT !.pc = "waiting", !.todo = @ \ D, !.sent = D]
              IN  \/ /\ ledger' = IF h[r].mode = "graph" THEN Checkpoint(r, s, FALSE) ELSE ledger
                     /\ h' = [h EXCEPT ![r] = s]
                     /\ wire' = wire \cup {<<r, D>>}
                     /\ UNCHANGED <<rows, answers, claims, reply>>
                  \/ StopGraph(r, s) /\ UNCHANGED salesforce
      BY <1>6 DEF Send
    <2>2. D \subseteq h[r].todo
      BY DEF NextWrites, GraphBatches, BulkJobs, SingleRecords, Handler
    <2>. DEFINE s == [h[r] EXCEPT !.pc = "waiting", !.todo = @ \ D, !.sent = D]
    <2>3. s \in Handler
      BY <2>2 DEF Handler
    <2>4. D \subseteq Draft
      BY <2>2 DEF Handler
    <2>5. UNCHANGED client
      BY <1>6 DEF Send
    <2>. HIDE DEF s
    <2>6. CASE StopGraph(r, s) /\ UNCHANGED salesforce
      BY <2>3, <2>5, <2>6, StopGraphType DEF TypeOK, salesforce, client
    <2>7. ASSUME ledger' = (IF h[r].mode = "graph" THEN Checkpoint(r, s, FALSE) ELSE ledger),
                 h' = [h EXCEPT ![r] = s],
                 wire' = wire \cup {<<r, D>>},
                 UNCHANGED <<rows, answers, claims, reply>>
          PROVE  TypeOK'
      <3>1. ledger' \in [Request -> Ledger]
        BY <2>3, <2>7, CheckpointType DEF TypeOK
      <3>2. h' \in [Request -> Handler] /\ wire' \subseteq Request \X SUBSET Draft
        BY <2>3, <2>4, <2>7 DEF TypeOK
      <3>. QED BY <2>5, <2>7, <3>1, <3>2 DEF TypeOK, client
    <2>. QED BY <2>1, <2>6, <2>7 DEF s
  <1>7. CASE Receive(r)
    <2>0. PICK a \in answers : \E D \in Reported(r, a) :
              LET s == [h[r] EXCEPT !.pc = "writing", !.sent = {},
                                    !.confirmed = @ \cup D,
                                    !.failed = @ \cup (a.told \ D)]
              IN  /\ answers' = answers \ {a}
                  /\ \/ /\ ledger' = IF h[r].mode = "graph" THEN Checkpoint(r, s, FALSE) ELSE ledger
                        /\ h' = [h EXCEPT ![r] = s]
                        /\ UNCHANGED <<claims, reply>>
                     \/ StopGraph(r, s)
      BY <1>7 DEF Receive
    <2>1. PICK D \in Reported(r, a) :
              LET s == [h[r] EXCEPT !.pc = "writing", !.sent = {},
                                    !.confirmed = @ \cup D,
                                    !.failed = @ \cup (a.told \ D)]
              IN  /\ answers' = answers \ {a}
                  /\ \/ /\ ledger' = IF h[r].mode = "graph" THEN Checkpoint(r, s, FALSE) ELSE ledger
                        /\ h' = [h EXCEPT ![r] = s]
                        /\ UNCHANGED <<claims, reply>>
                     \/ StopGraph(r, s)
      BY <2>0
    <2>. DEFINE s == [h[r] EXCEPT !.pc = "writing", !.sent = {},
                                  !.confirmed = @ \cup D,
                                  !.failed = @ \cup (a.told \ D)]
    <2>2. D \subseteq Draft /\ a.told \subseteq Draft
      BY ReportedType DEF TypeOK
    <2>3. s \in Handler
      BY <2>2 DEF Handler
    <2>4. UNCHANGED <<rows, wire, client>> /\ answers' \subseteq answers
      BY <1>7, <2>1 DEF Receive
    <2>. HIDE DEF s
    <2>5. CASE StopGraph(r, s)
      BY <2>3, <2>4, <2>5, StopGraphType DEF TypeOK, client
    <2>6. ASSUME ledger' = (IF h[r].mode = "graph" THEN Checkpoint(r, s, FALSE) ELSE ledger),
                 h' = [h EXCEPT ![r] = s],
                 UNCHANGED <<claims, reply>>
          PROVE  TypeOK'
      BY <2>3, <2>4, <2>6, CheckpointType DEF TypeOK, client
    <2>. QED BY <2>1, <2>5, <2>6 DEF s
  <1>8. CASE NoAnswer(r)
    <2>1. CASE StopGraph(r, h[r])
      BY <1>8, <2>1, StopGraphType DEF NoAnswer, TypeOK, salesforce, client
    <2>2. CASE StopBulk(r)
      <3>1. h' \in [Request -> Handler]
        BY <2>2 DEF StopBulk, TypeOK, Handler
      <3>. QED BY <1>8, <2>2, <3>1, RespondType, UnclaimType DEF NoAnswer, StopBulk, TypeOK, salesforce, client
    <2>3. CASE FailRecord(r)
      <3>1. h' \in [Request -> Handler]
        BY <2>3 DEF FailRecord, TypeOK, Handler
      <3>. QED BY <1>8, <2>3, <3>1 DEF NoAnswer, FailRecord, TypeOK, salesforce, client
    <2>. QED BY <1>8, <2>1, <2>2, <2>3 DEF NoAnswer
  <1>9. CASE Finish(r)
    <2>1. h[r].confirmed \in SUBSET Draft /\ h[r].failed \in SUBSET Draft
          /\ {<<r, d>> : d \in h[r].confirmed} \in SUBSET (Request \X Draft)
      BY DEF Handler
    <2>2. ledger' \in [Request -> Ledger]
      BY <1>9, <2>1, FinalizeType, SettleType DEF Finish
    <2>3. reply' \in [Request -> Reply]
      BY <1>9, <2>1, RespondType DEF Finish
    <2>4. h' \in [Request -> Handler] /\ claims' \subseteq Request
      BY <1>9, DoneType, UnclaimType DEF Finish
    <2>. QED BY <1>9, <2>2, <2>3, <2>4 DEF Finish, TypeOK, salesforce, client
  <1>. QED BY <1>1, <1>2, <1>3, <1>4, <1>5, <1>6, <1>7, <1>8, <1>9 DEF Handle

\* While the dialog waits for a reply, it is one of a request.
TypeInv == TypeOK /\ (phase = "posted" => cur \in Request)

LEMMA AsideType == ASSUME TypeOK, Crash \/ \E r \in Request : Forget(r) PROVE TypeOK'
  <1>1. CASE Crash
    <2>1. h' \in [Request -> Handler]
      <3>1. \A r \in Request : [h[r] EXCEPT !.pc = "dead", !.sent = {}] \in Handler
        BY ZenonT(30) DEF TypeOK, Handler
      <3>. QED BY <1>1, <3>1 DEF Crash, TypeOK
    <2>. QED BY <1>1, <2>1 DEF Crash, TypeOK, salesforce, client
  <1>2. ASSUME NEW r \in Request, Forget(r) PROVE TypeOK'
    <2>1. ledger' \in [Request -> Ledger]
      <3>1. [ledger[r] EXCEPT !.status = "removed"] \in Ledger
        BY DEF TypeOK, Ledger, LedgerStatus
      <3>. QED BY <1>2, <3>1 DEF Forget, TypeOK
    <2>. QED BY <1>2, <2>1 DEF Forget, TypeOK, salesforce, client
  <1>. QED BY <1>1, <1>2

LEMMA PostType ==
    ASSUME TypeOK, NEW r \in Request, NEW mode \in {"graph", "bulk", "rest"}, NEW a \in Attempt,
           NEW D \in SUBSET Draft, Post(r, mode, a, D)
    PROVE  h' \in [Request -> Handler] /\ cur' \in Request /\ attempt' \in Attempt /\ phase' = "posted"
  <1>1. [Unsent EXCEPT !.pc = "new", !.mode = mode, !.attempt = a, !.drafts = D, !.todo = D] \in Handler
    BY DEF Unsent, Handler
  <1>. QED BY <1>1 DEF Post, TypeOK

LEMMA ConfirmType == TypeInv /\ ConfirmUpload => TypeInv'
  <1>. SUFFICES ASSUME TypeInv, phase = "idle", NEW S \in SUBSET Draft, sel' = S,
                UNCHANGED <<salesforce, ledger, claims, reply, linked>>,
                \/ /\ phase' = "recovering"
                   /\ left' = {journal[d] : d \in Journaled(S)}
                   /\ UNCHANGED <<h, cur, attempt, journal>>
                \/ /\ \E r \in Request, mode \in Routes \cap {"graph", "bulk"},
                         a \in IF attempt # None THEN {attempt} ELSE Attempt \ Drawn :
                         /\ Post(r, mode, a, Unlinked(S))
                         /\ journal' = IF mode = "graph"
                                       THEN [d \in Draft |-> IF d \in Unlinked(S) THEN a ELSE journal[d]]
                                       ELSE journal
                   /\ UNCHANGED left
         PROVE  TypeInv'
    BY DEF ConfirmUpload
  <1>1. CASE /\ phase' = "recovering"
             /\ left' = {journal[d] : d \in Journaled(S)}
             /\ UNCHANGED <<h, cur, attempt, journal>>
    <2>1. left' \subseteq Attempt
      BY <1>1 DEF TypeInv, TypeOK, Journaled
    <2>. QED BY <1>1, <2>1 DEF TypeInv, TypeOK, salesforce
  <1>2. ASSUME NEW r \in Request, NEW mode \in Routes \cap {"graph", "bulk"},
               NEW a \in IF attempt # None THEN {attempt} ELSE Attempt \ Drawn,
               Post(r, mode, a, Unlinked(S)),
               journal' = IF mode = "graph"
                          THEN [d \in Draft |-> IF d \in Unlinked(S) THEN a ELSE journal[d]]
                          ELSE journal,
               UNCHANGED left
        PROVE  TypeInv'
    <2>1. a \in Attempt /\ Unlinked(S) \in SUBSET Draft
      BY DEF TypeInv, TypeOK, Unlinked
    <2>2. journal' \in [Draft -> Attempt \cup {None}]
      BY <1>2, <2>1 DEF TypeInv, TypeOK
    <2>3. h' \in [Request -> Handler] /\ cur' \in Request /\ attempt' \in Attempt /\ phase' = "posted"
      BY <1>2, <2>1, PostType DEF TypeInv
    <2>. QED BY <1>2, <2>2, <2>3 DEF TypeInv, TypeOK, salesforce
  <1>. QED BY <1>1, <1>2

LEMMA DialogType == TypeInv /\ (Dialog \/ Reload) => TypeInv'
  <1>. SUFFICES ASSUME TypeInv, Dialog \/ Reload PROVE TypeInv'
    OBVIOUS
  <1>0. /\ \A S \in SUBSET Draft : {journal[d] : d \in Journaled(S)} \subseteq Attempt
        /\ \A r : Unclaim(r) \subseteq Request
    BY DEF TypeInv, TypeOK, Journaled, Unclaim
  <1>1. CASE LoseReply
    BY <1>0, <1>1 DEF LoseReply, StartRecovery, TypeInv, TypeOK, salesforce
  <1>2. CASE OnRejected
    <2>1. journal' \in [Draft -> Attempt \cup {None}]
      BY <1>2 DEF OnRejected, TypeInv, TypeOK
    <2>. QED BY <1>2, <2>1 DEF OnRejected, Got, TypeInv, TypeOK, salesforce, server
  <1>3. CASE OnInterrupted
    BY <1>0, <1>3 DEF OnInterrupted, StartRecovery, TypeInv, TypeOK, salesforce, server
  <1>4. CASE OnResults
    <2>1. cur \in Request /\ reply[cur].made \subseteq Request \X Draft
      BY <1>4 DEF OnResults, Got, TypeInv, TypeOK, Reply
    <2>2. \A e \in Draft : (\E p \in reply[cur].made : Named(p[2], e)) =>
              (CHOOSE p \in reply[cur].made : Named(p[2], e))[1] \in Request
      BY <2>1
    <2>3. linked' \in [Draft -> Request \cup {None}]
      BY <1>4, <2>2 DEF OnResults, TypeInv, TypeOK
    <2>4. journal' \in [Draft -> Attempt \cup {None}]
      BY <1>4 DEF OnResults, TypeInv, TypeOK
    <2>. QED BY <1>4, <2>3, <2>4 DEF OnResults, TypeInv, TypeOK, salesforce, server
  <1>5. CASE FallBack
    <2>1. PICK r \in Request, mode \in Routes \ {"graph"}, a \in Attempt \ Drawn :
              Post(r, mode, a, h[cur].drafts)
      BY <1>5 DEF FallBack
    <2>2. cur \in Request /\ h[cur].drafts \in SUBSET Draft
      BY <1>5 DEF FallBack, Got, TypeInv, TypeOK, Handler
    <2>3. h' \in [Request -> Handler] /\ cur' \in Request /\ attempt' \in Attempt /\ phase' = "posted"
      BY <2>1, <2>2, PostType, RoutesAssumption DEF TypeInv
    <2>4. journal' \in [Draft -> Attempt \cup {None}]
      BY <1>5 DEF FallBack, TypeInv, TypeOK
    <2>. QED BY <1>5, <2>3, <2>4 DEF FallBack, TypeInv, TypeOK, salesforce
  <1>6. CASE Recover
    <2>1. \A a : \A l : l \in FindByAttemptId(a) => l \in Request
      BY DEF FindByAttemptId
    <2>2. linked' \in [Draft -> Request \cup {None}] /\ journal' \in [Draft -> Attempt \cup {None}]
      BY <1>6, <2>1 DEF Recover, TypeInv, TypeOK
    <2>3. left' \subseteq Attempt
      BY <1>6 DEF Recover, TypeInv, TypeOK
    <2>. QED BY <1>6, <2>2, <2>3 DEF Recover, TypeInv, TypeOK, salesforce, server
  <1>7. CASE EndRecovery
    BY <1>7 DEF EndRecovery, TypeInv, TypeOK, salesforce, server
  <1>8. CASE Reconcile
    <2>1. Candidates \subseteq Request
      BY DEF Candidates
    <2>2. linked' \in [Draft -> Request \cup {None}]
      BY <1>8, <2>1 DEF Reconcile, TypeInv, TypeOK
    <2>. QED BY <1>8, <2>2 DEF Reconcile, TypeInv, TypeOK, salesforce, server
  <1>9. CASE Reload
    BY <1>0, <1>9 DEF Reload, TypeInv, TypeOK, salesforce
  <1>. QED BY <1>1, <1>2, <1>3, <1>4, <1>5, <1>6, <1>7, <1>8, <1>9 DEF Dialog

LEMMA NextType == TypeInv /\ [Next]_vars => TypeInv'
  <1>. SUFFICES ASSUME TypeInv, [Next]_vars PROVE TypeInv'
    OBVIOUS
  <1>1. CASE Execute
    BY <1>1, ExecuteType DEF Execute, TypeInv, client
  <1>2. CASE Crash \/ \E r \in Request : Forget(r)
    BY <1>2, AsideType DEF Crash, Forget, TypeInv, client
  <1>3. ASSUME NEW r \in Request, Handle(r) PROVE TypeInv'
    <2>1. UNCHANGED client
      BY <1>3 DEF Handle, RefuseEarly, Claim, Lookup, Intend, DescribeFails, Send, Receive, NoAnswer, Finish
    <2>. QED BY <1>3, <2>1, HandleType DEF TypeInv, client
  <1>4. CASE UNCHANGED vars
    BY <1>4 DEF vars, salesforce, server, client, TypeInv, TypeOK
  <1>. QED BY <1>1, <1>2, <1>3, <1>4, ConfirmType, DialogType DEF Next

LEMMA InitType == Init => TypeInv
  BY DEF Init, TypeInv, TypeOK, NoLedger, Ledger, LedgerStatus, Unsent, Handler, NoReply, Reply

\* The variables have their types, by whatever route and with whatever fault.
THEOREM TypeCorrect == Spec => []TypeOK
  BY InitType, NextType, PTL DEF Spec, TypeInv

-----------------------------------------------------------------------------
(* What a step leaves alone *)

\* A step concerns r and no other request.
Apart(r) ==
    \A q \in Request \ {r} :
        /\ h'[q] = h[q] /\ ledger'[q] = ledger[q] /\ reply'[q] = reply[q]
        /\ \A d : Row(q, d)' <=> Row(q, d)
        /\ \A w : w[1] = q => (w \in wire' <=> w \in wire)
        /\ \A a \in answers' : a.req = q => a \in answers

\* What the dialog relies on: a request that was sent never gains a draft to write.
Keeps(r) ==
    /\ h'[r].attempt = h[r].attempt /\ h'[r].drafts = h[r].drafts
    /\ h'[r].pc = "unsent" <=> h[r].pc = "unsent"
    /\ Rejected(r) => Rejected(r)'
    /\ \A d \in Draft : MayWrite(r, d)' => MayWrite(r, d)

LEMMA ApartKeeps ==
    ASSUME NEW r, Apart(r), NEW q \in Request \ {r}, RequestInv(q)
    PROVE  RequestInv(q)' /\ Keeps(q)
  <1>1. /\ h'[q] = h[q] /\ ledger'[q] = ledger[q] /\ reply'[q] = reply[q]
        /\ \A d : Row(q, d)' <=> Row(q, d)
        /\ \A w : w[1] = q => (w \in wire' <=> w \in wire)
        /\ \A a \in answers' : a.req = q => a \in answers
    BY DEF Apart
  <1>2. \A d : OnWire(q, d)' <=> OnWire(q, d)
    BY <1>1 DEF OnWire
  <1>3. HandlerInv(q)'
    BY <1>1 DEF RequestInv, HandlerInv
  <1>4. WritesInv(q)'
    BY <1>1, <1>2 DEF RequestInv, WritesInv, Written
  <1>5. LedgerInv(q)'
    BY <1>1, <1>2 DEF RequestInv, LedgerInv, Stopped, Written
  <1>6. ReplyInv(q)'
    BY <1>1 DEF RequestInv, ReplyInv, Rejected
  <1>7. Keeps(q)
    BY <1>1 DEF Keeps, MayWrite, Live, Rejected, Row
  <1>. QED BY <1>3, <1>4, <1>5, <1>6, <1>7 DEF RequestInv

\* A step of the handler of r that writes nothing.
LEMMA WritesKeep ==
    ASSUME NEW r \in Request, WritesInv(r), rows' = rows, wire' = wire, answers' \subseteq answers,
           h'[r].drafts = h[r].drafts, h'[r].todo = h[r].todo,
           h'[r].confirmed = h[r].confirmed, h'[r].failed = h[r].failed,
           ledger[r].logged => ledger'[r].logged,
           ledger[r].started \subseteq ledger'[r].started
    PROVE  WritesInv(r)'
  BY DEF WritesInv, Written, OnWire, Row

LEMMA QuietKeeps ==
    ASSUME NEW r \in Request, rows' = rows, wire' = wire,
           h'[r].attempt = h[r].attempt, h'[r].drafts = h[r].drafts,
           h'[r].todo \subseteq h[r].todo, h[r].pc # "unsent", h'[r].pc # "unsent",
           Live(r), ~Rejected(r)
    PROVE  Keeps(r)
  BY DEF Keeps, MayWrite, Live

LEMMA RespondEffect ==
    ASSUME TypeOK, NEW r \in Request, NEW kind, NEW made, NEW failed, NEW fallback,
           Respond(r, kind, made, failed, fallback)
    PROVE  /\ reply'[r].kind = kind /\ reply'[r].made = made /\ reply'[r].failed = failed
           /\ \A q \in Request \ {r} : reply'[q] = reply[q]
  BY DEF TypeOK, Respond

LEMMA SettleEffect ==
    ASSUME TypeOK, NEW r \in Request, ledger' \in SettleKnownNoCommit(r)
    PROVE  /\ \A q \in Request \ {r} : ledger'[q] = ledger[q]
           /\ ledger'[r].logged = ledger[r].logged
           /\ ledger'[r].started = ledger[r].started
           /\ ledger'[r].failed = ledger[r].failed
           /\ ledger'[r].stopped = ledger[r].stopped
           /\ \/ ledger'[r] = ledger[r]
              \/ ledger'[r].confirmed = {} /\ ledger'[r].status \in {"failed", "removed"}
  <1>1. ledger' = ledger \/ \E s \in {"failed", "removed"} :
           ledger' = [ledger EXCEPT ![r] = [@ EXCEPT !.status = s, !.confirmed = {}]]
    BY DEF SettleKnownNoCommit
  <1>2. ASSUME NEW s \in {"failed", "removed"},
               ledger' = [ledger EXCEPT ![r] = [@ EXCEPT !.status = s, !.confirmed = {}]]
        PROVE  /\ \A q \in Request \ {r} : ledger'[q] = ledger[q]
               /\ ledger'[r] = [ledger[r] EXCEPT !.status = s, !.confirmed = {}]
    BY <1>2 DEF TypeOK
  <1>3. ledger[r] \in Ledger
    BY DEF TypeOK
  <1>. QED BY <1>1, <1>2, <1>3 DEF Ledger

LEMMA FinalizeEffect ==
    ASSUME TypeOK, NEW r \in Request, NEW made, ledger' \in Finalize(r, made)
    PROVE  /\ \A q \in Request \ {r} : ledger'[q] = ledger[q]
           /\ ledger'[r].logged = ledger[r].logged
           /\ ledger'[r].started = ledger[r].started
           /\ ledger'[r].failed = ledger[r].failed
           /\ ledger'[r].stopped = ledger[r].stopped
           /\ \/ ledger'[r] = ledger[r]
              \/ ledger'[r].confirmed = made /\ ledger'[r].status = "uploaded"
  BY DEF TypeOK, Ledger, Finalize

LEMMA CheckpointEffect ==
    ASSUME TypeOK, NEW r \in Request, NEW s, NEW stop, ledger' = Checkpoint(r, s, stop)
    PROVE  /\ \A q \in Request \ {r} : ledger'[q] = ledger[q]
           /\ ledger'[r].status = ledger[r].status
           /\ ledger'[r].logged
           /\ ledger'[r].started = s.drafts \ s.todo
           /\ ledger'[r].confirmed = s.confirmed
           /\ ledger'[r].failed = s.failed
           /\ ledger'[r].stopped = stop
  BY DEF TypeOK, Ledger, Checkpoint

\* What the end of an interrupted upload with the progress s leaves in the ledger.
LEMMA StopEffect ==
    ASSUME TypeOK, NEW r \in Request, NEW s \in Handler, StopGraph(r, s)
    PROVE  /\ h'[r] = [s EXCEPT !.pc = "done", !.sent = {}]
           /\ reply'[r].kind = "incomplete"
           /\ \A q \in Request \ {r} : h'[q] = h[q] /\ ledger'[q] = ledger[q] /\ reply'[q] = reply[q]
           /\ \/ ledger'[r] = ledger[r]
              \/ /\ ledger[r].status = "pending" /\ ledger'[r].status = "pending"
                 /\ ledger'[r].logged
                 /\ ledger'[r].started = s.drafts \ s.todo
                 /\ ledger'[r].confirmed = s.confirmed
                 /\ ledger'[r].failed = s.failed
  <1>1. /\ h'[r] = [s EXCEPT !.pc = "done", !.sent = {}]
        /\ \A q \in Request \ {r} : h'[q] = h[q]
    BY DEF StopGraph, TypeOK
  <1>2. /\ reply'[r].kind = "incomplete"
        /\ \A q \in Request \ {r} : reply'[q] = reply[q]
    BY RespondEffect DEF StopGraph
  <1>3. CASE UNCHANGED ledger
    BY <1>1, <1>2, <1>3
  <1>4. ASSUME ledger[r].status = "pending", NEW stop \in BOOLEAN, ledger' = Checkpoint(r, s, stop)
        PROVE  /\ \A q \in Request \ {r} : ledger'[q] = ledger[q]
               /\ ledger'[r].status = "pending" /\ ledger'[r].logged
               /\ ledger'[r].started = s.drafts \ s.todo
               /\ ledger'[r].confirmed = s.confirmed
               /\ ledger'[r].failed = s.failed
    BY <1>4, CheckpointEffect
  <1>. QED BY <1>1, <1>2, <1>3, <1>4 DEF StopGraph

-----------------------------------------------------------------------------
(* The handler *)

\* The end of a handler that has sent nothing: the request is refused.
LEMMA RefuseInv ==
    ASSUME TypeOK, NEW r \in Request, RequestInv(r), h[r].pc \in {"new", "claimed", "cleared"},
           NEW kind \in {"rejected", "unavailable", "incomplete"}, Refuse(r, kind),
           UNCHANGED <<salesforce, ledger>>
    PROVE  Apart(r) /\ RequestInv(r)' /\ Keeps(r)
  <1>0. UNCHANGED <<rows, wire, answers, ledger>>
    BY DEF salesforce
  <1>1. /\ h'[r] = [h[r] EXCEPT !.pc = "done"]
        /\ \A q \in Request \ {r} : h'[q] = h[q]
    BY DEF Refuse, TypeOK
  <1>2. reply'[r].kind = kind /\ \A q \in Request \ {r} : reply'[q] = reply[q]
    BY RespondEffect DEF Refuse
  <1>3. h[r] \in Handler /\ h'[r].pc = "done" /\ ledger[r] = NoLedger
    BY <1>1 DEF TypeOK, Handler, RequestInv, HandlerInv
  <1>4. /\ h'[r].drafts = h[r].drafts /\ h'[r].todo = h[r].todo /\ h'[r].sent = h[r].sent
        /\ h'[r].confirmed = h[r].confirmed /\ h'[r].failed = h[r].failed
        /\ h'[r].attempt = h[r].attempt /\ h'[r].mode = h[r].mode
    BY <1>1, <1>3 DEF Handler
  <1>5. HandlerInv(r)'
    BY <1>3, <1>4 DEF RequestInv, HandlerInv
  <1>6. WritesInv(r)'
    BY <1>0, <1>4, WritesKeep DEF RequestInv
  <1>7. LedgerInv(r)'
    BY <1>0, <1>3, <1>4 DEF RequestInv, LedgerInv, Stopped, Written, Row, OnWire
  <1>8. ReplyInv(r)'
    BY <1>0, <1>2, <1>3 DEF ReplyInv, Rejected, NoLedger
  <1>9. Keeps(r)
    BY <1>0, <1>3, <1>4, QuietKeeps DEF RequestInv, ReplyInv, Rejected, Live
  <1>10. Apart(r)
    BY <1>0, <1>1, <1>2 DEF Apart, Row
  <1>. QED BY <1>5, <1>6, <1>7, <1>8, <1>9, <1>10 DEF RequestInv

\* A handler goes on to pc without writing.
LEMMA AdvanceInv ==
    ASSUME TypeOK, NEW r \in Request, RequestInv(r), h[r].pc \in {"new", "claimed"},
           NEW pc \in {"claimed", "cleared"}, h' = [h EXCEPT ![r].pc = pc],
           UNCHANGED <<salesforce, ledger, reply>>
    PROVE  Apart(r) /\ RequestInv(r)' /\ Keeps(r)
  <1>0. UNCHANGED <<rows, wire, answers, ledger, reply>>
    BY DEF salesforce
  <1>1. /\ h'[r] = [h[r] EXCEPT !.pc = pc]
        /\ \A q \in Request \ {r} : h'[q] = h[q]
    BY DEF TypeOK
  <1>2. h[r] \in Handler /\ h'[r].pc = pc /\ ledger[r] = NoLedger
    BY <1>1 DEF TypeOK, Handler, RequestInv, HandlerInv
  <1>3. /\ h'[r].drafts = h[r].drafts /\ h'[r].todo = h[r].todo /\ h'[r].sent = h[r].sent
        /\ h'[r].confirmed = h[r].confirmed /\ h'[r].failed = h[r].failed
        /\ h'[r].attempt = h[r].attempt /\ h'[r].mode = h[r].mode
    BY <1>1, <1>2 DEF Handler
  <1>4. HandlerInv(r)'
    BY <1>0, <1>2, <1>3 DEF RequestInv, HandlerInv
  <1>5. WritesInv(r)'
    BY <1>0, <1>3, WritesKeep DEF RequestInv
  <1>6. LedgerInv(r)'
    BY <1>0, <1>2, <1>3 DEF RequestInv, LedgerInv, Stopped, Written, Row, OnWire, NoLedger
  <1>7. ReplyInv(r)'
    BY <1>0, <1>2 DEF RequestInv, ReplyInv, Rejected, NoLedger
  <1>8. Keeps(r)
    BY <1>0, <1>2, <1>3, QuietKeeps DEF RequestInv, ReplyInv, Rejected, Live
  <1>9. Apart(r)
    BY <1>0, <1>1 DEF Apart, Row
  <1>. QED BY <1>4, <1>5, <1>6, <1>7, <1>8, <1>9 DEF RequestInv

\* The ledger of an attempt that may be replayed is not there: all earlier
\* requests under the attempt were rejected.
LEMMA NothingToReplay ==
    ASSUME UploadInv, NEW r \in Request, h[r].pc = "claimed", NEW l \in FindByAttemptId(h[r].attempt)
    PROVE  ledger[l].status # "uploaded"
  <1>1. l \in Request /\ h[l].attempt = h[r].attempt
    BY DEF FindByAttemptId
  <1>2. h[r].attempt # None /\ ~Rejected(r) /\ ledger[r].status = "none"
    BY NoneAssumption DEF UploadInv, RequestInv, HandlerInv, ReplyInv, Rejected, NoLedger
  <1>3. CASE l = r
    BY <1>2, <1>3
  <1>4. CASE l # r
    <2>1. Rejected(l)
      BY <1>1, <1>2, <1>4 DEF UploadInv, ClientInv, AttemptsInv
    <2>. QED BY <1>1, <2>1 DEF UploadInv, RequestInv, ReplyInv
  <1>. QED BY <1>3, <1>4

\* The ledger is created.
LEMMA IntendInv ==
    ASSUME TypeOK, NEW r \in Request, RequestInv(r), h[r].pc = "cleared",
           ledger' = [ledger EXCEPT ![r].status = "pending"], h' = [h EXCEPT ![r].pc = "writing"],
           UNCHANGED <<salesforce, reply>>
    PROVE  Apart(r) /\ RequestInv(r)' /\ Keeps(r)
  <1>0. UNCHANGED <<rows, wire, answers, reply>>
    BY DEF salesforce
  <1>1. /\ h'[r] = [h[r] EXCEPT !.pc = "writing"]
        /\ \A q \in Request \ {r} : h'[q] = h[q] /\ ledger'[q] = ledger[q]
    BY DEF TypeOK
  <1>2. h[r] \in Handler /\ h'[r].pc = "writing"
    BY <1>1 DEF TypeOK, Handler
  <1>3. /\ h'[r].drafts = h[r].drafts /\ h'[r].todo = h[r].todo /\ h'[r].sent = h[r].sent
        /\ h'[r].confirmed = h[r].confirmed /\ h'[r].failed = h[r].failed
        /\ h'[r].attempt = h[r].attempt /\ h'[r].mode = h[r].mode
    BY <1>1, <1>2 DEF Handler
  <1>4. ledger'[r] = [NoLedger EXCEPT !.status = "pending"] /\ ledger[r] = NoLedger
    BY DEF RequestInv, HandlerInv, TypeOK
  <1>5. /\ ledger'[r].status = "pending" /\ ~ledger'[r].logged /\ ~ledger'[r].stopped
        /\ ledger'[r].started = {} /\ ledger'[r].confirmed = {} /\ ledger'[r].failed = {}
    BY <1>4 DEF NoLedger
  <1>6. h[r].sent = {} /\ h[r].todo = h[r].drafts
    BY DEF RequestInv, HandlerInv
  <1>7. HandlerInv(r)'
    BY <1>2, <1>3, <1>6 DEF RequestInv, HandlerInv
  <1>8. WritesInv(r)'
    BY <1>0, <1>3, <1>4, <1>5, WritesKeep DEF RequestInv, NoLedger
  <1>9. LedgerInv(r)'
    BY <1>5 DEF LedgerInv, Stopped
  <1>10. ReplyInv(r)'
    BY <1>0 DEF RequestInv, ReplyInv, Rejected
  <1>11. Keeps(r)
    BY <1>0, <1>2, <1>3, QuietKeeps DEF RequestInv, ReplyInv, Rejected, Live
  <1>12. Apart(r)
    BY <1>0, <1>1 DEF Apart, Row
  <1>. QED BY <1>7, <1>8, <1>9, <1>10, <1>11, <1>12 DEF RequestInv

LEMMA DescribeInv ==
    ASSUME TypeOK, NEW r \in Request, RequestInv(r), DescribeFails(r)
    PROVE  Apart(r) /\ RequestInv(r)' /\ Keeps(r)
  <1>0. UNCHANGED <<rows, wire, answers>>
    BY DEF DescribeFails, salesforce
  <1>1. /\ h'[r] = [h[r] EXCEPT !.pc = "done"]
        /\ \A q \in Request \ {r} : h'[q] = h[q]
    BY DEF DescribeFails, Refuse, TypeOK
  <1>2. reply'[r].kind = "rejected" /\ \A q \in Request \ {r} : reply'[q] = reply[q]
    BY RespondEffect DEF DescribeFails, Refuse
  <1>3. h[r] \in Handler /\ h'[r].pc = "done" /\ h[r].pc = "writing" /\ h[r].todo = h[r].drafts
    BY <1>1 DEF TypeOK, Handler, DescribeFails
  <1>4. /\ h'[r].drafts = h[r].drafts /\ h'[r].todo = h[r].todo /\ h'[r].sent = h[r].sent
        /\ h'[r].confirmed = h[r].confirmed /\ h'[r].failed = h[r].failed
        /\ h'[r].attempt = h[r].attempt /\ h'[r].mode = h[r].mode
    BY <1>1, <1>3 DEF Handler
  <1>5. /\ \A q \in Request \ {r} : ledger'[q] = ledger[q]
        /\ ledger'[r].logged = ledger[r].logged
        /\ ledger'[r].started = ledger[r].started
        /\ ledger'[r].failed = ledger[r].failed
        /\ ledger'[r].stopped = ledger[r].stopped
        /\ \/ ledger'[r] = ledger[r]
           \/ ledger'[r].confirmed = {} /\ ledger'[r].status \in {"failed", "removed"}
    BY SettleEffect DEF DescribeFails
  <1>6. ~ledger[r].logged /\ (\A d \in Draft : ~Written(r, d)) /\ ledger[r].status # "uploaded"
    BY <1>3 DEF RequestInv, LedgerInv, WritesInv, Stopped
  <1>7. HandlerInv(r)'
    BY <1>3, <1>4 DEF RequestInv, HandlerInv
  <1>8. WritesInv(r)'
    BY <1>0, <1>4, <1>5, WritesKeep DEF RequestInv
  <1>9. LedgerInv(r)'
    BY <1>0, <1>3, <1>4, <1>5, <1>6 DEF RequestInv, LedgerInv, Stopped, Written, Row, OnWire
  <1>10. ReplyInv(r)'
    BY <1>2, <1>3, <1>5, <1>6 DEF ReplyInv, Rejected
  <1>11. Keeps(r)
    BY <1>0, <1>3, <1>4, QuietKeeps DEF RequestInv, ReplyInv, Rejected, Live
  <1>12. Apart(r)
    BY <1>0, <1>1, <1>2, <1>5 DEF Apart, Row
  <1>. QED BY <1>7, <1>8, <1>9, <1>10, <1>11, <1>12 DEF RequestInv

LEMMA NextWritesType ==
    ASSUME TypeOK, NEW r \in Request, RequestInv(r), NEW D \in NextWrites(r)
    PROVE  D \subseteq h[r].todo /\ D # {}
  <1>1. D \in GraphBatches(h[r].todo)
    BY DEF NextWrites, RequestInv, HandlerInv
  <1>2. PICK G \in (SUBSET Graphs(h[r].todo)) \ {{}} : D = {d \in h[r].todo : GraphOf[d] \in G}
    BY <1>1 DEF GraphBatches
  <1>3. PICK g \in G : g \in Graphs(h[r].todo)
    OBVIOUS
  <1>4. PICK d \in h[r].todo : g = GraphOf[d]
    BY <1>3 DEF Graphs
  <1>. QED BY <1>2, <1>3, <1>4

\* An upload that is interrupted with the progress s.
LEMMA StopInv ==
    ASSUME TypeOK, NEW r \in Request, RequestInv(r), h[r].pc \in {"writing", "waiting"},
           NEW s \in Handler, StopGraph(r, s),
           s.attempt = h[r].attempt, s.mode = h[r].mode, s.drafts = h[r].drafts,
           s.todo \subseteq h[r].todo, s.todo # h[r].drafts,
           h[r].confirmed \subseteq s.confirmed, h[r].failed \subseteq s.failed,
           s.confirmed \cup s.failed \subseteq h[r].drafts \ s.todo,
           \A d \in s.confirmed : Row(r, d), \A d \in s.failed : ~Written(r, d),
           UNCHANGED <<rows, wire>>, answers' \subseteq answers
    PROVE  Apart(r) /\ RequestInv(r)' /\ Keeps(r)
  <1>1. /\ h'[r] = [s EXCEPT !.pc = "done", !.sent = {}]
        /\ reply'[r].kind = "incomplete"
        /\ \A q \in Request \ {r} : h'[q] = h[q] /\ ledger'[q] = ledger[q] /\ reply'[q] = reply[q]
        /\ \/ ledger'[r] = ledger[r]
           \/ /\ ledger[r].status = "pending" /\ ledger'[r].status = "pending"
              /\ ledger'[r].logged
              /\ ledger'[r].started = s.drafts \ s.todo
              /\ ledger'[r].confirmed = s.confirmed
              /\ ledger'[r].failed = s.failed
    BY StopEffect
  <1>2. /\ h'[r].pc = "done" /\ h'[r].sent = {}
        /\ h'[r].drafts = h[r].drafts /\ h'[r].todo = s.todo
        /\ h'[r].confirmed = s.confirmed /\ h'[r].failed = s.failed
        /\ h'[r].attempt = h[r].attempt /\ h'[r].mode = h[r].mode
    BY <1>1 DEF Handler
  <1>3. \A d : (Row(r, d)' <=> Row(r, d)) /\ (OnWire(r, d)' <=> OnWire(r, d))
    BY DEF Row, OnWire
  <1>4. HandlerInv(r)'
    BY <1>2 DEF RequestInv, HandlerInv
  <1>5. WritesInv(r)'
    <2>1. \A d \in Draft : Written(r, d)' =>
              d \in h'[r].drafts \ h'[r].todo /\ ledger'[r].logged /\ d \in ledger'[r].started
      BY <1>1, <1>2, <1>3 DEF RequestInv, WritesInv, Written
    <2>2. \A w \in wire' : w[1] = r => \A d \in w[2] :
              ~Row(r, d)' /\ \A v \in wire' : v[1] = r /\ d \in v[2] => v = w
      BY <1>3 DEF RequestInv, WritesInv
    <2>3. \A a \in answers' : a.req = r =>
              /\ a.made \cup a.told \subseteq a.drafts
              /\ a.drafts \subseteq h'[r].drafts \ h'[r].todo
              /\ \A d \in a.drafts : ~OnWire(r, d)' /\ (Row(r, d)' <=> d \in a.made)
      BY <1>2, <1>3 DEF RequestInv, WritesInv
    <2>4. (\A d \in h'[r].confirmed : Row(r, d)') /\ (\A d \in h'[r].failed : ~Written(r, d)')
      BY <1>2, <1>3 DEF Written
    <2>. QED BY <2>1, <2>2, <2>3, <2>4 DEF WritesInv
  <1>6. LedgerInv(r)'
    BY <1>1, <1>2, <1>3 DEF RequestInv, LedgerInv, Stopped, Written
  <1>7. ReplyInv(r)'
    BY <1>1, <1>2 DEF ReplyInv, Rejected
  <1>8. Keeps(r)
    BY <1>2, QuietKeeps DEF RequestInv, ReplyInv, Rejected, Live
  <1>9. Apart(r)
    BY <1>1 DEF Apart, Row
  <1>. QED BY <1>4, <1>5, <1>6, <1>7, <1>8, <1>9 DEF RequestInv

LEMMA SendInv ==
    ASSUME TypeOK, NEW r \in Request, RequestInv(r), Send(r)
    PROVE  Apart(r) /\ RequestInv(r)' /\ Keeps(r)
  <1>1. h[r].pc = "writing" /\ h[r].mode = "graph" /\ h[r] \in Handler /\ h[r].sent = {}
    BY DEF Send, RequestInv, HandlerInv, TypeOK
  <1>2. PICK D \in NextWrites(r) :
            LET s == [h[r] EXCEPT !.pc = "waiting", !.todo = @ \ D, !.sent = D]
            IN  \/ /\ ledger[r].status = "pending"
                   /\ ledger' = Checkpoint(r, s, FALSE)
                   /\ h' = [h EXCEPT ![r] = s]
                   /\ wire' = wire \cup {<<r, D>>}
                   /\ UNCHANGED <<rows, answers, claims, reply>>
                \/ StopGraph(r, s) /\ UNCHANGED salesforce
    BY <1>1 DEF Send
  <1>. DEFINE s == [h[r] EXCEPT !.pc = "waiting", !.todo = @ \ D, !.sent = D]
  <1>3. D \subseteq h[r].todo /\ D # {}
    BY NextWritesType
  <1>4. /\ s \in Handler /\ s.pc = "waiting" /\ s.sent = D /\ s.todo = h[r].todo \ D
        /\ s.drafts = h[r].drafts /\ s.confirmed = h[r].confirmed /\ s.failed = h[r].failed
        /\ s.attempt = h[r].attempt /\ s.mode = h[r].mode
    BY <1>1, <1>3 DEF Handler
  <1>. HIDE DEF s
  <1>5. CASE StopGraph(r, s) /\ UNCHANGED salesforce
    <2>1. s.todo # h[r].drafts /\ s.confirmed \cup s.failed \subseteq h[r].drafts \ s.todo
      BY <1>3, <1>4 DEF RequestInv, HandlerInv
    <2>2. (\A d \in s.confirmed : Row(r, d)) /\ (\A d \in s.failed : ~Written(r, d))
      BY <1>4 DEF RequestInv, WritesInv
    <2>. QED BY <1>1, <1>4, <1>5, <2>1, <2>2, StopInv DEF salesforce
  <1>6. ASSUME ledger[r].status = "pending", ledger' = Checkpoint(r, s, FALSE),
               h' = [h EXCEPT ![r] = s], wire' = wire \cup {<<r, D>>},
               UNCHANGED <<rows, answers, claims, reply>>
        PROVE  Apart(r) /\ RequestInv(r)' /\ Keeps(r)
    <2>1. h'[r] = s /\ \A q \in Request \ {r} : h'[q] = h[q]
      BY <1>6 DEF TypeOK
    <2>2. /\ \A q \in Request \ {r} : ledger'[q] = ledger[q]
          /\ ledger'[r].status = "pending" /\ ledger'[r].logged
          /\ ledger'[r].started = h[r].drafts \ (h[r].todo \ D)
          /\ ledger'[r].confirmed = h[r].confirmed
          /\ ledger'[r].failed = h[r].failed
          /\ ledger'[r].stopped = FALSE
      BY <1>4, <1>6, CheckpointEffect
    <2>3. \A d : /\ Row(r, d)' <=> Row(r, d)
                 /\ OnWire(r, d)' <=> OnWire(r, d) \/ d \in D
      <3>1. <<r, D>>[1] = r /\ <<r, D>>[2] = D
        OBVIOUS
      <3>2. \A d : OnWire(r, d)' <=> OnWire(r, d) \/ d \in D
        BY <1>6, <3>1 DEF OnWire
      <3>. QED BY <1>6, <3>2 DEF Row
    <2>4. \A d \in D : ~Written(r, d)
      BY <1>3, <1>1 DEF RequestInv, WritesInv, Handler
    <2>5. HandlerInv(r)'
      BY <1>1, <1>3, <1>4, <2>1 DEF RequestInv, HandlerInv
    <2>6. WritesInv(r)'
      <3>1. \A d \in Draft : Written(r, d)' =>
                d \in h'[r].drafts \ h'[r].todo /\ ledger'[r].logged /\ d \in ledger'[r].started
        BY <1>3, <1>4, <2>1, <2>2, <2>3 DEF RequestInv, WritesInv, HandlerInv, Written
      <3>2. \A w \in wire' : w[1] = r => \A d \in w[2] :
                ~Row(r, d)' /\ \A v \in wire' : v[1] = r /\ d \in v[2] => v = w
        BY <1>6, <2>3, <2>4 DEF RequestInv, WritesInv, Written, OnWire
      <3>3. \A a \in answers' : a.req = r =>
                /\ a.made \cup a.told \subseteq a.drafts
                /\ a.drafts \subseteq h'[r].drafts \ h'[r].todo
                /\ \A d \in a.drafts : ~OnWire(r, d)' /\ (Row(r, d)' <=> d \in a.made)
        BY <1>3, <1>4, <1>6, <2>1, <2>3 DEF RequestInv, WritesInv
      <3>4. (\A d \in h'[r].confirmed : Row(r, d)') /\ (\A d \in h'[r].failed : ~Written(r, d)')
        BY <1>3, <1>4, <2>1, <2>3 DEF RequestInv, WritesInv, HandlerInv, Written
      <3>. QED BY <3>1, <3>2, <3>3, <3>4 DEF WritesInv
    <2>7. LedgerInv(r)'
      BY <1>3, <1>4, <2>1, <2>2 DEF RequestInv, HandlerInv, LedgerInv, Stopped
    <2>8. ReplyInv(r)'
      BY <1>1, <1>6 DEF RequestInv, ReplyInv, Rejected
    <2>9. Keeps(r)
      BY <1>1, <1>3, <1>4, <1>6, <2>1, <2>3 DEF RequestInv, ReplyInv, Keeps, MayWrite, Live, Rejected, Row, OnWire
    <2>10. Apart(r)
      <3>1. \A w : w[1] # r => (w \in wire' <=> w \in wire)
        BY <1>6
      <3>. QED BY <1>6, <2>1, <2>2, <3>1 DEF Apart, Row
    <2>. QED BY <2>5, <2>6, <2>7, <2>8, <2>9, <2>10 DEF RequestInv
  <1>. QED BY <1>2, <1>5, <1>6 DEF s

LEMMA ReceiveInv ==
    ASSUME TypeOK, NEW r \in Request, RequestInv(r), Receive(r)
    PROVE  Apart(r) /\ RequestInv(r)' /\ Keeps(r)
  <1>1. h[r].pc = "waiting" /\ h[r].mode = "graph" /\ h[r] \in Handler /\ UNCHANGED <<rows, wire>>
    BY DEF Receive, RequestInv, HandlerInv, TypeOK
  <1>2. PICK a \in answers :
            LET s == [h[r] EXCEPT !.pc = "writing", !.sent = {},
                                  !.confirmed = @ \cup (a.made \cap a.told),
                                  !.failed = @ \cup (a.told \ (a.made \cap a.told))]
            IN  /\ a.req = r /\ a.drafts = h[r].sent
                /\ answers' = answers \ {a}
                /\ \/ /\ a.told = a.drafts /\ ledger[r].status = "pending"
                      /\ ledger' = Checkpoint(r, s, FALSE)
                      /\ h' = [h EXCEPT ![r] = s]
                      /\ UNCHANGED <<claims, reply>>
                   \/ StopGraph(r, s)
    BY <1>1 DEF Receive, Reported
  <1>. DEFINE s == [h[r] EXCEPT !.pc = "writing", !.sent = {},
                                !.confirmed = @ \cup (a.made \cap a.told),
                                !.failed = @ \cup (a.told \ (a.made \cap a.told))]
  <1>3. /\ a.made \cup a.told \subseteq h[r].sent
        /\ \A d \in a.made : Row(r, d)
        /\ \A d \in a.told \ a.made : ~Written(r, d)
    BY <1>2 DEF RequestInv, WritesInv, Written
  <1>4. a.made \subseteq Draft /\ a.told \subseteq Draft
    BY DEF TypeOK
  <1>5. /\ s \in Handler /\ s.pc = "writing" /\ s.sent = {} /\ s.todo = h[r].todo
        /\ s.drafts = h[r].drafts
        /\ s.confirmed = h[r].confirmed \cup (a.made \cap a.told)
        /\ s.failed = h[r].failed \cup (a.told \ a.made)
        /\ s.attempt = h[r].attempt /\ s.mode = h[r].mode
    BY <1>1, <1>4 DEF Handler
  <1>. HIDE DEF s
  <1>6. (\A d \in s.confirmed : Row(r, d)) /\ (\A d \in s.failed : ~Written(r, d))
    BY <1>3, <1>5 DEF RequestInv, WritesInv
  <1>7. s.todo # h[r].drafts /\ s.confirmed \cup s.failed \subseteq h[r].drafts \ s.todo
    BY <1>1, <1>3, <1>5 DEF RequestInv, HandlerInv
  <1>8. CASE StopGraph(r, s)
    BY <1>1, <1>2, <1>5, <1>6, <1>7, <1>8, StopInv
  <1>9. ASSUME a.told = a.drafts, ledger[r].status = "pending", ledger' = Checkpoint(r, s, FALSE),
               h' = [h EXCEPT ![r] = s], UNCHANGED <<claims, reply>>
        PROVE  Apart(r) /\ RequestInv(r)' /\ Keeps(r)
    <2>1. h'[r] = s /\ \A q \in Request \ {r} : h'[q] = h[q]
      BY <1>9 DEF TypeOK
    <2>2. /\ \A q \in Request \ {r} : ledger'[q] = ledger[q]
          /\ ledger'[r].status = "pending" /\ ledger'[r].logged
          /\ ledger'[r].started = h[r].drafts \ h[r].todo
          /\ ledger'[r].confirmed = s.confirmed
          /\ ledger'[r].failed = s.failed
          /\ ledger'[r].stopped = FALSE
      <3>1. ledger' = Checkpoint(r, s, FALSE)
        BY <1>9
      <3>2. /\ \A q \in Request \ {r} : ledger'[q] = ledger[q]
            /\ ledger'[r].status = ledger[r].status /\ ledger'[r].logged
            /\ ledger'[r].started = s.drafts \ s.todo
            /\ ledger'[r].confirmed = s.confirmed
            /\ ledger'[r].failed = s.failed
            /\ ledger'[r].stopped = FALSE
        BY <3>1, CheckpointEffect
      <3>. QED BY <1>5, <1>9, <3>2
    <2>3. \A d : (Row(r, d)' <=> Row(r, d)) /\ (OnWire(r, d)' <=> OnWire(r, d))
      BY <1>1 DEF Row, OnWire
    <2>4. HandlerInv(r)'
      BY <1>1, <1>2, <1>3, <1>5, <1>7, <1>9, <2>1, ZenonT(30) DEF RequestInv, HandlerInv
    <2>5. WritesInv(r)'
      <3>1. \A d \in Draft : Written(r, d)' =>
                d \in h'[r].drafts \ h'[r].todo /\ ledger'[r].logged /\ d \in ledger'[r].started
        BY <1>5, <2>1, <2>2, <2>3 DEF RequestInv, WritesInv, Written
      <3>2. \A w \in wire' : w[1] = r => \A d \in w[2] :
                ~Row(r, d)' /\ \A v \in wire' : v[1] = r /\ d \in v[2] => v = w
        BY <1>1, <2>3 DEF RequestInv, WritesInv
      <3>3. \A b \in answers' : b.req = r =>
                /\ b.made \cup b.told \subseteq b.drafts
                /\ b.drafts \subseteq h'[r].drafts \ h'[r].todo
                /\ \A d \in b.drafts : ~OnWire(r, d)' /\ (Row(r, d)' <=> d \in b.made)
        BY <1>2, <1>5, <2>1, <2>3 DEF RequestInv, WritesInv
      <3>4. (\A d \in h'[r].confirmed : Row(r, d)') /\ (\A d \in h'[r].failed : ~Written(r, d)')
        BY <1>6, <2>1, <2>3 DEF Written
      <3>. QED BY <3>1, <3>2, <3>3, <3>4 DEF WritesInv
    <2>6. LedgerInv(r)'
      BY <1>5, <1>7, <2>1, <2>2 DEF LedgerInv, Stopped
    <2>7. ReplyInv(r)'
      BY <1>1, <1>9 DEF RequestInv, ReplyInv, Rejected
    <2>8. Keeps(r)
      BY <1>1, <1>5, <2>1, QuietKeeps DEF RequestInv, ReplyInv, Rejected, Live
    <2>9. Apart(r)
      BY <1>1, <1>2, <1>9, <2>1, <2>2 DEF Apart, Row
    <2>. QED BY <2>4, <2>5, <2>6, <2>7, <2>8, <2>9 DEF RequestInv
  <1>. QED BY <1>2, <1>8, <1>9 DEF s

LEMMA NoAnswerInv ==
    ASSUME TypeOK, NEW r \in Request, RequestInv(r), NoAnswer(r)
    PROVE  Apart(r) /\ RequestInv(r)' /\ Keeps(r)
  <1>1. /\ h[r].pc = "waiting" /\ h[r] \in Handler /\ StopGraph(r, h[r])
        /\ UNCHANGED <<rows, wire, answers>>
    BY DEF NoAnswer, RequestInv, HandlerInv, TypeOK, salesforce
  <1>2. h[r].todo # h[r].drafts /\ h[r].confirmed \cup h[r].failed \subseteq h[r].drafts \ h[r].todo
    BY <1>1 DEF RequestInv, HandlerInv
  <1>3. (\A d \in h[r].confirmed : Row(r, d)) /\ (\A d \in h[r].failed : ~Written(r, d))
    BY DEF RequestInv, WritesInv
  <1>. QED BY <1>1, <1>2, <1>3, StopInv

LEMMA FinishInv ==
    ASSUME TypeOK, NEW r \in Request, RequestInv(r), Finish(r)
    PROVE  Apart(r) /\ RequestInv(r)' /\ Keeps(r)
  <1>1. /\ h[r].pc = "writing" /\ h[r].todo = {} /\ h[r] \in Handler
        /\ UNCHANGED <<rows, wire, answers>>
    BY DEF Finish, TypeOK, salesforce
  <1>2. h'[r] = [h[r] EXCEPT !.pc = "done"] /\ \A q \in Request \ {r} : h'[q] = h[q]
    BY DEF Finish, TypeOK
  <1>3. /\ reply'[r].kind = "results" /\ reply'[r].made = {<<r, d>> : d \in h[r].confirmed}
        /\ reply'[r].failed = h[r].failed
        /\ \A q \in Request \ {r} : reply'[q] = reply[q]
    BY RespondEffect DEF Finish
  <1>4. /\ h'[r].pc = "done"
        /\ h'[r].drafts = h[r].drafts /\ h'[r].todo = h[r].todo /\ h'[r].sent = h[r].sent
        /\ h'[r].confirmed = h[r].confirmed /\ h'[r].failed = h[r].failed
        /\ h'[r].attempt = h[r].attempt /\ h'[r].mode = h[r].mode
    BY <1>1, <1>2 DEF Handler
  <1>5. /\ \A q \in Request \ {r} : ledger'[q] = ledger[q]
        /\ ledger'[r].logged = ledger[r].logged
        /\ ledger'[r].started = ledger[r].started
        /\ ledger'[r].failed = ledger[r].failed
        /\ ledger'[r].stopped = ledger[r].stopped
        /\ \/ ledger'[r] = ledger[r]
           \/ /\ h[r].confirmed # {}
              /\ ledger'[r].confirmed = h[r].confirmed /\ ledger'[r].status = "uploaded"
           \/ /\ h[r].confirmed = {}
              /\ ledger'[r].confirmed = {} /\ ledger'[r].status \in {"failed", "removed"}
    <2>1. CASE h[r].confirmed # {}
      BY <2>1, FinalizeEffect DEF Finish
    <2>2. CASE h[r].confirmed = {}
      BY <2>2, SettleEffect DEF Finish
    <2>. QED BY <2>1, <2>2
  <1>6. h[r].confirmed = {} => \A d \in Draft : ~Written(r, d)
    BY <1>1 DEF RequestInv, HandlerInv, WritesInv
  <1>7. h[r].confirmed # {} => ledger[r].logged
    BY <1>1 DEF RequestInv, WritesInv, Written, Handler
  <1>8. ledger[r].status # "failed"
    BY <1>1 DEF RequestInv, LedgerInv, Stopped
  <1>9. HandlerInv(r)'
    BY <1>1, <1>4 DEF RequestInv, HandlerInv
  <1>10. WritesInv(r)'
    BY <1>1, <1>4, <1>5, WritesKeep DEF RequestInv
  <1>11. LedgerInv(r)'
    <2>1. \A d : Written(r, d)' <=> Written(r, d)
      BY <1>1 DEF Written, Row, OnWire
    <2>. QED BY <1>4, <1>5, <1>6, <1>7, <1>8, <2>1 DEF RequestInv, LedgerInv, Stopped
  <1>12. ReplyInv(r)'
    BY <1>3, <1>4 DEF ReplyInv, Rejected
  <1>13. Keeps(r)
    BY <1>1, <1>4, QuietKeeps DEF RequestInv, ReplyInv, Rejected, Live
  <1>14. Apart(r)
    BY <1>1, <1>2, <1>3, <1>5 DEF Apart, Row
  <1>. QED BY <1>9, <1>10, <1>11, <1>12, <1>13, <1>14 DEF RequestInv

\* Whatever the handler of a request does, the records that were made stay, the
\* dialog and the other requests are left alone.
LEMMA HandleInv ==
    ASSUME UploadInv, NEW r \in Request, Handle(r)
    PROVE  UNCHANGED client /\ rows' = rows /\ Apart(r) /\ RequestInv(r)' /\ Keeps(r)
  <1>0. TypeOK /\ RequestInv(r)
    BY DEF UploadInv
  <1>1. CASE RefuseEarly(r)
    BY <1>0, <1>1, RefuseInv DEF RefuseEarly, salesforce
  <1>2. CASE Claim(r)
    BY <1>0, <1>2, RefuseInv, AdvanceInv DEF Claim, salesforce
  <1>3. CASE Lookup(r)
    <2>1. \A l \in FindByAttemptId(h[r].attempt) : ledger[l].status # "uploaded"
      BY <1>3, NothingToReplay DEF Lookup
    <2>. QED BY <1>0, <1>3, <2>1, RefuseInv, AdvanceInv DEF Lookup, salesforce
  <1>4. CASE Intend(r)
    BY <1>0, <1>4, RefuseInv, IntendInv DEF Intend, salesforce
  <1>5. CASE DescribeFails(r)
    BY <1>0, <1>5, DescribeInv DEF DescribeFails, salesforce
  <1>6. CASE Send(r)
    BY <1>0, <1>6, SendInv DEF Send, salesforce
  <1>7. CASE Receive(r)
    BY <1>0, <1>7, ReceiveInv DEF Receive
  <1>8. CASE NoAnswer(r)
    BY <1>0, <1>8, NoAnswerInv DEF NoAnswer, salesforce
  <1>9. CASE Finish(r)
    BY <1>0, <1>9, FinishInv DEF Finish, salesforce
  <1>. QED BY <1>1, <1>2, <1>3, <1>4, <1>5, <1>6, <1>7, <1>8, <1>9 DEF Handle

-----------------------------------------------------------------------------
(* Salesforce, crashes and the user who forgets an upload *)

LEMMA ExecuteInv ==
    ASSUME UploadInv, Execute
    PROVE  /\ UNCHANGED client /\ rows \subseteq rows'
           /\ \E r \in Request : Apart(r) /\ RequestInv(r)' /\ Keeps(r)
  <1>1. PICK w \in wire : \E made, told \in SUBSET w[2] :
            /\ rows' = rows \cup {<<w[1], d>> : d \in made}
            /\ wire' = wire \ {w}
            /\ answers' = answers \cup {[req |-> w[1], drafts |-> w[2], made |-> made, told |-> told]}
            /\ UNCHANGED <<server, client>>
    BY DEF Execute
  <1>2. PICK made \in SUBSET w[2], told \in SUBSET w[2] :
            /\ rows' = rows \cup {<<w[1], d>> : d \in made}
            /\ wire' = wire \ {w}
            /\ answers' = answers \cup {[req |-> w[1], drafts |-> w[2], made |-> made, told |-> told]}
            /\ UNCHANGED <<server, client>>
    BY <1>1
  <1>. DEFINE r == w[1]
              a == [req |-> r, drafts |-> w[2], made |-> made, told |-> told]
  <1>3. r \in Request /\ w[2] \subseteq Draft /\ w[1] = r
    BY DEF UploadInv, TypeOK
  <1>4. UNCHANGED <<ledger, claims, h, reply, client>>
    BY <1>2 DEF server
  <1>5. a.req = r /\ a.drafts = w[2] /\ a.made = made /\ a.told = told
    OBVIOUS
  <1>6. rows' = rows \cup {<<r, d>> : d \in made} /\ wire' = wire \ {w} /\ answers' = answers \cup {a}
    BY <1>2
  <1>. HIDE DEF r, a
  <1>7. RequestInv(r)
    BY <1>3 DEF UploadInv
  <1>8. \A q, d : Row(q, d)' <=> Row(q, d) \/ (q = r /\ d \in made)
    BY <1>6 DEF Row
  <1>9. \A d : OnWire(r, d)' => OnWire(r, d) /\ d \notin w[2]
    BY <1>3, <1>6, <1>7 DEF OnWire, RequestInv, WritesInv
  <1>10. \A d \in w[2] : OnWire(r, d) /\ ~Row(r, d)
    BY <1>3, <1>7 DEF OnWire, RequestInv, WritesInv
  <1>11. \A d : Written(r, d)' => Written(r, d)
    BY <1>8, <1>9, <1>10 DEF Written
  <1>12. WritesInv(r)'
    <2>1. \A d \in Draft : Written(r, d)' =>
              d \in h'[r].drafts \ h'[r].todo /\ ledger'[r].logged /\ d \in ledger'[r].started
      BY <1>4, <1>7, <1>11 DEF RequestInv, WritesInv
    <2>2. \A v \in wire' : v[1] = r => \A d \in v[2] :
              ~Row(r, d)' /\ \A x \in wire' : x[1] = r /\ d \in x[2] => x = v
      BY <1>3, <1>6, <1>7, <1>8 DEF RequestInv, WritesInv
    <2>3. \A b \in answers : b.req = r =>
              /\ b.made \cup b.told \subseteq b.drafts
              /\ b.drafts \subseteq h'[r].drafts \ h'[r].todo
              /\ \A d \in b.drafts : ~OnWire(r, d)' /\ (Row(r, d)' <=> d \in b.made)
      BY <1>4, <1>7, <1>8, <1>9, <1>10 DEF RequestInv, WritesInv
    <2>4. /\ a.made \cup a.told \subseteq a.drafts
          /\ a.drafts \subseteq h'[r].drafts \ h'[r].todo
          /\ \A d \in a.drafts : ~OnWire(r, d)' /\ (Row(r, d)' <=> d \in a.made)
      BY <1>3, <1>4, <1>5, <1>7, <1>8, <1>9, <1>10 DEF RequestInv, WritesInv, Written
    <2>5. (\A d \in h'[r].confirmed : Row(r, d)') /\ (\A d \in h'[r].failed : ~Written(r, d)')
      BY <1>4, <1>7, <1>8, <1>11 DEF RequestInv, WritesInv
    <2>. QED BY <1>6, <2>1, <2>2, <2>3, <2>4, <2>5 DEF WritesInv
  <1>13. HandlerInv(r)' /\ LedgerInv(r)' /\ ReplyInv(r)'
    BY <1>4, <1>7, <1>11 DEF RequestInv, HandlerInv, LedgerInv, Stopped, ReplyInv, Rejected
  <1>14. Keeps(r)
    BY <1>4, <1>11 DEF Keeps, MayWrite, Live, Rejected, Written, Row, OnWire
  <1>15. Apart(r)
    BY <1>3, <1>4, <1>5, <1>6, <1>8 DEF Apart
  <1>. QED BY <1>3, <1>4, <1>6, <1>12, <1>13, <1>14, <1>15 DEF RequestInv

LEMMA CrashInv ==
    ASSUME UploadInv, Crash, NEW r \in Request
    PROVE  UNCHANGED client /\ rows' = rows /\ RequestInv(r)' /\ Keeps(r)
  <1>1. UNCHANGED <<rows, wire, answers, ledger, reply, client>> /\ RequestInv(r) /\ h[r] \in Handler
    BY DEF Crash, salesforce, UploadInv, TypeOK
  <1>2. h'[r] = IF Live(r) THEN [h[r] EXCEPT !.pc = "dead", !.sent = {}] ELSE h[r]
    BY DEF Crash
  <1>3. /\ h'[r].drafts = h[r].drafts /\ h'[r].todo = h[r].todo
        /\ h'[r].confirmed = h[r].confirmed /\ h'[r].failed = h[r].failed
        /\ h'[r].attempt = h[r].attempt /\ h'[r].mode = h[r].mode
        /\ h'[r].pc = IF Live(r) THEN "dead" ELSE h[r].pc
        /\ h'[r].sent = IF Live(r) THEN {} ELSE h[r].sent
    BY <1>1, <1>2 DEF Handler
  <1>4. HandlerInv(r)'
    BY <1>1, <1>2, <1>3 DEF RequestInv, HandlerInv, Live
  <1>5. WritesInv(r)'
    BY <1>1, <1>3, WritesKeep DEF RequestInv
  <1>6. LedgerInv(r)'
    BY <1>1, <1>3 DEF RequestInv, LedgerInv, Stopped, Written, Row, OnWire
  <1>7. ReplyInv(r)'
    BY <1>1, <1>3 DEF RequestInv, ReplyInv, Rejected, Live
  <1>8. Keeps(r)
    BY <1>1, <1>3 DEF Keeps, MayWrite, Live, Rejected
  <1>. QED BY <1>1, <1>4, <1>5, <1>6, <1>7, <1>8 DEF RequestInv

LEMMA ForgetInv ==
    ASSUME UploadInv, NEW r \in Request, Forget(r)
    PROVE  UNCHANGED client /\ rows' = rows /\ Apart(r) /\ RequestInv(r)' /\ Keeps(r)
  <1>1. /\ UNCHANGED <<rows, wire, answers, h, reply, client>> /\ RequestInv(r)
        /\ ledger[r] \in Ledger /\ ledger[r] # NoLedger
    BY DEF Forget, salesforce, UploadInv, TypeOK, Exists, NoLedger
  <1>2. /\ ledger'[r] = [ledger[r] EXCEPT !.status = "removed"]
        /\ \A q \in Request \ {r} : ledger'[q] = ledger[q]
    BY DEF Forget, UploadInv, TypeOK
  <1>3. /\ ledger'[r].status = "removed" /\ ledger'[r].logged = ledger[r].logged
        /\ ledger'[r].started = ledger[r].started /\ ledger'[r].confirmed = ledger[r].confirmed
        /\ ledger'[r].failed = ledger[r].failed /\ ledger'[r].stopped = ledger[r].stopped
    BY <1>1, <1>2 DEF Ledger
  <1>4. HandlerInv(r)'
    BY <1>1 DEF RequestInv, HandlerInv
  <1>5. WritesInv(r)'
    BY <1>1, <1>3, WritesKeep DEF RequestInv
  <1>6. LedgerInv(r)' /\ ReplyInv(r)'
    BY <1>1, <1>3 DEF RequestInv, LedgerInv, ReplyInv, Rejected, Stopped
  <1>7. Keeps(r) /\ Apart(r)
    BY <1>1, <1>2 DEF Keeps, Apart, MayWrite, Live, Rejected, Row
  <1>. QED BY <1>1, <1>4, <1>5, <1>6, <1>7 DEF RequestInv

\* All steps but those of the dialog leave it alone.
ServerNext == Execute \/ Crash \/ \E r \in Request : Handle(r) \/ Forget(r)

LEMMA ServerInv ==
    ASSUME UploadInv, ServerNext
    PROVE  /\ UNCHANGED client /\ rows \subseteq rows'
           /\ \A r \in Request : RequestInv(r)' /\ Keeps(r)
  <1>1. ASSUME NEW r \in Request, Apart(r) /\ RequestInv(r)' /\ Keeps(r)
        PROVE  \A q \in Request : RequestInv(q)' /\ Keeps(q)
    BY <1>1, ApartKeeps DEF UploadInv
  <1>2. CASE Execute
    BY <1>1, <1>2, ExecuteInv
  <1>3. CASE Crash
    <2>1. \A r \in Request : UNCHANGED client /\ rows' = rows /\ RequestInv(r)' /\ Keeps(r)
      BY <1>3, CrashInv
    <2>. QED BY <1>3, <2>1 DEF Crash, salesforce
  <1>4. ASSUME NEW r \in Request, Handle(r) \/ Forget(r)
        PROVE  UNCHANGED client /\ rows' = rows /\ \A q \in Request : RequestInv(q)' /\ Keeps(q)
    BY <1>1, <1>4, HandleInv, ForgetInv
  <1>. QED BY <1>2, <1>3, <1>4 DEF ServerNext

-----------------------------------------------------------------------------
(* The dialog *)

LEMMA RejectedUnwritten ==
    ASSUME NEW r \in Request, RequestInv(r), Rejected(r)
    PROVE  \A d \in Draft : ~MayWrite(r, d)
  BY DEF RequestInv, ReplyInv, WritesInv, Written, Row, OnWire, MayWrite, Live, Rejected

LEMMA UnsentUnwritten ==
    ASSUME NEW r \in Request, RequestInv(r), h[r].pc = "unsent"
    PROVE  h[r] = Unsent /\ \A d \in Draft : ~MayWrite(r, d)
  BY DEF RequestInv, HandlerInv, WritesInv, Written, Row, OnWire, MayWrite, Live, Unsent

LEMMA RetryableUnwritten ==
    ASSUME NEW r \in Request, RequestInv(r), NEW d \in Draft, d \in Retryable(r)
    PROVE  ~MayWrite(r, d) /\ ledger[r].logged /\ d \in h[r].drafts
  <1>1. Stopped(r) /\ ledger[r].logged /\ d \in h[r].drafts /\ (d \notin ledger[r].started \/ d \in ledger[r].failed)
    BY DEF Retryable
  <1>2. ~Live(r)
    BY <1>1 DEF RequestInv, LedgerInv, Live
  <1>3. ~Written(r, d)
    BY <1>1 DEF RequestInv, LedgerInv, WritesInv
  <1>. QED BY <1>1, <1>2, <1>3 DEF MayWrite, Written, Row, OnWire

LEMMA QuietClient ==
    ASSUME UploadInv, UNCHANGED client, rows \subseteq rows', \A r \in Request : Keeps(r)
    PROVE  ClientInv'
  <1>0. UNCHANGED <<phase, cur, sel, attempt, journal, linked, left>>
    BY DEF client
  <1>1. \A r \in Request :
            /\ h'[r].attempt = h[r].attempt /\ h'[r].drafts = h[r].drafts
            /\ h'[r].pc = "unsent" <=> h[r].pc = "unsent"
            /\ Rejected(r) => Rejected(r)'
            /\ \A d \in Draft : MayWrite(r, d)' => MayWrite(r, d)
    BY DEF Keeps
  <1>2. AttemptsInv'
    BY <1>1 DEF UploadInv, ClientInv, AttemptsInv, OneCanvasOnly
  <1>3. DraftsInv'
    BY <1>0, <1>1 DEF UploadInv, ClientInv, DraftsInv
  <1>4. \A r \in Request : OnlyOne(r) => OnlyOne(r)'
    BY <1>1 DEF OnlyOne
  <1>5. JournalInv'
    BY <1>0, <1>1, <1>4 DEF UploadInv, ClientInv, JournalInv
  <1>6. DialogInv'
    <2>1. \A r \in Request : h[r].drafts \subseteq Draft
      BY DEF UploadInv, TypeOK, Handler
    <2>. QED BY <1>0, <1>1, <1>4, <2>1 DEF UploadInv, ClientInv, DialogInv, OneCanvasOnly
  <1>7. LinkedIsOwn'
    BY <1>0 DEF UploadInv, ClientInv, LinkedIsOwn
  <1>. QED BY <1>2, <1>3, <1>5, <1>6, <1>7 DEF ClientInv

\* A step of the dialog that sends nothing.
LEMMA ServerKept ==
    ASSUME UploadInv, UNCHANGED <<rows, wire, answers, ledger, h, reply>>
    PROVE  /\ \A r \in Request : RequestInv(r)'
           /\ AttemptsInv'
           /\ \A r, d : MayWrite(r, d)' <=> MayWrite(r, d)
           /\ \A r : (OnlyOne(r)' <=> OnlyOne(r)) /\ (Rejected(r)' <=> Rejected(r))
  <1>1. \A r \in Request : RequestInv(r)'
    BY DEF UploadInv, RequestInv, HandlerInv, WritesInv, LedgerInv, ReplyInv, Written, Row, OnWire,
           Rejected, Stopped
  <1>2. AttemptsInv'
    BY DEF UploadInv, ClientInv, AttemptsInv, Rejected
  <1>3. \A r, d : MayWrite(r, d)' <=> MayWrite(r, d)
    BY DEF MayWrite, Live
  <1>4. \A r : (OnlyOne(r)' <=> OnlyOne(r)) /\ (Rejected(r)' <=> Rejected(r))
    BY DEF OnlyOne, Rejected
  <1>. QED BY <1>1, <1>2, <1>3, <1>4

\* The dialog only moves on.
LEMMA MovesOn ==
    ASSUME UploadInv, UNCHANGED <<rows, wire, answers, ledger, h, reply, journal, linked>>,
           \/ phase' = "recovering" /\ OneCanvasOnly(sel')
           \/ phase' = "idle" /\ attempt' = None /\ OneCanvasOnly(sel')
    PROVE  ClientInv'
  <1>1. DraftsInv'
    BY ServerKept DEF UploadInv, ClientInv, DraftsInv
  <1>2. JournalInv'
    BY ServerKept DEF UploadInv, ClientInv, JournalInv
  <1>3. DialogInv'
    BY DEF DialogInv, OneCanvasOnly
  <1>4. LinkedIsOwn'
    BY DEF UploadInv, ClientInv, LinkedIsOwn
  <1>. QED BY <1>1, <1>2, <1>3, <1>4, ServerKept DEF ClientInv

LEMMA RejectedInv ==
    ASSUME UploadInv, OnRejected
    PROVE  ClientInv'
  <1>1. /\ UNCHANGED <<rows, wire, answers, ledger, h, reply, sel, linked>>
        /\ phase = "posted" /\ Rejected(cur)
    BY DEF OnRejected, Got, Rejected, salesforce, server
  <1>2. cur \in Request /\ h[cur].attempt = attempt /\ OnlyOne(cur) /\ attempt # None
    BY <1>1, NoneAssumption DEF UploadInv, ClientInv, DialogInv, RequestInv, HandlerInv
  <1>3. h[cur].mode = "graph" /\ h[cur].drafts \subseteq Draft
    BY <1>2 DEF UploadInv, RequestInv, HandlerInv, TypeOK, Handler
  <1>10. phase' = "idle" /\ attempt' \in {attempt, None}
    BY <1>3 DEF OnRejected, GraphSent
  <1>4. journal' = [d \in Draft |-> IF d \in h[cur].drafts THEN None ELSE journal[d]]
    BY <1>3 DEF OnRejected, GraphSent
  <1>5. \A d \in h[cur].drafts : \A r \in Request : ~MayWrite(r, d)
    BY <1>1, <1>2, <1>3, RejectedUnwritten DEF UploadInv, ClientInv, DialogInv
  <1>6. DraftsInv'
    BY <1>1, <1>4, <1>5, <1>10, ServerKept DEF UploadInv, ClientInv, DraftsInv
  <1>7. JournalInv'
    BY <1>1, <1>4, <1>10, ServerKept DEF UploadInv, ClientInv, JournalInv
  <1>8. DialogInv'
    <2>1. \A e \in Draft : journal'[e] # attempt
      BY <1>1, <1>2, <1>4 DEF UploadInv, ClientInv, DialogInv
    <2>2. \A q \in Request : h[q].attempt = attempt => Rejected(q)
      BY <1>1, <1>2 DEF OnlyOne
    <2>. QED BY <1>1, <1>10, <2>1, <2>2, ServerKept DEF UploadInv, ClientInv, DialogInv, OneCanvasOnly
  <1>9. LinkedIsOwn'
    BY <1>1 DEF UploadInv, ClientInv, LinkedIsOwn
  <1>. QED BY <1>1, <1>6, <1>7, <1>8, <1>9, <1>10, ServerKept DEF ClientInv

\* A result that names a record of the selection means that record.
LEMMA NamedIsSame ==
    ASSUME GraphOnly, UploadInv, NEW d \in Draft, d \in sel, NEW e \in Draft, Named(d, e)
    PROVE  e = d
  <1>1. PICK x \in sel : CanvasOf[e] = CanvasOf[x]
    BY DEF Named
  <1>2. CanvasOf[x] = CanvasOf[d]
    BY DEF UploadInv, ClientInv, DialogInv, OneCanvasOnly
  <1>. QED BY <1>1, <1>2 DEF Named, GraphOnly

LEMMA ResultsInv ==
    ASSUME GraphOnly, UploadInv, OnResults
    PROVE  ClientInv'
  <1>1. /\ UNCHANGED <<rows, wire, answers, ledger, h, reply, sel>>
        /\ phase = "posted" /\ reply[cur].kind = "results" /\ phase' = "idle" /\ attempt' = None
    BY DEF OnResults, Got, salesforce, server
  <1>2. /\ cur \in Request /\ RequestInv(cur) /\ h[cur] \in Handler
        /\ h[cur].drafts \subseteq sel
    BY <1>1 DEF UploadInv, ClientInv, DialogInv, TypeOK
  <1>3. /\ reply[cur].made \subseteq {<<cur, d>> : d \in h[cur].confirmed}
        /\ reply[cur].failed \subseteq h[cur].failed
        /\ h[cur].pc = "done"
    BY <1>1, <1>2 DEF RequestInv, ReplyInv
  <1>4. h[cur].confirmed \cup h[cur].failed \subseteq h[cur].drafts /\ h[cur].drafts \subseteq Draft
    BY <1>2 DEF RequestInv, HandlerInv, Handler
  <1>5. \A e \in Draft : \A p \in reply[cur].made :
            Named(p[2], e) => p = <<cur, e>> /\ e \in h[cur].confirmed
    <2>1. TAKE e \in Draft
    <2>2. TAKE p \in reply[cur].made
    <2>3. HAVE Named(p[2], e)
    <2>4. PICK d \in h[cur].confirmed : p = <<cur, d>>
      BY <1>3
    <2>5. d = e
      BY <1>2, <1>4, <2>3, <2>4, NamedIsSame
    <2>. QED BY <2>4, <2>5
  <1>6. \A e \in Draft : \A d \in reply[cur].failed : Named(d, e) => e \in h[cur].failed
    BY <1>2, <1>3, <1>4, NamedIsSame
  <1>7. \A e \in Draft :
            \/ linked'[e] = linked[e]
            \/ linked'[e] = cur /\ e \in h[cur].confirmed
    <2>1. ASSUME NEW e \in Draft, NEW p \in reply[cur].made, Named(p[2], e)
          PROVE  linked'[e] = cur /\ e \in h[cur].confirmed
      <3>1. (CHOOSE x \in reply[cur].made : Named(x[2], e)) = <<cur, e>>
        BY <1>5, <2>1
      <3>2. linked'[e] = (CHOOSE x \in reply[cur].made : Named(x[2], e))[1]
        BY <2>1 DEF OnResults
      <3>. QED BY <1>5, <2>1, <3>1, <3>2
    <2>. QED BY <2>1 DEF OnResults
  <1>8. \A e \in Draft :
            \/ journal'[e] = journal[e]
            \/ journal'[e] = None /\ linked'[e] = cur
            \/ journal'[e] = None /\ e \in h[cur].failed
    <2>1. ASSUME NEW e \in Draft, NEW p \in reply[cur].made, Named(p[2], e)
          PROVE  linked'[e] = cur
      <3>1. (CHOOSE x \in reply[cur].made : Named(x[2], e)) = <<cur, e>>
        BY <1>5, <2>1
      <3>. QED BY <2>1, <3>1 DEF OnResults
    <2>. QED BY <1>6, <2>1 DEF OnResults
  <1>9. \A d \in h[cur].failed : \A r \in Request : ~MayWrite(r, d)
    <2>1. \A d \in h[cur].failed : ~MayWrite(cur, d)
      BY <1>2, <1>3 DEF RequestInv, WritesInv, Written, Row, OnWire, MayWrite, Live
    <2>. QED BY <1>1, <1>2, <1>4, <2>1 DEF UploadInv, ClientInv, DialogInv
  <1>10. DraftsInv'
    BY <1>1, <1>2, <1>7, <1>8, <1>9, NoneAssumption, ServerKept DEF UploadInv, ClientInv, DraftsInv
  <1>11. JournalInv'
    BY <1>1, <1>8, ServerKept DEF UploadInv, ClientInv, JournalInv
  <1>12. DialogInv'
    BY <1>1 DEF UploadInv, ClientInv, DialogInv, OneCanvasOnly
  <1>13. LinkedIsOwn'
    BY <1>1, <1>2, <1>7 DEF UploadInv, ClientInv, LinkedIsOwn, RequestInv, WritesInv, Row
  <1>. QED BY <1>1, <1>10, <1>11, <1>12, <1>13, ServerKept DEF ClientInv

\* What the ledger of the attempt tells of a record of the selection, it tells of
\* the draft whose journal names the attempt.
LEMMA RecoveredIsSame ==
    ASSUME GraphOnly, UploadInv, NEW e \in Draft, journal[e] # None,
           NEW l \in FindByAttemptId(journal[e]),
           NEW d \in ledger[l].confirmed \cup Retryable(l), TempOf[d] = TempOf[e]
    PROVE  d = e /\ OnlyOne(l) /\ l \in Request /\ h[l].attempt = journal[e]
  <1>1. l \in Request /\ h[l].attempt = journal[e] /\ RequestInv(l) /\ h[l] \in Handler
    BY DEF FindByAttemptId, UploadInv, TypeOK
  <1>2. d \in h[l].drafts /\ ledger[l].logged /\ d \in Draft
    <2>1. CASE d \in ledger[l].confirmed
      BY <1>1, <2>1 DEF RequestInv, LedgerInv, HandlerInv, Handler
    <2>2. CASE d \in Retryable(l)
      BY <1>1, <2>2 DEF Retryable, Handler
    <2>. QED BY <2>1, <2>2
  <1>3. ~Rejected(l)
    BY <1>1, <1>2 DEF RequestInv, ReplyInv
  <1>4. PICK q \in Request : h[q].attempt = journal[e] /\ e \in h[q].drafts /\ OnlyOne(q)
    BY DEF UploadInv, ClientInv, JournalInv
  <1>5. l = q
    BY <1>1, <1>3, <1>4 DEF OnlyOne
  <1>6. CanvasOf[d] = CanvasOf[e]
    BY <1>1, <1>2, <1>4, <1>5 DEF UploadInv, ClientInv, AttemptsInv, OneCanvasOnly
  <1>. QED BY <1>1, <1>2, <1>4, <1>5, <1>6 DEF GraphOnly

LEMMA RecoverInv ==
    ASSUME GraphOnly, UploadInv, Recover
    PROVE  ClientInv'
  <1>1. UNCHANGED <<rows, wire, answers, ledger, h, reply, sel, phase>> /\ phase = "recovering"
    BY DEF Recover, salesforce, server
  <1>2. CASE UNCHANGED <<journal, linked>>
    BY <1>1, <1>2, MovesOn DEF UploadInv, ClientInv, DialogInv
  <1>3. ASSUME NEW a \in left, NEW l \in FindByAttemptId(a),
               LET Group(D) == {e \in Journaled(sel) : journal[e] = a /\ \E d \in D : TempOf[d] = TempOf[e]}
                   restored == Group(ledger[l].confirmed)
                   safe == restored \cup Group(Retryable(l))
               IN  /\ linked' = [d \in Draft |-> IF d \in restored THEN l ELSE linked[d]]
                   /\ journal' = [d \in Draft |-> IF d \in safe THEN None ELSE journal[d]]
        PROVE  ClientInv'
    <2>. DEFINE Group(D) == {e \in Journaled(sel) : journal[e] = a /\ \E d \in D : TempOf[d] = TempOf[e]}
    <2>1. /\ linked' = [d \in Draft |-> IF d \in Group(ledger[l].confirmed) THEN l ELSE linked[d]]
          /\ journal' = [d \in Draft |-> IF d \in Group(ledger[l].confirmed) \cup Group(Retryable(l))
                                         THEN None ELSE journal[d]]
      BY <1>3
    <2>2. l \in Request /\ RequestInv(l) /\ h[l].attempt = a
      BY DEF FindByAttemptId, UploadInv
    <2>3. \A e \in Group(ledger[l].confirmed) : e \in ledger[l].confirmed
      BY RecoveredIsSame DEF Journaled, UploadInv, TypeOK
    <2>4. \A e \in Group(Retryable(l)) : e \in Retryable(l) /\ OnlyOne(l) /\ e \in Draft /\ journal[e] = a
      BY RecoveredIsSame DEF Journaled, UploadInv, TypeOK
    <2>. HIDE DEF Group
    <2>5. \A e \in Group(Retryable(l)) : \A r \in Request :
              MayWrite(r, e) => linked[e] # None
      <3>1. TAKE e \in Group(Retryable(l))
      <3>2. TAKE r \in Request
      <3>3. HAVE MayWrite(r, e)
      <3>4. SUFFICES ASSUME journal[e] = h[r].attempt PROVE FALSE
        BY <2>4, <3>3 DEF UploadInv, ClientInv, DraftsInv
      <3>5. r # l
        BY <2>2, <2>4, <3>3, RetryableUnwritten
      <3>6. Rejected(r)
        BY <2>2, <2>4, <3>4, <3>5 DEF OnlyOne
      <3>. QED BY <2>4, <3>3, <3>6, RejectedUnwritten DEF UploadInv
    <2>6. DraftsInv'
      <3>1. \A d \in Draft : \A r \in Request :
                MayWrite(r, d) => linked'[d] # None \/ journal'[d] = h[r].attempt
        BY <2>1, <2>2, <2>5, NoneAssumption DEF UploadInv, ClientInv, DraftsInv
      <3>. QED BY <1>1, <3>1, ServerKept DEF UploadInv, ClientInv, DraftsInv
    <2>7. JournalInv'
      <3>1. \A e \in Draft : journal'[e] # None => journal'[e] = journal[e]
        BY <2>1
      <3>. QED BY <1>1, <3>1, ServerKept DEF UploadInv, ClientInv, JournalInv
    <2>8. DialogInv'
      BY <1>1 DEF UploadInv, ClientInv, DialogInv, OneCanvasOnly
    <2>9. LinkedIsOwn'
      <3>1. \A e \in ledger[l].confirmed : <<l, e>> \in rows
        BY <2>2 DEF RequestInv, LedgerInv, WritesInv, Row
      <3>. QED BY <1>1, <2>1, <2>3, <3>1 DEF UploadInv, ClientInv, LinkedIsOwn
    <2>. QED BY <1>1, <2>6, <2>7, <2>8, <2>9, ServerKept DEF ClientInv
  <1>. QED BY <1>2, <1>3 DEF Recover

\* The journal of new attempts is empty.
LEMMA PostInv ==
    ASSUME GraphOnly, UploadInv, phase = "idle", NEW S \in SUBSET Draft, OneCanvasOnly(S), sel' = S,
           Journaled(S) = {}, NEW r \in Request,
           NEW a \in IF attempt # None THEN {attempt} ELSE Attempt \ Drawn,
           Post(r, "graph", a, Unlinked(S)),
           journal' = [d \in Draft |-> IF d \in Unlinked(S) THEN a ELSE journal[d]],
           UNCHANGED <<rows, wire, answers, ledger, reply, linked>>
    PROVE  (\A q \in Request : RequestInv(q)') /\ ClientInv'
  <1>. DEFINE D == Unlinked(S)
  <1>1. D \subseteq S /\ D \subseteq Draft /\ \A d \in D : linked[d] = None /\ journal[d] = None
    BY DEF Unlinked, Journaled
  <1>. HIDE DEF D
  <1>2. /\ h'[r] = [Unsent EXCEPT !.pc = "new", !.mode = "graph", !.attempt = a, !.drafts = D, !.todo = D]
        /\ \A q \in Request \ {r} : h'[q] = h[q]
        /\ phase' = "posted" /\ cur' = r /\ attempt' = a
        /\ h[r].pc = "unsent"
    BY DEF Post, Fresh, UploadInv, TypeOK, D
  <1>3. /\ h'[r].pc = "new" /\ h'[r].mode = "graph" /\ h'[r].attempt = a
        /\ h'[r].drafts = D /\ h'[r].todo = D
        /\ h'[r].sent = {} /\ h'[r].confirmed = {} /\ h'[r].failed = {}
    BY <1>2 DEF Unsent
  <1>4. RequestInv(r) /\ h[r] = Unsent /\ \A d \in Draft : ~MayWrite(r, d)
    BY <1>2, UnsentUnwritten DEF UploadInv
  <1>5. ledger[r] = NoLedger /\ ~Rejected(r) /\ reply[r].kind = "none" /\ \A d \in Draft : ~Written(r, d)
    BY <1>2, <1>4 DEF RequestInv, HandlerInv, ReplyInv, Rejected, MayWrite, Written, Row, OnWire
  <1>6. a \in Attempt /\ a # None
    BY NoneAssumption DEF UploadInv, TypeOK
  <1>7. \A q \in Request \ {r} : h[q].attempt = a => Rejected(q)
    BY <1>6 DEF UploadInv, ClientInv, DialogInv, Drawn
  <1>8. \A e \in Draft : journal[e] # a
    <2>1. CASE attempt # None
      BY <2>1 DEF UploadInv, ClientInv, DialogInv
    <2>2. CASE attempt = None
      BY <1>6, <2>2 DEF UploadInv, ClientInv, JournalInv, Drawn
    <2>. QED BY <2>1, <2>2
  <1>9. \A d \in D : \A q \in Request : ~MayWrite(q, d)
    <2>1. TAKE d \in D
    <2>2. TAKE q \in Request
    <2>3. SUFFICES ASSUME MayWrite(q, d) PROVE FALSE
      OBVIOUS
    <2>4. h[q].attempt = None
      BY <1>1, <2>3 DEF UploadInv, ClientInv, DraftsInv
    <2>5. h[q].pc = "unsent"
      BY <2>4, NoneAssumption DEF UploadInv, RequestInv, HandlerInv
    <2>. QED BY <1>1, <2>3, <2>5, UnsentUnwritten DEF UploadInv
  <1>10. \A q \in Request : Rejected(q)' <=> Rejected(q)
    BY DEF Rejected
  <1>11. \A q \in Request \ {r} : \A d : MayWrite(q, d)' <=> MayWrite(q, d)
    BY <1>2 DEF MayWrite, Live
  <1>12. \A d \in Draft : MayWrite(r, d)' <=> d \in D
    BY <1>3, <1>4, <1>5 DEF MayWrite, Live, Written, Row, OnWire
  <1>13. \A q \in Request : RequestInv(q)'
    <2>1. HandlerInv(r)'
      BY <1>3, <1>5, <1>6 DEF HandlerInv
    <2>2. WritesInv(r)'
      BY <1>3, <1>4, <1>5 DEF RequestInv, WritesInv, Unsent, Written, Row, OnWire
    <2>3. LedgerInv(r)' /\ ReplyInv(r)'
      BY <1>3, <1>5 DEF LedgerInv, ReplyInv, Rejected, Stopped, NoLedger
    <2>4. Apart(r)
      BY <1>2 DEF Apart, Row
    <2>. QED BY <2>1, <2>2, <2>3, <2>4, ApartKeeps DEF UploadInv, RequestInv
  <1>14. AttemptsInv'
    <2>1. OneCanvasOnly(D)
      BY <1>1 DEF OneCanvasOnly
    <2>2. \A q \in Request : OneCanvasOnly(h'[q].drafts)
      BY <1>2, <1>3, <2>1 DEF UploadInv, ClientInv, AttemptsInv
    <2>3. \A p \in Request : \A q \in Request \ {p} :
              h'[q].attempt = h'[p].attempt /\ h'[p].attempt # None => Rejected(q) \/ Rejected(p)
      <3>1. TAKE p \in Request
      <3>2. TAKE q \in Request \ {p}
      <3>3. HAVE h'[q].attempt = h'[p].attempt /\ h'[p].attempt # None
      <3>4. CASE p = r
        BY <1>2, <1>3, <1>7, <3>3, <3>4
      <3>5. CASE q = r
        BY <1>2, <1>3, <1>7, <3>3, <3>5
      <3>6. CASE p # r /\ q # r
        BY <1>2, <3>3, <3>6 DEF UploadInv, ClientInv, AttemptsInv
      <3>. QED BY <3>4, <3>5, <3>6
    <2>. QED BY <1>10, <2>2, <2>3 DEF AttemptsInv, OneCanvasOnly
  <1>15. DraftsInv'
    <2>1. \A d \in Draft : \A p, q \in Request : MayWrite(p, d)' /\ MayWrite(q, d)' => p = q
      BY <1>9, <1>11, <1>12 DEF UploadInv, ClientInv, DraftsInv
    <2>2. \A d \in Draft : \A q \in Request :
              MayWrite(q, d)' => linked[d] # None \/ journal'[d] = h'[q].attempt
      <3>1. TAKE d \in Draft
      <3>2. TAKE q \in Request
      <3>3. HAVE MayWrite(q, d)'
      <3>4. CASE q = r
        BY <1>3, <1>12, <3>3, <3>4 DEF D
      <3>5. CASE q # r
        <4>1. MayWrite(q, d) /\ d \notin D
          BY <1>9, <1>11, <3>3, <3>5
        <4>. QED BY <1>2, <3>5, <4>1 DEF UploadInv, ClientInv, DraftsInv, D
      <3>. QED BY <3>4, <3>5
    <2>. QED BY <2>1, <2>2 DEF DraftsInv
  <1>16. OnlyOne(r)'
    BY <1>2, <1>3, <1>7, <1>10 DEF OnlyOne
  <1>17. JournalInv'
    <2>. SUFFICES ASSUME NEW e \in Draft, journal'[e] # None
                  PROVE  \E q \in Request : h'[q].attempt = journal'[e] /\ e \in h'[q].drafts /\ OnlyOne(q)'
      BY DEF JournalInv
    <2>3. CASE e \in D
      BY <1>3, <1>16, <2>3 DEF D
    <2>4. CASE e \notin D
      <3>1. journal'[e] = journal[e]
        BY <2>4 DEF D
      <3>2. PICK q \in Request : h[q].attempt = journal[e] /\ e \in h[q].drafts /\ OnlyOne(q)
        BY <3>1 DEF UploadInv, ClientInv, JournalInv
      <3>3. q # r
        BY <1>4, <3>2 DEF Unsent
      <3>4. OnlyOne(q)'
        BY <1>2, <1>3, <1>8, <1>10, <3>2, <3>3, ZenonT(30) DEF OnlyOne
      <3>. QED BY <1>2, <3>1, <3>2, <3>3, <3>4
    <2>. QED BY <2>3, <2>4
  <1>18. DialogInv'
    <2>1. \A e \in Draft : journal'[e] = a => e \in D
      BY <1>8 DEF D
    <2>. QED BY <1>1, <1>2, <1>3, <1>9, <1>11, <1>16, <2>1 DEF DialogInv, OneCanvasOnly
  <1>19. LinkedIsOwn'
    BY DEF UploadInv, ClientInv, LinkedIsOwn
  <1>. QED BY <1>13, <1>14, <1>15, <1>17, <1>18, <1>19 DEF ClientInv

LEMMA ConfirmInv ==
    ASSUME GraphOnly, UploadInv, ConfirmUpload
    PROVE  (\A q \in Request : RequestInv(q)') /\ ClientInv'
  <1>1. PICK S \in (SUBSET Draft) \ {{}} :
            /\ \A d, e \in S : CanvasOf[d] = CanvasOf[e]
            /\ sel' = S
            /\ \/ /\ phase' = "recovering"
                  /\ UNCHANGED <<h, journal>>
               \/ /\ Journaled(S) = {}
                  /\ \E r \in Request, mode \in Routes \cap {"graph", "bulk"},
                        a \in IF attempt # None THEN {attempt} ELSE Attempt \ Drawn :
                        /\ Post(r, mode, a, Unlinked(S))
                        /\ journal' = IF mode = "graph"
                                      THEN [d \in Draft |-> IF d \in Unlinked(S) THEN a ELSE journal[d]]
                                      ELSE journal
    BY DEF ConfirmUpload
  <1>2. phase = "idle" /\ UNCHANGED <<rows, wire, answers, ledger, reply, linked>> /\ OneCanvasOnly(S)
    BY <1>1 DEF ConfirmUpload, salesforce, OneCanvasOnly
  <1>3. CASE phase' = "recovering" /\ UNCHANGED <<h, journal>>
    BY <1>1, <1>2, <1>3, ServerKept, MovesOn
  <1>4. ASSUME Journaled(S) = {}, NEW r \in Request, NEW mode \in Routes \cap {"graph", "bulk"},
               NEW a \in IF attempt # None THEN {attempt} ELSE Attempt \ Drawn,
               Post(r, mode, a, Unlinked(S)),
               journal' = IF mode = "graph"
                          THEN [d \in Draft |-> IF d \in Unlinked(S) THEN a ELSE journal[d]]
                          ELSE journal
        PROVE  (\A q \in Request : RequestInv(q)') /\ ClientInv'
    <2>1. mode = "graph"
      BY DEF GraphOnly
    <2>. QED BY <1>1, <1>2, <1>4, <2>1, PostInv
  <1>. QED BY <1>1, <1>3, <1>4

LEMMA DialogStepInv ==
    ASSUME GraphOnly, UploadInv, Dialog \/ Reload
    PROVE  (\A q \in Request : RequestInv(q)') /\ ClientInv'
  <1>0. /\ OneCanvasOnly(sel) /\ phase # "reconciling"
        /\ phase = "posted" => cur \in Request /\ h[cur].mode = "graph"
    BY DEF UploadInv, ClientInv, DialogInv, RequestInv, HandlerInv
  <1>1. CASE LoseReply
    <2>1. UNCHANGED <<rows, wire, answers, ledger, h, reply, journal, linked, sel>> /\ phase' = "recovering"
      BY <1>0, <1>1 DEF LoseReply, StartRecovery, GraphSent, salesforce
    <2>. QED BY <1>0, <2>1, ServerKept, MovesOn
  <1>2. CASE OnRejected
    BY <1>2, RejectedInv, ServerKept DEF OnRejected, salesforce, server
  <1>3. CASE OnInterrupted
    <2>1. h[cur].mode = "graph" /\ UNCHANGED <<salesforce, server, sel, journal, linked>>
      BY <1>0, <1>3 DEF OnInterrupted
    <2>2. phase' = "recovering"
      BY <1>3, <2>1 DEF OnInterrupted, StartRecovery, GraphSent
    <2>3. UNCHANGED <<rows, wire, answers, ledger, h, reply, journal, linked, sel>>
      BY <2>1 DEF salesforce, server
    <2>. QED BY <1>0, <2>2, <2>3, ServerKept, MovesOn
  <1>4. CASE OnResults
    BY <1>4, ResultsInv, ServerKept DEF OnResults, salesforce, server
  <1>5. ~FallBack
    BY DEF FallBack, GraphOnly
  <1>6. CASE Recover
    BY <1>6, RecoverInv, ServerKept DEF Recover, salesforce, server
  <1>7. CASE EndRecovery
    <2>1. /\ UNCHANGED <<rows, wire, answers, ledger, h, reply, journal, linked, sel>>
          /\ phase' = "idle" /\ attempt' = None
      BY <1>7 DEF EndRecovery, GraphOnly, salesforce, server
    <2>. QED BY <1>0, <2>1, ServerKept, MovesOn
  <1>8. ~Reconcile
    BY <1>0 DEF Reconcile
  <1>9. CASE Reload
    <2>1. /\ UNCHANGED <<rows, wire, answers, ledger, h, reply, journal, linked>>
          /\ phase' = "idle" /\ attempt' = None /\ sel' = {}
      BY <1>9 DEF Reload, salesforce
    <2>2. OneCanvasOnly(sel')
      BY <2>1 DEF OneCanvasOnly
    <2>. QED BY <2>1, <2>2, ServerKept, MovesOn
  <1>. QED BY <1>1, <1>2, <1>3, <1>4, <1>5, <1>6, <1>7, <1>8, <1>9 DEF Dialog

-----------------------------------------------------------------------------
(* The invariant *)

LEMMA InitInv == GraphOnly /\ Init => UploadInv
  <1>. SUFFICES ASSUME GraphOnly, Init PROVE UploadInv
    OBVIOUS
  <1>1. TypeOK
    BY InitType DEF TypeInv
  <1>2. /\ \A r \in Request : h[r] = Unsent /\ ledger[r] = NoLedger /\ reply[r] = NoReply
        /\ rows = {} /\ wire = {} /\ answers = {}
    BY DEF Init
  <1>3. \A r \in Request : HandlerInv(r)
    BY <1>2 DEF HandlerInv, Unsent
  <1>4. \A r \in Request : WritesInv(r)
    BY <1>2 DEF WritesInv, Written, Row, OnWire, Unsent
  <1>5. \A r \in Request : LedgerInv(r)
    BY <1>2 DEF LedgerInv, Stopped, NoLedger
  <1>6. \A r \in Request : ReplyInv(r)
    BY <1>2 DEF ReplyInv, Rejected, NoReply
  <1>7. AttemptsInv
    BY <1>2 DEF AttemptsInv, OneCanvasOnly, Unsent
  <1>8. DraftsInv
    BY <1>2 DEF DraftsInv, MayWrite, Live, Unsent
  <1>9. JournalInv /\ DialogInv /\ LinkedIsOwn
    BY DEF Init, JournalInv, DialogInv, LinkedIsOwn, OneCanvasOnly
  <1>. QED BY <1>1, <1>3, <1>4, <1>5, <1>6, <1>7, <1>8, <1>9 DEF UploadInv, RequestInv, ClientInv

LEMMA NextInv == GraphOnly /\ TypeInv /\ UploadInv /\ [Next]_vars => UploadInv'
  <1>. SUFFICES ASSUME GraphOnly, TypeInv, UploadInv, [Next]_vars PROVE UploadInv'
    OBVIOUS
  <1>1. TypeOK'
    BY NextType DEF TypeInv
  <1>2. CASE ServerNext
    BY <1>1, <1>2, ServerInv, QuietClient DEF UploadInv
  <1>3. CASE ConfirmUpload
    BY <1>1, <1>3, ConfirmInv DEF UploadInv
  <1>4. CASE Dialog \/ Reload
    BY <1>1, <1>4, DialogStepInv DEF UploadInv
  <1>5. CASE UNCHANGED vars
    <2>1. UNCHANGED client /\ UNCHANGED <<rows, wire, answers, ledger, h, reply>>
      BY <1>5 DEF vars, salesforce, server
    <2>2. \A r \in Request : Keeps(r)
      BY <2>1 DEF Keeps, MayWrite, Live, Rejected
    <2>. QED BY <1>1, <2>1, <2>2, ServerKept, QuietClient DEF UploadInv
  <1>. QED BY <1>2, <1>3, <1>4, <1>5 DEF Next, ServerNext

LEMMA Invariance == GraphOnly => (Spec => [](TypeInv /\ UploadInv))
  <1>. SUFFICES ASSUME GraphOnly PROVE Spec => [](TypeInv /\ UploadInv)
    OBVIOUS
  <1>. QED BY InitType, NextType, InitInv, NextInv, PTL DEF Spec

-----------------------------------------------------------------------------
(* What it gives *)

LEMMA NotFreeWhenWritten ==
    ASSUME UploadInv, NEW d \in Draft, NEW r \in Request, MayWrite(r, d)
    PROVE  linked[d] # None \/ journal[d] # None
  <1>1. h[r].attempt # None
    <2>1. h[r].pc # "unsent"
      BY UnsentUnwritten DEF UploadInv
    <2>. QED BY <2>1, NoneAssumption DEF UploadInv, RequestInv, HandlerInv
  <1>. QED BY <1>1 DEF UploadInv, ClientInv, DraftsInv

LEMMA ClosedUnwritten ==
    ASSUME UploadInv, NEW r \in Request
    PROVE  /\ \A d \in ledger[r].failed : ~MayWrite(r, d)
           /\ ledger[r].status = "failed" => \A d \in Draft : ~MayWrite(r, d)
  <1>1. RequestInv(r) /\ h[r] \in Handler /\ ledger[r].failed \subseteq Draft
    BY DEF UploadInv, TypeOK, Ledger
  <1>2. \A d \in h[r].failed : ~MayWrite(r, d)
    BY <1>1 DEF RequestInv, HandlerInv, WritesInv, Written, Row, OnWire, MayWrite
  <1>3. ledger[r].status = "failed" => \A d \in Draft : ~MayWrite(r, d)
    BY <1>1 DEF RequestInv, LedgerInv, Stopped, Written, Row, OnWire, MayWrite, Live
  <1>. QED BY <1>1, <1>2, <1>3 DEF RequestInv, LedgerInv

\* However requests are lost, retried or restarted, no draft becomes two records.
THEOREM RecordsNeverDoubled == GraphOnly => (Spec => []OneRowPerDraft)
  <1>. SUFFICES ASSUME GraphOnly PROVE Spec => []OneRowPerDraft
    OBVIOUS
  <1>1. UploadInv => OneRowPerDraft
    BY DEF UploadInv, ClientInv, DraftsInv, OneRowPerDraft, MayWrite
  <1>. QED BY <1>1, Invariance, PTL

\* A draft the dialog may send anew was not written and will not be.
THEOREM FreeDraftsStayUnwritten == GraphOnly => (Spec => []FreeDraftIsUnwritten)
  <1>. SUFFICES ASSUME GraphOnly PROVE Spec => []FreeDraftIsUnwritten
    OBVIOUS
  <1>1. UploadInv => FreeDraftIsUnwritten
    BY NotFreeWhenWritten DEF FreeDraftIsUnwritten
  <1>. QED BY <1>1, Invariance, PTL

\* The canvas ties a draft to a record that was made of it, also when it learns of
\* the record from a ledger of another request or canvas.
THEOREM LinkedAlwaysOwn == GraphOnly => (Spec => []LinkedIsOwn)
  <1>. SUFFICES ASSUME GraphOnly PROVE Spec => []LinkedIsOwn
    OBVIOUS
  <1>1. UploadInv => LinkedIsOwn
    BY DEF UploadInv, ClientInv
  <1>. QED BY <1>1, Invariance, PTL

\* What a ledger says was made was made, what it says failed never will be.
THEOREM LedgersAlwaysTrue == GraphOnly => (Spec => []LedgerIsTrue)
  <1>. SUFFICES ASSUME GraphOnly PROVE Spec => []LedgerIsTrue
    OBVIOUS
  <1>1. UploadInv => LedgerIsTrue
    <2>. SUFFICES ASSUME UploadInv, NEW r \in Request
                  PROVE  /\ \A d \in ledger[r].confirmed : <<r, d>> \in rows
                         /\ \A d \in ledger[r].failed : ~MayWrite(r, d)
      BY DEF LedgerIsTrue
    <2>. QED BY ClosedUnwritten DEF UploadInv, RequestInv, LedgerInv, WritesInv, Row
  <1>. QED BY <1>1, Invariance, PTL

\* The ledger says that a graph is sent before it is.
THEOREM IntentAlwaysFirst == GraphOnly => (Spec => []IntentFirst)
  <1>. SUFFICES ASSUME GraphOnly PROVE Spec => []IntentFirst
    OBVIOUS
  <1>1. UploadInv => IntentFirst
    BY DEF UploadInv, RequestInv, WritesInv, Written, Row, OnWire, IntentFirst
  <1>. QED BY <1>1, Invariance, PTL

\* An attempt settled as one that wrote nothing has written nothing.
THEOREM SettledStaysUnwritten == GraphOnly => (Spec => []SettledIsUnwritten)
  <1>. SUFFICES ASSUME GraphOnly PROVE Spec => []SettledIsUnwritten
    OBVIOUS
  <1>1. UploadInv => SettledIsUnwritten
    BY ClosedUnwritten DEF SettledIsUnwritten
  <1>. QED BY <1>1, Invariance, PTL

-----------------------------------------------------------------------------
(* What a ledger has answered stays true *)

\* What a step may do to the ledger of r.
Final(r) ==
    Exists(r) /\ ledger'[r].status # "removed" =>
        /\ Confirms(r) \subseteq Confirms(r)'
        /\ Retryable(r) \subseteq Retryable(r)'

LEMMA SameIsFinal ==
    ASSUME NEW r \in Request, ledger'[r] = ledger[r], h'[r].drafts = h[r].drafts
    PROVE  Final(r)
  BY DEF Final, Confirms, Exists, Retryable, Stopped

\* While a handler runs nothing is retryable yet.
LEMMA RunningIsFinal ==
    ASSUME NEW r \in Request, RequestInv(r), Live(r),
           \/ /\ ledger[r].confirmed \subseteq ledger'[r].confirmed
              /\ ledger'[r].status \in {ledger[r].status, "pending", "uploaded"}
           \/ ledger[r].confirmed = {}
    PROVE  Final(r)
  <1>1. Retryable(r) = {}
    BY DEF RequestInv, LedgerInv, Live, Retryable
  <1>2. Exists(r) /\ ledger'[r].status # "removed" => Confirms(r) \subseteq Confirms(r)'
    BY DEF Confirms, Exists
  <1>. QED BY <1>1, <1>2 DEF Final

LEMMA HandleFinal ==
    ASSUME UploadInv, NEW r \in Request, Handle(r), NEW q \in Request
    PROVE  Final(q)
  <1>0. TypeOK /\ RequestInv(r) /\ h[r] \in Handler /\ Keeps(r) /\ Apart(r)
    BY HandleInv DEF UploadInv, TypeOK
  <1>1. CASE q # r
    BY <1>0, <1>1, SameIsFinal DEF Apart
  <1>2. CASE UNCHANGED ledger
    BY <1>0, <1>1, <1>2, SameIsFinal DEF Keeps
  <1>3. CASE Intend(r)
    <2>1. ~Exists(r)
      BY <1>0, <1>3 DEF Intend, RequestInv, HandlerInv, Exists, NoLedger
    <2>. QED BY <1>1, <2>1 DEF Final
  <1>4. ASSUME h[r].pc \in {"writing", "waiting"}, NEW s \in Handler, StopGraph(r, s),
               h[r].confirmed \subseteq s.confirmed
        PROVE  Final(r)
    <2>1. \/ ledger'[r] = ledger[r]
          \/ ledger'[r].status = ledger[r].status /\ ledger'[r].confirmed = s.confirmed
      BY <1>0, <1>4, StopEffect
    <2>2. ledger[r].confirmed \subseteq s.confirmed
      BY <1>0, <1>4 DEF RequestInv, LedgerInv
    <2>. QED BY <1>0, <1>4, <2>1, <2>2, RunningIsFinal DEF Live
  <1>5. ASSUME h[r].pc \in {"writing", "waiting"}, NEW s \in Handler, ledger' = Checkpoint(r, s, FALSE),
               h[r].confirmed \subseteq s.confirmed
        PROVE  Final(r)
    <2>1. ledger'[r].status = ledger[r].status /\ ledger'[r].confirmed = s.confirmed
      BY <1>0, <1>5, CheckpointEffect
    <2>2. ledger[r].confirmed \subseteq s.confirmed
      BY <1>0, <1>5 DEF RequestInv, LedgerInv
    <2>. QED BY <1>0, <1>5, <2>1, <2>2, RunningIsFinal DEF Live
  <1>6. CASE DescribeFails(r)
    <2>1. h[r].pc = "writing" /\ ledger[r].confirmed = {}
      BY <1>0, <1>6 DEF DescribeFails, RequestInv, LedgerInv
    <2>. QED BY <1>0, <1>1, <2>1, RunningIsFinal DEF Live
  <1>7. CASE Send(r)
    <2>1. h[r].pc = "writing" /\ h[r].mode = "graph"
      BY <1>0, <1>7 DEF Send, RequestInv, HandlerInv
    <2>2. PICK D \in NextWrites(r) :
              LET s == [h[r] EXCEPT !.pc = "waiting", !.todo = @ \ D, !.sent = D]
              IN  ledger' = Checkpoint(r, s, FALSE) \/ StopGraph(r, s)
      BY <1>7, <2>1 DEF Send
    <2>. DEFINE s == [h[r] EXCEPT !.pc = "waiting", !.todo = @ \ D, !.sent = D]
    <2>3. D \subseteq h[r].todo
      BY <1>0, NextWritesType
    <2>4. s \in Handler /\ s.confirmed = h[r].confirmed
      BY <1>0, <2>3 DEF Handler
    <2>5. ledger' = Checkpoint(r, s, FALSE) \/ StopGraph(r, s)
      BY <2>2
    <2>. HIDE DEF s
    <2>. QED BY <1>1, <1>4, <1>5, <2>1, <2>4, <2>5
  <1>8. CASE Receive(r)
    <2>1. h[r].pc = "waiting" /\ h[r].mode = "graph"
      BY <1>0, <1>8 DEF Receive, RequestInv, HandlerInv
    <2>2. PICK a \in answers :
              LET s == [h[r] EXCEPT !.pc = "writing", !.sent = {},
                                    !.confirmed = @ \cup (a.made \cap a.told),
                                    !.failed = @ \cup (a.told \ (a.made \cap a.told))]
              IN  ledger' = Checkpoint(r, s, FALSE) \/ StopGraph(r, s)
      BY <1>8, <2>1 DEF Receive, Reported
    <2>. DEFINE s == [h[r] EXCEPT !.pc = "writing", !.sent = {},
                                  !.confirmed = @ \cup (a.made \cap a.told),
                                  !.failed = @ \cup (a.told \ (a.made \cap a.told))]
    <2>3. a.made \subseteq Draft /\ a.told \subseteq Draft
      BY <1>0 DEF TypeOK
    <2>4. s \in Handler /\ s.confirmed = h[r].confirmed \cup (a.made \cap a.told)
      BY <1>0, <2>3 DEF Handler
    <2>5. ledger' = Checkpoint(r, s, FALSE) \/ StopGraph(r, s)
      BY <2>2
    <2>. HIDE DEF s
    <2>. QED BY <1>1, <1>4, <1>5, <2>1, <2>4, <2>5
  <1>9. CASE NoAnswer(r)
    <2>1. h[r].pc = "waiting" /\ StopGraph(r, h[r])
      BY <1>0, <1>9 DEF NoAnswer, RequestInv, HandlerInv
    <2>. QED BY <1>0, <1>1, <1>4, <2>1
  <1>10. CASE Finish(r)
    <2>1. h[r].pc = "writing" /\ ledger[r].confirmed \subseteq h[r].confirmed
      BY <1>0, <1>10 DEF Finish, RequestInv, LedgerInv
    <2>2. CASE h[r].confirmed = {}
      BY <1>0, <1>1, <2>1, <2>2, RunningIsFinal DEF Live
    <2>3. CASE h[r].confirmed # {}
      <3>1. \/ ledger'[r] = ledger[r]
            \/ ledger'[r].confirmed = h[r].confirmed /\ ledger'[r].status = "uploaded"
        BY <1>0, <1>10, <2>3, FinalizeEffect DEF Finish
      <3>. QED BY <1>0, <1>1, <2>1, <3>1, RunningIsFinal DEF Live
    <2>. QED BY <2>2, <2>3
  <1>. QED BY <1>2, <1>3, <1>6, <1>7, <1>8, <1>9, <1>10
           DEF Handle, RefuseEarly, Claim, Lookup

LEMMA NextFinal == GraphOnly /\ UploadInv /\ [Next]_vars => \A q \in Request : Final(q)
  <1>. SUFFICES ASSUME GraphOnly, UploadInv, [Next]_vars, NEW q \in Request PROVE Final(q)
    OBVIOUS
  <1>1. ASSUME NEW r \in Request, Handle(r) PROVE Final(q)
    BY <1>1, HandleFinal
  <1>2. CASE Execute \/ Dialog \/ Reload \/ UNCHANGED vars
    <2>1. UNCHANGED <<ledger, h>>
      BY <1>2 DEF Execute, Dialog, LoseReply, OnRejected, OnInterrupted, OnResults, FallBack, GraphOnly,
                  Recover, EndRecovery, Reconcile, Reload, vars, salesforce, server
    <2>. QED BY <2>1, SameIsFinal
  <1>3. CASE Crash
    BY <1>3, CrashInv, SameIsFinal DEF Crash, Keeps
  <1>4. ASSUME NEW r \in Request, Forget(r) PROVE Final(q)
    <2>1. CASE q = r
      <3>1. ledger'[q].status = "removed"
        BY <1>4, <2>1 DEF Forget, UploadInv, TypeOK, Ledger
      <3>. QED BY <3>1 DEF Final
    <2>2. CASE q # r
      BY <1>4, <2>2, SameIsFinal DEF Forget, UploadInv, TypeOK
    <2>. QED BY <2>1, <2>2
  <1>5. CASE ConfirmUpload
    <2>1. h'[q] = h[q] \/ h[q].pc = "unsent"
      BY <1>5 DEF ConfirmUpload, Post, Fresh, UploadInv, TypeOK
    <2>2. UNCHANGED ledger
      BY <1>5 DEF ConfirmUpload
    <2>3. h[q].pc = "unsent" => ~Exists(q)
      BY DEF UploadInv, RequestInv, HandlerInv, Exists, NoLedger
    <2>4. CASE h'[q] = h[q]
      BY <2>2, <2>4, SameIsFinal
    <2>5. CASE ~Exists(q)
      BY <2>5 DEF Final
    <2>. QED BY <2>1, <2>3, <2>4, <2>5
  <1>. QED BY <1>1, <1>2, <1>3, <1>4, <1>5 DEF Next

\* What an attempt confirmed stays confirmed, and what it released for another
\* attempt stays released: the recovery may be asked at any time.
THEOREM RecoveryAlwaysFinal == GraphOnly => (Spec => RecoveryIsFinal)
  <1>. SUFFICES ASSUME GraphOnly PROVE Spec => RecoveryIsFinal
    OBVIOUS
  <1>1. UploadInv /\ [Next]_vars =>
            [\A r \in Request : Exists(r) /\ ledger'[r].status # "removed" =>
                 /\ Confirms(r) \subseteq Confirms(r)'
                 /\ Retryable(r) \subseteq Retryable(r)']_vars
    BY NextFinal DEF Final
  <1>. QED BY <1>1, Invariance, PTL DEF Spec, RecoveryIsFinal

-----------------------------------------------------------------------------
(* The abstract promise *)

LEMMA CountOne ==
    ASSUME NEW R, NEW d, \A q, r \in Request : <<q, d>> \in R /\ <<r, d>> \in R => q = r
    PROVE  LET n == Cardinality({r \in Request : <<r, d>> \in R})
           IN  n = IF \E r \in Request : <<r, d>> \in R THEN 1 ELSE 0
  <1>1. ASSUME \A r \in Request : <<r, d>> \notin R
        PROVE  Cardinality({r \in Request : <<r, d>> \in R}) = 0
    <2>1. {r \in Request : <<r, d>> \in R} = {}
      BY <1>1
    <2>. QED BY <2>1, FS_EmptySet
  <1>2. ASSUME NEW r \in Request, <<r, d>> \in R
        PROVE  Cardinality({q \in Request : <<q, d>> \in R}) = 1
    <2>1. {q \in Request : <<q, d>> \in R} = {r}
      BY <1>2
    <2>. QED BY <2>1, FS_Singleton
  <1>. QED BY <1>1, <1>2

LEMMA MadeIs ==
    ASSUME UploadInv
    PROVE  Made = [d \in Draft |-> IF \E r \in Request : <<r, d>> \in rows THEN 1 ELSE 0]
  <1>1. \A d \in Draft : \A q, r \in Request : <<q, d>> \in rows /\ <<r, d>> \in rows => q = r
    BY DEF UploadInv, ClientInv, DraftsInv, MayWrite
  <1>2. \A d \in Draft : Cardinality({r \in Request : <<r, d>> \in rows})
                         = IF \E r \in Request : <<r, d>> \in rows THEN 1 ELSE 0
    BY <1>1, CountOne
  <1>. QED BY <1>2 DEF Made

LEMMA MadeIsNext ==
    ASSUME UploadInv'
    PROVE  Made' = [d \in Draft |-> IF \E r \in Request : <<r, d>> \in rows' THEN 1 ELSE 0]
  <1>1. \A d \in Draft : \A q, r \in Request : <<q, d>> \in rows' /\ <<r, d>> \in rows' => q = r
    BY DEF UploadInv, ClientInv, DraftsInv, MayWrite
  <1>2. \A d \in Draft : Cardinality({r \in Request : <<r, d>> \in rows'})
                         = IF \E r \in Request : <<r, d>> \in rows' THEN 1 ELSE 0
    BY <1>1, CountOne
  <1>. QED BY <1>2 DEF Made

\* The records that Salesforce makes are of drafts that have none.
LEMMA ExecuteWrites ==
    ASSUME UploadInv, UploadInv', rows \subseteq rows', UNCHANGED client
    PROVE  [Once!Next]_<<Made, Tied>>
  <1>. DEFINE D == {d \in Draft : Made[d] = 0 /\ \E r \in Request : <<r, d>> \in rows'}
  <1>1. D \in SUBSET {d \in Draft : Made[d] = 0}
    OBVIOUS
  <1>2. Made' = [d \in Draft |-> IF d \in D THEN 1 ELSE Made[d]]
    BY MadeIs, MadeIsNext
  <1>3. Tied' = Tied
    BY DEF Tied, client
  <1>. HIDE DEF D
  <1>. QED BY <1>1, <1>2, <1>3 DEF Once!Next, Once!Write

\* What the dialog learns of was made.
LEMMA DialogTies ==
    ASSUME UploadInv, UploadInv', UNCHANGED rows, \A d \in Draft : linked[d] # None => linked'[d] # None
    PROVE  [Once!Next]_<<Made, Tied>>
  <1>. DEFINE D == {d \in Draft : linked'[d] # None}
  <1>1. \A d \in Draft : linked'[d] # None => linked'[d] \in Request /\ <<linked'[d], d>> \in rows
    BY DEF UploadInv, ClientInv, LinkedIsOwn, TypeOK
  <1>2. D \in SUBSET {d \in Draft : Made[d] = 1}
    BY <1>1, MadeIs
  <1>3. Tied' = Tied \cup D
    BY DEF Tied
  <1>4. Made' = Made
    BY DEF Made
  <1>. HIDE DEF D
  <1>. QED BY <1>2, <1>3, <1>4 DEF Once!Next, Once!Tie

LEMMA LinksKept ==
    ASSUME GraphOnly, UploadInv, Dialog \/ Reload \/ ConfirmUpload
    PROVE  UNCHANGED rows /\ \A d \in Draft : linked[d] # None => linked'[d] # None
  <1>1. CASE OnResults
    <2>1. cur \in Request /\ reply[cur].made \subseteq Request \X Draft
      BY <1>1 DEF OnResults, Got, UploadInv, ClientInv, DialogInv, TypeOK, Reply
    <2>2. \A e \in Draft : (\E p \in reply[cur].made : Named(p[2], e)) =>
              (CHOOSE p \in reply[cur].made : Named(p[2], e))[1] \in Request
      BY <2>1
    <2>. QED BY <1>1, <2>2, NoneAssumption DEF OnResults, salesforce
  <1>2. CASE Recover
    <2>1. \A a : \A l \in FindByAttemptId(a) : l # None
      BY NoneAssumption DEF FindByAttemptId
    <2>. QED BY <1>2, <2>1 DEF Recover, salesforce
  <1>3. ~FallBack /\ ~Reconcile
    BY DEF FallBack, Reconcile, GraphOnly, UploadInv, ClientInv, DialogInv
  <1>4. CASE LoseReply \/ OnRejected \/ OnInterrupted \/ EndRecovery \/ Reload \/ ConfirmUpload
    BY <1>4 DEF LoseReply, OnRejected, OnInterrupted, EndRecovery, Reload, ConfirmUpload, salesforce
  <1>. QED BY <1>1, <1>2, <1>3, <1>4 DEF Dialog

\* Uploads by Composite Graph keep the promise of UploadOnce: a draft becomes one
\* record at most, and the canvas ties drafts to records that exist.
THEOREM UploadsImplementOnce == GraphOnly => (Spec => ImplementsOnce)
  <1>. SUFFICES ASSUME GraphOnly PROVE Spec => ImplementsOnce
    OBVIOUS
  <1>1. Init => Once!Init
    <2>. SUFFICES ASSUME Init PROVE Once!Init
      OBVIOUS
    <2>1. Made = [d \in Draft |-> 0]
      BY InitInv, MadeIs DEF Init
    <2>. QED BY <2>1 DEF Init, Tied, Once!Init
  <1>2. UploadInv /\ UploadInv' /\ [Next]_vars => [Once!Next]_<<Made, Tied>>
    <2>. SUFFICES ASSUME UploadInv, UploadInv', [Next]_vars PROVE [Once!Next]_<<Made, Tied>>
      OBVIOUS
    <2>1. CASE ServerNext
      BY <2>1, ServerInv, ExecuteWrites
    <2>2. CASE Dialog \/ Reload \/ ConfirmUpload
      BY <2>2, LinksKept, DialogTies
    <2>3. CASE UNCHANGED vars
      BY <2>3 DEF vars, salesforce, client, Made, Tied
    <2>. QED BY <2>1, <2>2, <2>3 DEF Next, ServerNext
  <1>. QED BY <1>1, <1>2, Invariance, PTL DEF Spec, ImplementsOnce, Once!Spec, Once!vars
=============================================================================
