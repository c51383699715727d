---------------------------- MODULE CanvasStore ----------------------------
(***************************************************************************)
(* One canvas in Salesforce and the requests that save, update, open and    *)
(* remove it: src/src/storage/canvas-store.js, with the data keys of        *)
(* src/src/database/canvas-keys.js and the key cache of                     *)
(* src/src/storage/canvas-encryption.js.                                    *)
(*                                                                          *)
(* A canvas is a record (Orgloom_Canvas__c) that points to its body, an     *)
(* encrypted document.  Every update writes a new document, links it to the *)
(* record and then moves the pointer.  Salesforce has no compare-and-swap:  *)
(* a process queues its updates of the canvas behind an in-memory lock.     *)
(*                                                                          *)
(* Every call to Salesforce or to the database is one action.  It may be    *)
(* refused, or act and lose its answer, and a process may crash             *)
(* between two calls.  A document has one version, so a document stands for *)
(* a version as well; documents are numbered in the order of their creation.*)
(***************************************************************************)
EXTENDS Naturals, FiniteSets, Sequences

CONSTANTS
    Op,          \* slots for requests
    Process,     \* server processes: each has its own locks and its own cache
    ProcessOf,   \* [Op -> Process]
    Session,     \* sessions of users
    SessionOf,   \* [Op -> Session]
    DataKey,     \* data keys (generateDataKey)
    Fault,       \* what may go wrong: some of "refused", "lost", "crash"
    Retention,   \* CANVAS_BODY_RETENTION
    MaxDoc,      \* bound: documents ever created
    Plain,       \* the "key" of a body from before encryption
    None         \* no value

Doc == 1..MaxDoc

ASSUME StoreAssumption ==
    /\ ProcessOf \in [Op -> Process]
    /\ SessionOf \in [Op -> Session]
    /\ Fault \subseteq {"refused", "lost", "crash"}
    /\ Retention \in Nat \ {0}
    /\ MaxDoc \in Nat \ {0}
    /\ Plain \notin DataKey \cup {None}
    /\ None \notin DataKey
    /\ None \notin [id : Nat, body : Nat]
    /\ None \notin [expects : Doc \cup {None}]
    /\ None \notin Nat

VARIABLES
    record,    \* the Orgloom_Canvas__c record: [id, body], or None
    lives,     \* records that this canvas has had
    bodies,    \* the documents: the data key of each, or None
    links,     \* ContentDocumentLinks: <<record id, document>>
    nextDoc,   \* the next document
    keyRow,    \* canvas_keys: the key in the canvas's row, or None
    cache,     \* _kekCache: the key a process holds for a session, or None
    queue,     \* _updateLocks: the updates of a process, the first has the lock
    pc,        \* the call that each request makes next
    expected,  \* expectedVersionId, or None
    seen,      \* the record as the request read it
    new,       \* the document the request has created
    key,       \* the data key the request uses
    victims    \* the documents the request is about to destroy

salesforceVars == <<record, lives, bodies, links, nextDoc>>
keyVars == <<keyRow, cache>>
localVars == <<expected, seen, new, key, victims>>
vars == <<salesforceVars, keyVars, queue, pc, localVars>>

-----------------------------------------------------------------------------
(* Types *)

Record == [id : Nat, body : Doc]

UpdateStage == {"record", "document", "version", "key", "mint", "adopt", "create",
                "link", "index", "list", "prune", "unlink", "unindex"}
SaveStage == {"persist", "publish", "attach", "unsave", "unkey"}
RemoveStage == {"bodies", "destroy", "dropKey", "dropRecord"}
Stage == UpdateStage \cup SaveStage \cup RemoveStage \cup {"idle"}

TypeOK ==
    /\ record \in Record \cup {None}
    /\ lives \in Nat
    /\ bodies \in [Doc -> DataKey \cup {Plain, None}]
    /\ links \subseteq Nat \X Doc
    /\ nextDoc \in 1..(MaxDoc + 1)
    /\ keyRow \in DataKey \cup {None}
    /\ cache \in [Process \X Session -> DataKey \cup {None}]
    /\ queue \in [Process -> Seq(Op)]
    /\ pc \in [Op -> Stage]
    /\ expected \in [Op -> Doc \cup {None}]
    /\ seen \in [Op -> Record \cup {None}]
    /\ new \in [Op -> Doc \cup {None}]
    /\ key \in [Op -> DataKey \cup {None}]
    /\ victims \in [Op -> SUBSET Doc]

-----------------------------------------------------------------------------
(* What the requests read *)

Docs == {d \in Doc : bodies[d] # None}

\* _canvasBodyDocuments: the bodies linked to the record
Linked(id) == {d \in Docs : <<id, d>> \in links}

\* Mutant of HasLock: an update does not wait for the ones before it.
DoesNotWait(o) == \E i \in 1..Len(queue[ProcessOf[o]]) : queue[ProcessOf[o]][i] = o

\* The update at the head of its process's queue has the lock.
HasLock(o) == queue[ProcessOf[o]] # <<>> /\ Head(queue[ProcessOf[o]]) = o

\* The n newest members of a set of documents.
Newest(S, n) == {d \in S : Cardinality({e \in S : e > d}) < n}

\* generateDataKey: a key that nothing holds
FreshKeys ==
    {k \in DataKey : /\ keyRow # k
                     /\ \A d \in Doc : bodies[d] # k
                     /\ \A h \in Process \X Session : cache[h] # k
                     /\ \A o \in Op : key[o] # k}

Holder(o) == <<ProcessOf[o], SessionOf[o]>>

-----------------------------------------------------------------------------
(* How a request goes on *)

Advance(o, stage) == pc' = [pc EXCEPT ![o] = stage] /\ UNCHANGED queue

\* Mutant of Finish: an update that fails keeps the lock.
FinishWithLock(o) ==
    /\ pc' = [pc EXCEPT ![o] = "idle"]
    /\ queue' = IF HasLock(o) /\ pc[o] \in {"list", "prune"}
                THEN [queue EXCEPT ![ProcessOf[o]] = Tail(@)] ELSE queue
    /\ expected' = [expected EXCEPT ![o] = None]
    /\ seen' = [seen EXCEPT ![o] = None]
    /\ new' = [new EXCEPT ![o] = None]
    /\ key' = [key EXCEPT ![o] = None]
    /\ victims' = [victims EXCEPT ![o] = {}]

\* The request is answered.  An update releases the lock in its finally block.
Finish(o) ==
    /\ pc' = [pc EXCEPT ![o] = "idle"]
    /\ queue' = IF HasLock(o) THEN [queue EXCEPT ![ProcessOf[o]] = Tail(@)] ELSE queue
    /\ expected' = [expected EXCEPT ![o] = None]
    /\ seen' = [seen EXCEPT ![o] = None]
    /\ new' = [new EXCEPT ![o] = None]
    /\ key' = [key EXCEPT ![o] = None]
    /\ victims' = [victims EXCEPT ![o] = {}]

Goto(o, stage) ==
    IF stage = "idle" THEN Finish(o) ELSE Advance(o, stage) /\ UNCHANGED localVars

\* Where a call that throws leads to.
Failed(stage) ==
    CASE stage = "link" -> "unlink"
      [] stage = "index" -> "unindex"
      [] stage \in {"persist", "publish", "attach"} -> "unsave"
      [] stage = "unsave" -> "unkey"
      [] stage = "dropKey" -> "dropRecord"
      [] OTHER -> "idle"

\* A call that acted is answered, or its answer is lost.
Answer(o, stage) ==
    \/ Goto(o, stage)
    \/ "lost" \in Fault /\ Goto(o, Failed(pc[o]))

\* A call is refused before it acts.
Refuse(o) ==
    /\ "refused" \in Fault
    /\ pc[o] # "idle"
    /\ pc[o] = "record" => HasLock(o)
    /\ Goto(o, Failed(pc[o]))
    /\ UNCHANGED <<salesforceVars, keyVars>>

-----------------------------------------------------------------------------
(* Calls that several requests make *)

\* ContentVersion.create
StoreBody(k) ==
    /\ nextDoc <= MaxDoc
    /\ bodies' = [bodies EXCEPT ![nextDoc] = k]
    /\ nextDoc' = nextDoc + 1
    /\ UNCHANGED <<record, lives, links>>

\* Orgloom_Canvas__c.upsert by Canvas_Id__c: there may be no record (any more).
Index(d) ==
    /\ record' = IF record = None THEN [id |-> lives + 1, body |-> d]
                 ELSE [id |-> record.id, body |-> d]
    /\ lives' = IF record = None THEN lives + 1 ELSE lives
    /\ UNCHANGED <<bodies, links, nextDoc>>

\* ContentDocumentLink.create
Link(id, d) ==
    /\ links' = links \cup {<<id, d>>}
    /\ UNCHANGED <<record, lives, bodies, nextDoc>>

CanLink(id, d) == record # None /\ record.id = id /\ d \in Docs

\* ContentDocument.destroy: the links of a document go with it.
Destroy(D) ==
    /\ bodies' = [d \in Doc |-> IF d \in D THEN None ELSE bodies[d]]
    /\ links' = {l \in links : l[2] \notin D}
    /\ UNCHANGED <<record, lives, nextDoc>>

\* A batch may be destroyed in part.
Destroyable(D) ==
    IF "refused" \in Fault THEN SUBSET (D \cap Docs) ELSE {D \cap Docs}

-----------------------------------------------------------------------------
(* update *)

BeforeCreate == {"record", "document", "version", "key", "mint", "adopt", "create"}

\* A client saves what it opened, or saves anyway; the update is queued.
RequestUpdate(o) ==
    /\ pc[o] = "idle"
    /\ record # None
    /\ nextDoc + Cardinality({p \in Op : pc[p] \in BeforeCreate}) <= MaxDoc
    /\ \E e \in {record.body, None} : expected' = [expected EXCEPT ![o] = e]
    /\ pc' = [pc EXCEPT ![o] = "record"]
    /\ queue' = [queue EXCEPT ![ProcessOf[o]] = Append(@, o)]
    /\ UNCHANGED <<salesforceVars, keyVars, seen, new, key, victims>>

\* _getHybridCanvasRecord
ReadRecord(o) ==
    /\ pc[o] = "record"
    /\ HasLock(o)
    /\ IF record = None
       THEN Finish(o)
       ELSE /\ seen' = [seen EXCEPT ![o] = record]
            /\ Advance(o, "document")
            /\ UNCHANGED <<expected, new, key, victims>>
    /\ UNCHANGED <<salesforceVars, keyVars>>

ReadDocument(o) ==
    /\ pc[o] = "document"
    /\ Goto(o, IF seen[o].body \notin Docs THEN "idle"
               ELSE IF expected[o] = None THEN "key" ELSE "version")
    /\ UNCHANGED <<salesforceVars, keyVars>>

\* Mutant of CheckVersion: any version will do.
CheckNothing(o) ==
    /\ pc[o] = "version"
    /\ Goto(o, "key")
    /\ UNCHANGED <<salesforceVars, keyVars>>

\* A body that has vanished by now has no version to disagree with.
CheckVersion(o) ==
    /\ pc[o] = "version"
    /\ Goto(o, IF seen[o].body \in Docs /\ seen[o].body # expected[o] THEN "idle" ELSE "key")
    /\ UNCHANGED <<salesforceVars, keyVars>>

\* getOrMint: the cached key, or the row's, or a fresh one
GetKey(o) ==
    LET known == IF cache[Holder(o)] # None THEN cache[Holder(o)] ELSE keyRow
    IN  /\ pc[o] = "key"
        /\ IF known # None
           THEN /\ key' = [key EXCEPT ![o] = known]
                /\ cache' = [cache EXCEPT ![Holder(o)] = known]
                /\ Advance(o, "create")
           ELSE /\ \E k \in FreshKeys : key' = [key EXCEPT ![o] = k]
                /\ Advance(o, "mint")
                /\ UNCHANGED cache
        /\ UNCHANGED <<salesforceVars, keyRow, expected, seen, new, victims>>

\* The insert does nothing if a row is there; then the row is read again.
MintKey(o) ==
    /\ pc[o] = "mint"
    /\ keyRow' = IF keyRow = None THEN key[o] ELSE keyRow
    /\ Answer(o, "adopt")
    /\ UNCHANGED <<salesforceVars, cache>>

\* Mutant of AdoptKey: the row is not read again.
KeepOwnKey(o) ==
    /\ pc[o] = "adopt"
    /\ cache' = [cache EXCEPT ![Holder(o)] = key[o]]
    /\ Advance(o, "create")
    /\ UNCHANGED <<salesforceVars, keyRow, localVars>>

AdoptKey(o) ==
    LET k == IF keyRow # None THEN keyRow ELSE key[o]
    IN  /\ pc[o] = "adopt"
        /\ key' = [key EXCEPT ![o] = k]
        /\ cache' = [cache EXCEPT ![Holder(o)] = k]
        /\ Advance(o, "create")
        /\ UNCHANGED <<salesforceVars, keyRow, expected, seen, new, victims>>

\* If the answer is lost, the document stays behind.
CreateBody(o) ==
    /\ pc[o] = "create"
    /\ StoreBody(key[o])
    /\ \/ /\ new' = [new EXCEPT ![o] = nextDoc]
          /\ Advance(o, "link")
          /\ UNCHANGED <<expected, seen, key, victims>>
       \/ "lost" \in Fault /\ Finish(o)
    /\ UNCHANGED keyVars

\* Mutant of LinkBody: the pointer moves first.
LinkAfterIndex(o) ==
    /\ pc[o] = "link"
    /\ Index(new[o])
    /\ IF CanLink(seen[o].id, new[o]) THEN Answer(o, "index") ELSE Goto(o, "unlink")
    /\ UNCHANGED keyVars

\* ensureBodyLink, before the pointer moves
LinkBody(o) ==
    /\ pc[o] = "link"
    /\ IF CanLink(seen[o].id, new[o])
       THEN Link(seen[o].id, new[o]) /\ Answer(o, "index")
       ELSE Goto(o, "unlink") /\ UNCHANGED salesforceVars
    /\ UNCHANGED keyVars

IndexBody(o) ==
    /\ pc[o] = "index"
    /\ Index(new[o])
    /\ Answer(o, "list")
    /\ UNCHANGED keyVars

\* The new document is destroyed, whether or not that succeeds.
UndoBody(o) ==
    /\ pc[o] \in {"unlink", "unindex"}
    /\ Destroy({new[o]})
    /\ Finish(o)
    /\ UNCHANGED keyVars

\* Mutant of ListBodies: it does not matter whether the new body is listed.
ListUnchecked(o) ==
    /\ pc[o] = "list"
    /\ \E L \in {Linked(seen[o].id), Linked(seen[o].id) \ {new[o]}} :
          IF Cardinality(L) <= Retention
          THEN Finish(o)
          ELSE /\ victims' = [victims EXCEPT ![o] = L \ Newest(L, Retention)]
               /\ Advance(o, "prune")
               /\ UNCHANGED <<expected, seen, new, key>>
    /\ UNCHANGED <<salesforceVars, keyVars>>

\* _pruneOldCanvasBodies: the listing may be too old to show the new body.
ListBodies(o) ==
    /\ pc[o] = "list"
    /\ \E L \in {Linked(seen[o].id), Linked(seen[o].id) \ {new[o]}} :
          IF Cardinality(L) <= Retention \/ new[o] \notin L
          THEN Finish(o)
          ELSE LET others == L \ {new[o]}
               IN  /\ victims' = [victims EXCEPT ![o] =
                                    others \ Newest(others, Retention - 1)]
                   /\ Advance(o, "prune")
                   /\ UNCHANGED <<expected, seen, new, key>>
    /\ UNCHANGED <<salesforceVars, keyVars>>

PruneBodies(o) ==
    /\ pc[o] = "prune"
    /\ \E D \in Destroyable(victims[o]) : Destroy(D)
    /\ Finish(o)
    /\ UNCHANGED keyVars

-----------------------------------------------------------------------------
(* save *)

\* The first document of the canvas gives it its identifier.
StartSave(o) ==
    /\ pc[o] = "idle"
    /\ nextDoc = 1
    /\ \E k \in FreshKeys :
          StoreBody(k) /\ key' = [key EXCEPT ![o] = k]
    /\ new' = [new EXCEPT ![o] = nextDoc]
    /\ Advance(o, "persist")
    /\ UNCHANGED <<keyVars, expected, seen, victims>>

PersistKey(o) ==
    /\ pc[o] = "persist"
    /\ keyRow' = IF keyRow = None THEN key[o] ELSE keyRow
    /\ \/ /\ cache' = [cache EXCEPT ![Holder(o)] = key[o]]
          /\ Goto(o, "publish")
       \/ "lost" \in Fault /\ Goto(o, "unsave") /\ UNCHANGED cache
    /\ UNCHANGED salesforceVars

PublishRecord(o) ==
    /\ pc[o] = "publish"
    /\ Index(new[o])
    /\ Answer(o, "attach")
    /\ UNCHANGED keyVars

\* The record is looked up and the body linked to it.
AttachBody(o) ==
    /\ pc[o] = "attach"
    /\ IF record # None /\ new[o] \in Docs
       THEN Link(record.id, new[o]) /\ Answer(o, "idle")
       ELSE Goto(o, "unsave") /\ UNCHANGED salesforceVars
    /\ UNCHANGED keyVars

UndoSave(o) ==
    /\ pc[o] = "unsave"
    /\ Destroy({new[o]})
    /\ Goto(o, "unkey")
    /\ UNCHANGED keyVars

UndoKey(o) ==
    /\ pc[o] = "unkey"
    /\ keyRow' = None
    /\ Finish(o)
    /\ UNCHANGED <<salesforceVars, cache>>

-----------------------------------------------------------------------------
(* remove: takes no lock *)

StartRemove(o) ==
    /\ pc[o] = "idle"
    /\ record # None
    /\ seen' = [seen EXCEPT ![o] = record]
    /\ Advance(o, "bodies")
    /\ UNCHANGED <<salesforceVars, keyVars, expected, new, key, victims>>

ListToRemove(o) ==
    /\ pc[o] = "bodies"
    /\ victims' = [victims EXCEPT ![o] = Linked(seen[o].id) \cup {seen[o].body}]
    /\ Advance(o, "destroy")
    /\ UNCHANGED <<salesforceVars, keyVars, expected, seen, new, key>>

\* Unless every document is destroyed by this call, the removal stops here.
DestroyBodies(o) ==
    /\ pc[o] = "destroy"
    /\ \E D \in Destroyable(victims[o]) :
          /\ Destroy(D)
          /\ IF D = victims[o] THEN Answer(o, "dropKey") ELSE Finish(o)
    /\ UNCHANGED keyVars

DropKey(o) ==
    /\ pc[o] = "dropKey"
    /\ keyRow' = None
    /\ Goto(o, "dropRecord")
    /\ UNCHANGED <<salesforceVars, cache>>

DropRecord(o) ==
    /\ pc[o] = "dropRecord"
    /\ LET mine == record # None /\ record.id = seen[o].id
       IN  /\ record' = IF mine THEN None ELSE record
           /\ links' = {l \in links : l[1] # seen[o].id}
    /\ Finish(o)
    /\ UNCHANGED <<lives, bodies, nextDoc, keyVars>>

-----------------------------------------------------------------------------
(* get, the cache and the process *)

\* Mutant of Open: it does not matter whether the body is encrypted.
OpenPlain(h) ==
    /\ record # None
    /\ record.body \in Docs
    /\ cache[h] = None
    /\ cache' = [cache EXCEPT ![h] = bodies[record.body]]
    /\ UNCHANGED <<salesforceVars, keyRow, queue, pc, localVars>>

\* get leaves the key of an encrypted body in the session's cache.
Open(h) ==
    /\ record # None
    /\ record.body \in Docs
    /\ bodies[record.body] # Plain
    /\ cache[h] = None
    /\ keyRow # None
    /\ cache' = [cache EXCEPT ![h] = keyRow]
    /\ UNCHANGED <<salesforceVars, keyRow, queue, pc, localVars>>

\* A cached key expires or is evicted, or its session signs out.
Forget(h) ==
    /\ cache[h] # None
    /\ cache' = [cache EXCEPT ![h] = None]
    /\ UNCHANGED <<salesforceVars, keyRow, queue, pc, localVars>>

\* The process dies between two calls: its queue, its cache and its requests.
Crash(p) ==
    LET gone == {o \in Op : ProcessOf[o] = p}
    IN  /\ "crash" \in Fault
        /\ \E o \in gone : pc[o] # "idle"
        /\ pc' = [o \in Op |-> IF o \in gone THEN "idle" ELSE pc[o]]
        /\ queue' = [queue EXCEPT ![p] = <<>>]
        /\ cache' = [h \in Process \X Session |-> IF h[1] = p THEN None ELSE cache[h]]
        /\ expected' = [o \in Op |-> IF o \in gone THEN None ELSE expected[o]]
        /\ seen' = [o \in Op |-> IF o \in gone THEN None ELSE seen[o]]
        /\ new' = [o \in Op |-> IF o \in gone THEN None ELSE new[o]]
        /\ key' = [o \in Op |-> IF o \in gone THEN None ELSE key[o]]
        /\ victims' = [o \in Op |-> IF o \in gone THEN {} ELSE victims[o]]
        /\ UNCHANGED <<salesforceVars, keyRow>>

-----------------------------------------------------------------------------
\* Nothing is saved yet; or a canvas is, encrypted or from before encryption.
Init ==
    /\ \/ /\ record = None
          /\ bodies = [d \in Doc |-> None]
          /\ keyRow = None
       \/ /\ record = [id |-> 1, body |-> 1]
          /\ keyRow \in DataKey \cup {None}
          /\ bodies = [d \in Doc |-> IF d > 1 THEN None
                                     ELSE IF keyRow = None THEN Plain ELSE keyRow]
    /\ lives = IF record = None THEN 0 ELSE 1
    /\ links = IF record = None THEN {} ELSE {<<1, 1>>}
    /\ nextDoc = IF record = None THEN 1 ELSE 2
    /\ cache = [h \in Process \X Session |-> None]
    /\ queue = [p \in Process |-> <<>>]
    /\ pc = [o \in Op |-> "idle"]
    /\ expected = [o \in Op |-> None]
    /\ seen = [o \in Op |-> None]
    /\ new = [o \in Op |-> None]
    /\ key = [o \in Op |-> None]
    /\ victims = [o \in Op |-> {}]

UpdateCall(o) ==
    \/ ReadRecord(o) \/ ReadDocument(o) \/ CheckVersion(o)
    \/ GetKey(o) \/ MintKey(o) \/ AdoptKey(o)
    \/ CreateBody(o) \/ LinkBody(o) \/ IndexBody(o) \/ UndoBody(o)
    \/ ListBodies(o) \/ PruneBodies(o)

SaveCall(o) ==
    \/ PersistKey(o) \/ PublishRecord(o) \/ AttachBody(o)
    \/ UndoSave(o) \/ UndoKey(o)

RemoveCall(o) ==
    ListToRemove(o) \/ DestroyBodies(o) \/ DropKey(o) \/ DropRecord(o)

\* What a process does without being asked.
Aside ==
    \/ \E h \in Process \X Session : Open(h) \/ Forget(h)
    \/ \E p \in Process : Crash(p)

Next ==
    \/ \E o \in Op : RequestUpdate(o) \/ StartSave(o) \/ StartRemove(o)
    \/ \E o \in Op : UpdateCall(o) \/ SaveCall(o) \/ RemoveCall(o) \/ Refuse(o)
    \/ Aside

Spec == Init /\ [][Next]_vars

\* Every call is answered or throws; nobody is obliged to ask for anything.
Fairness ==
    \A o \in Op : WF_vars(UpdateCall(o) \/ SaveCall(o) \/ RemoveCall(o) \/ Refuse(o))

FairSpec == Spec /\ Fairness

\* The canvas between its save and its removal.
SavedInit == Init /\ record # None

UpdateNext ==
    \/ \E o \in Op : RequestUpdate(o) \/ UpdateCall(o) \/ Refuse(o)
    \/ Aside

UpdateSpec == SavedInit /\ [][UpdateNext]_vars

-----------------------------------------------------------------------------
(* Safety *)

\* An update between its reading of the record and its answer.
Updating(o) == pc[o] \in UpdateStage \ {"record"}

\* Two updates of the canvas never run at the same time in one process, however
\* the updates before them ended.
UpdatesSerialised ==
    \A o1, o2 \in Op :
        Updating(o1) /\ Updating(o2) /\ ProcessOf[o1] = ProcessOf[o2] => o1 = o2

\* When the new body could not be linked, and is about to be destroyed, the
\* record does not point at it: a failed link cannot strand the pointer.
FailedLinkSparesPointer ==
    \A o \in Op : pc[o] = "unlink" => record = None \/ record.body # new[o]

\* All bodies of a canvas that is not being saved or removed are encrypted with
\* the key in its row, whichever processes, sessions and caches wrote them and
\* however their calls failed: every retained checkpoint can be decrypted.
BodiesDecryptable == \A d \in Docs : bodies[d] \in {Plain, keyRow}

\* Once every request is answered, a canvas that has a body has the key to it.
CurrentBodyDecryptable ==
    (\A o \in Op : pc[o] = "idle") /\ record # None /\ record.body \in Docs
    => bodies[record.body] \in {Plain, keyRow}

\* Pruning leaves exactly the newest bodies, the current one among them.
PruneKeepsNewest ==
    \A o \in Op : pc[o] = "prune" =>
        LET kept == Linked(record.id) \ victims[o]
        IN  record.body \in kept /\ kept = Newest(Linked(record.id), Retention)

-----------------------------------------------------------------------------
(* Liveness *)

\* Every update that waits for the lock is answered in the end, although those
\* before it may fail at any of their calls.
UpdatesEnd == \A o \in Op : pc[o] = "record" ~> pc[o] = "idle"

-----------------------------------------------------------------------------
(* In one process the calls of all updates amount to a register that compares *)
(* and swaps.                                                                 *)

Current == IF record = None THEN None
           ELSE IF record.body \in Docs THEN record.body ELSE None

Asked(o) ==
    IF pc[o] \in BeforeCreate \cup {"link", "index"}
    THEN [expects |-> expected[o]] ELSE None

Register == INSTANCE CanvasRegister WITH
    Client <- Op, Version <- Doc, Lossy <- ("lost" \in Fault),
    current <- Current, asked <- [o \in Op |-> Asked(o)]

\* However the calls of concurrent updates interleave and fail, each update
\* moves the pointer at most once, and only away from the version its client
\* expects; and unless the answer of a call is lost, there is always a body.
ImplementsRegister == Register!Spec
=============================================================================
