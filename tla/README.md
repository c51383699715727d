# Verification of orgloom-canvas

TLA+ models of the concurrent core of Org Loom: the canvas server, the browsers
that share a canvas, the store in Salesforce, contributions and uploads, checked
with TLC and partly proved with TLAPS. The reference is the source under `src/src`;
every definition that models code is mapped to its lines in `PROJECT.json`.

## The system

| Component | State it keeps | Operations | What is hard |
|---|---|---|---|
| Live collaboration, server (`canvas-presence.js`, routes) | per scope: connections, field leases and versions, revision and durable revision, live payload, orphaned payload | subscribe, leave, sweep, purge, role change, lease acquire/renew/release, field commit, a dozen mutations, save broadcast | routes await Salesforce between reading and acting; leases expire and are taken over; the scope dies and begins again |
| Live collaboration, client (`public/js/presence.js`) | mutation queue, sequence numbers, known revision, queued events | send, retry, apply, re-read the snapshot | events that arrive while a snapshot is fetched; requests that overtake each other |
| Canvas routes (`canvas-routes.js`) | none between requests | save, delete, share, fill, subscribe | every handler is a chain of awaits over shared state |
| Canvas store (`storage/canvas-store.js`) | in Salesforce: the canvas record with its body pointer, body documents, links; in memory: the update lock | save, update, get, remove | Salesforce has no compare-and-swap; each call may fail or lose its answer; removal takes no lock |
| Canvas keys (`database/canvas-keys.js`, `storage/canvas-encryption.js`) | wrapped key rows; a key cache per session | get, get-or-mint, persist, remove | concurrent mints; a cached key of a removed row |
| Contributions (`storage/canvas-contribution-store.js`, `slot-helpers.js`) | pending and merged contributions | submit, list, mark merged | stored first and shown live later; merged by a later save |
| Upload pipeline (`sf-upload.js`, `upload-*.js`, `storage/upload-batches-store.js`) | attempt rows, batch ledger | order, upload, recover, recall | answers that are lost after Salesforce acted; retries of an attempt; partial failure |
| MCP relay (`mcp/*.js`, `mcp-relay-client.js`) | waiting requests, browser streams, proposals | forward, answer, time out, decide | answers after the timeout; reconnects |
| Connections (`sf-connection.js`, `sf-refresh-store.js`) | tokens | refresh | concurrent refreshes of a rotating token |
| Audit (`database/audit.js`) | chained entries | append | concurrent appends |
| Autosave (`canvas-autosave.js`, `canvas-save-state.js`) | local recovery copy, dirty flags | capture, restore, promote | edits during a save |
| Accounts, limits, describe, AI, editor UI | rows, caches, DOM | single statements, pure functions | nothing that runs in several steps |

Components interact by calls inside one server process (routes call presence,
store and keys), by HTTP between client and routes, and by the event streams
that presence keeps open. What makes each of them correct:

- collaboration: a lease belongs to somebody connected, a commit under a lease
  is on the current version, unsaved work is not lost by joining or leaving,
  only authorised writers write;
- store: a compare-and-swap register in effect; the pointer always names a body
  that exists; every body that is kept can be decrypted;
- keys: all writers of a canvas use one key;
- uploads: a record is created once although an attempt is retried;
- relay: each request has one outcome.

## The modules

### Presence

`Presence.tla` models one scope (a canvas of one org). The exported functions of
`canvas-presence.js` are synchronous, so each is one action; what interleaves is
the routes around them:

- a subscription reads the store and the role (`StartSubscribe`), awaits, and
  seeds and subscribes in one step (`Subscribe`);
- a commit carries leases the client was given earlier (`SendFieldCommit`,
  `CommitFieldValues`); a contributor's fill is validated, awaits Salesforce,
  and is validated again (`ValidateSlotFill`);
- a field-lock request may read the store and put one record back
  (`StartRepair`, `RepairRecord`);
- a save takes the payload, awaits the store and the audit, and then broadcasts
  (`SendSave`, `StoreSave`, `BroadcastCanvasSaved`); "Save anyway" carries no
  expected version.

| Variable | Code |
|---|---|
| `conns`, `role`, `idle` | `_presenceByCanvas` and its entries |
| `joining` | a subscribe request between its awaits |
| `lock`, `version` | `_fieldLocksByCanvas`, `_fieldVersionsByCanvas` |
| `request` | a commit on its way, with the leases it presents |
| `revision`, `durable`, `live`, `orphan` | `_revisionByCanvas`, `_liveSnapshotsByCanvas`, `_orphanedLiveSnapshotsByCanvas` |
| `stored`, `save`, `repair` | the stored canvas and the requests that read or write it |
| `event` | what the last step broadcast; it tells the action properties who wrote what |

Data is abstracted to what the properties tell apart: a field's value is the
revision that wrote it, a record request is a set of (user, field) pairs, clocks
are countdowns that `Tick` moves, random identifiers are those nothing refers to
any more. Positions and relationships are not modelled, the revisions they take
are. A canvas that the server refuses to keep live (`_validLiveSnapshot`: malformed,
over 5000 records or 5 MB) is a member of the constant `InvalidPayload`. A
subscription that brings one is accepted all the same, and may be connected to a
scope without a live payload; a repair from one does nothing; the broadcast of a save
with one counts the revision as durable and leaves the live payload as it is.
Sequence numbers, the limits of single requests, visibility filtering and the projected
snapshots of recipients are left out; they only refuse or narrow what is sent.
A promotion that gives a card a new identity is modelled in place. A save sends
the live payload, or where there is none the canvas that was opened, with a card taken
out or not, which stands for any edit of it (`Shown`); a client whose view lags behind
sends an older one, and the findings below hold a fortiori.

`LeaseRegister.tla` is the abstract specification of the leases: keys that clients
hold, and edits of several keys, each applied only if its author has held all of them
ever since preparing it. `Presence` maps a (reference, field) pair to a key and a
commit in flight to an edit, and forgets identifiers, clocks, cards and roles. Two
references of one card are two keys, as they are in the code.

`MCPresence.tla` holds the instances, `PresenceProofs.tla` the proofs.

### CanvasStore

`CanvasStore.tla` models one canvas in Salesforce and the requests that save,
update, open and remove it, with its data key. Here the awaits are the point, so
every call to Salesforce or the database is one action; the steps between two
calls run to completion and belong to the action of the call before them.

| Variable | Code |
|---|---|
| `record`, `lives` | the `Orgloom_Canvas__c` record (its id and the body it points at); how many records there have been |
| `bodies`, `links`, `nextDoc` | the body documents with the key each is encrypted with; the `ContentDocumentLink`s; the creation dates |
| `keyRow` | the row of `canvas_keys` |
| `cache` | `_kekCache`, per process and session |
| `queue` | `_updateLocks`, per process: the promises chained by `_acquireUpdateLock`, the first of which runs |
| `pc`, `expected`, `seen`, `new`, `key`, `victims` | a request: its next call and its local variables |

`update` is `RequestUpdate` (which queues), `ReadRecord`, `ReadDocument`,
`CheckVersion`, `GetKey`, `MintKey`, `AdoptKey`, `CreateBody`, `LinkBody`,
`IndexBody`, `ListBodies`, `PruneBodies`, with `UndoBody` for the two catch
blocks; `save` goes from `StartSave` to `AttachBody`, with `UndoSave` and
`UndoKey`; `remove` from `StartRemove` to `DropRecord`; `get` is `Open`. The
faults a run admits are in the constant `Fault`: a call is `refused` before it
acts (`Refuse`; a batch may also be destroyed in part), or it acts and its answer
is `lost` (`Answer`), or the process dies between two calls (`Crash`).

Left out: a document's content (a body is the key it is encrypted with), the
wrapping of keys by Salesforce, names and sharing, batches of more than 200
documents. Documents are numbered in the order of their creation, so two never
have the same creation date. A listing may be too old to show the body just
linked; that is the only staleness of Salesforce that is modelled. `get` reads the row and fills the cache in one step. `list` and
`countOwned` change nothing and have no action.

`CanvasRegister.tla` is the abstract specification: a register whose clients ask
with the version they expect (or with none) and whose value is swapped at one
moment or not at all. `CanvasStore` implements it under the mapping

    current <- the body the record points at, if that exists
    asked   <- the updates whose upsert is still ahead, with what they expect

so that the upsert (`IndexBody`) is the swap, and everything before and after it
a stutter or a refusal. If answers may be lost (`Lossy`) the register may lose
its value: the cleanup of an upsert that acted destroys the body in use.

`MCCanvasStore.tla` holds the instances, `CanvasStoreProofs.tla` the proofs.

### CanvasSync

`CanvasSync.tla` models the browsers of one canvas (`public/js/presence.js`) and
as much of the server as they talk to: what they believe to be the live canvas,
through event streams, snapshots and answers that overtake each other.

| Variable | Code |
|---|---|
| `client[c]` | a browser: `view` (`canvasState.bulkRecords`), `base` (`_lastBroadcast...`), `told` (what the server is known to have), `queue`, `active`, `inFlight`, `failed` (`_mutationQueue` and its keys), `latest`, `gap` (`_latestAppliedRevision`, `_hasRevisionGap`), the generation of the subscription, the events held back while a snapshot is applied, `known` (cards whose object is among `selectedObjects`), `creating` (creations that await `addToSelection`), `dirty`, `resume`, `presence` (`_resumeCanvasWasDirty` and its companions) |
| `stream`, `held`, `refresh`, `syncing` | the event stream of a connection; what the server holds back while it projects a snapshot for it; `_scheduleLiveSnapshotRefresh` |
| `conn`, `lastSequence`, `lease` | connections, `_acceptSequence`, field leases |
| `live`, `revision` | the live payload and its revision |

A browser edits (`Edit`), publishes what differs from its baselines (`Tick`, one
request under way at a time), hears answers (`Answer`, `AnswerField`) and events
(`Receive`), creates a peer's card once its object is fetched or drops it when the
fetch fails (`FetchDone`, `FetchFail`; events that come meanwhile do not wait), applies a snapshot over several steps while events queue behind it
(`FinishSnapshot`, `FailSnapshot`), loses its stream and comes back (`Drop`,
`Resubscribe`). The server takes a call and answers it (`Handle`, `LoseCall`),
and delivers snapshots to those whose view must be projected (`Refresh`,
`DeliverSnapshot`, `DeliverUnavailable`). `Restart` is a new server process.

Cards are drafts with one value each. Left out: layouts, slots, links, loaded
records, saves, cursors and focus; the projection of a recipient's view is the
identity, apart from the time it takes; the lease of a field commit is acquired
in the step that commits; a dialog waits for its answer.

Words of the server carry its process (`instance`), which the code's events do not:
it lets the properties tell what an earlier process said. A browser takes such a word
for news, in the model as in the code (a late answer, an event queued behind a
snapshot), so that its revisions count changes of two processes; its `since`, the
revision of the last snapshot, is then 0 until the next snapshot, and the properties
about revisions ask for `since > 0`. `told`, `since`, `overrun`, `wrote` and `adrift`
are history: they decide nothing that a browser does.

`MCCanvasSync.tla` holds the instances, `CanvasSyncProofs.tla`,
`CanvasSyncGapsProofs.tla` and `CanvasSyncReadersProofs.tla` the proofs.

### Contributions

`Contributions.tla` models one record request on a shared canvas: a contributor
whose submissions become records in Salesforce, and an owner whose tabs open,
edit, reload and save the canvas. Every call to Salesforce is an action.

| Variable | Code |
|---|---|
| `stored`, `live`, `dirty` | the saved canvas with its version; the live payload; whether `live.revision` is past `durableRevision` |
| `version`, `rows` | the field versions of the scope; the `Canvas_Contribution__c` records in the order of `Submitted_At__c` |
| `fill` | a request of the slot-fill route: checked, `submit` (list, supersede, create, share, or destroy), then the live commit |
| `open` | `GET /api/canvas/:id`: `listPending`, the merge, `markMerged` or `markSuperseded`, the answer |
| `save` | `PUT /api/canvas/:id`: `listPending`, `store.update`, `markMerged`, `broadcastCanvasSaved` |
| `page` | a tab: its canvas, `currentCanvas.versionId`, `_acknowledgedContributionIds`, its stream |
| `missed` | history only, see below |

A value is the number of the entry that wrote it, so that the later of two can be
told. A call may fail, act unheard, or act on some of its records.

Left out: requests for whole records, relationship fields, contributions that do
not decrypt, saves by editors. There is one contributor with one request at a
time, whose tab keeps the scope open; the server does not restart; an update of
the store is the swap that `CanvasRegister` promises; what `GET` awaits after it
has read the live payload belongs to its answer; and the broadcast of a save
belongs to its answer. The owner may edit a field that
the contributor holds a lease on, which stands for a lease that has run out.

`missed` holds pairs of a record and a field: what a payload lacks (`Lacks`: it is
`Behind` the record in the field) at one of the steps where the code loses it. Pairs,
since a payload may lack one field of a record that another payload lacks as a whole;
a history of records would excuse a loss that none of its steps had caused.

`MCContributions.tla` holds the instances, `ContributionsProofs.tla` the proofs.

### UploadAttempt

`UploadAttempt.tla` models the upload of drafts to Salesforce by the three routes
(graph, bulk, REST) and the dialog that sends them and must find out what became
of them. `UploadOnce.tla` is the abstract promise: a draft is free, possibly
written, or linked to its one record; `UploadAttempt` implements it on the graph
route, where a draft is free if no unanswered attempt of the journal names it.

On the server a request claims its attempt id (`Claim`), looks the attempt up in
the ledger (`Lookup`), writes its intent (`Intend`), sends batches each of which
is checkpointed before it is sent (`Send`, `Receive`), and finalizes or settles
the ledger (`Finish`, `StopGraph`, `SettleKnownNoCommit`). Salesforce executes
what was sent at any time (`Execute`). In the browser `ConfirmUpload` first asks
for the attempts that were never answered (`StartRecovery`, `Recover`), then
posts; replies are lost (`LoseReply`), refused (`OnRejected`), interrupted
(`OnInterrupted`), fall back to REST or bulk (`FallBack`) or are reconciled by
the drafts' tempIds (`Reconcile`); the page may reload (`Reload`).

What a handler takes an answer to say is in `Reported`. The answer to a graph request may
leave out graphs, or single records of a graph that was committed. The results of a bulk
job are two lists fetched after it: without the first every record counts as failed, and
rows that look alike, or a second list that is missing, leave the number of those made
right but not which they are.

| Variable | Code |
|---|---|
| `rows`, `wire`, `answers` | Salesforce: the records, the writes on their way to it, the answers on their way back |
| `ledger`, `claims` | the ledger of an upload with what was checkpointed and confirmed; `_activeUploadAttempts` |
| `h`, `reply` | a handler and its HTTP reply |
| `phase`, `cur`, `sel`, `attempt`, `left` | the dialog: what it does, the request it waits for, the drafts in scope, `_uploadAttemptId`, the attempts still to look up |
| `journal`, `linked` | the journal in session storage; `loadedFromId` of the drafts |

The constant `Faults` switches on what a run admits: `early close` (the connection
closes and releases the claim while the handler still writes), `rest answer` (a
REST record whose answer is lost is reported as failed), `reload`, `forget` (the
user deletes a ledger), and `broken recovery` (a look-up throws after others
succeeded).

`MCUpload.tla` holds the instances, `UploadProofs.tla` and `UploadRoutesProofs.tla`
the proofs.

## The runs

| Run | Question | Instance | Result |
|---|---|---|---|
| `presence_leases` | do leases, commits and authorisation hold together under every interleaving of the routes' awaits, as the register of leases promises? | owner and contributor, one card under two references, four lease ids, two revisions | holds |
| `presence_handoff` | what becomes of unsaved work while people come and go? | owner and editor in two workspaces, one card, two revisions, one save; a canvas that shows the last revision is too large for the server | holds |
| `presence_liveness` | do leases and handoffs end? | two cards, two workspaces, timers of two ticks, one repair | holds |
| `presence_save_durable` | does a save mark the matching snapshot durable? | as `presence_handoff`, one reference | violated |
| `store_register` | do concurrent updates amount to compare-and-swap? | three updates in one process, five documents, retention 3, refusals and crashes | holds |
| `store_keys` | can every kept body be decrypted? | two processes, two sessions, five keys, every fault | holds |
| `store_life` | do updates stay serial among saves and removals, and is each one answered? | two requests in one process, three documents, refusals and crashes | holds |
| `store_removal` | can a removal leave an unreadable canvas? | two requests, no fault at all | violated |
| `sync` | is what a browser shows as synchronized the live canvas, and does its queue move? | two browsers, two cards, four revisions, two edits each, one fault | holds |
| `contributions` | is a contribution forgotten only when what it holds is saved? | one field, one tab, two submissions, two entries, three versions, one fault | holds |
| `upload_graph` | is a draft written once, whatever is lost? | two requests, two attempts, two drafts in two batches; early close, reload, forget | holds |
| `upload_routes` | does an attempt id keep a retry by another route from writing again, and does every upload end? | three requests, two attempts, one draft, lost REST answers, bulk results that are not fetched or assigned wrongly | holds |

The passing runs reach between about 10^5 and 4.2 million distinct states; the
longest, `presence_leases` with its refinement, takes two to three minutes. Lost
answers of Salesforce are in `store_keys`, `contributions` and the upload runs;
`store_register` leaves them out, as its register then may lose its value (`Lossy`).

### Properties

Presence. `LeasesOfConnected`: a lease never outlives its connection.
`LeaseBaseCurrent`: a lease carries the current version of its field.
`ImplementsLeases`: the refinement of `LeaseRegister`, so that a commit is applied
only under leases held ever since it was sent.
`RevisionsOrdered`: durable revision, live payload and versions never lie ahead of
the scope. `LeasedFieldStable`: nobody writes a field somebody else holds a lease
on. `WritersAuthorised`: who writes may do so at that moment, not when the
request came in. `OrphanIsAbandoned`: a handoff is pending only while nobody is
connected. `UnsavedWorkSurvives`: unsaved work, removals included, is changed only by
an edit and given up only by a save, a purge or an ended handoff; a repair
(`PutBack`) may put back the one card it is for while that card is missing, a card
that somebody has removed included, and may touch no other.
`SubscribersKeepLiveView`: whoever is connected keeps a live payload, and who comes is
given one, with two exceptions: the server refuses the canvas a subscriber brings and
there is no other, or discards it with the abandoned work of another workspace.
`HandoffEnds`, `LeaseEnds`: both come to an end.

Store. `UpdatesSerialised`, `UpdatesEnd`: the lock excludes, and is always
passed on. `FailedLinkSparesPointer`: a failed link never strands the pointer.
`PruneKeepsNewest`: pruning keeps the newest bodies, whatever the listing showed.
`BodiesDecryptable`: no interleaving of minted, cached and persisted keys leaves
a body that the row's key does not open. `ImplementsRegister`: the refinement.

Sync. `GapsNoticed`: a browser that has reached the server's revision and has no
gap flagged was told the newest value of every card. `ReadersAgree`: if its user
has written nothing, its canvas is the live payload, with three exceptions in which
the code does leave it otherwise: events left to replay that a second snapshot contains
(`overrun`); a card whose creation awaits its object, or was overtaken by other events
or dropped since the last snapshot (`Loose`); a browser on which such a creation put a
card twice (`wrote`). `CurrentNeverStale`: the
sequence numbers of the server drop only requests that the browser has given up.
`QueueMoves`: a queue waits only for a request that is under way.

Contributions. `MergedIsSaved`: of each record that is marked as merged, what it
holds for a field, or an entry made after it, is on the saved canvas: an entry that
was only ever live does not count. `AcknowledgedIsShown`: what a tab acknowledges, or
a later entry, is on its canvas, and the acknowledgements a save sends are of the
moment its payload was taken. `MergeOnBase`: an open that merges changes the
saved canvas in nothing but the contributions it applies.

Both except the fields that the history variable `missed` collects at the
steps where they are lost. Each is a way in which the code does lose a contribution:

- a tab holds the current version and shows less than the saved canvas: `GET`
  puts unsaved live work in place of the saved canvas (`canvas-routes.js:1894`),
  which another open may have merged contributions into; or a second tab of the
  owner learns the version of the first one's save (`presence.js:2390`);
- the broadcast of a save, or the seed of a stale subscription, takes a live
  commit, or the owner's entry over it, off the live canvas that arrived in between;
- "Save anyway";
- a record that stayed `Submitted`, because the results of an update are not
  looked at, is merged over a later one.

Uploads. `OneRowPerDraft`: no draft has two records. `FreeDraftIsUnwritten`: a
draft the dialog would send anew has none. `LinkedIsOwn`: a draft is linked to a
record made from it. `LedgerIsTrue`, `SettledIsUnwritten`, `IntentFirst`,
`RecoveryIsFinal`: what the ledger reports was written, what it settles was not,
whatever may have been sent is named before, and what recovery has told a dialog
stays true until the ledger it read is removed. `ImplementsOnce`: the refinement.
`OneRowPerAttempt`: on all routes, two requests of one attempt write no draft twice, with two exceptions: REST or bulk
reported all records of one of the two as failed though it had made some (a lost
answer, or a list of results that could not be fetched), or a ledger of the attempt was
settled as without commit. So one record that is reported as made protects the whole
request. It speaks of one attempt because three requests show that bulk and
REST, which keep no journal, write anew what an attempt wrote whose id the dialog has
dropped.
`UploadEnds`: every upload comes back to the user.

### Bounds

- Presence: `MaxRevision` (1 or 2) caps the changes to a scope: two let an edit
  meet the result of another one, as every property here relates at most two.
  `MaxSaves` and `MaxRepairs` (0 or 1) cap requests that are independent of each
  other. `LeaseTicks`, `IdleTicks` and `HandoffTicks` (1 or 2) only need to order
  the timers. The handoff run has no repair, since two subscribers, a save and a repair at a
  time are too many states; `presence_liveness` checks repairs against the same
  property. `LargePayloads` makes every canvas with a card of revision `MaxRevision` too
  large, so that each of seeds and saves is met both accepted and refused; the other
  runs refuse none. Two connections suffice since a lease has one holder and a
  contender. `LeaseId` is finite; an id nothing refers to is used again.
- Store: `MaxDoc` (2 to 5) caps the documents ever created, `Retention` (2 or 3)
  is less than that wherever pruning matters. `DataKey` holds enough keys for
  every request, cache and row to have its own, so that none is reused while it is held.
  Three updates are the fewest at which one runs, one waits, and one has left the
  queue and asks again.
- Sync: `MaxRevision` (4), `MaxEdits` (2 for each browser), `MaxConns` (2),
  `MaxSequence` and `MaxFaults` (1). A gap needs two revisions, a queue that is
  thrown away a third, an event behind a snapshot a fourth. The one fault may be a
  fetch that fails; a fetch that ends late is none. Larger instances, up
  to 11 million states (more revisions, two faults, three edits), were explored
  without a violation.
- Contributions: `MaxWrites` (2), `MaxFills` (2), `MaxVersion` (3), `MaxFaults` (1).
  Two entries are an earlier and a later one; three versions a merge and a save
  that race. Explored without a violation: two fields (5 million states), three
  entries and four versions (21 million), and two tabs (more than 20 million, not
  to the end).
- Uploads: two requests are an attempt and its retry, two drafts in two batches an
  attempt that stops half-way. On all routes three requests are needed for a settled
  ledger beside an uploaded one; there a draft is enough, as claims and ledgers are
  of whole attempts. That run draws requests and attempt ids in one order (`InTurn`):
  the specification only compares them, so of the behaviours that differ in their names
  only one is left, and each behaviour that is left is whole; without the constraint
  the run has 2.5 million states and holds as well. Two drafts with two requests were
  explored (2.5 million states), and three requests with two drafts to 34 million
  states, not to the end.
- Symmetry is used for fields, drafts, lease ids and data keys, which the specifications only
  compare, and never in a liveness run.

All but the `Presence*.cfg` set `CHECK_DEADLOCK FALSE`: documents, entries and
requests are bounded, nobody is obliged to ask for anything, and a canvas that
has been removed stays so.

### Fairness

`Presence` assumes weak fairness of the clock and of the two sweeps, which the
interval timer of `canvas-presence.js` drives; no client is obliged to do
anything. `CanvasStore` assumes weak fairness of the calls of each request: a call
is answered, refused, or throws, as every call to Salesforce does in the end. A
fault is never obliged to happen, nor is a new request. `UploadAttempt` assumes
weak fairness of each handler and of the dialog: calls to Salesforce and to the
server end in an answer or an error, and the dialog acts on either. The other
specifications state no fairness and no liveness.

## What is proved

All theorems hold for all values of the constants that satisfy the named
assumptions: any number of connections, users and cards (`ConstantsAssumption`,
`TimersAssumption`, `NoneAssumption` of `Presence`), of requests, processes and
sessions (`StoreAssumption`), of browsers, cards and values (`ClientAssumption`,
`StoredAssumption`, `BoundAssumption`, and `NoneAssumption`: no snapshot is `None`), of fields, tabs, submissions, versions and
failing calls (`ContributionsAssumption`), and of drafts, canvases, requests and
attempts (`CapAssumption`, `RoutesAssumption`, `FaultsAssumption`, `NoneAssumption`
of `UploadAttempt`). The bounds of the runs are constants, so that a theorem holds
for every bound.

`PresenceProofs.tla`. `TypeCorrect` proves `TypeOK`. The invariants of leases are
inductive only together: `LeaseInv` = `LeasesOfConnected`, `LeaseBaseCurrent`,
`PresentedLeaseCurrent` (a request that presents a standing lease was prepared on the
current version). A commit may move a version only because the lease it
consumes was current, and requests stay current only because whatever moves a
version ends the lease. Steps that only end leases or let them age are treated by
one lemma (`LeasesShrink`). `ScopeInv` = `RevisionsOrdered`, `OrphanIsAbandoned`
is inductive over `TypeOK`. The action properties (`WritersAlwaysAuthorised`,
`LeasedFieldsAlwaysStable`, `UnsavedWorkAlwaysSurvives`, `SubscribersAlwaysKeepLiveView`)
have one lemma per action and rest on the types and these invariants.

`PresenceImplementsLeases` maps the scope to `LeaseRegister`, step by step: a lease of
a field is the hold on a key, a request in flight is an edit, and a key is lost to an
edit once the lease that the request presents stands no more. The core is
`DropsEdits`: a lease stands for a request exactly as long as its connection goes on
holding the field, since no fresh identifier is one that a request still presents
(`StepAcquires`). The register compares no versions; `RegisterEditsCurrent` proves
from the register alone that an edit which may still be applied was nevertheless made
on the current versions. The comparison of base versions in `_validateFieldCommit` is
thus never decisive for a client that presents a lease as it was given. `NoneAssumption` says that no
connection, lease or request is `None`.

`CanvasStoreProofs.tla`. The inductive invariant comes in layers:

- `TypeInv`: `TypeOK`, and which local variables a request has set at each of
  its calls (`StageInv`), without which the upsert could not be seen to write a
  document rather than `None`. It gives `TypeCorrect`.
- `LockInv`: a queue names each request once and only those that wait or run
  (`QueuesSound`); whoever is past its first read is at the head. It gives
  `UpdatesAlwaysSerialised`.
- `DocInv`: the document a request has created is older than the next one,
  nobody else's, and is not pointed at while it is still to be linked. It gives
  `FailedLinksSparePointer` with saves, removals and all faults.
- `KeyInv`: while a canvas stays saved, each key in use or cached is the row's,
  except a key being minted. It gives `BodiesAlwaysDecryptable`, for any number
  of processes that share nothing.
- `RegisterInv`: what an update has read still holds at each of its later calls,
  because the lock is its own.

The last two theorems, `StoreImplementsRegister` and `PruningKeepsNewest`, assume
`OneProcess`, as the code does: its lock is in the memory of one process. The
refinement has one lemma per call, each of which maps to a swap, an ask, a giving
up or a stutter. `PruningKeepsNewest` needs a lemma on cardinalities
(`NewestBesidesMaximum`): the newest n of a set are its maximum and the newest
n - 1 of the rest.

`BodiesAlwaysDecryptable`, `StoreImplementsRegister` and `PruningKeepsNewest` are
about `UpdateSpec`, the canvas between its save and its removal. With removals
they are false: `store_removal` shows it for the first.

`CanvasSyncProofs.tla`. `TypeCorrect` and two theorems about the queue of a browser,
which rest on `CallsInv`:

- `QueueInv`: all that is queued is of the current generation; one mutation of it is
  under way if and only if `active` is set; what else is under way is older. It gives
  `QueueAlwaysMoves`.
- `SequenceInv`: the last number the server has taken is none the browser has not
  given out, and the mutation under way carries the highest one; `ConnInv`:
  connections are numbered upwards, so that a number of one is not compared with
  those of another. They give `NumbersNeverStale`.

The replay of queued events is a function defined by recursion over a sequence of any
length. That it keeps an invariant is proved without an induction theorem: if some
prefix broke it there would be a shortest one (`Smallest`, from the well-order of the
naturals), and its last event would break it (`NoneLeft`, `AfterStays`).

`CanvasSyncGapsProofs.tla` proves `GapsAlwaysNoticed`. What the server wrote is a
history `H` of payloads by revision, and `GapInv` says that there is an `H` of which
every word of the server is true, wherever it waits - in a stream, held back,
projected, queued behind a snapshot, in an answer -, unless it is the word of an
earlier process. Then a browser without a gap has seen every change since its
snapshot: what it was told of a card is what the card has been from then up to the
latest revision it has seen (`KnowsAll`). A mutation extends `H` by the new payload, a
restart begins it anew. `FromStored` says where a process begins: the first at the
stored canvas and its revision, the others with nothing saved. So the only snapshot
after revision 0 against which an owner's browser keeps its own canvas (`Resumes`) is
that of the stored canvas.

`CanvasSyncReadersProofs.tla` proves `ReadersAlwaysAgree` over the same `H`. `ReadInv`
adds, for each client,

- `Order`: in the stream and behind a projection, changes are newer than the words
  before them, snapshots included;
- `Waits`: of the changes a browser keeps for a replay no two are of one revision, and
  those that came while a snapshot was applied are newer than it. What a nested
  snapshot leaves behind is so too unless `overrun` says otherwise, which is why
  `ReadersAgree` excepts it;
- for a browser whose user only reads, `Reader`: all that is still to come is newer
  than what it keeps; it sends nothing once it knows the canvas of this process
  (`Steady`); and while it has no gap, what it shows is `H` at its latest revision, and
  every change to come is above that (`Reads`); all but the cards in `Loose`, which
  a card leaves with its creation only if it then shows what the browser was told last:
  by `KnowsAll` that is what `H` has.

Then each event is the next revision, shows a gap, or was never needed. Sorting by
revision is what makes a replay keep `Reads`: its lemmas (`Sorted`, `ReplayReader`) need
only that the revisions are distinct. That a snapshot
replaces the canvas of a reader needs `Resumable`: one with a canvas to resume gets no
snapshot of the stored canvas any more.

`ContributionsProofs.tla`. The invariant comes in layers; each is what keeps the next:

- `TypeInv`: `TypeOK`, and which fields of a submission are set at each of its calls;
- `EntriesInv`, `FillInv`, `EarlyInv`: entries are numbered upwards, and no payload
  and no record, wherever it waits, has an entry that is not made yet. Hence a record
  is newer than all that was taken before it, and what a payload lacks it lacked;
- `VersionsInv`: nobody knows a version that the saved canvas does not have yet;
- `OpenInv`, `AcksInv`: what an open merges is on the payload it stores and answers
  with, and what a tab acknowledges and waits is among what its own open merges;
- `Quiet`: what a record holds for a field that the owner has written since, while no
  tab acknowledges the record and nobody is about to forget it. Such a record may reach
  the store after the owner's entry, so that payloads lack what others are past; it can
  no longer be shown live, only merged by an open, which stores it. `Steady` says that
  payloads come to lack nothing else, and that what is quiet stays so until then;
- `ShownInv`: for each tab, its canvas, the payload of its save, and what it will
  hear of that save (`PageOk`, `SaveOk`, `HereOk`) show all that it acknowledges and
  that waits; and the saved canvas shows all records that are marked as merged or are
  about to be (`Forgotten`).

They give `MergeAlwaysOnBase`, `MergedAlwaysSaved` and `AcknowledgedAlwaysShown`.

`UploadProofs.tla`. `TypeCorrect` holds for all routes and faults. The other theorems
assume `GraphOnly`: the graph route alone, no `broken recovery`, and tempIds unique
within a canvas. Each excludes a case in which the argument breaks down: bulk and REST
keep no journal, a look-up that throws ends the recovery with attempts that were not
looked up, and a draft with the tempId of another is taken for it. The inductive `UploadInv` has a part for each request (`RequestInv`: the stage of its
handler, its writes under way, its ledger, its reply) and one for the dialog
(`ClientInv`: the attempts it remembers, its drafts, the journal). It says that of the
requests of an attempt at most one that was not rejected can have written; that the
journal names the attempt of the only request that may have written a draft; and that
a ledger knows no more than its handler. A step of the server concerns one request,
and leaves all others apart (`Apart`, `Keeps`). From it follow `RecordsNeverDoubled`,
`FreeDraftsStayUnwritten`, `LinkedAlwaysOwn`, `LedgersAlwaysTrue`,
`IntentAlwaysFirst`, `SettledStaysUnwritten`, `RecoveryAlwaysFinal`, and, step by
step, the refinement `UploadsImplementOnce`.

`UploadRoutesProofs.tla` proves `RetriesNeverDouble` for all routes together, under
`ClaimsKept`: no `early close` and no `forget`. With the first a claim ends before its
handler, and a retry passes the look-up before the first request has written its
pending ledger; with the second the ledger in its way is gone. `RoutesInv` says for
each request what it has still to write and that what it has written keeps its ledger
(`SafeInv`, but for requests whose records were all reported as failed), that an attempt is claimed by one request at a time (`ClaimsInv`), and
that two requests of an attempt both pass the look-up only if one was settled
(`PairInv`).

### Only model-checked

`HandoffEnds`, `LeaseEnds`, `UpdatesEnd` and `UploadEnds`: liveness needs `ENABLED`,
which the proof system does not support. The findings are counterexamples. Every
other property of the runs is stated by a theorem.
No specification here declares a recursive operator.

## Findings

1. A save marks later edits durable (`presence_save_durable`). `broadcastCanvasSaved` runs after
   two awaits and marks the revision the scope has by then; an edit made
   meanwhile is counted as durable and leaves the live payload.
2. A removal races an update (`store_removal`). `remove` takes no lock; the
   upsert of an update under way recreates the record, pointing at a body whose
   key is gone.

Both are in `PROJECT.json` with the line of the code and the sentence they contradict.

Other weaknesses are in the models, and the passing runs exclude them by name or
by instance; the hazards say where:

- Presence: a subscriber from another workspace loses the payload its own request
  seeded, and one whose canvas the server refuses to keep live is connected without a
  live payload; a save of such a canvas counts its revision as durable though nobody
  is shown it; a repair brings back a card whose removal was not saved; leases are kept per reference, so two references of one card give two
  editors of a field.
- Store: a lost answer of an upsert costs the current body (the `Lossy` register);
  a save that fails after its upsert leaves a record with neither body nor key.
- Sync: a change whose request fails after a field commit has reseeded the
  baselines is never sent again, though the user is told that it will be
  (`presence.js:213`, `:3066`); while a peer's new card waits for its object, changes
  of it are dropped and its removal is undone, and a fetch that fails loses it, each
  with the revision counted as seen (`:2184`); gaps below the first revision go unnoticed (`:91`);
  what waits behind a nested snapshot is replayed over it; a refresh snapshot taken
  before one's own edit and applied after its answer takes the edit off the canvas.
- Contributions: the four losses above, and a resubmission that fills other fields
  or fails after it has superseded the earlier one, which forgets the earlier values.
- Uploads: bulk and REST keep no journal; either may report records as failed that it
  made, and if these are all of a request its ledger is removed and a retry makes them
  again (`sf-bulk.js:184`, `canvas-routes.js:3790`, `:5649`); bulk may give the id of
  one draft to another that looks alike; an early close releases the claim of a
  handler that still writes, and a bulk or REST retry then writes beside it; a draft
  of another canvas with the same tempId may be taken for the one that was
  uploaded; a refusal with 503 (`canvas-routes.js:1550`) leaves its drafts journaled
  under an attempt that nothing recovers.

## Not modelled

`PROJECT.json` lists every component. Out of scope for good: the editor's user
interface, describe, SOQL and formula parsing, AI calls, start-up, and demonstration data, none
of which has a protocol of several steps. Accounts, limits and grants are single
statements against a database.

## What is left

In the order in which it would add most:

1. `Relay`: waiters, timeouts and reconnects of the MCP relay; each request has
   one outcome. Proposals and their states beside it.
2. `Autosave`: capture, restore and promotion of the local copy; composed with
   the save of `Presence`.
3. The recall of an upload, and its order of dependent records as a pure algorithm
   against a reference.
4. `TokenRefresh`: a rotating refresh token and concurrent requests.
5. `AuditChain`: concurrent appends to a chain.

The liveness properties have no theorem and cannot have one with this prover.
