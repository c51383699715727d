--------------------------- MODULE Contributions ---------------------------
(***************************************************************************)
(* A record request of a shared canvas: the contributor's submissions, the *)
(* rows of Canvas_Contribution__c that keep them, and the three ways a     *)
(* submitted value reaches the canvas: live, by the merge of an owner who  *)
(* opens the canvas, and by the save of an owner who saw it live.          *)
(*                                                                         *)
(* Every call to Salesforce is an action, and the code between two calls   *)
(* belongs to the one before it. A value is the number of the entry that   *)
(* wrote it, so of two values the larger was entered later.                *)
(***************************************************************************)
EXTENDS Naturals, Sequences

CONSTANTS
    Field,      \* the fields the request asks for
    Page,       \* the owner's browser tabs
    MaxWrites,  \* values entered, by the contributor and by the owner
    MaxFills,   \* submissions among them
    MaxVersion, \* versions of the saved canvas
    MaxFaults,  \* calls to Salesforce that fail or whose answer is lost
    None

ASSUME ContributionsAssumption ==
    /\ MaxWrites \in Nat /\ MaxFills \in Nat /\ MaxVersion \in Nat \ {0} /\ MaxFaults \in Nat
    /\ None \notin Nat

VARIABLES
    stored,   \* the saved canvas: its payload and its version
    live,     \* the server's live payload
    dirty,    \* whether the live payload is ahead of the last save
    version,  \* the version of each field on the live canvas
    rows,     \* the contribution records, in the order of Submitted_At__c
    fill,     \* the contributor's request under way
    page,     \* the owner's tabs
    open,     \* the requests of the tabs that open the canvas
    save,     \* the requests of the tabs that save it
    writes, faults,
    missed    \* history: what a tab was shown, or a save overwrote, without

canvasVars == <<stored, live, dirty, version>>
counters == <<writes, faults, missed>>
vars == <<canvasVars, rows, fill, page, open, save, counters>>

Payload == [slot : BOOLEAN, value : [Field -> 0..MaxWrites]]
Values == UNION {[F -> 1..MaxWrites] : F \in SUBSET Field}
RowIds == 1..Len(rows)
Status == {"Submitted", "Superseded", "Merged", "Destroyed"}

Blank == [slot |-> TRUE, value |-> [f \in Field |-> 0]]
Saved == [payload |-> Blank, version |-> 1]

NoFill == [pc |-> "idle", values |-> [f \in {} |-> 0], base |-> [f \in {} |-> 0],
           live |-> FALSE, previous |-> {}, row |-> 0]
NoOpen == [pc |-> "idle", item |-> Saved, merged |-> Blank, applied |-> {}, skipped |-> {}]
NoSave == [pc |-> "idle", payload |-> Blank, expected |-> None, acks |-> {}, pending |-> {},
           done |-> {}, version |-> 1, here |-> FALSE]
Closed == [at |-> "closed", view |-> Blank, expected |-> None, acks |-> {}, read |-> Blank]

Item == [payload : Payload, version : 1..MaxVersion]
Expected == {None} \cup 1..MaxVersion
Rows == [values : Values, status : Status, shared : BOOLEAN]
Fills == [pc : {"idle", "sent", "list", "supersede", "create", "share", "undo", "commit"},
          values : Values, base : UNION {[F -> 0..MaxWrites] : F \in SUBSET Field},
          live : BOOLEAN, previous : SUBSET RowIds, row : 0..Len(rows)]
Pages == [at : {"closed", "loaded", "joining", "connected"}, view : Payload,
          expected : Expected, acks : SUBSET RowIds, read : Payload]
Opens == [pc : {"idle", "list", "merge", "mark", "supersede", "answer"}, item : Item,
          merged : Payload, applied : SUBSET RowIds, skipped : SUBSET RowIds]
Saves == [pc : {"idle", "pending", "store", "conflict", "mark", "broadcast"}, payload : Payload,
          expected : Expected, acks : SUBSET RowIds, pending : SUBSET RowIds,
          done : SUBSET RowIds, version : 1..MaxVersion, here : BOOLEAN]

TypeOK ==
    /\ stored \in Item /\ live \in Payload /\ dirty \in BOOLEAN
    /\ version \in [Field -> 0..MaxWrites]
    /\ rows \in Seq(Rows) /\ Len(rows) <= MaxFills
    /\ fill \in Fills /\ DOMAIN fill.base = DOMAIN fill.values
    /\ page \in [Page -> Pages]
    /\ open \in [Page -> Opens]
    /\ save \in [Page -> Saves] /\ \A p \in Page : save[p].pending \subseteq save[p].acks
    /\ writes \in 0..MaxWrites /\ faults \in 0..MaxFaults /\ missed \subseteq RowIds \X Field

Init ==
    /\ stored = Saved /\ live = Blank /\ dirty = FALSE
    /\ version = [f \in Field |-> 0]
    /\ rows = <<>> /\ fill = NoFill
    /\ page = [p \in Page |-> Closed]
    /\ open = [p \in Page |-> NoOpen]
    /\ save = [p \in Page |-> NoSave]
    /\ writes = 0 /\ faults = 0 /\ missed = {}

Fault == faults < MaxFaults /\ faults' = faults + 1

-----------------------------------------------------------------------------
\* The contribution records.

Write(value, values) == [f \in Field |-> IF f \in DOMAIN values THEN values[f] ELSE value[f]]

\* What the owner's query returns: the records that are shared with the owner.
Pending == {i \in RowIds : rows[i].status = "Submitted" /\ rows[i].shared}

\* The records of the contributor's own that wait.
Previous == {i \in RowIds : rows[i].status = "Submitted"}

\* A record that is destroyed takes no update.
Exists(i) == rows[i].status # "Destroyed"
Marked(ids, status) ==
    [i \in RowIds |-> IF i \in ids /\ Exists(i) THEN [rows[i] EXCEPT !.status = status] ELSE rows[i]]

Latest(ids) == CHOOSE i \in ids : \A j \in ids : j <= i

\* Applies the records ids in their order; a request that is gone takes none.
Applied(payload, ids) ==
    LET Over(f) == {i \in ids : f \in DOMAIN rows[i].values}
    IN  IF ~payload.slot THEN payload
        ELSE [payload EXCEPT !.value =
                 [f \in Field |-> IF Over(f) = {} THEN @[f] ELSE rows[Latest(Over(f))].values[f]]]

-----------------------------------------------------------------------------
\* History.

\* Neither what row i holds for field f nor a later entry is on a payload.
Behind(payload, i, f) ==
    /\ f \in DOMAIN rows[i].values
    /\ payload.value[f] < rows[i].values[f]

Lacks(payload) == {x \in RowIds \X Field : Behind(payload, x[1], x[2])}

\* A tab has the current version and shows less than the saved canvas.
Blind(p) == IF page[p].expected = stored.version THEN Lacks(page[p].view) \ Lacks(stored.payload) ELSE {}

Misses(lost) == missed' = missed \cup lost \cup UNION {Blind(p)' : p \in Page}

-----------------------------------------------------------------------------
\* The contributor.

Step(pc) == fill' = [fill EXCEPT !.pc = pc]
Fails == fill' = NoFill

\* The contributor submits the fields F, over the live canvas with leases or not.
SendFill(F, isLive) ==
    /\ fill.pc = "idle" /\ F # {}
    /\ writes < MaxWrites /\ Len(rows) < MaxFills
    /\ writes' = writes + 1
    /\ fill' = [NoFill EXCEPT !.pc = "sent", !.live = isLive, !.values = [f \in F |-> writes + 1],
                              !.base = [f \in F |-> version[f]]]
    /\ UNCHANGED <<canvasVars, rows, page, open, save, faults, missed>>

\* The leases are still the contributor's when nobody wrote the fields since.
LeasesHold == live.slot /\ \A f \in DOMAIN fill.base : version[f] = fill.base[f]

\* The route checks the request in the live or in the saved payload.
AcceptFill ==
    /\ fill.pc = "sent"
    /\ IF fill.live THEN LeasesHold ELSE stored.payload.slot
    /\ Step("list")
    /\ UNCHANGED <<canvasVars, rows, page, open, save, counters>>

RefuseFill ==
    /\ fill.pc = "sent"
    /\ ~(IF fill.live THEN LeasesHold ELSE stored.payload.slot)
    /\ Fails
    /\ UNCHANGED <<canvasVars, rows, page, open, save, counters>>

ListPrevious ==
    /\ fill.pc = "list"
    /\ fill' = [fill EXCEPT !.previous = Previous, !.pc = IF Previous = {} THEN "create" ELSE "supersede"]
    /\ UNCHANGED <<canvasVars, rows, page, open, save, counters>>

\* The results of the update are not looked at: some of the records may stay.
SupersedePrevious(ids) ==
    /\ fill.pc = "supersede"
    /\ ids \subseteq fill.previous
    /\ IF ids = fill.previous THEN UNCHANGED faults ELSE Fault
    /\ rows' = Marked(ids, "Superseded")
    /\ Step("create")
    /\ UNCHANGED <<canvasVars, page, open, save, writes, missed>>

CreateRow ==
    /\ fill.pc = "create"
    /\ rows' = Append(rows, [values |-> fill.values, status |-> "Submitted", shared |-> FALSE])
    /\ fill' = [fill EXCEPT !.row = Len(rows) + 1, !.pc = "share"]
    /\ UNCHANGED <<canvasVars, page, open, save, counters>>

ShareRow ==
    /\ fill.pc = "share"
    /\ rows' = [rows EXCEPT ![fill.row].shared = TRUE]
    /\ IF fill.live THEN Step("commit") ELSE Fails
    /\ UNCHANGED <<canvasVars, page, open, save, counters>>

\* A share that fails, or whose answer is lost, takes the record back.
ShareFails(acted) ==
    /\ fill.pc = "share"
    /\ Fault
    /\ rows' = [rows EXCEPT ![fill.row].shared = acted]
    /\ Step("undo")
    /\ UNCHANGED <<canvasVars, page, open, save, writes, missed>>

DestroyRow ==
    /\ fill.pc = "undo"
    /\ rows' = Marked({fill.row}, "Destroyed")
    /\ Fails
    /\ UNCHANGED <<canvasVars, page, open, save, counters>>

\* Any other call of the request fails, and the contributor is told so.
FillFails ==
    /\ fill.pc \in {"list", "supersede", "create", "undo"}
    /\ Fault
    /\ Fails
    /\ UNCHANGED <<canvasVars, rows, page, open, save, writes, missed>>

\* The answer to the creation is lost: the record stays, shared with nobody.
CreateUnheard ==
    /\ fill.pc = "create"
    /\ Fault
    /\ rows' = Append(rows, [values |-> fill.values, status |-> "Submitted", shared |-> FALSE])
    /\ Fails
    /\ UNCHANGED <<canvasVars, page, open, save, writes, missed>>

\* The live commit, which the tabs of the owner that are connected see and note.
CommitLive ==
    /\ fill.pc = "commit"
    /\ Fails
    /\ IF LeasesHold
       THEN /\ live' = [live EXCEPT !.value = Write(@, fill.values)]
            /\ version' = Write(version, fill.values)
            /\ dirty' = TRUE
            /\ page' = [p \in Page |->
                   IF page[p].at # "connected" THEN page[p]
                   ELSE [page[p] EXCEPT !.view.value = Write(@, fill.values),
                                        !.acks = @ \cup {fill.row}]]
       ELSE UNCHANGED <<live, version, dirty, page>>
    /\ UNCHANGED <<stored, rows, open, save, counters>>

-----------------------------------------------------------------------------
\* The owner opens the canvas: GET /api/canvas/:id.

Requests(p) == open' = [open EXCEPT ![p] = [NoOpen EXCEPT !.pc = "list", !.item = stored]]

StartOpen(p) ==
    /\ page[p].at = "closed" /\ open[p].pc = "idle"
    /\ Requests(p)
    /\ UNCHANGED <<canvasVars, rows, fill, page, save, counters>>

\* A conflict is answered with a reload, which leaves the stream and keeps the
\* acknowledgements.
Reload(p) ==
    /\ save[p].pc = "conflict"
    /\ save' = [save EXCEPT ![p] = NoSave]
    /\ page' = [page EXCEPT ![p] = [Closed EXCEPT !.acks = page[p].acks]]
    /\ Requests(p)
    /\ UNCHANGED <<canvasVars, rows, fill, counters>>

ListPending(p) ==
    /\ open[p].pc = "list"
    /\ LET due == IF open[p].item.payload.slot THEN Pending ELSE {}
       IN  open' = [open EXCEPT ![p] =
               [@ EXCEPT !.applied = due, !.skipped = Pending \ due,
                         !.merged = Applied(open[p].item.payload, due),
                         !.pc = CASE due # {} -> "merge" [] due = {} /\ Pending # {} -> "supersede"
                                  [] OTHER -> "answer"]]
    /\ UNCHANGED <<canvasVars, rows, fill, page, save, counters>>

\* A failure anywhere in the merge leaves the canvas that was read as the answer.
Gives(p) == open' = [open EXCEPT ![p].pc = "answer", ![p].applied = {}]

\* What an earlier contribution that still waits is merged over.
MergedOver(p) == IF stored.version = open[p].item.version THEN Lacks(open[p].merged) \ Lacks(stored.payload) ELSE {}

\* Mutant of MergePending: the update does not name the version that was read.
MergeBlindly(p) ==
    /\ open[p].pc = "merge"
    /\ stored.version < MaxVersion
    /\ stored' = [payload |-> open[p].merged, version |-> stored.version + 1]
    /\ open' = [open EXCEPT ![p].pc = "mark"]
    /\ UNCHANGED <<live, dirty, version, rows, fill, page, save, writes, faults>>
    /\ Misses(MergedOver(p))

MergePending(p) ==
    /\ open[p].pc = "merge"
    /\ IF stored.version = open[p].item.version
       THEN /\ stored.version < MaxVersion
            /\ stored' = [payload |-> open[p].merged, version |-> stored.version + 1]
            /\ open' = [open EXCEPT ![p].pc = "mark"]
       ELSE Gives(p) /\ UNCHANGED stored
    /\ UNCHANGED <<live, dirty, version, rows, fill, page, save, writes, faults>>
    /\ Misses(MergedOver(p))

\* The update acts and its answer is lost.
MergeUnheard(p) ==
    /\ open[p].pc = "merge"
    /\ Fault
    /\ stored.version = open[p].item.version /\ stored.version < MaxVersion
    /\ stored' = [payload |-> open[p].merged, version |-> stored.version + 1]
    /\ Gives(p)
    /\ UNCHANGED <<live, dirty, version, rows, fill, page, save, writes>>
    /\ Misses(MergedOver(p))

\* The results of the update are not looked at: some of the records may stay.
MarkMerged(p, ids) ==
    /\ open[p].pc = "mark"
    /\ ids \subseteq open[p].applied
    /\ IF ids = open[p].applied THEN UNCHANGED faults ELSE Fault
    /\ rows' = Marked(ids, "Merged")
    /\ open' = [open EXCEPT ![p] =
           [@ EXCEPT !.item = [payload |-> open[p].merged, version |-> open[p].item.version + 1],
                     !.pc = "answer"]]
    /\ UNCHANGED <<canvasVars, fill, page, save, writes, missed>>

MarkSuperseded(p) ==
    /\ open[p].pc = "supersede"
    /\ rows' = Marked(open[p].skipped, "Superseded")
    /\ open' = [open EXCEPT ![p].pc = "answer"]
    /\ UNCHANGED <<canvasVars, fill, page, save, counters>>

\* A call of the merge fails before it acts, or marks the records unheard.
OpenFails(p, acted) ==
    /\ open[p].pc \in {"list", "merge", "mark", "supersede"}
    /\ Fault
    /\ acted => open[p].pc = "mark"
    /\ rows' = IF acted THEN Marked(open[p].applied, "Merged") ELSE rows
    /\ Gives(p)
    /\ UNCHANGED <<canvasVars, fill, page, save, writes, missed>>

\* Unsaved live work goes before the saved canvas, unless something was merged.
AnswerOpen(p) ==
    /\ open[p].pc = "answer"
    /\ page' = [page EXCEPT ![p] =
           [@ EXCEPT !.at = "loaded", !.expected = open[p].item.version,
                     !.view = IF dirty /\ open[p].applied = {} THEN live ELSE open[p].item.payload]]
    /\ open' = [open EXCEPT ![p] = NoOpen]
    /\ UNCHANGED <<canvasVars, rows, fill, save, writes, faults>>
    /\ Misses({})

-----------------------------------------------------------------------------
\* The owner's tab: the stream, edits, and leaving.

StartSubscribe(p) ==
    /\ page[p].at = "loaded"
    /\ page' = [page EXCEPT ![p].at = "joining", ![p].read = stored.payload]
    /\ UNCHANGED <<canvasVars, rows, fill, open, save, counters>>

\* The owner's copy replaces a live payload without unsaved work, and the tab
\* shows the live payload.
Subscribe(p) ==
    /\ page[p].at = "joining"
    /\ live' = IF dirty THEN live ELSE page[p].read
    /\ page' = [page EXCEPT ![p] = [@ EXCEPT !.at = "connected", !.view = live', !.read = Blank]]
    /\ UNCHANGED <<stored, dirty, version, rows, fill, open, save, writes, faults>>
    /\ Misses(Lacks(live') \ Lacks(live))

Disconnect(p) ==
    /\ page[p].at = "connected"
    /\ page' = [page EXCEPT ![p].at = "loaded"]
    /\ UNCHANGED <<canvasVars, rows, fill, open, save, counters>>

Close(p) ==
    /\ page[p].at \in {"loaded", "connected"}
    /\ page' = [page EXCEPT ![p] = Closed]
    /\ save' = [save EXCEPT ![p] = IF @.pc = "conflict" THEN NoSave ELSE [@ EXCEPT !.here = FALSE]]
    /\ UNCHANGED <<canvasVars, rows, fill, open, counters>>

\* The owner writes a field, or takes the request back; other tabs see it.
Changed(payload, slot, values) == [slot |-> payload.slot /\ slot, value |-> Write(payload.value, values)]

Edits(p, slot, values) ==
    /\ page[p].at = "connected"
    /\ live' = Changed(live, slot, values)
    /\ dirty' = TRUE
    /\ page' = [q \in Page |-> IF page[q].at = "connected"
                               THEN [page[q] EXCEPT !.view = Changed(@, slot, values)] ELSE page[q]]
    /\ UNCHANGED <<stored, rows, fill, open, save, faults, missed>>

EditField(p, f) ==
    /\ writes < MaxWrites
    /\ writes' = writes + 1
    /\ version' = [version EXCEPT ![f] = writes + 1]
    /\ Edits(p, TRUE, [g \in {f} |-> writes + 1])

Withdraw(p) ==
    /\ page[p].view.slot
    /\ UNCHANGED <<version, writes>>
    /\ Edits(p, FALSE, [f \in {} |-> 0])

-----------------------------------------------------------------------------
\* The owner saves: PUT /api/canvas/:id.

\* The tab takes its payload and the contributions it saw arrive in one step.
StartSave(p) ==
    /\ page[p].at \in {"loaded", "joining", "connected"} /\ save[p].pc = "idle"
    /\ save' = [save EXCEPT ![p] =
           [NoSave EXCEPT !.payload = page[p].view, !.expected = page[p].expected,
                          !.acks = page[p].acks, !.here = TRUE,
                          !.pc = IF page[p].acks = {} THEN "store" ELSE "pending"]]
    /\ UNCHANGED <<canvasVars, rows, fill, page, open, counters>>

\* Mutant of ReadPending: every contribution that waits counts as saved.
ReadAllPending(p) ==
    /\ save[p].pc = "pending"
    /\ save' = [save EXCEPT ![p].pending = Pending, ![p].pc = "store"]
    /\ UNCHANGED <<canvasVars, rows, fill, page, open, counters>>

\* Mutant of ReadPending: the acknowledgements are those of now.
ReadPendingLate(p) ==
    /\ save[p].pc = "pending"
    /\ save' = [save EXCEPT ![p].pending = Pending \cap page[p].acks, ![p].pc = "store"]
    /\ UNCHANGED <<canvasVars, rows, fill, page, open, counters>>

\* Of the contributions that wait, those the tab saw are in its payload.
ReadPending(p) ==
    /\ save[p].pc = "pending"
    /\ save' = [save EXCEPT ![p].pending = Pending \cap save[p].acks, ![p].pc = "store"]
    /\ UNCHANGED <<canvasVars, rows, fill, page, open, counters>>

PendingUnread(p) ==
    /\ save[p].pc = "pending"
    /\ Fault
    /\ save' = [save EXCEPT ![p].pc = "store"]
    /\ UNCHANGED <<canvasVars, rows, fill, page, open, writes, missed>>

IsCurrent(p) == save[p].expected \in {None, stored.version}

Puts(p) ==
    /\ IsCurrent(p)
    /\ stored.version < MaxVersion
    /\ stored' = [payload |-> save[p].payload, version |-> stored.version + 1]

\* What "Save anyway" saves over.
SavedOver(p) == IF save[p].expected = None THEN Lacks(save[p].payload) ELSE {}

StoreSave(p) ==
    /\ save[p].pc = "store"
    /\ Puts(p)
    /\ save' = [save EXCEPT ![p].version = stored.version + 1,
                            ![p].pc = IF save[p].pending = {} THEN "broadcast" ELSE "mark"]
    /\ UNCHANGED <<live, dirty, version, rows, fill, page, open, writes, faults>>
    /\ Misses(SavedOver(p))

\* The update fails, or acts and its answer is lost.
SaveFails(p, acted) ==
    /\ save[p].pc = "store"
    /\ Fault
    /\ IF acted THEN Puts(p) ELSE UNCHANGED stored
    /\ save' = [save EXCEPT ![p] = NoSave]
    /\ UNCHANGED <<live, dirty, version, rows, fill, page, open, writes>>
    /\ Misses(IF acted THEN SavedOver(p) ELSE {})

RefuseSave(p) ==
    /\ save[p].pc = "store" /\ ~IsCurrent(p)
    /\ save' = [save EXCEPT ![p] = IF @.here THEN [@ EXCEPT !.pc = "conflict"] ELSE NoSave]
    /\ UNCHANGED <<canvasVars, rows, fill, page, open, counters>>

\* "Save anyway" sends the first request again, without a version.
SaveAnyway(p) ==
    /\ save[p].pc = "conflict"
    /\ save' = [save EXCEPT ![p] = [@ EXCEPT !.expected = None, !.pending = {},
                                             !.pc = IF save[p].acks = {} THEN "store" ELSE "pending"]]
    /\ UNCHANGED <<canvasVars, rows, fill, page, open, counters>>

CancelSave(p) ==
    /\ save[p].pc = "conflict"
    /\ save' = [save EXCEPT ![p] = NoSave]
    /\ UNCHANGED <<canvasVars, rows, fill, page, open, counters>>

\* `done` is what the answer names: nothing unless every record was marked.
MarkSaved(p, ids) ==
    /\ save[p].pc = "mark"
    /\ ids \subseteq save[p].pending
    /\ IF ids = save[p].pending THEN UNCHANGED faults ELSE Fault
    /\ rows' = Marked(ids, "Merged")
    /\ save' = [save EXCEPT ![p].pc = "broadcast",
           ![p].done = IF ids = save[p].pending /\ \A i \in ids : Exists(i) THEN ids ELSE {}]
    /\ UNCHANGED <<canvasVars, fill, page, open, writes, missed>>

\* The payload that was saved becomes the live one; the connected tabs of the
\* owner take its version, the tab that saved also the names of what was marked.
BroadcastCanvasSaved(p) ==
    /\ save[p].pc = "broadcast"
    /\ live' = save[p].payload
    /\ dirty' = FALSE
    /\ page' = [q \in Page |->
           LET told == page[q].at = "connected" \/ (q = p /\ save[p].here)
           IN  [page[q] EXCEPT !.expected = IF told THEN save[p].version ELSE @,
                               !.acks = IF q = p /\ save[p].here THEN @ \ save[p].done ELSE @]]
    /\ save' = [save EXCEPT ![p] = NoSave]
    /\ UNCHANGED <<stored, version, rows, fill, open, writes, faults>>
    /\ Misses(Lacks(live') \ Lacks(live))

-----------------------------------------------------------------------------
Contribute ==
    \/ \E F \in SUBSET Field, isLive \in BOOLEAN : SendFill(F, isLive)
    \/ AcceptFill \/ RefuseFill \/ ListPrevious
    \/ \E ids \in SUBSET fill.previous : SupersedePrevious(ids)
    \/ CreateRow \/ ShareRow \/ DestroyRow \/ FillFails \/ CreateUnheard \/ CommitLive
    \/ \E acted \in BOOLEAN : ShareFails(acted)

OpenCanvas(p) ==
    \/ StartOpen(p) \/ Reload(p) \/ ListPending(p) \/ MergePending(p) \/ MergeUnheard(p)
    \/ \E ids \in SUBSET open[p].applied : MarkMerged(p, ids)
    \/ MarkSuperseded(p) \/ AnswerOpen(p)
    \/ \E acted \in BOOLEAN : OpenFails(p, acted)

Work(p) ==
    \/ StartSubscribe(p) \/ Subscribe(p) \/ Disconnect(p) \/ Close(p) \/ Withdraw(p)
    \/ \E f \in Field : EditField(p, f)

SaveCanvas(p) ==
    \/ StartSave(p) \/ ReadPending(p) \/ PendingUnread(p) \/ StoreSave(p) \/ RefuseSave(p)
    \/ SaveAnyway(p) \/ CancelSave(p) \/ BroadcastCanvasSaved(p)
    \/ \E acted \in BOOLEAN : SaveFails(p, acted)
    \/ \E ids \in SUBSET save[p].pending : MarkSaved(p, ids)

Next == Contribute \/ \E p \in Page : OpenCanvas(p) \/ Work(p) \/ SaveCanvas(p)

Spec == Init /\ [][Next]_vars

-----------------------------------------------------------------------------
\* What a contribution that is marked merged holds for a field, or an entry made after
\* it, is on the saved canvas: a record may be forgotten only when it is saved, however
\* the merge of one tab and the saves of others interleave. Excepted are the fields that
\* the code loses, noted in `missed` at the step that loses them: a tab is told of the
\* version of a saved canvas that has what the tab does not show; a broadcast or a late
\* subscription takes off the live canvas what came to it since; "Save anyway"; and the
\* merge of an earlier contribution that still waits over a later one.
MergedIsSaved == \A x \in Lacks(stored.payload) \ missed : rows[x[1]].status # "Merged"

\* The merge of a tab that opens the canvas changes the saved canvas in nothing but
\* the contributions it applies: the canvas it read before two awaits is still the
\* saved one, or the merge is given up.
MergeOnBase ==
    [][\A p \in Page :
          (open[p].pc = "merge" /\ open'[p].pc # "merge" /\ stored' # stored) =>
              stored'.payload = Applied(stored.payload, open[p].applied)]_vars

\* What a contribution that waits holds, or an entry made after it, is on the canvas of
\* each tab that has the current version and acknowledges it; and so is what a save is
\* about to forget in the payload it stores: payload and acknowledgements are of one
\* moment, whatever arrives during the awaits. The fields in `missed` are excepted.
AcknowledgedIsShown ==
    \A p \in Page :
        /\ (page[p].at # "closed" /\ page[p].expected = stored.version) =>
               \A x \in Lacks(page[p].view) \ missed : x[1] \notin page[p].acks \cap Previous
        /\ (save[p].pc = "store" /\ save[p].expected = stored.version) =>
               \A x \in Lacks(save[p].payload) \ missed : x[1] \notin save[p].pending
=============================================================================
