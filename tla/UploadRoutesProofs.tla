-------------------------- MODULE UploadRoutesProofs --------------------------
(* Safety of the uploads by any route: what the claims on attempt ids, the        *)
(* pending ledger and its look-up promise to the requests of one attempt, for     *)
(* every set of drafts, requests and attempts.                                    *)
EXTENDS UploadProofs

\* A claim is held until its handler has ended, and ledgers are not deleted by hand.
ClaimsKept == Faults \cap {"early close", "forget"} = {}

-----------------------------------------------------------------------------
(* The invariant *)

Active(r) == h[r].pc \in {"claimed", "cleared", "writing", "waiting"}
Kept(r) == ledger[r].status \in {"pending", "uploaded"}

\* From its look-up on, a request stands in the way of others of its attempt.
Holds(r) == h[r].pc = "cleared" \/ Kept(r)

\* What a handler has still to write, and what it knows of the rest.
ProgressInv(r) ==
    /\ h[r].todo \subseteq h[r].drafts
    /\ h[r].sent \cup h[r].failed \subseteq h[r].drafts \ h[r].todo
    /\ h[r].pc \in {"unsent", "new", "claimed", "cleared"} =>
           h[r].todo = h[r].drafts /\ ledger[r].status = "none"
    /\ h[r].pc = "writing" => h[r].sent = {}
    /\ h[r].pc \in {"writing", "waiting"} =>
           /\ ledger[r].status = "pending"
           /\ h[r].drafts \subseteq h[r].todo \cup h[r].sent \cup h[r].confirmed \cup h[r].failed

\* A draft is written once by a request; only REST and bulk report as failed what
\* was written, or still may be.
OnceInv(r) ==
    /\ \A d \in Draft : Written(r, d) => d \in h[r].drafts \ h[r].todo
    /\ \A w \in wire : w[1] = r => \A d \in w[2] :
           ~Row(r, d) /\ \A v \in wire : v[1] = r /\ d \in v[2] => v = w
    /\ \A a \in answers : a.req = r =>
           /\ a.told \subseteq a.drafts /\ (h[r].mode # "graph" => a.told = a.drafts)
           /\ a.drafts \subseteq h[r].drafts \ h[r].todo
           /\ \A d \in a.drafts : ~OnWire(r, d) /\ (Row(r, d) <=> d \in a.made)
    /\ h[r].mode = "graph" => \A d \in h[r].failed : ~Written(r, d)

\* What a request has written keeps its ledger in the way of a retry.
KeptInv(r) == \A d \in Draft : Written(r, d) => Kept(r) \/ Misreported(r, d)

SafeInv(r) == ProgressInv(r) /\ OnceInv(r) /\ KeptInv(r)

\* An attempt id is claimed by the one request of it that is handled.
ClaimsInv ==
    /\ claims = {r \in Request : Active(r)}
    /\ \A q, r \in claims : h[q].attempt = h[r].attempt => q = r

\* No two requests of an attempt pass the look-up, unless one was settled.
PairInv ==
    \A q, r \in Request :
        q # r /\ h[q].attempt = h[r].attempt /\ Holds(q) /\ Holds(r) => Settled(h[r].attempt)

RoutesInv == (\A r \in Request : SafeInv(r)) /\ ClaimsInv /\ PairInv

-----------------------------------------------------------------------------
(* What one step of the handler of r does *)

Free(r) == \A q \in claims : h[q].attempt # h[r].attempt
Passed(r) ==
    /\ h[r].pc = "claimed"
    /\ FindByAttemptId(h[r].attempt) = {} \/ Settled(h[r].attempt)

Stepped(r) ==
    /\ Apart(r) /\ SafeInv(r)'
    /\ h'[r].attempt = h[r].attempt
    /\ ledger[r].status = "failed" => ledger'[r].status = "failed"
    /\ claims' = IF Active(r)' THEN claims \cup {r} ELSE claims \ {r}
    /\ Active(r)' => Active(r) \/ Free(r)
    /\ Holds(r)' => Holds(r) \/ Passed(r)

LEMMA ApartSafe ==
    ASSUME NEW r, Apart(r), NEW q \in Request \ {r}, SafeInv(q)
    PROVE  SafeInv(q)'
  <1>1. /\ h'[q] = h[q] /\ ledger'[q] = ledger[q]
        /\ \A d : Row(q, d)' <=> Row(q, d)
        /\ \A w : w[1] = q => (w \in wire' <=> w \in wire)
        /\ \A a \in answers' : a.req = q => a \in answers
    BY DEF Apart
  <1>2. \A d : OnWire(q, d)' <=> OnWire(q, d)
    BY <1>1 DEF OnWire
  <1>3. ProgressInv(q)'
    BY <1>1 DEF SafeInv, ProgressInv
  <1>4. OnceInv(q)'
    BY <1>1, <1>2 DEF SafeInv, OnceInv, Written
  <1>5. KeptInv(q)'
    BY <1>1, <1>2 DEF SafeInv, KeptInv, Written, Kept, Misreported
  <1>. QED BY <1>3, <1>4, <1>5 DEF SafeInv

\* A step of the handler of r that writes nothing and reads no answer.
LEMMA OnceKeep ==
    ASSUME NEW r \in Request, OnceInv(r), rows' = rows, wire' = wire, answers' \subseteq answers,
           h'[r].drafts = h[r].drafts, h'[r].todo = h[r].todo,
           h'[r].mode = h[r].mode, h'[r].failed = h[r].failed
    PROVE  OnceInv(r)'
  BY DEF OnceInv, Written, OnWire, Row

\* A handler that only goes on to pc, with what its ledger becomes.
LEMMA MoveSafe ==
    ASSUME TypeOK, NEW r \in Request, SafeInv(r), NEW pc,
           h' = [h EXCEPT ![r].pc = pc], UNCHANGED salesforce,
           \A q \in Request \ {r} : ledger'[q] = ledger[q] /\ reply'[q] = reply[q],
           \/ pc = "done"
           \/ /\ pc \in {"claimed", "cleared"} /\ h[r].pc \in {"new", "claimed"}
              /\ ledger'[r].status = "none"
           \/ pc = "writing" /\ h[r].pc = "cleared" /\ ledger'[r].status = "pending",
           \A d \in Draft : Written(r, d) => Kept(r)' \/ Misreported(r, d)
    PROVE  Apart(r) /\ SafeInv(r)' /\ h'[r].pc = pc /\ h'[r].attempt = h[r].attempt
  <1>0. UNCHANGED <<rows, wire, answers>>
    BY DEF salesforce
  <1>1. /\ h'[r] = [h[r] EXCEPT !.pc = pc]
        /\ \A q \in Request \ {r} : h'[q] = h[q]
    BY DEF TypeOK
  <1>2. h[r] \in Handler
    BY DEF TypeOK
  <1>3. /\ h'[r].drafts = h[r].drafts /\ h'[r].todo = h[r].todo /\ h'[r].sent = h[r].sent
        /\ h'[r].confirmed = h[r].confirmed /\ h'[r].failed = h[r].failed
        /\ h'[r].attempt = h[r].attempt /\ h'[r].mode = h[r].mode /\ h'[r].pc = pc
    BY <1>1, <1>2 DEF Handler
  <1>4. ProgressInv(r)'
    BY <1>3 DEF SafeInv, ProgressInv
  <1>5. OnceInv(r)'
    BY <1>0, <1>3, OnceKeep DEF SafeInv
  <1>6. KeptInv(r)'
    BY <1>0, <1>3 DEF KeptInv, Written, Row, OnWire, Misreported
  <1>7. Apart(r)
    BY <1>0, <1>1 DEF Apart, Row
  <1>. QED BY <1>3, <1>4, <1>5, <1>6, <1>7 DEF SafeInv

\* The end of a handler that has sent nothing.
LEMMA RefuseStep ==
    ASSUME TypeOK, NEW r \in Request, SafeInv(r), h[r].pc \in {"new", "claimed", "cleared"},
           h' = [h EXCEPT ![r].pc = "done"], UNCHANGED <<salesforce, ledger>>,
           \A q \in Request \ {r} : reply'[q] = reply[q], claims' = claims \ {r}
    PROVE  Stepped(r)
  <1>1. \A d \in Draft : ~Written(r, d)
    BY DEF SafeInv, ProgressInv, OnceInv
  <1>2. Apart(r) /\ SafeInv(r)' /\ h'[r].pc = "done" /\ h'[r].attempt = h[r].attempt
    BY <1>1, MoveSafe
  <1>. QED BY <1>2 DEF Stepped, Active, Holds, Kept

LEMMA RefuseReply ==
    ASSUME TypeOK, NEW r \in Request, NEW kind, Refuse(r, kind)
    PROVE  h' = [h EXCEPT ![r].pc = "done"] /\ \A q \in Request \ {r} : reply'[q] = reply[q]
  BY RespondEffect DEF Refuse

LEMMA EarlyStep ==
    ASSUME TypeOK, NEW r \in Request, SafeInv(r), r \notin claims, RefuseEarly(r)
    PROVE  Stepped(r)
  BY RefuseReply, RefuseStep DEF RefuseEarly, salesforce

LEMMA ClaimStep ==
    ASSUME TypeOK, NEW r \in Request, SafeInv(r), r \notin claims, Claim(r)
    PROVE  Stepped(r)
  <1>1. h[r].pc = "new" /\ UNCHANGED <<salesforce, ledger>>
    BY DEF Claim
  <1>2. CASE Refuse(r, "unavailable") /\ UNCHANGED claims
    BY <1>1, <1>2, RefuseReply, RefuseStep
  <1>3. CASE /\ Free(r)
             /\ claims' = claims \cup {r}
             /\ h' = [h EXCEPT ![r].pc = "claimed"]
             /\ UNCHANGED reply
    <2>1. (\A d \in Draft : ~Written(r, d)) /\ ledger'[r].status = "none"
      BY <1>1 DEF SafeInv, ProgressInv, OnceInv
    <2>2. Apart(r) /\ SafeInv(r)' /\ h'[r].pc = "claimed" /\ h'[r].attempt = h[r].attempt
      BY <1>1, <1>3, <2>1, MoveSafe
    <2>. QED BY <1>1, <1>3, <2>1, <2>2 DEF Stepped, Active, Holds, Kept
  <1>. QED BY <1>2, <1>3 DEF Claim, Free

LEMMA LookupStep ==
    ASSUME TypeOK, NEW r \in Request, SafeInv(r), r \in claims, Lookup(r)
    PROVE  Stepped(r)
  <1>1. h[r].pc = "claimed" /\ UNCHANGED <<salesforce, ledger>>
    BY DEF Lookup
  <1>2. ASSUME h' = [h EXCEPT ![r].pc = "done"], \A q \in Request \ {r} : reply'[q] = reply[q],
               claims' = Unclaim(r)
        PROVE  Stepped(r)
    BY <1>1, <1>2, RefuseStep DEF Unclaim
  <1>3. ASSUME NEW kind, Refuse(r, kind), claims' = Unclaim(r) PROVE Stepped(r)
    BY <1>2, <1>3, RefuseReply
  <1>4. ASSUME NEW made, Respond(r, "results", made, {}, FALSE), h' = [h EXCEPT ![r].pc = "done"],
               claims' = Unclaim(r)
        PROVE  Stepped(r)
    BY <1>2, <1>4, RespondEffect
  <1>5. CASE /\ \/ FindByAttemptId(h[r].attempt) = {}
                \/ \E l \in FindByAttemptId(h[r].attempt) : ledger[l].status = "failed"
             /\ h' = [h EXCEPT ![r].pc = "cleared"]
             /\ UNCHANGED <<claims, reply>>
    <2>1. (\A d \in Draft : ~Written(r, d)) /\ ledger'[r].status = "none"
      BY <1>1 DEF SafeInv, ProgressInv, OnceInv
    <2>2. Apart(r) /\ SafeInv(r)' /\ h'[r].pc = "cleared" /\ h'[r].attempt = h[r].attempt
      BY <1>1, <1>5, <2>1, MoveSafe
    <2>3. Passed(r)
      BY <1>1, <1>5 DEF Passed, Settled, FindByAttemptId
    <2>. QED BY <1>1, <1>5, <2>1, <2>2, <2>3 DEF Stepped, Active
  <1>. QED BY <1>3, <1>4, <1>5 DEF Lookup

LEMMA IntendStep ==
    ASSUME TypeOK, NEW r \in Request, SafeInv(r), r \in claims, Intend(r)
    PROVE  Stepped(r)
  <1>1. h[r].pc = "cleared" /\ UNCHANGED salesforce
    BY DEF Intend
  <1>2. ASSUME NEW kind, Refuse(r, kind), claims' = Unclaim(r), UNCHANGED ledger
        PROVE  Stepped(r)
    BY <1>1, <1>2, RefuseReply, RefuseStep DEF Unclaim
  <1>3. CASE /\ ledger' = [ledger EXCEPT ![r].status = "pending"]
             /\ h' = [h EXCEPT ![r].pc = "writing"]
             /\ UNCHANGED <<claims, reply>>
    <2>1. \A q \in Request \ {r} : ledger'[q] = ledger[q] /\ reply'[q] = reply[q]
      BY <1>3 DEF TypeOK
    <2>2. ledger'[r].status = "pending"
      BY <1>3 DEF TypeOK, Ledger
    <2>3. Apart(r) /\ SafeInv(r)' /\ h'[r].pc = "writing" /\ h'[r].attempt = h[r].attempt
      BY <1>1, <1>3, <2>1, <2>2, MoveSafe DEF Kept
    <2>4. ledger[r].status = "none"
      BY <1>1 DEF SafeInv, ProgressInv
    <2>. QED BY <1>1, <1>3, <2>3, <2>4 DEF Stepped, Active, Holds
  <1>. QED BY <1>2, <1>3 DEF Intend

LEMMA DescribeStep ==
    ASSUME TypeOK, NEW r \in Request, SafeInv(r), DescribeFails(r)
    PROVE  Stepped(r)
  <1>1. /\ h[r].pc = "writing" /\ h[r].todo = h[r].drafts
        /\ UNCHANGED salesforce /\ claims' = claims \ {r}
    BY DEF DescribeFails, Unclaim
  <1>2. h' = [h EXCEPT ![r].pc = "done"] /\ \A q \in Request \ {r} : reply'[q] = reply[q]
    BY RefuseReply DEF DescribeFails
  <1>3. \A q \in Request \ {r} : ledger'[q] = ledger[q]
    BY SettleEffect DEF DescribeFails
  <1>4. \A d \in Draft : ~Written(r, d)
    BY <1>1 DEF SafeInv, OnceInv
  <1>5. Apart(r) /\ SafeInv(r)' /\ h'[r].pc = "done" /\ h'[r].attempt = h[r].attempt
    BY <1>1, <1>2, <1>3, <1>4, MoveSafe
  <1>6. ledger[r].status = "pending"
    BY <1>1 DEF SafeInv, ProgressInv
  <1>. QED BY <1>1, <1>5, <1>6 DEF Stepped, Active, Holds, Kept

\* A handler that waits or writes stays in the way of the others.
LEMMA BusyStep ==
    ASSUME NEW r \in Request, SafeInv(r), r \in claims, h[r].pc \in {"writing", "waiting"},
           Apart(r), SafeInv(r)', h'[r].attempt = h[r].attempt,
           \/ claims' = claims /\ h'[r].pc \in {"writing", "waiting"}
           \/ claims' = claims \ {r} /\ h'[r].pc = "done"
    PROVE  Stepped(r)
  <1>1. ledger[r].status = "pending"
    BY DEF SafeInv, ProgressInv
  <1>. QED BY <1>1 DEF Stepped, Active, Holds, Kept

\* An interrupted graph upload, with the progress s.
LEMMA StopStep ==
    ASSUME TypeOK, NEW r \in Request, SafeInv(r), r \in claims, h[r].pc \in {"writing", "waiting"},
           NEW s \in Handler, StopGraph(r, s),
           s.attempt = h[r].attempt, s.mode = h[r].mode, s.drafts = h[r].drafts,
           s.todo \subseteq h[r].todo, s.failed \subseteq h[r].drafts \ s.todo,
           \A d \in s.failed : ~Written(r, d),
           UNCHANGED <<rows, wire>>, answers' \subseteq answers
    PROVE  Stepped(r)
  <1>1. /\ h'[r] = [s EXCEPT !.pc = "done", !.sent = {}]
        /\ \A q \in Request \ {r} : h'[q] = h[q] /\ ledger'[q] = ledger[q] /\ reply'[q] = reply[q]
        /\ \/ ledger'[r] = ledger[r]
           \/ ledger[r].status = "pending" /\ ledger'[r].status = "pending"
    BY StopEffect
  <1>2. /\ h'[r].pc = "done" /\ h'[r].sent = {}
        /\ h'[r].drafts = h[r].drafts /\ h'[r].todo = s.todo /\ h'[r].failed = s.failed
        /\ h'[r].attempt = h[r].attempt /\ h'[r].mode = h[r].mode
    BY <1>1 DEF Handler
  <1>3. ledger[r].status = "pending" /\ ledger'[r].status = "pending"
    BY <1>1 DEF SafeInv, ProgressInv
  <1>4. \A d : (Row(r, d)' <=> Row(r, d)) /\ (OnWire(r, d)' <=> OnWire(r, d))
    BY DEF Row, OnWire
  <1>5. ProgressInv(r)'
    BY <1>2 DEF SafeInv, ProgressInv
  <1>6. OnceInv(r)'
    <2>1. \A d \in Draft : Written(r, d)' => d \in h'[r].drafts \ h'[r].todo
      BY <1>2, <1>4 DEF SafeInv, OnceInv, Written
    <2>2. \A w \in wire' : w[1] = r => \A d \in w[2] :
              ~Row(r, d)' /\ \A v \in wire' : v[1] = r /\ d \in v[2] => v = w
      BY <1>4 DEF SafeInv, OnceInv
    <2>3. \A a \in answers' : a.req = r =>
              /\ a.told \subseteq a.drafts /\ (h'[r].mode # "graph" => a.told = a.drafts)
              /\ a.drafts \subseteq h'[r].drafts \ h'[r].todo
              /\ \A d \in a.drafts : ~OnWire(r, d)' /\ (Row(r, d)' <=> d \in a.made)
      BY <1>2, <1>4 DEF SafeInv, OnceInv
    <2>4. \A d \in h'[r].failed : ~Written(r, d)'
      BY <1>2, <1>4 DEF Written
    <2>. QED BY <2>1, <2>2, <2>3, <2>4 DEF OnceInv
  <1>7. KeptInv(r)'
    BY <1>3 DEF KeptInv, Kept
  <1>8. Apart(r)
    BY <1>1 DEF Apart, Row
  <1>9. claims' = claims \ {r}
    BY DEF StopGraph, Unclaim
  <1>. QED BY <1>2, <1>5, <1>6, <1>7, <1>8, <1>9, BusyStep DEF SafeInv

LEMMA SendStep ==
    ASSUME TypeOK, NEW r \in Request, SafeInv(r), r \in claims, Send(r)
    PROVE  Stepped(r)
  <1>1. h[r].pc = "writing" /\ h[r] \in Handler /\ ledger[r].status = "pending"
    BY DEF Send, SafeInv, ProgressInv, TypeOK
  <1>2. PICK D \in NextWrites(r) :
            LET s == [h[r] EXCEPT !.pc = "waiting", !.todo = @ \ D, !.sent = D]
            IN  \/ /\ ledger' = IF h[r].mode = "graph" THEN Checkpoint(r, s, FALSE) ELSE ledger
                   /\ h' = [h EXCEPT ![r] = s]
                   /\ wire' = wire \cup {<<r, D>>}
                   /\ UNCHANGED <<rows, answers, claims, reply>>
                \/ h[r].mode = "graph" /\ StopGraph(r, s) /\ UNCHANGED salesforce
    BY DEF Send
  <1>. DEFINE s == [h[r] EXCEPT !.pc = "waiting", !.todo = @ \ D, !.sent = D]
  <1>3. D \subseteq h[r].todo
    BY <1>1 DEF NextWrites, GraphBatches, BulkJobs, SingleRecords, Handler
  <1>4. /\ s \in Handler /\ s.pc = "waiting" /\ s.sent = D /\ s.todo = h[r].todo \ D
        /\ s.drafts = h[r].drafts /\ s.confirmed = h[r].confirmed /\ s.failed = h[r].failed
        /\ s.attempt = h[r].attempt /\ s.mode = h[r].mode
    BY <1>1, <1>3 DEF Handler
  <1>. HIDE DEF s
  <1>5. CASE h[r].mode = "graph" /\ StopGraph(r, s) /\ UNCHANGED salesforce
    <2>1. s.failed \subseteq h[r].drafts \ s.todo /\ \A d \in s.failed : ~Written(r, d)
      BY <1>4, <1>5 DEF SafeInv, ProgressInv, OnceInv
    <2>. QED BY <1>1, <1>4, <1>5, <2>1, StopStep DEF salesforce
  <1>6. ASSUME ledger' = (IF h[r].mode = "graph" THEN Checkpoint(r, s, FALSE) ELSE ledger),
               h' = [h EXCEPT ![r] = s], wire' = wire \cup {<<r, D>>},
               UNCHANGED <<rows, answers, claims, reply>>
        PROVE  Stepped(r)
    <2>1. h'[r] = s /\ \A q \in Request \ {r} : h'[q] = h[q]
      BY <1>6 DEF TypeOK
    <2>2. ledger'[r].status = "pending" /\ \A q \in Request \ {r} : ledger'[q] = ledger[q]
      <3>1. CASE h[r].mode = "graph"
        BY <1>1, <1>6, <3>1, CheckpointEffect
      <3>2. CASE h[r].mode # "graph"
        BY <1>1, <1>6, <3>2
      <3>. QED BY <3>1, <3>2
    <2>3. \A d : /\ Row(r, d)' <=> Row(r, d)
                 /\ OnWire(r, d)' <=> OnWire(r, d) \/ d \in D
      <3>1. <<r, D>>[1] = r /\ <<r, D>>[2] = D
        OBVIOUS
      <3>2. \A d : OnWire(r, d)' <=> OnWire(r, d) \/ d \in D
        BY <1>6, <3>1 DEF OnWire
      <3>. QED BY <1>6, <3>2 DEF Row
    <2>4. \A d \in D : ~Written(r, d)
      BY <1>3, <1>1 DEF SafeInv, OnceInv, Handler
    <2>5. ProgressInv(r)'
      BY <1>1, <1>3, <1>4, <2>1, <2>2 DEF SafeInv, ProgressInv
    <2>6. OnceInv(r)'
      <3>1. \A d \in Draft : Written(r, d)' => d \in h'[r].drafts \ h'[r].todo
        BY <1>3, <1>4, <2>1, <2>3 DEF SafeInv, OnceInv, ProgressInv, Written
      <3>2. \A w \in wire' : w[1] = r => \A d \in w[2] :
                ~Row(r, d)' /\ \A v \in wire' : v[1] = r /\ d \in v[2] => v = w
        BY <1>6, <2>3, <2>4 DEF SafeInv, OnceInv, Written, OnWire
      <3>3. \A a \in answers' : a.req = r =>
                /\ a.told \subseteq a.drafts /\ (h'[r].mode # "graph" => a.told = a.drafts)
                /\ a.drafts \subseteq h'[r].drafts \ h'[r].todo
                /\ \A d \in a.drafts : ~OnWire(r, d)' /\ (Row(r, d)' <=> d \in a.made)
        BY <1>3, <1>4, <1>6, <2>1, <2>3 DEF SafeInv, OnceInv
      <3>4. h'[r].mode = "graph" => \A d \in h'[r].failed : ~Written(r, d)'
        BY <1>3, <1>4, <2>1, <2>3 DEF SafeInv, OnceInv, ProgressInv, Written
      <3>. QED BY <3>1, <3>2, <3>3, <3>4 DEF OnceInv
    <2>7. KeptInv(r)'
      BY <2>2 DEF KeptInv, Kept
    <2>8. Apart(r)
      <3>1. \A w : w[1] # r => (w \in wire' <=> w \in wire)
        BY <1>6
      <3>. QED BY <1>6, <2>1, <2>2, <3>1 DEF Apart, Row
    <2>. QED BY <1>1, <1>4, <1>6, <2>1, <2>5, <2>6, <2>7, <2>8, BusyStep DEF SafeInv
  <1>. QED BY <1>2, <1>5, <1>6 DEF s

LEMMA ReceiveStep ==
    ASSUME TypeOK, NEW r \in Request, SafeInv(r), r \in claims, Receive(r)
    PROVE  Stepped(r)
  <1>1. /\ h[r].pc = "waiting" /\ h[r] \in Handler /\ UNCHANGED <<rows, wire>>
        /\ ledger[r].status = "pending"
    BY DEF Receive, SafeInv, ProgressInv, TypeOK
  <1>2. PICK a \in answers : \E D \in Reported(r, a) :
            LET s == [h[r] EXCEPT !.pc = "writing", !.sent = {},
                                  !.confirmed = @ \cup D,
                                  !.failed = @ \cup (a.told \ D)]
            IN  /\ a.req = r /\ a.drafts = h[r].sent
                /\ answers' = answers \ {a}
                /\ \/ /\ h[r].mode = "graph" => a.told = a.drafts
                      /\ ledger' = IF h[r].mode = "graph" THEN Checkpoint(r, s, FALSE) ELSE ledger
                      /\ h' = [h EXCEPT ![r] = s]
                      /\ UNCHANGED <<claims, reply>>
                   \/ h[r].mode = "graph" /\ StopGraph(r, s)
    BY <1>1 DEF Receive
  <1>10. PICK D \in Reported(r, a) :
            LET s == [h[r] EXCEPT !.pc = "writing", !.sent = {},
                                  !.confirmed = @ \cup D,
                                  !.failed = @ \cup (a.told \ D)]
            IN  /\ a.req = r /\ a.drafts = h[r].sent
                /\ answers' = answers \ {a}
                /\ \/ /\ h[r].mode = "graph" => a.told = a.drafts
                      /\ ledger' = IF h[r].mode = "graph" THEN Checkpoint(r, s, FALSE) ELSE ledger
                      /\ h' = [h EXCEPT ![r] = s]
                      /\ UNCHANGED <<claims, reply>>
                   \/ h[r].mode = "graph" /\ StopGraph(r, s)
    BY <1>2
  <1>. DEFINE s == [h[r] EXCEPT !.pc = "writing", !.sent = {},
                                !.confirmed = @ \cup D,
                                !.failed = @ \cup (a.told \ D)]
  <1>3. /\ a.told \subseteq h[r].sent
        /\ h[r].mode # "graph" => a.told = a.drafts
        /\ \A d \in a.told \ a.made : ~Written(r, d)
    BY <1>10 DEF SafeInv, OnceInv, Written
  <1>4. D \subseteq Draft /\ a.told \subseteq Draft /\ (h[r].mode = "graph" => D = a.made \cap a.told)
    BY ReportedType DEF TypeOK, Reported
  <1>5. /\ s \in Handler /\ s.pc = "writing" /\ s.sent = {} /\ s.todo = h[r].todo
        /\ s.drafts = h[r].drafts
        /\ s.confirmed = h[r].confirmed \cup D
        /\ s.failed = h[r].failed \cup (a.told \ D)
        /\ s.attempt = h[r].attempt /\ s.mode = h[r].mode
    BY <1>1, <1>4 DEF Handler
  <1>. HIDE DEF s
  <1>6. h[r].mode = "graph" => \A d \in s.failed : ~Written(r, d)
    BY <1>3, <1>4, <1>5 DEF SafeInv, OnceInv
  <1>7. s.failed \subseteq h[r].drafts \ s.todo
    BY <1>1, <1>3, <1>5 DEF SafeInv, ProgressInv
  <1>8. CASE h[r].mode = "graph" /\ StopGraph(r, s)
    BY <1>1, <1>10, <1>5, <1>6, <1>7, <1>8, StopStep
  <1>9. ASSUME h[r].mode = "graph" => a.told = a.drafts,
               ledger' = (IF h[r].mode = "graph" THEN Checkpoint(r, s, FALSE) ELSE ledger),
               h' = [h EXCEPT ![r] = s], UNCHANGED <<claims, reply>>
        PROVE  Stepped(r)
    <2>1. h'[r] = s /\ \A q \in Request \ {r} : h'[q] = h[q]
      BY <1>9 DEF TypeOK
    <2>2. ledger'[r].status = "pending" /\ \A q \in Request \ {r} : ledger'[q] = ledger[q]
      <3>1. CASE h[r].mode = "graph"
        BY <1>1, <1>9, <3>1, CheckpointEffect
      <3>2. CASE h[r].mode # "graph"
        BY <1>1, <1>9, <3>2
      <3>. QED BY <3>1, <3>2
    <2>3. \A d : (Row(r, d)' <=> Row(r, d)) /\ (OnWire(r, d)' <=> OnWire(r, d))
      BY <1>1 DEF Row, OnWire
    <2>4. ProgressInv(r)'
      <3>1. a.told = h[r].sent
        BY <1>10, <1>3, <1>9
      <3>. QED BY <1>1, <1>5, <1>7, <2>1, <2>2, <3>1 DEF SafeInv, ProgressInv
    <2>5. OnceInv(r)'
      <3>1. \A d \in Draft : Written(r, d)' => d \in h'[r].drafts \ h'[r].todo
        BY <1>5, <2>1, <2>3 DEF SafeInv, OnceInv, Written
      <3>2. \A w \in wire' : w[1] = r => \A d \in w[2] :
                ~Row(r, d)' /\ \A v \in wire' : v[1] = r /\ d \in v[2] => v = w
        BY <1>1, <2>3 DEF SafeInv, OnceInv
      <3>3. \A b \in answers' : b.req = r =>
                /\ b.told \subseteq b.drafts /\ (h'[r].mode # "graph" => b.told = b.drafts)
                /\ b.drafts \subseteq h'[r].drafts \ h'[r].todo
                /\ \A d \in b.drafts : ~OnWire(r, d)' /\ (Row(r, d)' <=> d \in b.made)
        BY <1>10, <1>5, <2>1, <2>3 DEF SafeInv, OnceInv
      <3>4. h'[r].mode = "graph" => \A d \in h'[r].failed : ~Written(r, d)'
        BY <1>5, <1>6, <2>1, <2>3 DEF Written
      <3>. QED BY <3>1, <3>2, <3>3, <3>4 DEF OnceInv
    <2>6. KeptInv(r)'
      BY <2>2 DEF KeptInv, Kept
    <2>7. Apart(r)
      BY <1>1, <1>10, <1>9, <2>1, <2>2 DEF Apart, Row
    <2>. QED BY <1>1, <1>5, <1>9, <2>1, <2>4, <2>5, <2>6, <2>7, BusyStep DEF SafeInv
  <1>. QED BY <1>10, <1>8, <1>9 DEF s

LEMMA NoAnswerStep ==
    ASSUME TypeOK, NEW r \in Request, SafeInv(r), r \in claims, NoAnswer(r)
    PROVE  Stepped(r)
  <1>1. /\ h[r].pc = "waiting" /\ h[r] \in Handler /\ UNCHANGED <<rows, wire, answers>>
        /\ ledger[r].status = "pending"
    BY DEF NoAnswer, SafeInv, ProgressInv, TypeOK, salesforce
  <1>2. CASE h[r].mode = "graph" /\ StopGraph(r, h[r])
    <2>1. h[r].failed \subseteq h[r].drafts \ h[r].todo /\ \A d \in h[r].failed : ~Written(r, d)
      BY <1>2 DEF SafeInv, ProgressInv, OnceInv
    <2>. QED BY <1>1, <1>2, <2>1, StopStep
  <1>3. ASSUME NEW pc \in {"writing", "done"}, NEW failed \in SUBSET Draft,
               h' = [h EXCEPT ![r].pc = pc, ![r].sent = {}, ![r].failed = failed],
               \/ h[r].mode # "rest" /\ failed = h[r].failed /\ pc = "done"
               \/ h[r].mode = "rest" /\ failed = h[r].failed \cup h[r].sent,
               claims' = IF pc = "done" THEN claims \ {r} ELSE claims,
               \A q \in Request \ {r} : reply'[q] = reply[q],
               UNCHANGED ledger
        PROVE  Stepped(r)
    <2>1. /\ h'[r] = [h[r] EXCEPT !.pc = pc, !.sent = {}, !.failed = failed]
          /\ \A q \in Request \ {r} : h'[q] = h[q]
      BY <1>3 DEF TypeOK
    <2>2. /\ h'[r].pc = pc /\ h'[r].sent = {} /\ h'[r].failed = failed
          /\ h'[r].drafts = h[r].drafts /\ h'[r].todo = h[r].todo /\ h'[r].confirmed = h[r].confirmed
          /\ h'[r].attempt = h[r].attempt /\ h'[r].mode = h[r].mode
      BY <1>1, <2>1 DEF Handler
    <2>3. ProgressInv(r)'
      BY <1>1, <1>3, <2>2 DEF SafeInv, ProgressInv
    <2>4. OnceInv(r)'
      BY <1>1, <1>3, <2>2, ZenonT(30) DEF SafeInv, OnceInv, Written, Row, OnWire
    <2>5. KeptInv(r)' /\ Apart(r)
      BY <1>1, <1>3, <2>1 DEF KeptInv, Kept, Apart, Row
    <2>. QED BY <1>1, <1>3, <2>2, <2>3, <2>4, <2>5, BusyStep DEF SafeInv
  <1>4. CASE h[r].mode = "bulk" /\ StopBulk(r)
    <2>1. h' = [h EXCEPT ![r].pc = "done", ![r].sent = {}, ![r].failed = h[r].failed]
      BY <1>1, <1>4 DEF StopBulk, TypeOK, Handler
    <2>2. \A q \in Request \ {r} : reply'[q] = reply[q]
      BY <1>4, RespondEffect DEF StopBulk
    <2>. QED BY <1>1, <1>3, <1>4, <2>1, <2>2 DEF StopBulk, Unclaim, Handler
  <1>5. CASE h[r].mode = "rest" /\ FailRecord(r)
    <2>1. h' = [h EXCEPT ![r].pc = "writing", ![r].sent = {}, ![r].failed = h[r].failed \cup h[r].sent]
      BY <1>1, <1>5 DEF FailRecord, TypeOK, Handler
    <2>2. h[r].failed \cup h[r].sent \in SUBSET Draft /\ UNCHANGED <<ledger, claims, reply>>
      BY <1>1, <1>5 DEF FailRecord, Handler
    <2>. QED BY <1>3, <1>5, <2>1, <2>2
  <1>. QED BY <1>2, <1>4, <1>5 DEF NoAnswer

LEMMA FinishStep ==
    ASSUME TypeOK, NEW r \in Request, SafeInv(r), r \in claims, Finish(r)
    PROVE  Stepped(r)
  <1>1. /\ h[r].pc = "writing" /\ h[r].todo = {} /\ h[r] \in Handler /\ UNCHANGED salesforce
        /\ h' = [h EXCEPT ![r].pc = "done"] /\ claims' = claims \ {r}
    BY DEF Finish, TypeOK, Unclaim
  <1>2. \A q \in Request \ {r} : reply'[q] = reply[q]
    BY RespondEffect DEF Finish
  <1>3. ledger[r].status = "pending" /\ h[r].drafts \subseteq h[r].confirmed \cup h[r].failed
    BY <1>1 DEF SafeInv, ProgressInv
  <1>4. /\ \A q \in Request \ {r} : ledger'[q] = ledger[q]
        /\ h[r].confirmed # {} => ledger'[r].status \in {"pending", "uploaded"}
    <2>1. CASE h[r].confirmed # {}
      BY <1>3, <2>1, FinalizeEffect DEF Finish
    <2>2. CASE h[r].confirmed = {}
      BY <2>2, SettleEffect DEF Finish
    <2>. QED BY <2>1, <2>2
  <1>5. \A d \in Draft : Written(r, d) => Kept(r)' \/ Misreported(r, d)
    <2>1. CASE h[r].confirmed # {}
      BY <1>4, <2>1 DEF Kept
    <2>2. CASE h[r].confirmed = {}
      BY <1>3, <2>2 DEF SafeInv, OnceInv, Misreported
    <2>. QED BY <2>1, <2>2
  <1>6. Apart(r) /\ SafeInv(r)' /\ h'[r].pc = "done" /\ h'[r].attempt = h[r].attempt
    BY <1>1, <1>2, <1>4, <1>5, MoveSafe
  <1>. QED BY <1>1, <1>6, BusyStep

LEMMA HandleStep ==
    ASSUME TypeOK, NEW r \in Request, SafeInv(r), ClaimsInv, Handle(r)
    PROVE  Stepped(r)
  <1>1. r \in claims <=> Active(r)
    BY DEF ClaimsInv
  <1>2. CASE RefuseEarly(r)
    BY <1>1, <1>2, EarlyStep DEF RefuseEarly, Active
  <1>3. CASE Claim(r)
    BY <1>1, <1>3, ClaimStep DEF Claim, Active
  <1>4. CASE Lookup(r)
    BY <1>1, <1>4, LookupStep DEF Lookup, Active
  <1>5. CASE Intend(r)
    BY <1>1, <1>5, IntendStep DEF Intend, Active
  <1>6. CASE DescribeFails(r)
    BY <1>6, DescribeStep
  <1>7. CASE Send(r)
    BY <1>1, <1>7, SendStep DEF Send, Active
  <1>8. CASE Receive(r)
    BY <1>1, <1>8, ReceiveStep DEF Receive, Active
  <1>9. CASE NoAnswer(r)
    BY <1>1, <1>9, NoAnswerStep DEF NoAnswer, Active
  <1>10. CASE Finish(r)
    BY <1>1, <1>10, FinishStep DEF Finish, Active
  <1>. QED BY <1>2, <1>3, <1>4, <1>5, <1>6, <1>7, <1>8, <1>9, <1>10 DEF Handle

-----------------------------------------------------------------------------
(* The other steps *)

\* A step of one handler, seen by all requests of its attempt.
LEMMA SteppedInv ==
    ASSUME TypeOK, RoutesInv, NEW r \in Request, Stepped(r)
    PROVE  RoutesInv'
  <1>1. \A q \in Request \ {r} : h'[q] = h[q] /\ ledger'[q] = ledger[q]
    BY DEF Stepped, Apart
  <1>2. \A q \in Request : h'[q].attempt = h[q].attempt
    BY <1>1 DEF Stepped
  <1>3. \A q \in Request \ {r} : (Active(q)' <=> Active(q)) /\ (Holds(q)' <=> Holds(q))
    BY <1>1 DEF Active, Holds, Kept
  <1>4. \A q \in Request : SafeInv(q)'
    BY ApartSafe DEF Stepped, RoutesInv
  <1>5. ClaimsInv'
    <2>1. claims' = {q \in Request : Active(q)'}
      BY <1>3 DEF Stepped, RoutesInv, ClaimsInv
    <2>2. ASSUME NEW p \in claims', NEW q \in claims', h'[p].attempt = h'[q].attempt, p # q
          PROVE  FALSE
      <3>1. p \in Request /\ q \in Request /\ Active(p)' /\ Active(q)' /\ h[p].attempt = h[q].attempt
        BY <1>2, <2>1, <2>2
      <3>2. CASE Active(p) /\ Active(q)
        BY <2>2, <3>1, <3>2 DEF RoutesInv, ClaimsInv
      <3>3. CASE (p = r /\ ~Active(r)) \/ (q = r /\ ~Active(r))
        BY <1>3, <2>2, <3>1, <3>3 DEF Stepped, Free, RoutesInv, ClaimsInv
      <3>. QED BY <1>3, <3>1, <3>2, <3>3
    <2>. QED BY <2>1, <2>2 DEF ClaimsInv
  <1>6. \A a : Settled(a) => Settled(a)'
    BY <1>1, <1>2 DEF Stepped, Settled
  <1>7. ASSUME Passed(r), NEW q \in Request \ {r}, h[q].attempt = h[r].attempt, Holds(q)
        PROVE  Settled(h[r].attempt)
    <2>1. CASE h[q].pc = "cleared"
      BY <1>7, <2>1 DEF Passed, RoutesInv, ClaimsInv, Active
    <2>2. CASE Kept(q)
      BY <1>7, <2>2 DEF Passed, FindByAttemptId, Exists, Kept
    <2>. QED BY <1>7, <2>1, <2>2 DEF Holds
  <1>8. ASSUME NEW a, NEW p \in Request, NEW q \in Request, p # q,
               h'[p].attempt = a, h'[q].attempt = a, Holds(p)', Holds(q)'
        PROVE  Settled(a)'
    <2>1. h[p].attempt = a /\ h[q].attempt = a
      BY <1>2, <1>8
    <2>2. CASE Holds(p) /\ Holds(q)
      BY <1>6, <1>8, <2>1, <2>2 DEF RoutesInv, PairInv
    <2>3. CASE p = r /\ ~Holds(p)
      BY <1>3, <1>6, <1>7, <1>8, <2>1, <2>3 DEF Stepped
    <2>4. CASE q = r /\ ~Holds(q)
      BY <1>3, <1>6, <1>7, <1>8, <2>1, <2>4 DEF Stepped
    <2>. QED BY <1>3, <1>8, <2>2, <2>3, <2>4
  <1>9. PairInv'
    BY <1>8 DEF PairInv, Settled
  <1>. QED BY <1>4, <1>5, <1>9 DEF RoutesInv

\* A step that no handler takes.
LEMMA SameHandlers ==
    ASSUME RoutesInv, UNCHANGED <<ledger, claims, h>>, \A r \in Request : OnceInv(r)' /\ KeptInv(r)'
    PROVE  RoutesInv'
  <1>1. \A r \in Request : ProgressInv(r)'
    BY DEF RoutesInv, SafeInv, ProgressInv
  <1>2. ClaimsInv' /\ PairInv'
    BY DEF RoutesInv, ClaimsInv, PairInv, Active, Holds, Kept, Settled
  <1>. QED BY <1>1, <1>2 DEF RoutesInv, SafeInv

LEMMA ExecuteRoutes ==
    ASSUME TypeOK, RoutesInv, Execute
    PROVE  RoutesInv'
  <1>1. PICK w \in wire : \E made, told \in SUBSET w[2] :
            /\ h[w[1]].mode # "graph" => told = w[2]
            /\ rows' = rows \cup {<<w[1], d>> : d \in made}
            /\ wire' = wire \ {w}
            /\ answers' = answers \cup {[req |-> w[1], drafts |-> w[2], made |-> made, told |-> told]}
            /\ UNCHANGED <<server, client>>
    BY DEF Execute
  <1>2. PICK made \in SUBSET w[2], told \in SUBSET w[2] :
            /\ h[w[1]].mode # "graph" => told = w[2]
            /\ rows' = rows \cup {<<w[1], d>> : d \in made}
            /\ wire' = wire \ {w}
            /\ answers' = answers \cup {[req |-> w[1], drafts |-> w[2], made |-> made, told |-> told]}
            /\ UNCHANGED <<server, client>>
    BY <1>1
  <1>. DEFINE r == w[1]
              a == [req |-> r, drafts |-> w[2], made |-> made, told |-> told]
  <1>3. r \in Request /\ w[2] \subseteq Draft /\ w[1] = r
    BY DEF TypeOK
  <1>4. UNCHANGED <<ledger, claims, h, reply>>
    BY <1>2 DEF server
  <1>5. a.req = r /\ a.drafts = w[2] /\ a.made = made /\ a.told = told
    OBVIOUS
  <1>6. rows' = rows \cup {<<r, d>> : d \in made} /\ wire' = wire \ {w} /\ answers' = answers \cup {a}
    BY <1>2
  <1>7. h[r].mode # "graph" => told = w[2]
    BY <1>2
  <1>. HIDE DEF r, a
  <1>8. OnceInv(r) /\ KeptInv(r)
    BY <1>3 DEF RoutesInv, SafeInv
  <1>9. \A q, d : Row(q, d)' <=> Row(q, d) \/ (q = r /\ d \in made)
    BY <1>6 DEF Row
  <1>10. \A d : OnWire(r, d)' => OnWire(r, d) /\ d \notin w[2]
    BY <1>3, <1>6, <1>8 DEF OnWire, OnceInv
  <1>11. \A d \in w[2] : OnWire(r, d) /\ ~Row(r, d)
    BY <1>3, <1>8 DEF OnWire, OnceInv
  <1>12. \A d : Written(r, d)' => Written(r, d)
    BY <1>9, <1>10, <1>11 DEF Written
  <1>13. OnceInv(r)'
    <2>1. \A d \in Draft : Written(r, d)' => d \in h'[r].drafts \ h'[r].todo
      BY <1>4, <1>8, <1>12 DEF OnceInv
    <2>2. \A v \in wire' : v[1] = r => \A d \in v[2] :
              ~Row(r, d)' /\ \A x \in wire' : x[1] = r /\ d \in x[2] => x = v
      BY <1>3, <1>6, <1>8, <1>9 DEF OnceInv
    <2>3. \A b \in answers : b.req = r =>
              /\ b.told \subseteq b.drafts /\ (h'[r].mode # "graph" => b.told = b.drafts)
              /\ b.drafts \subseteq h'[r].drafts \ h'[r].todo
              /\ \A d \in b.drafts : ~OnWire(r, d)' /\ (Row(r, d)' <=> d \in b.made)
      BY <1>4, <1>8, <1>9, <1>10, <1>11 DEF OnceInv
    <2>4. /\ a.told \subseteq a.drafts /\ (h'[r].mode # "graph" => a.told = a.drafts)
          /\ a.drafts \subseteq h'[r].drafts \ h'[r].todo
          /\ \A d \in a.drafts : ~OnWire(r, d)' /\ (Row(r, d)' <=> d \in a.made)
      BY <1>3, <1>4, <1>5, <1>7, <1>8, <1>9, <1>10, <1>11 DEF OnceInv, Written
    <2>5. h'[r].mode = "graph" => \A d \in h'[r].failed : ~Written(r, d)'
      BY <1>4, <1>8, <1>12 DEF OnceInv
    <2>. QED BY <1>6, <2>1, <2>2, <2>3, <2>4, <2>5 DEF OnceInv
  <1>14. KeptInv(r)'
    BY <1>4, <1>8, <1>12 DEF KeptInv, Kept, Misreported
  <1>15. Apart(r)
    BY <1>3, <1>4, <1>5, <1>6, <1>9 DEF Apart
  <1>16. \A q \in Request \ {r} : SafeInv(q)'
    BY <1>15, ApartSafe DEF RoutesInv
  <1>. QED BY <1>4, <1>13, <1>14, <1>16, SameHandlers DEF SafeInv

LEMMA CrashRoutes ==
    ASSUME TypeOK, RoutesInv, Crash
    PROVE  RoutesInv'
  <1>1. UNCHANGED <<rows, wire, answers, ledger>> /\ claims' = {}
    BY DEF Crash, salesforce
  <1>2. \A r \in Request :
            /\ h'[r].drafts = h[r].drafts /\ h'[r].todo = h[r].todo
            /\ h'[r].failed = h[r].failed /\ h'[r].confirmed = h[r].confirmed /\ h'[r].attempt = h[r].attempt /\ h'[r].mode = h[r].mode
            /\ h'[r].pc = IF Live(r) THEN "dead" ELSE h[r].pc
            /\ h'[r].sent = IF Live(r) THEN {} ELSE h[r].sent
    <2>. SUFFICES ASSUME NEW r \in Request
           PROVE  /\ h'[r].drafts = h[r].drafts /\ h'[r].todo = h[r].todo
                  /\ h'[r].failed = h[r].failed /\ h'[r].confirmed = h[r].confirmed /\ h'[r].attempt = h[r].attempt /\ h'[r].mode = h[r].mode
                  /\ h'[r].pc = IF Live(r) THEN "dead" ELSE h[r].pc
                  /\ h'[r].sent = IF Live(r) THEN {} ELSE h[r].sent
      OBVIOUS
    <2>1. h'[r] = IF Live(r) THEN [h[r] EXCEPT !.pc = "dead", !.sent = {}] ELSE h[r]
      BY DEF Crash
    <2>2. h[r] \in Handler
      BY DEF TypeOK
    <2>. QED BY <2>1, <2>2 DEF Handler
  <1>3. ASSUME NEW r \in Request PROVE SafeInv(r)'
    <2>1. SafeInv(r)
      BY DEF RoutesInv
    <2>2. ProgressInv(r)'
      BY <1>1, <1>2, <2>1 DEF SafeInv, ProgressInv, Live
    <2>3. OnceInv(r)'
      BY <1>1, <1>2, <2>1, OnceKeep DEF SafeInv
    <2>4. KeptInv(r)'
      BY <1>1, <1>2, <2>1 DEF SafeInv, KeptInv, Kept, Misreported, Written, Row, OnWire
    <2>. QED BY <2>2, <2>3, <2>4 DEF SafeInv
  <1>4. ClaimsInv'
    BY <1>1, <1>2 DEF ClaimsInv, Active, Live
  <1>5. PairInv'
    <2>1. \A r \in Request : Holds(r)' => Holds(r)
      BY <1>1, <1>2 DEF Holds, Kept, Live
    <2>2. \A a : Settled(a) => Settled(a)'
      BY <1>1, <1>2 DEF Settled
    <2>. QED BY <1>2, <2>1, <2>2 DEF PairInv, RoutesInv
  <1>. QED BY <1>3, <1>4, <1>5 DEF RoutesInv

-----------------------------------------------------------------------------
(* The dialog *)

LEMMA PostRoutes ==
    ASSUME TypeOK, RoutesInv, NEW r \in Request, NEW mode, NEW a, NEW D, Post(r, mode, a, D),
           UNCHANGED <<salesforce, ledger, claims>>
    PROVE  RoutesInv'
  <1>0. UNCHANGED <<rows, wire, answers, ledger, claims>>
    BY DEF salesforce
  <1>1. /\ h[r].pc = "unsent" /\ \A q \in Request \ {r} : h'[q] = h[q]
        /\ h'[r].pc = "new" /\ h'[r].mode = mode /\ h'[r].attempt = a
        /\ h'[r].drafts = D /\ h'[r].todo = D /\ h'[r].sent = {}
        /\ h'[r].confirmed = {} /\ h'[r].failed = {}
    BY DEF Post, Fresh, Unsent, TypeOK
  <1>2. SafeInv(r) /\ ledger[r].status = "none" /\ \A d \in Draft : ~Written(r, d)
    BY <1>1 DEF RoutesInv, SafeInv, ProgressInv, OnceInv
  <1>3. \A d : Written(r, d) => d \in Draft
    BY DEF TypeOK, Written, Row, OnWire
  <1>4. SafeInv(r)'
    <2>1. ProgressInv(r)'
      BY <1>0, <1>1, <1>2 DEF ProgressInv
    <2>2. \A q \in answers : q.req = r => q.drafts = {} /\ q.told = {}
      BY <1>1, <1>2 DEF SafeInv, OnceInv, ProgressInv
    <2>3. OnceInv(r)'
      BY <1>0, <1>1, <1>2, <1>3, <2>2 DEF SafeInv, OnceInv, Written, Row, OnWire
    <2>4. KeptInv(r)'
      BY <1>0, <1>2 DEF KeptInv, Written, Row, OnWire
    <2>. QED BY <2>1, <2>3, <2>4 DEF SafeInv
  <1>5. ASSUME NEW q \in Request \ {r} PROVE SafeInv(q)'
    <2>1. SafeInv(q)
      BY DEF RoutesInv
    <2>2. ProgressInv(q)'
      BY <1>0, <1>1, <2>1 DEF SafeInv, ProgressInv
    <2>3. OnceInv(q)'
      BY <1>0, <1>1, <2>1, OnceKeep DEF SafeInv
    <2>4. KeptInv(q)'
      BY <1>0, <1>1, <2>1 DEF SafeInv, KeptInv, Kept, Misreported, Written, Row, OnWire
    <2>. QED BY <2>2, <2>3, <2>4 DEF SafeInv
  <1>6. ClaimsInv'
    BY <1>0, <1>1 DEF RoutesInv, ClaimsInv, Active
  <1>7. PairInv'
    <2>1. ~Holds(r)' /\ \A q \in Request \ {r} : (Holds(q)' <=> Holds(q))
      BY <1>0, <1>1, <1>2 DEF Holds, Kept
    <2>3. ASSUME NEW p \in Request, NEW q \in Request, p # q, h'[p].attempt = h'[q].attempt,
                 Holds(p)', Holds(q)'
          PROVE  \E l \in Request : h'[l].attempt = h'[q].attempt /\ ledger'[l].status = "failed"
      <3>1. p # r /\ q # r /\ Holds(p) /\ Holds(q)
        BY <2>1, <2>3
      <3>2. h'[p] = h[p] /\ h'[q] = h[q]
        BY <1>1, <3>1
      <3>3. PICK l \in Request : h[l].attempt = h[q].attempt /\ ledger[l].status = "failed"
        BY <2>3, <3>1, <3>2 DEF RoutesInv, PairInv, Settled
      <3>. QED BY <1>0, <1>1, <1>2, <3>2, <3>3
    <2>. QED BY <2>3 DEF PairInv, Settled
  <1>. QED BY <1>4, <1>5, <1>6, <1>7 DEF RoutesInv

\* The dialog releases no claim of a handler that still runs.
LEMMA UnclaimDead ==
    ASSUME ClaimsKept, ClaimsInv, MayBreak PROVE Unclaim(cur) = claims
  BY DEF ClaimsKept, ClaimsInv, MayBreak, Unclaim, Active, Live

LEMMA QuietRoutes ==
    ASSUME RoutesInv, UNCHANGED <<salesforce, ledger, claims, h>>
    PROVE  RoutesInv'
  <1>0. UNCHANGED <<rows, wire, answers>>
    BY DEF salesforce
  <1>1. \A r \in Request : OnceInv(r)' /\ KeptInv(r)'
    BY <1>0 DEF RoutesInv, SafeInv, OnceInv, KeptInv, Kept, Misreported, Written, Row, OnWire
  <1>. QED BY <1>1, SameHandlers

LEMMA DialogRoutes ==
    ASSUME ClaimsKept, TypeInv, RoutesInv, Dialog \/ Reload
    PROVE  RoutesInv'
  <1>0. TypeOK /\ ClaimsInv
    BY DEF TypeInv, RoutesInv
  <1>1. CASE LoseReply
    BY <1>0, <1>1, UnclaimDead, QuietRoutes DEF LoseReply
  <1>2. CASE OnRejected \/ OnInterrupted \/ OnResults \/ Recover \/ EndRecovery \/ Reconcile
    <2>1. UNCHANGED <<salesforce, server>>
      BY <1>2 DEF OnRejected, OnInterrupted, OnResults, Recover, EndRecovery, Reconcile
    <2>. QED BY <2>1, QuietRoutes DEF server
  <1>3. CASE FallBack
    <2>1. PICK r \in Request, mode \in Routes \ {"graph"}, a \in Attempt \ Drawn :
              Post(r, mode, a, h[cur].drafts)
      BY <1>3 DEF FallBack
    <2>. QED BY <1>0, <1>3, <2>1, PostRoutes DEF FallBack
  <1>4. CASE Reload
    BY <1>0, <1>4, UnclaimDead, QuietRoutes DEF Reload
  <1>. QED BY <1>1, <1>2, <1>3, <1>4 DEF Dialog

LEMMA ConfirmRoutes ==
    ASSUME TypeOK, RoutesInv, ConfirmUpload
    PROVE  RoutesInv'
  <1>1. UNCHANGED <<salesforce, ledger, claims>>
    BY DEF ConfirmUpload
  <1>2. CASE UNCHANGED h
    BY <1>1, <1>2, QuietRoutes
  <1>3. ASSUME NEW r \in Request, NEW mode, NEW a, NEW D, Post(r, mode, a, D)
        PROVE  RoutesInv'
    BY <1>1, <1>3, PostRoutes
  <1>. QED BY <1>2, <1>3 DEF ConfirmUpload

-----------------------------------------------------------------------------
(* The theorem *)

LEMMA InitRoutes == Init => RoutesInv
  <1>. SUFFICES ASSUME Init PROVE RoutesInv
    OBVIOUS
  <1>1. /\ \A r \in Request : h[r] = Unsent /\ ledger[r] = NoLedger
        /\ rows = {} /\ wire = {} /\ answers = {} /\ claims = {}
    BY DEF Init
  <1>2. \A r \in Request : ProgressInv(r)
    BY <1>1 DEF ProgressInv, Unsent, NoLedger
  <1>3. \A r \in Request : OnceInv(r) /\ KeptInv(r)
    BY <1>1 DEF OnceInv, KeptInv, Written, Row, OnWire, Unsent
  <1>4. ClaimsInv /\ PairInv
    BY <1>1 DEF ClaimsInv, PairInv, Active, Holds, Kept, Unsent, NoLedger
  <1>. QED BY <1>2, <1>3, <1>4 DEF RoutesInv, SafeInv

LEMMA NextRoutes == ClaimsKept /\ TypeInv /\ RoutesInv /\ [Next]_vars => RoutesInv'
  <1>. SUFFICES ASSUME ClaimsKept, TypeInv, RoutesInv, [Next]_vars PROVE RoutesInv'
    OBVIOUS
  <1>0. TypeOK /\ ClaimsInv /\ \A r \in Request : SafeInv(r)
    BY DEF TypeInv, RoutesInv
  <1>1. CASE Execute \/ Crash
    BY <1>0, <1>1, ExecuteRoutes, CrashRoutes
  <1>2. ASSUME NEW r \in Request, Handle(r) PROVE RoutesInv'
    BY <1>0, <1>2, HandleStep, SteppedInv
  <1>3. \A r \in Request : ~Forget(r)
    BY DEF ClaimsKept, Forget
  <1>4. CASE ConfirmUpload \/ Dialog \/ Reload
    BY <1>0, <1>4, ConfirmRoutes, DialogRoutes
  <1>5. CASE UNCHANGED vars
    BY <1>5, QuietRoutes DEF vars, server
  <1>. QED BY <1>1, <1>2, <1>3, <1>4, <1>5 DEF Next

\* Whichever routes the retries of an upload take, whatever is lost and whoever
\* restarts: the claim, the pending ledger and its look-up keep two requests of one
\* attempt from making a record of the same draft, but for the two named exceptions.
THEOREM RetriesNeverDouble == ClaimsKept => (Spec => []OneRowPerAttempt)
  <1>. SUFFICES ASSUME ClaimsKept PROVE Spec => []OneRowPerAttempt
    OBVIOUS
  <1>1. Spec => [](TypeInv /\ RoutesInv)
    BY InitType, NextType, InitRoutes, NextRoutes, PTL DEF Spec
  <1>2. RoutesInv => OneRowPerAttempt
    BY DEF RoutesInv, SafeInv, KeptInv, PairInv, Holds, Written, Row, OneRowPerAttempt
  <1>. QED BY <1>1, <1>2, PTL
=============================================================================
