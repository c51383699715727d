------------------------ MODULE CanvasSyncGapsProofs ------------------------
(* Proof that CanvasSync flags every gap, for any clients, cards, values and     *)
(* bounds.  What the server wrote is a history H of payloads by revision.  Each  *)
(* word of the server, wherever it waits - in the stream, behind a snapshot, in  *)
(* an answer -, either is true of H or is that of an earlier process; a browser  *)
(* that counts revisions without a gap has seen every change since its snapshot. *)
EXTENDS CanvasSyncProofs

-----------------------------------------------------------------------------
(* The invariant.                                                            *)

Histories == [Nat -> Cards]

\* What the mutation x makes of its card in the payload before it.
Becoming(H, x) ==
    IF x.type # "create" /\ H[x.revision - 1][x.card] = Absent THEN Absent ELSE Written(x)

\* x says what revision x.revision of the process i changed, or is of an earlier one.
TrueChange(H, i, r, x) ==
    /\ x.instance >= 1 /\ x.instance <= i
    /\ x.instance = 1 => x.revision > FirstRevision
    /\ x.instance = i =>
        /\ x.revision \in 1..r
        /\ H[x.revision][x.card] = x.now
        /\ x.now = Becoming(H, x)
        /\ \A k \in Card \ {x.card} : H[x.revision][k] = H[x.revision - 1][k]

\* The first process starts from the stored canvas at FirstRevision, the others know
\* nothing that was saved.
FromStored(i, r, d, payload) ==
    /\ i >= 1
    /\ i = 1 => d <= FirstRevision /\ r >= FirstRevision /\ (r = FirstRevision => payload = Stored)
    /\ i # 1 => d = 0

\* x is the payload of its revision, or of an earlier process.
TrueSnapshot(H, i, r, x) ==
    /\ x.instance <= i
    /\ FromStored(x.instance, x.revision, x.durable, x.payload)
    /\ x.instance = i => x.revision <= r /\ H[x.revision] = x.payload

TrueEvents(H, i, r) ==
    {e \in Events : /\ e.type = "snapshot" => TrueSnapshot(H, i, r, e)
                    /\ e.type \in Kind => TrueChange(H, i, r, e)}

\* The connections announced are those of the process i.
NewInits(i) == {x \in Inits : x.instance = i}

\* What s was told of each card was the case at that revision.
ToldTrue(H, i, r, s) == s.instance = i =>
    \A k \in Card :
        /\ s.told[k].revision <= r
        /\ s.told[k].revision > 0 => s.told[k].value = H[s.told[k].revision][k]

\* Without a gap since its last snapshot, it is the case up to the latest revision
\* s has seen.
KnowsAll(H, i, r, s) == s.instance = i /\ s.since > 0 /\ ~s.awaiting /\ ~s.gap =>
    /\ s.latest \in 1..r
    /\ \A k \in Card : /\ s.told[k].revision > 0
                       /\ \A n \in s.told[k].revision..s.latest : H[n][k] = s.told[k].value

WordInv(H, i, r, s) ==
    /\ s.instance <= i /\ (s.me # 0 => s.instance = i)
    /\ ToldTrue(H, i, r, s)
    /\ KnowsAll(H, i, r, s)
    /\ s.applying \in TrueEvents(H, i, r) \cup {None}
    /\ s.queued \in Seq(TrueEvents(H, i, r))
    /\ s.later \in Seq(TrueEvents(H, i, r))
    /\ \A a \in s.answers : a.ok => TrueChange(H, i, r, a)

HistoryInv(H) ==
    /\ H[revision] = live
    /\ FromStored(instance, revision, durableRevision, live)
    /\ \A c \in Client :
        /\ stream[c] \in Seq(TrueEvents(H, instance, revision) \cup NewInits(instance))
        /\ held[c] \in Seq(TrueEvents(H, instance, revision))
        /\ syncing[c] \in TrueEvents(H, instance, revision) \cup {None}
        /\ WordInv(H, instance, revision, client[c])

GapInv == \E H \in Histories : HistoryInv(H)

-----------------------------------------------------------------------------
(* What a browser makes of true words.                                       *)

LEMMA SameWordInv ==
    ASSUME NEW H, NEW i, NEW r, NEW s, NEW t, SameWord(t, s), t.me = s.me,
           WordInv(H, i, r, s)
    PROVE  WordInv(H, i, r, t)
BY DEF SameWord, WordInv, ToldTrue, KnowsAll

\* Observing the revision of a change and taking its word.
LEMMA ToldInv ==
    ASSUME NEW H \in Histories, NEW i \in Nat, NEW r \in Nat, NEW s \in Browsers,
           WordInv(H, i, r, s), NEW x, TrueChange(H, i, r, x), x.revision \in Nat,
           x.card \in Card, x.now \in Held,
           NEW t \in Browsers, SameWord(t, Observe(s, x.revision)), t.me = s.me
    PROVE  WordInv(H, i, r, Told(t, x))
<1> DEFINE u == Told(t, x)
           word == [value |-> x.now, revision |-> x.revision]
<1>1. /\ s.told \in [Card -> [value : Held, revision : Nat]] /\ s.latest \in Nat
      /\ s.since \in Nat /\ s.gap \in BOOLEAN
  BY DEF Browsers
<1>2. /\ t.instance = s.instance /\ t.told = s.told /\ t.since = s.since
      /\ t.awaiting = s.awaiting /\ t.applying = s.applying /\ t.queued = s.queued
      /\ t.later = s.later /\ t.answers = s.answers
      /\ t.latest = IF x.revision > s.latest THEN x.revision ELSE s.latest
      /\ ~t.gap => ~s.gap /\ ~(s.latest > 0 /\ x.revision > s.latest + 1)
  BY DEF SameWord, Observe, Browsers
<1>3. /\ u.me = t.me /\ u.instance = t.instance /\ u.latest = t.latest /\ u.gap = t.gap
      /\ u.awaiting = t.awaiting /\ u.applying = t.applying /\ u.queued = t.queued
      /\ u.later = t.later /\ u.answers = t.answers
      /\ x.instance # t.instance => u.since = 0 /\ u.told = t.told
      /\ x.instance = t.instance =>
            /\ u.since = t.since
            /\ u.told = IF x.revision < t.told[x.card].revision THEN t.told
                        ELSE [t.told EXCEPT ![x.card] = word]
  BY DEF Told, Browsers
<1> HIDE DEF u
<1>4. ToldTrue(H, i, r, s) /\ KnowsAll(H, i, r, s)
  BY DEF WordInv
<1>5. CASE x.instance # s.instance
  <2>1. ToldTrue(H, i, r, u)
    BY <1>2, <1>3, <1>4, <1>5 DEF ToldTrue
  <2>2. KnowsAll(H, i, r, u)
    BY <1>2, <1>3, <1>5 DEF KnowsAll
  <2> QED
    BY <1>2, <1>3, <2>1, <2>2 DEF WordInv, u
<1>6. CASE x.instance = s.instance /\ s.instance # i
  <2>1. ToldTrue(H, i, r, u) /\ KnowsAll(H, i, r, u)
    BY <1>2, <1>3, <1>6 DEF ToldTrue, KnowsAll
  <2> QED
    BY <1>2, <1>3, <2>1 DEF WordInv, u
<1>7. CASE x.instance = s.instance /\ s.instance = i
  <2>1. /\ x.revision \in 1..r
        /\ H[x.revision][x.card] = x.now
        /\ \A k \in Card \ {x.card} : H[x.revision][k] = H[x.revision - 1][k]
    BY <1>7 DEF TrueChange
  <2>2. \A k \in Card : /\ s.told[k].revision \in Nat /\ s.told[k].revision <= r
                        /\ s.told[k].revision > 0 => s.told[k].value = H[s.told[k].revision][k]
    BY <1>1, <1>4, <1>7 DEF ToldTrue
  <2>3. \A k \in Card : u.told[k] = IF k = x.card /\ ~(x.revision < s.told[k].revision) THEN word
                                   ELSE s.told[k]
    BY <1>1, <1>2, <1>3, <1>7
  <2>4. word.value = x.now /\ word.revision = x.revision
    OBVIOUS
  <2> HIDE DEF word
  <2>5. ToldTrue(H, i, r, u)
    BY <2>1, <2>2, <2>3, <2>4 DEF ToldTrue
  <2>6. KnowsAll(H, i, r, u)
    <3> SUFFICES ASSUME u.since > 0, ~u.awaiting, ~u.gap
                 PROVE  /\ u.latest \in 1..r
                        /\ \A k \in Card : /\ u.told[k].revision > 0
                              /\ \A n \in u.told[k].revision..u.latest : H[n][k] = u.told[k].value
      BY DEF KnowsAll
    <3>1. /\ s.latest \in 1..r
          /\ \A k \in Card : /\ s.told[k].revision > 0
                             /\ \A n \in s.told[k].revision..s.latest : H[n][k] = s.told[k].value
      BY <1>2, <1>3, <1>4, <1>7 DEF KnowsAll
    <3>2. u.latest = t.latest /\ (x.revision <= s.latest \/ x.revision = s.latest + 1)
      BY <1>1, <1>2, <1>3, <3>1
    <3>3. u.latest \in 1..r
      BY <1>2, <2>1, <3>1, <3>2
    <3>4. ASSUME NEW k \in Card
          PROVE  /\ u.told[k].revision > 0
                 /\ \A n \in u.told[k].revision..u.latest : H[n][k] = u.told[k].value
      <4>1. CASE k = x.card /\ ~(x.revision < s.told[k].revision)
        <5>1. u.told[k].value = x.now /\ u.told[k].revision = x.revision
          BY <2>3, <2>4, <4>1
        <5>2. ASSUME NEW n \in x.revision..u.latest
              PROVE  H[n][k] = x.now
          <6>1. CASE n = x.revision
            BY <2>1, <4>1, <6>1
          <6>2. CASE n # x.revision
            <7>1. n \in s.told[k].revision..s.latest /\ x.revision \in s.told[k].revision..s.latest
              BY <1>2, <2>1, <2>2, <3>1, <3>2, <4>1, <6>2
            <7> QED
              BY <2>1, <3>1, <4>1, <7>1
          <6> QED
            BY <6>1, <6>2
        <5> QED
          BY <2>1, <5>1, <5>2
      <4>2. CASE ~(k = x.card /\ ~(x.revision < s.told[k].revision))
        <5>1. u.told[k] = s.told[k]
          BY <2>3, <4>2
        <5>2. ASSUME NEW n \in s.told[k].revision..u.latest
              PROVE  H[n][k] = s.told[k].value
          <6>1. CASE n <= s.latest
            BY <2>2, <3>1, <6>1
          <6>2. CASE n > s.latest
            <7>1. n = x.revision /\ x.revision = s.latest + 1 /\ x.revision - 1 = s.latest
              BY <1>2, <2>1, <2>2, <3>1, <3>2, <6>2
            <7>2. k # x.card
              BY <2>1, <2>2, <4>2, <7>1
            <7>3. CASE s.told[k].revision <= s.latest
              <8>1. s.latest \in s.told[k].revision..s.latest
                BY <2>2, <3>1, <7>3
              <8> QED
                BY <2>1, <3>1, <7>1, <7>2, <8>1
            <7>4. CASE s.told[k].revision > s.latest
              <8>1. s.told[k].revision = n
                BY <2>2, <3>1, <7>1, <7>4
              <8> QED
                BY <2>2, <3>1, <8>1
            <7> QED
              BY <2>2, <3>1, <7>3, <7>4
          <6> QED
            BY <2>2, <3>1, <6>1, <6>2
        <5> QED
          BY <3>1, <5>1, <5>2
      <4> QED
        BY <4>1, <4>2
    <3> QED
      BY <3>3, <3>4
  <2> QED
    BY <1>2, <1>3, <2>5, <2>6 DEF WordInv, u
<1> QED
  BY <1>5, <1>6, <1>7

LEMMA EventWord ==
    ASSUME NEW H \in Histories, NEW i \in Nat, NEW r \in Nat, NEW s \in Browsers,
           WordInv(H, i, r, s), NEW e \in TrueEvents(H, i, r)
    PROVE  WordInv(H, i, r, OnEvent(s, e))
<1>1. e \in Events
  BY DEF TrueEvents
<1>2. CASE s.applying # None
  <2> DEFINE t == [s EXCEPT !.queued = Append(@, e)]
  <2>1. OnEvent(s, e) = t
    BY <1>2 DEF OnEvent
  <2>2. /\ t.queued = Append(s.queued, e)
        /\ t.me = s.me /\ t.instance = s.instance /\ t.told = s.told /\ t.latest = s.latest
        /\ t.gap = s.gap /\ t.since = s.since /\ t.awaiting = s.awaiting
        /\ t.applying = s.applying /\ t.later = s.later /\ t.answers = s.answers
    BY DEF Browsers
  <2> HIDE DEF t
  <2>3. s.queued \in Seq(TrueEvents(H, i, r))
    BY DEF WordInv
  <2>4. Append(s.queued, e) \in Seq(TrueEvents(H, i, r))
    BY <2>3
  <2> QED
    BY <2>1, <2>2, <2>4 DEF WordInv, ToldTrue, KnowsAll
<1>3. CASE s.applying = None /\ e.type = "snapshot"
  <2> DEFINE u == ResetTracking(s)
             t == [u EXCEPT !.applying = e, !.overrun = FALSE]
  <2>1. OnEvent(s, e) = t
    BY <1>3 DEF OnEvent, StartSnapshot
  <2>2. u \in Browsers /\ SameWord(u, s) /\ u.me = s.me
    BY ResetEffect
  <2> HIDE DEF u
  <2>3. WordInv(H, i, r, u)
    BY <2>2, SameWordInv
  <2>4. /\ t.applying = e
        /\ t.me = u.me /\ t.instance = u.instance /\ t.told = u.told /\ t.latest = u.latest
        /\ t.gap = u.gap /\ t.since = u.since /\ t.awaiting = u.awaiting
        /\ t.queued = u.queued /\ t.later = u.later /\ t.answers = u.answers
    BY <2>2 DEF Browsers
  <2> HIDE DEF t
  <2> QED
    BY <2>1, <2>3, <2>4 DEF WordInv, ToldTrue, KnowsAll
<1>4. CASE s.applying = None /\ e.type = "unavailable"
  <2> DEFINE t == [s EXCEPT !.gap = TRUE]
  <2>1. OnEvent(s, e) = t
    BY <1>4 DEF OnEvent
  <2>2. /\ t.gap
        /\ t.me = s.me /\ t.instance = s.instance /\ t.told = s.told
        /\ t.applying = s.applying /\ t.queued = s.queued /\ t.later = s.later
        /\ t.answers = s.answers
    BY DEF Browsers
  <2> HIDE DEF t
  <2> QED
    BY <2>1, <2>2 DEF WordInv, ToldTrue, KnowsAll
<1>5. CASE s.applying = None /\ e.type \notin {"snapshot", "unavailable"}
  <2> DEFINE o == Observe(s, e.revision)
             t == ApplyEvent(o, e)
  <2>1. OnEvent(s, e) = Told(t, e)
    BY <1>5 DEF OnEvent
  <2>2. e \in Changes /\ e.revision \in Nat /\ e.card \in Card /\ e.now \in Held /\ e.type \in Kind
    BY <1>1, <1>5, EventKinds DEF Changes
  <2>3. TrueChange(H, i, r, e)
    BY <2>2 DEF TrueEvents
  <2>4. o \in Browsers /\ o.me = s.me
    BY <2>2, ObserveEffect DEF SameQueue
  <2>5. t \in Browsers /\ SameWord(t, o) /\ t.me = o.me
    <3> HIDE DEF o
    <3> QED
      BY <2>2, <2>4, ApplyEffect DEF SameQueue
  <2> HIDE DEF t
  <2> QED
    BY <2>1, <2>2, <2>3, <2>4, <2>5, ToldInv
<1> QED
  BY <1>2, <1>3, <1>4, <1>5

\* A snapshot is all there is to know up to its revision.
LEMMA AfterSnapshotWord ==
    ASSUME NEW H \in Histories, NEW i \in Nat, NEW r \in Nat, NEW s \in Browsers,
           WordInv(H, i, r, s), NEW e \in Snapshots, TrueSnapshot(H, i, r, e)
    PROVE  WordInv(H, i, r, AfterSnapshot(s, e))
<1> DEFINE told == [k \in Card |-> IF e.instance # s.instance \/ e.revision < s.told[k].revision
                                  THEN s.told[k]
                                  ELSE [value |-> e.payload[k], revision |-> e.revision]]
           since == IF e.instance = s.instance THEN e.revision ELSE 0
           t == AfterSnapshot(s, e)
<1>1. /\ s.told \in [Card -> [value : Held, revision : Nat]] /\ e.revision \in Nat
      /\ e.payload \in Cards
  BY DEF Browsers, Snapshots
<1>2. AfterSnapshot(s, e) =
          [s EXCEPT !.applying = None, !.recover = FALSE, !.resume = None, !.dirty = FALSE,
                    !.awaiting = FALSE, !.latest = e.revision, !.presence = e.revision,
                    !.gap = FALSE, !.since = since, !.told = told]
  BY DEF AfterSnapshot
<1>3. \A k \in Card : told[k] = IF e.instance # s.instance \/ e.revision < s.told[k].revision
                               THEN s.told[k]
                               ELSE [value |-> e.payload[k], revision |-> e.revision]
  OBVIOUS
<1>4. since = IF e.instance = s.instance THEN e.revision ELSE 0
  OBVIOUS
<1> HIDE DEF told, since
<1>5. /\ t.told = told /\ t.since = since /\ t.latest = e.revision /\ t.applying = None
      /\ t.me = s.me /\ t.instance = s.instance /\ t.queued = s.queued /\ t.later = s.later
      /\ t.answers = s.answers
  BY <1>2 DEF Browsers
<1> HIDE DEF t
<1>6. ToldTrue(H, i, r, s)
  BY DEF WordInv
<1>7. s.instance = i /\ e.instance = i =>
          /\ e.revision <= r /\ H[e.revision] = e.payload
          /\ \A k \in Card : told[k] = IF e.revision < s.told[k].revision THEN s.told[k]
                                      ELSE [value |-> e.payload[k], revision |-> e.revision]
  BY <1>3 DEF TrueSnapshot
<1>8. s.instance = i /\ e.instance # i => \A k \in Card : told[k] = s.told[k]
  BY <1>3
<1>9. ToldTrue(H, i, r, t)
  <2> SUFFICES ASSUME s.instance = i, NEW k \in Card
               PROVE  /\ told[k].revision <= r
                      /\ told[k].revision > 0 => told[k].value = H[told[k].revision][k]
    BY <1>5 DEF ToldTrue
  <2>1. CASE e.instance # i
    BY <1>6, <1>8, <2>1 DEF ToldTrue
  <2>2. CASE e.instance = i
    <3>1. CASE e.revision < s.told[k].revision
      <4>1. told[k] = s.told[k]
        BY <1>7, <2>2, <3>1
      <4> QED
        BY <1>6, <4>1 DEF ToldTrue
    <3>2. CASE ~(e.revision < s.told[k].revision)
      <4> DEFINE word == [value |-> e.payload[k], revision |-> e.revision]
      <4>1. told[k] = word
        BY <1>7, <2>2, <3>2
      <4>2. word.value = e.payload[k] /\ word.revision = e.revision
        OBVIOUS
      <4> HIDE DEF word
      <4> QED
        BY <1>7, <2>2, <4>1, <4>2
    <3> QED
      BY <3>1, <3>2
  <2> QED
    BY <2>1, <2>2
<1>10. KnowsAll(H, i, r, t)
  <2> SUFFICES ASSUME s.instance = i, since > 0
               PROVE  /\ e.revision \in 1..r
                      /\ \A k \in Card : /\ told[k].revision > 0
                            /\ \A n \in told[k].revision..e.revision : H[n][k] = told[k].value
    BY <1>5 DEF KnowsAll
  <2>1. e.instance = i /\ e.revision > 0 /\ e.revision \in 1..r
    BY <1>1, <1>4, <1>7
  <2> SUFFICES ASSUME NEW k \in Card
               PROVE  /\ told[k].revision > 0
                      /\ \A n \in told[k].revision..e.revision : H[n][k] = told[k].value
    BY <2>1
  <2>2. s.told[k].revision \in Nat
    BY <1>1
  <2>3. CASE e.revision < s.told[k].revision
    <3>1. told[k] = s.told[k]
      BY <1>7, <2>1, <2>3
    <3> QED
      BY <1>1, <2>1, <2>2, <2>3, <3>1
  <2>4. CASE ~(e.revision < s.told[k].revision)
    <3>1. told[k].value = e.payload[k] /\ told[k].revision = e.revision
      <4> DEFINE word == [value |-> e.payload[k], revision |-> e.revision]
      <4>1. told[k] = word
        BY <1>7, <2>1, <2>4
      <4>2. word.value = e.payload[k] /\ word.revision = e.revision
        OBVIOUS
      <4> HIDE DEF word
      <4> QED
        BY <4>1, <4>2
    <3>2. H[e.revision][k] = e.payload[k]
      BY <1>7, <2>1
    <3>3. \A n \in e.revision..e.revision : n = e.revision
      BY <1>1
    <3> QED
      BY <2>1, <3>1, <3>2, <3>3
  <2> QED
    BY <2>3, <2>4
<1> QED
  BY <1>5, <1>9, <1>10 DEF WordInv, t

LEMMA ReplayWord ==
    ASSUME NEW H \in Histories, NEW i \in Nat, NEW r \in Nat, NEW s \in Browsers,
           WordInv(H, i, r, s)
    PROVE  WordInv(H, i, r, ReplayQueued(s))
<1> DEFINE E == TrueEvents(H, i, r)
           S == {t \in Browsers : WordInv(H, i, r, t)}
           u == Replaying(s)
<1>1. s.queued \in Seq(E) /\ s.later \in Seq(E)
  BY DEF WordInv
<1>2. E \subseteq Events
  BY DEF TrueEvents
<1>3. u \in S
  <2>1. <<>> \in Seq(Events) /\ <<>> \in Seq(E)
    OBVIOUS
  <2> HIDE DEF E
  <2>2. /\ u \in Browsers /\ u.applying = None /\ u.queued = <<>>
        /\ u.me = s.me /\ u.instance = s.instance /\ u.told = s.told /\ u.latest = s.latest
        /\ u.gap = s.gap /\ u.since = s.since /\ u.awaiting = s.awaiting
        /\ u.later = s.later /\ u.answers = s.answers
    BY <2>1 DEF Browsers, Replaying
  <2> HIDE DEF u
  <2>3. WordInv(H, i, r, u)
    BY <2>1, <2>2 DEF WordInv, ToldTrue, KnowsAll, E
  <2> QED
    BY <2>2, <2>3
<1>4. \A t \in S : \A e \in E : OnEvent(t, e) \in S
  BY <1>2, EventEffect, EventWord
<1>5. S \subseteq Browsers /\ \A t \in S : WordInv(H, i, r, t)
  OBVIOUS
<1> HIDE DEF S, E, u
<1>6. \E t \in S : \E left \in Seq(E) : \E over \in BOOLEAN :
          ReplayQueued(s) = Leaves(t, left, over)
  BY <1>1, <1>2, <1>3, <1>4, ReplayQueuedStays DEF u
<1>7. PICK t \in S, left \in Seq(E), over \in BOOLEAN :
          ReplayQueued(s) = Leaves(t, left, over)
  BY <1>6
<1> DEFINE v == Leaves(t, left, over)
<1>8. /\ v.later = left
      /\ v.me = t.me /\ v.instance = t.instance /\ v.told = t.told /\ v.latest = t.latest
      /\ v.gap = t.gap /\ v.since = t.since /\ v.awaiting = t.awaiting
      /\ v.applying = t.applying /\ v.queued = t.queued /\ v.answers = t.answers
  BY <1>5 DEF Leaves, Browsers
<1>9. WordInv(H, i, r, t)
  BY <1>5
<1> HIDE DEF v
<1>10. WordInv(H, i, r, v)
  BY <1>8, <1>9 DEF WordInv, ToldTrue, KnowsAll, E
<1> QED
  BY <1>7, <1>10 DEF v

LEMMA InitWord ==
    ASSUME NEW H \in Histories, NEW i \in Nat, NEW r \in Nat, NEW c \in Client, NEW s \in Browsers,
           WordInv(H, i, r, s), NEW e \in NewInits(i)
    PROVE  WordInv(H, i, r, OnInit(c, s, e))
<1> DEFINE told == IF e.instance = s.instance THEN s.told ELSE NothingTold
           rec == c \in Owner /\ s.instance \notin {0, e.instance}
           gap == e.revision > e.durable
           t == [s EXCEPT !.me = e.conn, !.instance = e.instance, !.recover = rec,
                          !.latest = e.durable, !.gap = gap, !.awaiting = TRUE, !.told = told]
<1>1. e \in Inits /\ e.instance = i
  BY DEF NewInits
<1>2. OnInit(c, s, e) = SeedBaselines(t)
  BY DEF OnInit
<1>3. (told = s.told /\ s.instance = i) \/ told = NothingTold
  BY <1>1
<1>4. t \in Browsers
  <2>1. told \in [Card -> [value : Held, revision : Nat]]
    BY DEF Browsers, NothingTold, Held
  <2>2. /\ e.conn \in Nat /\ e.instance \in Nat /\ e.durable \in Nat
        /\ rec \in BOOLEAN /\ gap \in BOOLEAN
    BY <1>1 DEF Inits
  <2> HIDE DEF told, rec, gap
  <2> QED
    BY <2>1, <2>2 DEF Browsers
<1> HIDE DEF told, rec, gap
<1>5. /\ t.instance = i /\ t.awaiting /\ t.told = told
      /\ t.applying = s.applying /\ t.queued = s.queued /\ t.later = s.later
      /\ t.answers = s.answers
  BY <1>1 DEF Browsers
<1> HIDE DEF t
<1>6. ToldTrue(H, i, r, t)
  BY <1>3, <1>5 DEF WordInv, ToldTrue, NothingTold
<1>7. WordInv(H, i, r, t)
  BY <1>5, <1>6 DEF WordInv, KnowsAll
<1>8. SameWord(SeedBaselines(t), t) /\ SeedBaselines(t).me = t.me
  BY <1>4, SeedEffect DEF SameQueue
<1> QED
  BY <1>2, <1>7, <1>8, SameWordInv

-----------------------------------------------------------------------------
(* The history grows, or a new one begins with a new process.                *)

\* Words of the history H up to revision r stand in G up to q: G continues H, or
\* the process is another.
Continues(H, i, r, G, j, q) ==
    \/ j = i /\ r <= q /\ \A n \in 0..r : G[n] = H[n]
    \/ j = i + 1

LEMMA MoreTrue ==
    ASSUME NEW H \in Histories, NEW i \in Nat, NEW r \in Nat,
           NEW G \in Histories, NEW j \in Nat, NEW q \in Nat, Continues(H, i, r, G, j, q)
    PROVE  /\ \A x : x.instance \in Nat /\ TrueChange(H, i, r, x) => TrueChange(G, j, q, x)
           /\ TrueEvents(H, i, r) \subseteq TrueEvents(G, j, q)
<1>1. ASSUME NEW x, x.instance \in Nat, TrueChange(H, i, r, x)
      PROVE  TrueChange(G, j, q, x)
  <2>1. CASE j = i + 1
    BY <1>1, <2>1 DEF TrueChange
  <2>2. CASE j = i /\ r <= q /\ \A n \in 0..r : G[n] = H[n]
    <3>1. CASE x.instance # i
      BY <1>1, <2>2, <3>1 DEF TrueChange
    <3>2. CASE x.instance = i
      <4>1. x.revision \in 1..r /\ x.revision \in 0..r /\ x.revision - 1 \in 0..r
        BY <1>1, <3>2 DEF TrueChange
      <4>2. G[x.revision] = H[x.revision] /\ G[x.revision - 1] = H[x.revision - 1]
            /\ x.revision \in 1..q
        BY <2>2, <4>1
      <4> QED
        BY <1>1, <2>2, <3>2, <4>2 DEF TrueChange, Becoming
    <3> QED
      BY <3>1, <3>2
  <2> QED
    BY <2>1, <2>2 DEF Continues
<1>2. ASSUME NEW e \in Snapshots, TrueSnapshot(H, i, r, e)
      PROVE  TrueSnapshot(G, j, q, e)
  <2>1. e.instance \in Nat /\ e.revision \in Nat
    BY DEF Snapshots
  <2>2. CASE j = i + 1
    BY <1>2, <2>1, <2>2 DEF TrueSnapshot
  <2>3. CASE j = i /\ r <= q /\ \A n \in 0..r : G[n] = H[n]
    BY <1>2, <2>1, <2>3 DEF TrueSnapshot
  <2> QED
    BY <2>2, <2>3 DEF Continues
<1>3. ASSUME NEW e \in TrueEvents(H, i, r)
      PROVE  e \in TrueEvents(G, j, q)
  <2>1. e \in Events /\ (e.type = "snapshot" => TrueSnapshot(H, i, r, e))
        /\ (e.type \in Kind => TrueChange(H, i, r, e))
    BY DEF TrueEvents
  <2>2. e.type = "snapshot" => TrueSnapshot(G, j, q, e)
    BY <1>2, <2>1, EventKinds
  <2>3. e.type \in Kind => TrueChange(G, j, q, e)
    <3>1. e.type \in Kind => e \in Changes
      BY <2>1, EventKinds DEF Kind
    <3>2. e \in Changes => e.instance \in Nat
      BY DEF Changes
    <3> QED
      BY <1>1, <2>1, <3>1, <3>2
  <2> QED
    BY <2>1, <2>2, <2>3 DEF TrueEvents
<1> QED
  BY <1>1, <1>3

LEMMA MoreWord ==
    ASSUME NEW H \in Histories, NEW i \in Nat, NEW r \in Nat,
           NEW G \in Histories, NEW j \in Nat, NEW q \in Nat, Continues(H, i, r, G, j, q),
           NEW s \in Browsers, WordInv(H, i, r, s), j = i \/ s.me = 0
    PROVE  WordInv(G, j, q, s)
<1>1. /\ \A x : x.instance \in Nat /\ TrueChange(H, i, r, x) => TrueChange(G, j, q, x)
      /\ TrueEvents(H, i, r) \subseteq TrueEvents(G, j, q)
  BY MoreTrue
<1>2. \A a \in s.answers : a.instance \in Nat
  BY DEF Browsers, Answers
<1>3. /\ s.applying \in TrueEvents(G, j, q) \cup {None}
      /\ s.queued \in Seq(TrueEvents(G, j, q)) /\ s.later \in Seq(TrueEvents(G, j, q))
      /\ \A a \in s.answers : a.ok => TrueChange(G, j, q, a)
  BY <1>1, <1>2 DEF WordInv
<1>4. s.instance \in Nat /\ s.instance <= i /\ ToldTrue(H, i, r, s) /\ KnowsAll(H, i, r, s)
  BY DEF WordInv, Browsers
<1>5. CASE j = i + 1
  <2>1. ToldTrue(G, j, q, s) /\ KnowsAll(G, j, q, s)
    BY <1>4, <1>5 DEF ToldTrue, KnowsAll
  <2> QED
    BY <1>3, <1>4, <1>5, <2>1 DEF WordInv
<1>6. CASE j = i /\ r <= q /\ \A n \in 0..r : G[n] = H[n]
  <2>1. /\ s.told \in [Card -> [value : Held, revision : Nat]]
        /\ \A k \in Card : s.told[k].revision \in Nat
        /\ s.latest \in Nat
    BY DEF Browsers
  <2>2. ToldTrue(G, j, q, s)
    BY <1>4, <1>6, <2>1 DEF ToldTrue
  <2>3. KnowsAll(G, j, q, s)
    <3> SUFFICES ASSUME s.instance = i, s.since > 0, ~s.awaiting, ~s.gap
                 PROVE  /\ s.latest \in 1..q
                        /\ \A k \in Card : /\ s.told[k].revision > 0
                              /\ \A n \in s.told[k].revision..s.latest : G[n][k] = s.told[k].value
      BY <1>6 DEF KnowsAll
    <3>1. /\ s.latest \in 1..r
          /\ \A k \in Card : /\ s.told[k].revision > 0
                /\ \A n \in s.told[k].revision..s.latest : H[n][k] = s.told[k].value
      BY <1>4 DEF KnowsAll
    <3>2. \A k \in Card : \A n \in s.told[k].revision..s.latest : G[n] = H[n]
      BY <1>6, <2>1, <3>1
    <3> QED
      BY <1>6, <3>1, <3>2
  <2> QED
    BY <1>3, <1>4, <1>6, <2>2, <2>3 DEF WordInv
<1> QED
  BY <1>5, <1>6 DEF Continues

-----------------------------------------------------------------------------
(* The steps.                                                                *)

\* What is on its way to a client.
Way(H) == TrueEvents(H, instance, revision) \cup NewInits(instance)

LEMMA HistoryType ==
    ASSUME TypeOK, NEW H, HistoryInv(H), NEW c \in Client
    PROVE  /\ client[c] \in Browsers /\ instance \in Nat /\ revision \in Nat
           /\ WordInv(H, instance, revision, client[c])
           /\ H[revision] = live
           /\ stream[c] \in Seq(Way(H))
           /\ held[c] \in Seq(TrueEvents(H, instance, revision))
           /\ syncing[c] \in TrueEvents(H, instance, revision) \cup {None}
BY DEF TypeOK, HistoryInv, Way

\* A step of one browser, which may take something from its stream.
LEMMA WordStep ==
    ASSUME TypeOK, NEW H, HistoryInv(H), NEW c \in Client, NEW s, Becomes(c, s),
           WordInv(H, instance, revision, s),
           UNCHANGED <<live, revision, durableRevision, instance, held, syncing>>,
           \A d \in Client : stream'[d] \in Seq(Way(H))
    PROVE  HistoryInv(H)'
<1>1. H[revision'] = live' /\ FromStored(instance', revision', durableRevision', live')
  BY DEF HistoryInv
<1>2. ASSUME NEW d \in Client
      PROVE  /\ stream'[d] \in Seq(TrueEvents(H, instance', revision') \cup NewInits(instance'))
             /\ held'[d] \in Seq(TrueEvents(H, instance', revision'))
             /\ syncing'[d] \in TrueEvents(H, instance', revision') \cup {None}
             /\ WordInv(H, instance', revision', client'[d])
  <2>1. /\ stream'[d] \in Seq(TrueEvents(H, instance', revision') \cup NewInits(instance'))
        /\ held'[d] \in Seq(TrueEvents(H, instance', revision'))
        /\ syncing'[d] \in TrueEvents(H, instance', revision') \cup {None}
    BY DEF HistoryInv, Way
  <2>2. client'[d] = IF d = c THEN s ELSE client[d]
    BY DEF Becomes, TypeOK
  <2>3. WordInv(H, instance, revision, client'[d])
    BY <2>2 DEF HistoryInv
  <2> QED
    BY <2>1, <2>3
<1> QED
  BY <1>1, <1>2 DEF HistoryInv

LEMMA WordAlone ==
    ASSUME TypeOK, NEW H, HistoryInv(H), NEW c \in Client, NEW s, Becomes(c, s),
           WordInv(H, instance, revision, s),
           UNCHANGED <<live, revision, durableRevision, instance, held, syncing, stream>>
    PROVE  HistoryInv(H)'
<1>1. \A d \in Client : stream'[d] \in Seq(Way(H))
  BY HistoryType
<1> QED
  BY <1>1, WordStep

LEMMA ReceiveWord ==
    ASSUME TypeOK, NEW H \in Histories, HistoryInv(H), NEW c \in Client, Receive(c)
    PROVE  HistoryInv(H)'
<1> DEFINE e == Head(stream[c])
           s == client[c]
           t == IF e.type = "init" THEN OnInit(c, s, e) ELSE OnEvent(s, e)
<1>1. /\ s \in Browsers /\ instance \in Nat /\ revision \in Nat
      /\ WordInv(H, instance, revision, s) /\ stream[c] \in Seq(Way(H))
  BY HistoryType
<1>2. e \in Way(H) /\ Tail(stream[c]) \in Seq(Way(H))
  BY <1>1 DEF Receive
<1>3. Becomes(c, t) /\ stream' = [stream EXCEPT ![c] = Tail(@)] /\ UNCHANGED <<serverVars, counters>>
  BY DEF Receive
<1> HIDE DEF e, s
<1>4. WordInv(H, instance, revision, t)
  <2>1. CASE e.type = "init"
    <3>1. e \in NewInits(instance)
      BY <1>2, <2>1, EventKinds DEF Way, TrueEvents
    <3> QED
      BY <1>1, <2>1, <3>1, InitWord
  <2>2. CASE e.type # "init"
    <3>1. e \in TrueEvents(H, instance, revision)
      BY <1>2, <2>2 DEF Way, NewInits, Inits
    <3> QED
      BY <1>1, <2>2, <3>1, EventWord
  <2> QED
    BY <2>1, <2>2
<1> HIDE DEF t
<1>5. \A d \in Client : stream'[d] \in Seq(Way(H))
  BY <1>2, <1>3, HistoryType DEF TypeOK
<1> QED
  BY <1>3, <1>4, <1>5, WordStep DEF serverVars

LEMMA SnapshotStepWord ==
    ASSUME TypeOK, NEW H \in Histories, HistoryInv(H), NEW c \in Client,
           FinishSnapshot(c) \/ FailSnapshot(c)
    PROVE  HistoryInv(H)'
<1> DEFINE s == client[c]
           u == [s EXCEPT !.gap = TRUE, !.awaiting = TRUE]
<1>1. /\ s \in Browsers /\ instance \in Nat /\ revision \in Nat
      /\ WordInv(H, instance, revision, s)
  BY HistoryType
<1>2. CASE FinishSnapshot(c)
  <2> DEFINE e == s.applying
             a == AfterSnapshot(s, e)
             t == ApplySnapshot(c, s, e)
  <2>1. e \in Snapshots /\ TrueSnapshot(H, instance, revision, e)
    <3>1. e \in Snapshots
      BY <1>1, <1>2 DEF FinishSnapshot, Browsers
    <3>2. e \in TrueEvents(H, instance, revision)
      BY <1>1, <1>2 DEF FinishSnapshot, WordInv
    <3> QED
      BY <3>1, <3>2 DEF TrueEvents, Snapshots
  <2>2. Becomes(c, ReplayQueued(t)) /\ UNCHANGED <<serverVars, stream, counters>>
    BY <1>2 DEF FinishSnapshot
  <2>3. a.me = s.me /\ WordInv(H, instance, revision, a)
    BY <1>1, <2>1, AfterSnapshotEffect, AfterSnapshotWord DEF SameQueue
  <2>4. t \in Browsers /\ SameWord(t, a) /\ t.me = s.me
    BY <1>1, <2>1, ApplySnapshotEffect
  <2> HIDE DEF a, t
  <2>5. WordInv(H, instance, revision, t)
    BY <2>3, <2>4, SameWordInv
  <2>6. WordInv(H, instance, revision, ReplayQueued(t))
    BY <1>1, <2>4, <2>5, ReplayWord
  <2> QED
    BY <2>2, <2>6, WordAlone DEF serverVars
<1>3. CASE FailSnapshot(c)
  <2>1. /\ u \in Browsers /\ u.gap
        /\ u.me = s.me /\ u.instance = s.instance /\ u.told = s.told
        /\ u.applying = s.applying /\ u.queued = s.queued /\ u.later = s.later
        /\ u.answers = s.answers
    BY <1>1 DEF Browsers
  <2>2. Becomes(c, ReplayQueued(u)) /\ UNCHANGED <<serverVars, stream>>
    BY <1>3 DEF FailSnapshot
  <2> HIDE DEF u
  <2>3. WordInv(H, instance, revision, u)
    BY <1>1, <2>1 DEF WordInv, ToldTrue, KnowsAll
  <2>4. WordInv(H, instance, revision, ReplayQueued(u))
    BY <1>1, <2>1, <2>3, ReplayWord
  <2> QED
    BY <2>2, <2>4, WordAlone DEF serverVars
<1> QED
  BY <1>2, <1>3

LEMMA EditWord ==
    ASSUME TypeOK, NEW H, HistoryInv(H), NEW c \in Client, NEW k \in Card,
           NEW v \in Value \cup {Absent}, Edit(c, k, v)
    PROVE  HistoryInv(H)'
<1> DEFINE t == Edited(client[c], k, v)
<1>1. SameWord(t, client[c]) /\ t.me = client[c].me
  BY ClientType, EditedEffect DEF SameQueue
<1>2. Becomes(c, t) /\ UNCHANGED <<serverVars, stream>>
  BY DEF Edit, Edited
<1> HIDE DEF t
<1>3. WordInv(H, instance, revision, t)
  BY <1>1, HistoryType, SameWordInv
<1> QED
  BY <1>2, <1>3, WordAlone DEF serverVars

LEMMA FetchWord ==
    ASSUME TypeOK, NEW H, HistoryInv(H), NEW c \in Client, NEW e \in client[c].creating,
           FetchFail(c, e) \/ \E v \in Value \cup {Absent} : FetchDone(c, e, v)
    PROVE  HistoryInv(H)'
<1>1. PICK t \in Browsers : /\ Becomes(c, t) /\ SameQueue(t, client[c]) /\ SameWord(t, client[c])
                            /\ UNCHANGED <<serverVars, stream, edits, conns>>
  BY FetchEffect
<1>2. WordInv(H, instance, revision, t)
  BY <1>1, HistoryType, SameWordInv DEF SameQueue
<1> QED
  BY <1>1, <1>2, WordAlone DEF serverVars

LEMMA TickWord ==
    ASSUME TypeOK, NEW H, HistoryInv(H), NEW c \in Client, NEW early \in SUBSET Card, Tick(c, early)
    PROVE  HistoryInv(H)'
<1> DEFINE due == Unsent(client[c]) \ early
           t == BroadcastDeltas(client[c], due)
<1>1. due \in SUBSET Card
  BY DEF Unsent
<1>2. Becomes(c, t) /\ UNCHANGED <<serverVars, stream, counters>>
  BY DEF Tick
<1> HIDE DEF due
<1>3. SameWord(t, client[c]) /\ t.me = client[c].me
  BY <1>1, ClientType, BroadcastEffect
<1> HIDE DEF t
<1>4. WordInv(H, instance, revision, t)
  BY <1>3, HistoryType, SameWordInv
<1> QED
  BY <1>2, <1>4, WordAlone DEF serverVars

\* Fewer answers to come say nothing new.
LEMMA HeardWord ==
    ASSUME NEW H, NEW i, NEW r, NEW s \in Browsers, NEW a \in s.answers, WordInv(H, i, r, s)
    PROVE  WordInv(H, i, r, Heard(s, a))
<1> DEFINE t == Heard(s, a)
<1>1. /\ t \in Browsers /\ t.answers = s.answers \ {a}
      /\ SameQueue([t EXCEPT !.answers = s.answers], s)
      /\ SameWord([t EXCEPT !.answers = s.answers], s)
  BY HeardEffect
<1> HIDE DEF t
<1>2. /\ t.me = s.me /\ t.instance = s.instance /\ t.told = s.told /\ t.latest = s.latest
      /\ t.gap = s.gap /\ t.since = s.since /\ t.awaiting = s.awaiting
      /\ t.applying = s.applying /\ t.queued = s.queued /\ t.later = s.later
  BY <1>1 DEF SameWord, SameQueue, Browsers
<1>3. WordInv(H, i, r, t)
  BY <1>1, <1>2 DEF WordInv, ToldTrue, KnowsAll
<1> QED
  BY <1>3 DEF t

\* The word of an answer, taken by a state that differs from s in no word.
LEMMA AnsweredInv ==
    ASSUME NEW H \in Histories, NEW i \in Nat, NEW r \in Nat, NEW s \in Browsers,
           WordInv(H, i, r, s), NEW a \in Answers, TrueChange(H, i, r, a),
           NEW u \in Browsers, SameWord(u, s), NEW t, t.me = s.me, u.me = s.me,
           SameWord(t, Told(Observe(u, a.revision), a))
    PROVE  WordInv(H, i, r, t)
<1> DEFINE o == Observe(u, a.revision)
<1>1. a.revision \in Nat /\ a.card \in Card /\ a.now \in Held
  BY DEF Answers
<1>2. WordInv(H, i, r, u)
  BY SameWordInv
<1>3. o \in Browsers /\ SameWord(o, o) /\ o.me = u.me
  BY <1>1, ObserveEffect DEF SameQueue, SameWord
<1>4. WordInv(H, i, r, Told(o, a))
  BY <1>1, <1>2, <1>3, ToldInv
<1>5. Told(o, a).me = o.me
  <2> HIDE DEF o
  <2> QED
    BY <1>1, <1>3, ToldEffect DEF SameQueue
<1> HIDE DEF o
<1> QED
  BY <1>3, <1>4, <1>5, SameWordInv DEF o

LEMMA AnswerWord ==
    ASSUME TypeOK, NEW H \in Histories, HistoryInv(H), NEW c \in Client,
           NEW a \in client[c].answers, Answer(c, a)
    PROVE  HistoryInv(H)'
<1> DEFINE h == Heard(client[c], a)
           t == Learned(h, a)
           u == Finished(t, a)
<1>1. /\ client[c] \in Browsers /\ instance \in Nat /\ revision \in Nat
      /\ WordInv(H, instance, revision, client[c])
  BY HistoryType
<1>2. a \in Answers /\ h \in Browsers /\ WordInv(H, instance, revision, h)
  BY <1>1, HeardEffect, HeardWord
<1>3. Becomes(c, u) /\ UNCHANGED <<serverVars, stream, counters>>
  BY DEF Answer, Heard, Learned
<1> HIDE DEF h
<1>4. t \in Browsers /\ t.me = h.me
  BY <1>2, LearnedEffect DEF SameQueue
<1>5. WordInv(H, instance, revision, t)
  <2>1. CASE SameWord(t, h)
    BY <1>2, <1>4, <2>1, SameWordInv
  <2>2. CASE a.ok /\ SameWord(t, Told(Observe(h, a.revision), a))
    <3>1. TrueChange(H, instance, revision, a)
      BY <1>1, <2>2 DEF WordInv
    <3>2. SameWord(h, h)
      BY DEF SameWord
    <3> QED
      BY <1>1, <1>2, <1>4, <2>2, <3>1, <3>2, AnsweredInv
  <2> QED
    BY <1>2, <2>1, <2>2, LearnedEffect
<1> HIDE DEF t
<1>6. SameWord(u, t) /\ u.me = t.me
  BY <1>2, <1>4, FinishedEffect
<1> HIDE DEF u
<1>7. WordInv(H, instance, revision, u)
  BY <1>5, <1>6, SameWordInv
<1> QED
  BY <1>3, <1>7, WordAlone DEF serverVars

LEMMA AnswerFieldWord ==
    ASSUME TypeOK, NEW H \in Histories, HistoryInv(H), NEW c \in Client,
           NEW a \in client[c].answers, AnswerField(c, a)
    PROVE  HistoryInv(H)'
<1> DEFINE h == Heard(client[c], a)
           t == Committed(h, a)
<1>1. /\ client[c] \in Browsers /\ instance \in Nat /\ revision \in Nat
      /\ WordInv(H, instance, revision, client[c])
  BY HistoryType
<1>2. a \in Answers /\ h \in Browsers /\ WordInv(H, instance, revision, h)
  BY <1>1, HeardEffect, HeardWord
<1>3. Becomes(c, t) /\ UNCHANGED <<serverVars, stream, counters>>
  BY DEF AnswerField, Heard, Committed
<1> HIDE DEF h
<1>4. t \in Browsers /\ t.me = h.me
      /\ (a.ok => \E u \in Browsers : /\ SameWord(u, h) /\ u.me = h.me
                                     /\ SameWord(t, Told(Observe(u, a.revision), a)))
      /\ (~a.ok => SameWord(t, h))
  BY <1>2, CommittedEffect DEF SameQueue
<1> HIDE DEF t
<1>5. WordInv(H, instance, revision, t)
  <2>1. CASE ~a.ok
    BY <1>2, <1>4, <2>1, SameWordInv
  <2>2. CASE a.ok
    <3>1. TrueChange(H, instance, revision, a)
      BY <1>1, <2>2 DEF WordInv
    <3> QED
      BY <1>1, <1>2, <1>4, <2>2, <3>1, AnsweredInv
  <2> QED
    BY <2>1, <2>2
<1> QED
  BY <1>3, <1>5, WordAlone DEF serverVars

LEMMA CommitFieldWord ==
    ASSUME TypeOK, NEW H, HistoryInv(H), NEW c \in Client, NEW k \in Card, NEW v \in Value,
           CommitField(c, k, v)
    PROVE  HistoryInv(H)'
<1> DEFINE s == client[c]
           m == [type |-> "field", card |-> k, value |-> v, conn |-> s.me, sequence |-> 0,
                 generation |-> s.generation]
           t == [s EXCEPT !.wrote = TRUE, !.calls = @ \cup {m}]
<1>1. s \in Browsers /\ WordInv(H, instance, revision, s)
  BY HistoryType
<1>2. Becomes(c, t)
  BY Zenon DEF CommitField
<1>3. UNCHANGED <<live, revision, durableRevision, instance, held, syncing, stream>>
  BY DEF CommitField
<1> HIDE DEF m
<1>4. SameWord(t, s) /\ t.me = s.me
  BY <1>1 DEF Browsers, SameWord
<1> HIDE DEF t
<1>5. WordInv(H, instance, revision, t)
  BY <1>1, <1>4, SameWordInv
<1> QED
  BY <1>2, <1>3, <1>5, WordAlone

\* A call is answered: what the answer says is true if it says that it succeeded.
LEMMA RepliedWord ==
    ASSUME NEW H, NEW i, NEW r, NEW s \in Browsers, NEW m \in s.calls, NEW a \in Answers,
           WordInv(H, i, r, s), a.ok => TrueChange(H, i, r, a)
    PROVE  WordInv(H, i, r, Replied(s, m, a))
<1> DEFINE t == Replied(s, m, a)
<1>1. /\ t \in Browsers /\ t.answers = s.answers \cup {a}
      /\ SameQueue([t EXCEPT !.calls = s.calls, !.answers = s.answers], s)
      /\ SameWord([t EXCEPT !.answers = s.answers], s)
  BY RepliedEffect
<1> HIDE DEF t
<1>2. /\ t.me = s.me /\ t.instance = s.instance /\ t.told = s.told /\ t.latest = s.latest
      /\ t.gap = s.gap /\ t.since = s.since /\ t.awaiting = s.awaiting
      /\ t.applying = s.applying /\ t.queued = s.queued /\ t.later = s.later
  BY <1>1 DEF SameWord, SameQueue, Browsers
<1>3. WordInv(H, i, r, t)
  BY <1>1, <1>2 DEF WordInv, ToldTrue, KnowsAll
<1> QED
  BY <1>3 DEF t

LEMMA LoseCallWord ==
    ASSUME TypeOK, NEW H, HistoryInv(H), NEW c \in Client, NEW m \in client[c].calls,
           LoseCall(c, m)
    PROVE  HistoryInv(H)'
<1> DEFINE a == AnswerTo(m, FALSE, 0)
<1>1. Reply(c, m, FALSE, 0) /\ UNCHANGED <<serverVars, stream>>
  BY DEF LoseCall
<1>2. Becomes(c, Replied(client[c], m, a)) /\ a \in Answers
  BY <1>1, ReplyEffect
<1>3. ~a.ok
  BY DEF AnswerTo
<1> HIDE DEF a
<1>4. WordInv(H, instance, revision, Replied(client[c], m, a))
  BY <1>2, <1>3, HistoryType, RepliedWord
<1> QED
  BY <1>1, <1>2, <1>4, WordAlone DEF serverVars

\* The revision that the mutation m makes, as the next of the history.
WithRevision(H, m) == [n \in Nat |-> IF n = revision + 1 THEN Mutated(m) ELSE H[n]]

LEMMA WithRevisionTrue ==
    ASSUME TypeOK, NEW H \in Histories, HistoryInv(H), NEW m \in Mutations
    PROVE  /\ WithRevision(H, m) \in Histories
           /\ WithRevision(H, m)[revision + 1] = Mutated(m)
           /\ Continues(H, instance, revision, WithRevision(H, m), instance, revision + 1)
           /\ \A x : x.instance = instance /\ x.revision = revision + 1 /\ x.card = m.card
                     /\ x.type = m.type /\ x.value = m.value /\ x.now = Mutated(m)[m.card]
                     => TrueChange(WithRevision(H, m), instance, revision + 1, x)
<1> DEFINE G == WithRevision(H, m)
<1>1. revision \in Nat /\ instance \in Nat /\ revision + 1 \in Nat
  BY DEF TypeOK
<1>2. /\ Mutated(m) \in Cards /\ m.card \in Card
      /\ Mutated(m) = [live EXCEPT ![m.card] = Mutated(m)[m.card]]
  BY MutatedType
<1>3. \A n \in Nat : G[n] = IF n = revision + 1 THEN Mutated(m) ELSE H[n]
  BY DEF WithRevision
<1>4. G \in Histories
  BY <1>2 DEF WithRevision, Histories
<1> HIDE DEF G
<1>5. G[revision + 1] = Mutated(m) /\ G[revision] = live /\ \A n \in 0..revision : G[n] = H[n]
  BY <1>1, <1>3 DEF HistoryInv
<1>6. \A k \in Card \ {m.card} : Mutated(m)[k] = live[k]
  <2>1. live \in Cards
    BY DEF TypeOK
  <2> DEFINE v == Mutated(m)[m.card]
  <2>2. Mutated(m) = [live EXCEPT ![m.card] = v]
    BY <1>2
  <2> HIDE DEF v
  <2> QED
    BY <2>1, <2>2 DEF Cards
<1>7. ASSUME NEW x, x.instance = instance, x.revision = revision + 1, x.card = m.card,
             x.type = m.type, x.value = m.value, x.now = Mutated(m)[m.card]
      PROVE  TrueChange(G, instance, revision + 1, x)
  <2>1. x.revision - 1 = revision /\ x.revision \in 1..(revision + 1)
    BY <1>1, <1>7
  <2>2. x.instance >= 1 /\ (x.instance = 1 => x.revision > FirstRevision)
    BY <1>1, <1>7, BoundAssumption DEF HistoryInv, FromStored
  <2>3. x.now = Becoming(G, x)
    <3>1. Written(x) = Written(m)
      BY <1>7 DEF Written
    <3>2. Mutated(m)[m.card] = IF m.type # "create" /\ live[m.card] = Absent THEN Absent
                               ELSE Written(m)
      <4>1. live \in [Card -> Value \cup {Absent}]
        BY DEF TypeOK, Cards
      <4> QED
        BY <1>2, <4>1 DEF Mutated
    <3> QED
      BY <1>5, <1>7, <2>1, <3>1, <3>2 DEF Becoming
  <2>4. /\ G[x.revision][x.card] = x.now
        /\ \A k \in Card \ {x.card} : G[x.revision][k] = G[x.revision - 1][k]
    BY <1>5, <1>6, <1>7, <2>1
  <2> QED
    BY <1>1, <1>7, <2>1, <2>2, <2>3, <2>4 DEF TrueChange
<1>8. Continues(H, instance, revision, G, instance, revision + 1)
  BY <1>1, <1>5 DEF Continues
<1> QED
  BY <1>4, <1>5, <1>7, <1>8 DEF G

\* The history G of the next state continues H, that of this one.
Continued(H, G) == Continues(H, instance, revision, G, instance', revision')

LEMMA HandleWord ==
    ASSUME TypeOK, NEW H \in Histories, HistoryInv(H), NEW c \in Client,
           NEW m \in client[c].calls, NEW heard \in BOOLEAN,
           NEW unknown \in SUBSET (Client \ Owner), Handle(c, m, heard, unknown)
    PROVE  \E G \in Histories : HistoryInv(G)' /\ Continued(H, G)
<1>1. m \in Mutations /\ revision + 1 \in Nat /\ revision \in Nat /\ instance \in Nat
  <2>1. revision \in Nat /\ instance \in Nat
    BY DEF TypeOK
  <2>2. client[c].calls \in SUBSET Mutations
    BY ClientType DEF Browsers
  <2> QED
    BY <2>1, <2>2
<1>2. UNCHANGED <<instance, syncing, durableRevision>>
  BY DEF Handle
<1>3. CASE ~Accepts(c, m)
  <2> DEFINE a == AnswerTo(m, FALSE, 0)
  <2>1. Reply(c, m, FALSE, 0) /\ UNCHANGED <<live, revision, held, stream>>
    BY <1>3 DEF Handle
  <2>2. Becomes(c, Replied(client[c], m, a)) /\ a \in Answers
    BY <2>1, ReplyEffect
  <2>3. ~a.ok
    BY DEF AnswerTo
  <2> HIDE DEF a
  <2>4. WordInv(H, instance, revision, Replied(client[c], m, a))
    BY <2>2, <2>3, HistoryType, RepliedWord
  <2>5. HistoryInv(H)'
    BY <1>2, <2>1, <2>2, <2>4, WordAlone
  <2>6. Continued(H, H)
    BY <1>1, <1>2, <2>1 DEF Continued, Continues
  <2> QED
    BY <2>5, <2>6
<1>4. CASE Accepts(c, m)
  <2> DEFINE r == revision + 1
             a == AnswerTo(m, heard, r)
             e == Event(m)
  <2>1. /\ live' = Mutated(m) /\ revision' = r
        /\ BroadcastMutation(c, m, unknown) /\ Reply(c, m, heard, r)
    BY <1>4 DEF Handle
  <2>2. PICK G \in Histories :
            /\ G[r] = Mutated(m)
            /\ Continues(H, instance, revision, G, instance, r)
            /\ \A x : x.instance = instance /\ x.revision = r /\ x.card = m.card
                      /\ x.type = m.type /\ x.value = m.value /\ x.now = Mutated(m)[m.card]
                      => TrueChange(G, instance, r, x)
    BY <1>1, WithRevisionTrue
  <2>3. Becomes(c, Replied(client[c], m, a)) /\ a \in Answers
    BY <1>1, <2>1, ReplyEffect
  <2>4. TrueChange(G, instance, r, a)
    <3>1. /\ a.instance = instance /\ a.revision = r /\ a.card = m.card
          /\ a.type = m.type /\ a.value = m.value /\ a.now = Mutated(m)[m.card]
      BY DEF AnswerTo
    <3> QED
      BY <2>2, <3>1
  <2>5. e \in TrueEvents(G, instance, r)
    <3>1. /\ e.instance = instance /\ e.revision = r /\ e.card = m.card
          /\ e.type = m.type /\ e.value = m.value /\ e.now = Mutated(m)[m.card]
      BY DEF Event
    <3>2. e \in Changes /\ e.type # "snapshot" /\ e \in Events
      BY <1>1, EventType DEF Changes, Kind, Events
    <3>3. TrueChange(G, instance, r, e)
      BY <2>2, <3>1
    <3> HIDE DEF e
    <3> QED
      BY <3>2, <3>3 DEF TrueEvents
  <2>6. \A d \in Client :
            /\ stream'[d] = stream[d] \/ stream'[d] = Append(stream[d], e)
            /\ held'[d] = held[d] \/ held'[d] = Append(held[d], e)
    BY <2>1 DEF BroadcastMutation
  <2> HIDE DEF a, e, r
  <2>7. r \in Nat
    BY <1>1 DEF r
  <2>8. TrueEvents(H, instance, revision) \subseteq TrueEvents(G, instance, r)
    BY <1>1, <2>2, <2>7, MoreTrue
  <2>9. ASSUME NEW d \in Client
        PROVE  /\ stream'[d] \in Seq(TrueEvents(G, instance, r) \cup NewInits(instance))
               /\ held'[d] \in Seq(TrueEvents(G, instance, r))
               /\ syncing'[d] \in TrueEvents(G, instance, r) \cup {None}
    <3>1. /\ stream[d] \in Seq(TrueEvents(G, instance, r) \cup NewInits(instance))
          /\ held[d] \in Seq(TrueEvents(G, instance, r))
          /\ syncing[d] \in TrueEvents(G, instance, r) \cup {None}
      <4>1. /\ stream[d] \in Seq(TrueEvents(H, instance, revision) \cup NewInits(instance))
            /\ held[d] \in Seq(TrueEvents(H, instance, revision))
            /\ syncing[d] \in TrueEvents(H, instance, revision) \cup {None}
        BY DEF HistoryInv
      <4> QED
        BY <2>8, <4>1
    <3>2. /\ Append(stream[d], e) \in Seq(TrueEvents(G, instance, r) \cup NewInits(instance))
          /\ Append(held[d], e) \in Seq(TrueEvents(G, instance, r))
      BY <2>5, <3>1
    <3> QED
      BY <1>2, <2>6, <3>1, <3>2
  <2>10. ASSUME NEW d \in Client
         PROVE  WordInv(G, instance, r, client'[d])
    <3>1. client[d] \in Browsers /\ WordInv(H, instance, revision, client[d])
      BY HistoryType
    <3>2. WordInv(G, instance, r, client[d])
      BY <1>1, <2>2, <2>7, <3>1, MoreWord
    <3>3. CASE d = c
      <4>1. client'[d] = Replied(client[c], m, a)
        BY <2>3, <3>3 DEF Becomes, TypeOK
      <4> QED
        BY <2>3, <2>4, <3>1, <3>2, <3>3, <4>1, RepliedWord
    <3>4. CASE d # c
      <4>1. client'[d] = client[d]
        BY <2>3, <3>4 DEF Becomes, TypeOK
      <4> QED
        BY <3>2, <4>1
    <3> QED
      BY <3>3, <3>4
  <2>11. HistoryInv(G)'
    <3>1. FromStored(instance, r, durableRevision, live')
      BY <1>1, <2>7, BoundAssumption DEF HistoryInv, FromStored, r
    <3> QED
      BY <1>2, <2>1, <2>2, <2>9, <2>10, <3>1 DEF HistoryInv
  <2> QED
    BY <1>2, <2>1, <2>2, <2>11 DEF Continued
<1> QED
  BY <1>3, <1>4

\* What the server would send now is true.
LEMMA SnapshotTrue ==
    ASSUME TypeOK, NEW H, HistoryInv(H)
    PROVE  Snapshot \in TrueEvents(H, instance, revision)
<1>1. Snapshot \in Events /\ Snapshot \in Snapshots
  BY SnapshotType DEF Events
<1>2. /\ Snapshot.type = "snapshot" /\ Snapshot.instance = instance
      /\ Snapshot.revision = revision /\ Snapshot.payload = live
      /\ Snapshot.durable = durableRevision
  BY DEF Snapshot
<1>3. /\ instance \in Nat /\ revision \in Nat /\ H[revision] = live
      /\ FromStored(instance, revision, durableRevision, live)
  BY DEF TypeOK, HistoryInv
<1>4. TrueSnapshot(H, instance, revision, Snapshot)
  BY <1>2, <1>3 DEF TrueSnapshot
<1>5. "snapshot" \notin Kind
  BY DEF Kind
<1> QED
  BY <1>1, <1>2, <1>4, <1>5 DEF TrueEvents

\* A step of the server that is no mutation.
LEMMA ServerStep ==
    ASSUME TypeOK, NEW H, HistoryInv(H), UNCHANGED <<live, revision, durableRevision, instance>>,
           \A d \in Client : /\ stream'[d] \in Seq(Way(H))
                             /\ held'[d] \in Seq(TrueEvents(H, instance, revision))
                             /\ syncing'[d] \in TrueEvents(H, instance, revision) \cup {None}
                             /\ WordInv(H, instance, revision, client'[d])
    PROVE  HistoryInv(H)'
BY DEF HistoryInv, Way

LEMMA RefreshWord ==
    ASSUME TypeOK, NEW H, HistoryInv(H), NEW c \in Client, Refresh(c)
    PROVE  HistoryInv(H)'
<1>1. syncing' = [syncing EXCEPT ![c] = Snapshot]
      /\ UNCHANGED <<live, revision, durableRevision, instance, held, stream, client>>
  BY DEF Refresh
<1>2. Snapshot \in TrueEvents(H, instance, revision)
  BY SnapshotTrue
<1> SUFFICES ASSUME NEW d \in Client
             PROVE  /\ stream'[d] \in Seq(Way(H))
                    /\ held'[d] \in Seq(TrueEvents(H, instance, revision))
                    /\ syncing'[d] \in TrueEvents(H, instance, revision) \cup {None}
                    /\ WordInv(H, instance, revision, client'[d])
  BY <1>1, ServerStep
<1>3. syncing'[d] = Snapshot \/ syncing'[d] = syncing[d]
  BY <1>1 DEF TypeOK
<1> QED
  BY <1>1, <1>2, <1>3, HistoryType

LEMMA DeliverWord ==
    ASSUME TypeOK, NEW H \in Histories, HistoryInv(H), NEW c \in Client,
           DeliverSnapshot(c) \/ DeliverUnavailable(c)
    PROVE  HistoryInv(H)'
<1> DEFINE E == TrueEvents(H, instance, revision)
           q == stream[c]
<1>1. /\ syncing' = [syncing EXCEPT ![c] = None] /\ held' = [held EXCEPT ![c] = <<>>]
      /\ UNCHANGED <<live, revision, durableRevision, instance, client>>
  BY DEF DeliverSnapshot, DeliverUnavailable
<1>2. /\ q \in Seq(Way(H)) /\ held[c] \in Seq(E) /\ syncing[c] \in E
  BY HistoryType DEF DeliverSnapshot, DeliverUnavailable
<1>3. syncing[c] \in Snapshots /\ durableRevision \in Nat
  BY DEF DeliverSnapshot, DeliverUnavailable, TypeOK
<1>4. E \subseteq Way(H)
  BY DEF Way
<1>5. \E next \in Seq(Way(H)) : stream' = [stream EXCEPT ![c] = next]
  <2>1. CASE DeliverSnapshot(c)
    <3> DEFINE e == [syncing[c] EXCEPT !.durable = durableRevision]
               new == Newer(held[c], syncing[c].revision)
    <3>1. e \in E
      <4>1. e \in Snapshots /\ e.type = "snapshot"
            /\ e.instance = syncing[c].instance /\ e.revision = syncing[c].revision
            /\ e.payload = syncing[c].payload /\ e.durable = durableRevision
        BY <1>3 DEF Snapshots
      <4> HIDE DEF e
      <4>2. TrueSnapshot(H, instance, revision, syncing[c])
        BY <1>2, <1>3 DEF TrueEvents, Snapshots
      <4>3. TrueSnapshot(H, instance, revision, e)
        <5>1. syncing[c].instance \in Nat /\ instance \in Nat
          BY <1>3 DEF Snapshots, TypeOK
        <5> QED
          BY <1>3, <4>1, <4>2, <5>1, BoundAssumption DEF TrueSnapshot, FromStored, HistoryInv
      <4>4. "snapshot" \notin Kind
        BY DEF Kind
      <4> QED
        BY <4>1, <4>3, <4>4 DEF TrueEvents, Events
    <3>2. new \in Seq(E)
      <4> HIDE DEF E
      <4> QED
        BY <1>2, NewerStays
    <3>3. stream' = [stream EXCEPT ![c] = Append(q, e) \o new]
      BY <2>1 DEF DeliverSnapshot
    <3> HIDE DEF e, new, E, q
    <3>4. Append(q, e) \in Seq(Way(H)) /\ new \in Seq(Way(H))
      BY <1>2, <1>4, <3>1, <3>2
    <3>5. Append(q, e) \o new \in Seq(Way(H))
      BY <3>4
    <3> QED
      BY <3>3, <3>5
  <2>2. CASE DeliverUnavailable(c)
    <3> DEFINE e == [type |-> "unavailable", revision |-> syncing[c].revision]
    <3>1. e \in E
      BY <1>3 DEF Snapshots, Events, TrueEvents, Kind
    <3>2. stream' = [stream EXCEPT ![c] = Append(q, e)]
      BY <2>2 DEF DeliverUnavailable
    <3> HIDE DEF e, E, q
    <3>3. Append(q, e) \in Seq(Way(H))
      BY <1>2, <1>4, <3>1
    <3> QED
      BY <3>2, <3>3
  <2> QED
    BY <2>1, <2>2
<1> HIDE DEF E, q
<1> SUFFICES ASSUME NEW d \in Client
             PROVE  /\ stream'[d] \in Seq(Way(H))
                    /\ held'[d] \in Seq(TrueEvents(H, instance, revision))
                    /\ syncing'[d] \in TrueEvents(H, instance, revision) \cup {None}
                    /\ WordInv(H, instance, revision, client'[d])
  BY <1>1, ServerStep
<1>6. stream'[d] \in Seq(Way(H))
  BY <1>5, HistoryType DEF TypeOK
<1>7. held'[d] \in Seq(TrueEvents(H, instance, revision))
  <2>1. held'[d] = <<>> \/ held'[d] = held[d]
    BY <1>1 DEF TypeOK
  <2>2. <<>> \in Seq(TrueEvents(H, instance, revision))
    OBVIOUS
  <2> QED
    BY <2>1, <2>2, HistoryType
<1>8. syncing'[d] = None \/ syncing'[d] = syncing[d]
  BY <1>1 DEF TypeOK
<1> QED
  BY <1>1, <1>6, <1>7, <1>8, HistoryType

LEMMA SubscribeWord ==
    ASSUME TypeOK, NEW H \in Histories, HistoryInv(H), NEW c \in Client, Subscribe(c)
    PROVE  HistoryInv(H)'
<1> DEFINE init == [type |-> "init", conn |-> conns + 1, instance |-> instance,
                    revision |-> revision, durable |-> durableRevision]
           q == IF c \in Owner THEN <<init, Snapshot>> ELSE <<init>>
<1>1. init \in NewInits(instance)
  BY DEF NewInits, Inits, TypeOK
<1>2. stream' = [stream EXCEPT ![c] = q]
  BY Zenon DEF Subscribe
<1>3. Snapshot \in TrueEvents(H, instance, revision)
  BY SnapshotTrue
<1> HIDE DEF init
<1>4. q \in Seq(Way(H))
  <2>1. init \in Way(H) /\ Snapshot \in Way(H)
    BY <1>1, <1>3 DEF Way
  <2>2. <<init>> \in Seq(Way(H)) /\ <<init, Snapshot>> \in Seq(Way(H))
    BY <2>1
  <2> QED
    BY <2>2
<1> HIDE DEF q
<1>5. /\ syncing' = [syncing EXCEPT ![c] = IF c \in Owner THEN None ELSE Snapshot]
      /\ UNCHANGED <<live, revision, durableRevision, instance, held, client>>
  BY DEF Subscribe
<1> SUFFICES ASSUME NEW d \in Client
             PROVE  /\ stream'[d] \in Seq(Way(H))
                    /\ held'[d] \in Seq(TrueEvents(H, instance, revision))
                    /\ syncing'[d] \in TrueEvents(H, instance, revision) \cup {None}
                    /\ WordInv(H, instance, revision, client'[d])
  BY <1>5, ServerStep
<1>6. stream'[d] = q \/ stream'[d] = stream[d]
  BY <1>2 DEF TypeOK
<1>7. syncing'[d] \in {None, Snapshot, syncing[d]}
  BY <1>5 DEF TypeOK
<1> QED
  BY <1>3, <1>4, <1>5, <1>6, <1>7, HistoryType

\* Clients whose connections end keep what they were told.
LEMMA EndedWord ==
    ASSUME TypeOK, NEW H, HistoryInv(H), NEW gone \in SUBSET Client, Ended(gone),
           NEW d \in Client
    PROVE  /\ stream'[d] \in Seq(Way(H))
           /\ held'[d] \in Seq(TrueEvents(H, instance, revision))
           /\ syncing'[d] \in TrueEvents(H, instance, revision) \cup {None}
<1>1. /\ stream'[d] = IF d \in gone THEN <<>> ELSE stream[d]
      /\ held'[d] = IF d \in gone THEN <<>> ELSE held[d]
      /\ syncing'[d] = IF d \in gone THEN None ELSE syncing[d]
  BY DEF Ended
<1>2. <<>> \in Seq(Way(H)) /\ <<>> \in Seq(TrueEvents(H, instance, revision))
  OBVIOUS
<1> QED
  BY <1>1, <1>2, HistoryType

LEMMA AwayWord ==
    ASSUME NEW H, NEW i, NEW r, NEW s \in Browsers, WordInv(H, i, r, s)
    PROVE  WordInv(H, i, r, [s EXCEPT !.me = 0]) /\ [s EXCEPT !.me = 0].me = 0
<1> DEFINE t == [s EXCEPT !.me = 0]
<1>1. SameWord(t, s) /\ t.me = 0
  BY DEF Browsers, SameWord
<1> HIDE DEF t
<1>2. WordInv(H, i, r, t)
  BY <1>1 DEF SameWord, WordInv, ToldTrue, KnowsAll
<1> QED
  BY <1>1, <1>2 DEF t

LEMMA ResubscribedWord ==
    ASSUME NEW H, NEW i, NEW r \in Nat, NEW s \in Browsers, WordInv(H, i, r, s)
    PROVE  WordInv(H, i, r, Resubscribed(s))
<1> DEFINE t == Resubscribed(s)
<1>1. /\ t.answers = s.answers /\ t.instance = s.instance /\ t.me = 0 /\ t.since = 0
      /\ t.told = NothingTold /\ t.applying = None /\ t.queued = <<>> /\ t.later = <<>>
  BY ResubscribedEffect
<1> HIDE DEF t
<1>2. <<>> \in Seq(TrueEvents(H, i, r))
  OBVIOUS
<1>3. ToldTrue(H, i, r, t) /\ KnowsAll(H, i, r, t)
  BY <1>1 DEF ToldTrue, KnowsAll, NothingTold
<1> QED
  BY <1>1, <1>2, <1>3 DEF WordInv, t

LEMMA LeaveWord ==
    ASSUME TypeOK, NEW H \in Histories, HistoryInv(H), NEW c \in Client, Drop(c) \/ Resubscribe(c)
    PROVE  HistoryInv(H)'
<1>1. /\ Ended({c}) /\ {c} \in SUBSET Client
      /\ UNCHANGED <<live, revision, durableRevision, instance>>
  BY DEF Drop, Resubscribe
<1>2. \E s : Becomes(c, s) /\ WordInv(H, instance, revision, s)
  <2>1. client[c] \in Browsers /\ WordInv(H, instance, revision, client[c]) /\ revision \in Nat
    BY HistoryType
  <2>2. CASE Drop(c)
    <3>1. Becomes(c, [client[c] EXCEPT !.me = 0])
      BY <2>2 DEF Drop
    <3> QED
      BY <2>1, <3>1, AwayWord
  <2>3. CASE Resubscribe(c)
    <3>1. Becomes(c, Resubscribed(client[c]))
      BY <2>3 DEF Resubscribe, Resubscribed
    <3> QED
      BY <2>1, <3>1, ResubscribedWord
  <2> QED
    BY <2>2, <2>3
<1> SUFFICES ASSUME NEW d \in Client
             PROVE  /\ stream'[d] \in Seq(Way(H))
                    /\ held'[d] \in Seq(TrueEvents(H, instance, revision))
                    /\ syncing'[d] \in TrueEvents(H, instance, revision) \cup {None}
                    /\ WordInv(H, instance, revision, client'[d])
  BY <1>1, ServerStep
<1>3. WordInv(H, instance, revision, client'[d])
  <2>1. PICK s : Becomes(c, s) /\ WordInv(H, instance, revision, s)
    BY <1>2
  <2>2. client'[d] = s \/ client'[d] = client[d]
    BY <2>1 DEF Becomes, TypeOK
  <2> QED
    BY <2>1, <2>2, HistoryType
<1> QED
  BY <1>1, <1>3, EndedWord

\* A new process starts a new history, of which nobody knows anything.
LEMMA RestartWord ==
    ASSUME TypeOK, NEW H \in Histories, HistoryInv(H), Restart
    PROVE  \E G \in Histories : HistoryInv(G)' /\ Continued(H, G)
<1> DEFINE G == [n \in Nat |-> Stored]
<1>1. G \in Histories
  BY StoredAssumption DEF Histories
<1>2. /\ instance \in Nat /\ revision \in Nat /\ instance + 1 \in Nat /\ 0 \in Nat
      /\ live' = Stored /\ revision' = 0 /\ durableRevision' = 0 /\ instance' = instance + 1
  BY DEF Restart, TypeOK
<1>3. G[0] = Stored
  OBVIOUS
<1> HIDE DEF G
<1>4. Continues(H, instance, revision, G, instance + 1, 0)
  BY DEF Continues
<1>5. ASSUME NEW d \in Client
      PROVE  /\ stream'[d] \in Seq(TrueEvents(G, instance + 1, 0) \cup NewInits(instance + 1))
             /\ held'[d] \in Seq(TrueEvents(G, instance + 1, 0))
             /\ syncing'[d] \in TrueEvents(G, instance + 1, 0) \cup {None}
  <2>1. stream'[d] = <<>> /\ held'[d] = <<>> /\ syncing'[d] = None
    BY DEF Restart, Ended
  <2> QED
    BY <2>1
<1>6. ASSUME NEW d \in Client
      PROVE  WordInv(G, instance + 1, 0, client'[d])
  <2> DEFINE t == [client[d] EXCEPT !.me = 0]
  <2>1. client[d] \in Browsers /\ WordInv(H, instance, revision, client[d])
    BY HistoryType
  <2>2. t \in Browsers
    BY <2>1 DEF Browsers
  <2>3. WordInv(H, instance, revision, t) /\ t.me = 0
    BY <2>1, AwayWord
  <2>4. client'[d] = t
    BY DEF Restart
  <2> HIDE DEF t
  <2> QED
    BY <1>1, <1>2, <1>4, <2>2, <2>3, <2>4, MoreWord
<1>7. FromStored(instance', revision', durableRevision', live')
  BY <1>2 DEF HistoryInv, FromStored
<1>8. HistoryInv(G)'
  BY <1>2, <1>3, <1>5, <1>6, <1>7 DEF HistoryInv
<1> QED
  BY <1>1, <1>2, <1>4, <1>8 DEF Continued

LEMMA InitWordInv ==
    ASSUME Init
    PROVE  GapInv
<1> DEFINE H == [n \in Nat |-> Stored]
<1>1. H \in Histories
  BY StoredAssumption DEF Histories
<1>2. FirstRevision \in Nat
  BY BoundAssumption
<1>3. H[FirstRevision] = Stored
  BY <1>2
<1> HIDE DEF H
<1>4. ASSUME NEW c \in Client
      PROVE  WordInv(H, 1, FirstRevision, client[c])
  <2> DEFINE s == client[c]
  <2>1. s = Fresh(Stored, 1)
    BY DEF Init
  <2>2. /\ s.me = 0 /\ s.instance = 0 /\ s.applying = None /\ s.queued = <<>> /\ s.later = <<>>
        /\ s.answers = {}
    BY <2>1 DEF Fresh
  <2> HIDE DEF s
  <2>3. <<>> \in Seq(TrueEvents(H, 1, FirstRevision))
    OBVIOUS
  <2> QED
    BY <2>2, <2>3 DEF WordInv, ToldTrue, KnowsAll, s
<1>5. ASSUME NEW c \in Client
      PROVE  /\ stream[c] \in Seq(TrueEvents(H, 1, FirstRevision) \cup NewInits(1))
             /\ held[c] \in Seq(TrueEvents(H, 1, FirstRevision))
             /\ syncing[c] \in TrueEvents(H, 1, FirstRevision) \cup {None}
  BY DEF Init
<1>6. FromStored(1, FirstRevision, FirstRevision, Stored)
  BY <1>2 DEF FromStored
<1>7. HistoryInv(H)
  BY <1>3, <1>4, <1>5, <1>6 DEF Init, HistoryInv
<1> QED
  BY <1>1, <1>7 DEF GapInv

LEMMA NextWord ==
    ASSUME TypeOK, GapInv, [Next]_vars
    PROVE  GapInv'
<1> PICK H \in Histories : HistoryInv(H)
  BY DEF GapInv
<1>1. CASE UNCHANGED vars
  <2>1. HistoryInv(H)'
    BY <1>1 DEF vars, serverVars, HistoryInv
  <2> QED
    BY <2>1 DEF GapInv
<1>2. CASE Restart
  BY <1>2, RestartWord DEF GapInv
<1>3. CASE \E c \in Client : \E m \in client[c].calls :
              \E heard \in BOOLEAN, unknown \in SUBSET (Client \ Owner) : Handle(c, m, heard, unknown)
  BY <1>3, HandleWord DEF GapInv
<1>4. CASE \E c \in Client :
              \/ Receive(c) \/ FinishSnapshot(c) \/ FailSnapshot(c)
              \/ Refresh(c) \/ DeliverSnapshot(c) \/ DeliverUnavailable(c)
              \/ Subscribe(c) \/ Drop(c) \/ Resubscribe(c)
  <2>1. HistoryInv(H)'
    BY <1>4, ReceiveWord, SnapshotStepWord, RefreshWord, DeliverWord, SubscribeWord, LeaveWord
  <2> QED
    BY <2>1 DEF GapInv
<1>5. CASE \E c \in Client :
              \/ \E k \in Card, v \in Value \cup {Absent} : Edit(c, k, v)
              \/ \E k \in Card, v \in Value : CommitField(c, k, v)
              \/ \E early \in SUBSET Card : Tick(c, early)
              \/ \E a \in client[c].answers : Answer(c, a) \/ AnswerField(c, a)
              \/ \E m \in client[c].calls : LoseCall(c, m)
  <2>1. HistoryInv(H)'
    BY <1>5, EditWord, CommitFieldWord, TickWord, AnswerWord, AnswerFieldWord, LoseCallWord
  <2> QED
    BY <2>1 DEF GapInv
<1>6. CASE \E c \in Client : \E e \in client[c].creating :
              FetchFail(c, e) \/ \E v \in Value \cup {Absent} : FetchDone(c, e, v)
  BY <1>6, FetchWord DEF GapInv
<1> QED
  BY <1>1, <1>2, <1>3, <1>4, <1>5, <1>6, Zenon DEF Next

-----------------------------------------------------------------------------
\* A browser that shows the server's revision without a gap was told the newest
\* value of every card, for any clients, cards, values and bounds.
THEOREM GapsAlwaysNoticed == Spec => []GapsNoticed
<1>1. Init => GapInv
  BY InitWordInv
<1>2. TypeOK /\ GapInv /\ [Next]_vars => GapInv'
  BY NextWord
<1>3. TypeOK /\ GapInv => GapsNoticed
  <2> SUFFICES ASSUME TypeOK, GapInv, NEW c \in Client, Current(c), NEW k \in Card
               PROVE  client[c].told[k].value = live[k]
    BY DEF GapsNoticed
  <2> DEFINE s == client[c]
  <2>1. PICK H \in Histories : HistoryInv(H)
    BY DEF GapInv
  <2>2. s \in Browsers /\ WordInv(H, instance, revision, s) /\ H[revision] = live
        /\ revision \in Nat
    BY <2>1, HistoryType
  <2>3. s.me # 0 /\ ~s.awaiting /\ s.latest = revision /\ ~s.gap /\ s.since > 0
    BY DEF Current, CanPublish
  <2> HIDE DEF s
  <2>4. s.told[k].revision \in Nat
    BY <2>2 DEF Browsers
  <2>5. /\ s.instance = instance /\ s.told[k].revision <= revision
        /\ \A n \in s.told[k].revision..s.latest : H[n][k] = s.told[k].value
    BY <2>2, <2>3 DEF WordInv, ToldTrue, KnowsAll
  <2>6. revision \in s.told[k].revision..s.latest
    BY <2>2, <2>3, <2>4, <2>5
  <2>7. s.told[k].value = live[k]
    BY <2>2, <2>5, <2>6
  <2> QED
    BY <2>7 DEF s
<1> QED
  BY <1>1, <1>2, <1>3, TypeCorrect, PTL DEF Spec
=============================================================================
