----------------------- MODULE CanvasSyncReadersProofs -----------------------
(* Proof that in CanvasSync a browser whose user only reads shows the live       *)
(* payload whenever it has reached the server's revision without a gap, for any  *)
(* clients, cards, values and bounds.  To the history H of CanvasSyncGapsProofs  *)
(* it adds the order of the events that wait: those on their way are newer than  *)
(* all that the browser has taken or keeps, no two of those it keeps are of one  *)
(* revision, so each is the next one, leaves a gap, or was never needed.         *)
EXTENDS CanvasSyncGapsProofs

-----------------------------------------------------------------------------
(* The invariant.                                                            *)

\* x is a change, or any word on the payload, of the process i.
Changed(i, x) == x.type \in Kind /\ x.instance = i
Word(i, x) == x.type \in Kind \cup {"snapshot"} /\ x.instance = i

Of(q) == {q[n] : n \in 1..Len(q)}

\* The changes of Y are newer than the words of X.
Earlier(i, X, Y) ==
    \A x \in X, y \in Y : Word(i, x) /\ Changed(i, y) => x.revision < y.revision

\* A change in the sequence q is newer than the words before it.
InOrder(i, q) ==
    \A m, n \in 1..Len(q) :
        m < n /\ Word(i, q[m]) /\ Changed(i, q[n]) => q[m].revision < q[n].revision

\* No two changes are of one revision.
Distinct(i, q) ==
    \A m, n \in 1..Len(q) :
        m # n /\ Changed(i, q[m]) /\ Changed(i, q[n]) => q[m].revision # q[n].revision
Apart(i, X, Y) ==
    \A x \in X, y \in Y : Changed(i, x) /\ Changed(i, y) => x.revision # y.revision

\* What s keeps for later.
Kept(s) == ({s.applying} \ {None}) \cup Of(s.queued) \cup Of(s.later)

Waits(i, s) ==
    /\ s.applying = None => s.queued = <<>> /\ s.later = <<>>
    /\ s.applying # None => /\ Earlier(i, {s.applying}, Of(s.queued))
                            /\ ~s.overrun => Earlier(i, {s.applying}, Of(s.later))
    /\ Distinct(i, s.queued)
    /\ Distinct(i, s.later)
    /\ Apart(i, Of(s.later), Of(s.queued))

\* s believes that it has seen all there is.
Fit(i, s) ==
    /\ s.instance = i /\ s.since > 0
    /\ ~s.awaiting /\ ~s.gap /\ ~s.overrun /\ s.applying = None

\* s shows the payload, but for cards whose creation waits, failed or was overtaken.
Shows(s, payload) == \A k \in Card \ Loose(s) : s.view[k] = payload[k]

\* Then it shows the payload of the latest revision it saw, before the changes of Z.
Reads(H, i, r, s, Z) == Fit(i, s) =>
    /\ s.latest \in 0..r
    /\ Shows(s, H[s.latest])
    /\ \A z \in Z : Changed(i, z) => z.revision > s.latest

Idle(s) == s.active = 0 /\ s.queue = <<>>

\* A reader sends nothing, once it knows the canvas of this process; and while it
\* knows no other canvas than the stored one, it resumes none and awaits no creation.
Steady(i, r, s) ==
    /\ \A x \in s.calls \cup s.answers : x.type # "field"
    /\ s.applying # None => Idle(s)
    /\ s.since > 0 => Idle(s) /\ s.base = s.view
    /\ s.recover => s.instance > 1
    /\ i = 1 /\ r = FirstRevision => s.view = Stored /\ ~s.dirty /\ s.creating = {}

\* What was resumed is older than the snapshots of X.
Resumable(s, X) == s.dirty =>
    \A x \in X : x.type = "snapshot" /\ x.instance = 1 => x.revision # FirstRevision

\* A reader s to which Z is to come.
Reader(H, i, r, s, Z) ==
    /\ Waits(i, s)
    /\ Earlier(i, Kept(s), Z)
    /\ Reads(H, i, r, s, Z)
    /\ Steady(i, r, s)
    /\ Resumable(s, Kept(s) \cup Z)

Coming(q, h, y) == Of(q) \cup Of(h) \cup ({y} \ {None})

Order(i, q, h) == InOrder(i, q) /\ InOrder(i, h) /\ Earlier(i, Of(q), Of(h))

ReaderInv(H, i, r, cn, s, q, h, y) ==
    /\ cn = 0 => y = None
    /\ y = None => h = <<>>
    /\ Order(i, q, h)
    /\ ~s.wrote => Reader(H, i, r, s, Coming(q, h, y))

ReadersInv(H) == \A c \in Client :
    ReaderInv(H, instance, revision, conn[c], client[c], stream[c], held[c], syncing[c])

ReadInv == \E H \in Histories : HistoryInv(H) /\ ReadersInv(H)

-----------------------------------------------------------------------------
(* Sequences and the sets of what is in them.                                *)

LEMMA OfEmpty == Of(<<>>) = {}
BY DEF Of

LEMMA OfAppend ==
    ASSUME NEW S, NEW q \in Seq(S), NEW e
    PROVE  Of(Append(q, e)) = Of(q) \cup {e}
<1> DEFINE p == Append(q, e)
<1>1. /\ Len(q) \in Nat /\ Len(p) = Len(q) + 1
      /\ \A n \in 1..Len(q) : p[n] = q[n]
      /\ p[Len(q) + 1] = e
  <2>1. q \in Seq(S \cup {e}) /\ e \in S \cup {e}
    OBVIOUS
  <2> QED
    BY <2>1
<1> HIDE DEF p
<1>2. \A n \in 1..Len(p) : n \in 1..Len(q) \/ n = Len(q) + 1
  BY <1>1
<1>3. Len(q) + 1 \in 1..Len(p) /\ \A n \in 1..Len(q) : n \in 1..Len(p)
  BY <1>1
<1> QED
  BY <1>1, <1>2, <1>3 DEF Of, p

LEMMA OfConcat ==
    ASSUME NEW S, NEW p \in Seq(S), NEW q \in Seq(S)
    PROVE  Of(p \o q) = Of(p) \cup Of(q)
<1> DEFINE w == p \o q
<1>1. /\ Len(p) \in Nat /\ Len(q) \in Nat /\ Len(w) = Len(p) + Len(q)
      /\ \A n \in 1..Len(p) : w[n] = p[n]
      /\ \A n \in 1..Len(q) : w[Len(p) + n] = q[n]
  OBVIOUS
<1> HIDE DEF w
<1>2. ASSUME NEW n \in 1..Len(w)
      PROVE  w[n] \in Of(p) \cup Of(q)
  <2>1. CASE n <= Len(p)
    BY <1>1, <2>1 DEF Of
  <2>2. CASE n > Len(p)
    <3>1. n - Len(p) \in 1..Len(q) /\ n = Len(p) + (n - Len(p))
      BY <1>1, <2>2
    <3> QED
      BY <1>1, <3>1 DEF Of
  <2> QED
    BY <1>1, <2>1, <2>2
<1>3. ASSUME NEW n \in 1..Len(p)
      PROVE  p[n] \in Of(w)
  BY <1>1 DEF Of
<1>4. ASSUME NEW n \in 1..Len(q)
      PROVE  q[n] \in Of(w)
  <2>1. Len(p) + n \in 1..Len(w)
    BY <1>1
  <2> QED
    BY <1>1, <2>1 DEF Of
<1> QED
  BY <1>2, <1>3, <1>4 DEF Of, w

\* The first of a sequence and the others.
LEMMA OfTail ==
    ASSUME NEW S, NEW q \in Seq(S), q # <<>>
    PROVE  Of(q) = {Head(q)} \cup Of(Tail(q))
<1>1. /\ Len(q) \in Nat /\ Len(q) > 0 /\ Head(q) = q[1]
      /\ Len(Tail(q)) = Len(q) - 1
      /\ \A n \in 1..(Len(q) - 1) : Tail(q)[n] = q[n + 1]
  OBVIOUS
<1>2. ASSUME NEW n \in 1..Len(q)
      PROVE  q[n] \in {Head(q)} \cup Of(Tail(q))
  <2>1. CASE n = 1
    BY <1>1, <2>1
  <2>2. CASE n # 1
    <3>1. n - 1 \in 1..Len(Tail(q)) /\ Tail(q)[n - 1] = q[n]
      BY <1>1, <2>2
    <3> QED
      BY <3>1 DEF Of
  <2> QED
    BY <2>1, <2>2
<1>3. ASSUME NEW n \in 1..Len(Tail(q))
      PROVE  Tail(q)[n] \in Of(q)
  <2>1. n + 1 \in 1..Len(q) /\ Tail(q)[n] = q[n + 1]
    BY <1>1
  <2> QED
    BY <2>1 DEF Of
<1>4. Head(q) \in Of(q)
  BY <1>1 DEF Of
<1> QED
  BY <1>2, <1>3, <1>4 DEF Of

LEMMA OfType ==
    ASSUME NEW S, NEW q \in Seq(S)
    PROVE  Of(q) \subseteq S
BY DEF Of

\* A sequence in order stays so without its first, with one more change that is
\* newer, or with a sequence of newer ones.
LEMMA OrderTail ==
    ASSUME NEW S, NEW q \in Seq(S), q # <<>>, NEW i, InOrder(i, q)
    PROVE  InOrder(i, Tail(q)) /\ Earlier(i, {Head(q)}, Of(Tail(q)))
<1>1. /\ Len(q) \in Nat /\ Len(q) > 0 /\ Head(q) = q[1]
      /\ Len(Tail(q)) = Len(q) - 1
      /\ \A n \in 1..(Len(q) - 1) : Tail(q)[n] = q[n + 1] /\ n + 1 \in 1..Len(q) /\ 1 < n + 1
  OBVIOUS
<1>2. ASSUME NEW m \in 1..Len(Tail(q)), NEW n \in 1..Len(Tail(q)), m < n,
             Word(i, Tail(q)[m]), Changed(i, Tail(q)[n])
      PROVE  Tail(q)[m].revision < Tail(q)[n].revision
  <2>1. m + 1 < n + 1 /\ m + 1 \in 1..Len(q) /\ n + 1 \in 1..Len(q)
        /\ Tail(q)[m] = q[m + 1] /\ Tail(q)[n] = q[n + 1]
    BY <1>1, <1>2
  <2> QED
    BY <1>2, <2>1 DEF InOrder
<1>3. ASSUME NEW n \in 1..Len(Tail(q)), Word(i, Head(q)), Changed(i, Tail(q)[n])
      PROVE  Head(q).revision < Tail(q)[n].revision
  <2>1. n + 1 \in 1..Len(q) /\ 1 \in 1..Len(q) /\ 1 < n + 1 /\ Tail(q)[n] = q[n + 1]
    BY <1>1
  <2> QED
    BY <1>1, <1>3, <2>1 DEF InOrder
<1> QED
  BY <1>2, <1>3 DEF InOrder, Earlier, Of

LEMMA OrderConcat ==
    ASSUME NEW S, NEW p \in Seq(S), NEW q \in Seq(S), NEW i,
           InOrder(i, p), InOrder(i, q), Earlier(i, Of(p), Of(q))
    PROVE  InOrder(i, p \o q)
<1> DEFINE w == p \o q
<1>1. /\ Len(p) \in Nat /\ Len(q) \in Nat /\ Len(w) = Len(p) + Len(q)
      /\ \A n \in 1..Len(p) : w[n] = p[n]
      /\ \A n \in 1..Len(q) : w[Len(p) + n] = q[n]
  OBVIOUS
<1> HIDE DEF w
<1> SUFFICES ASSUME NEW m \in 1..Len(w), NEW n \in 1..Len(w), m < n,
                    Word(i, w[m]), Changed(i, w[n])
             PROVE  w[m].revision < w[n].revision
  BY DEF InOrder, w
<1>2. CASE n <= Len(p)
  <2>1. m \in 1..Len(p) /\ n \in 1..Len(p)
    BY <1>1, <1>2
  <2> QED
    BY <1>1, <2>1 DEF InOrder
<1>3. CASE n > Len(p)
  <2>1. n - Len(p) \in 1..Len(q) /\ w[n] = q[n - Len(p)]
    <3>1. n - Len(p) \in 1..Len(q) /\ n = Len(p) + (n - Len(p))
      BY <1>1, <1>3
    <3> QED
      BY <1>1, <3>1
  <2>2. CASE m <= Len(p)
    BY <1>1, <2>1, <2>2 DEF Earlier, Of
  <2>3. CASE m > Len(p)
    <3>1. m - Len(p) \in 1..Len(q) /\ m = Len(p) + (m - Len(p)) /\ m - Len(p) < n - Len(p)
      BY <1>1, <1>3, <2>3
    <3> QED
      BY <1>1, <2>1, <3>1 DEF InOrder
  <2> QED
    BY <1>1, <2>2, <2>3
<1> QED
  BY <1>1, <1>2, <1>3

LEMMA OrderOne ==
    ASSUME NEW e, NEW i
    PROVE  InOrder(i, <<e>>) /\ Of(<<e>>) = {e} /\ InOrder(i, <<>>)
BY DEF InOrder, Of

LEMMA OrderAppend ==
    ASSUME NEW S, NEW q \in Seq(S), NEW e, NEW i, InOrder(i, q), Earlier(i, Of(q), {e})
    PROVE  InOrder(i, Append(q, e))
<1>1. q \in Seq(S \cup {e}) /\ <<e>> \in Seq(S \cup {e})
  OBVIOUS
<1>2. Append(q, e) = q \o <<e>>
  BY <1>1
<1>3. InOrder(i, <<e>>) /\ Earlier(i, Of(q), Of(<<e>>))
  BY OrderOne
<1> QED
  BY <1>1, <1>2, <1>3, OrderConcat

\* No two are of one revision in a sequence with one more, of a new one, nor in two
\* sequences apart.
LEMMA DistinctAppend ==
    ASSUME NEW S, NEW q \in Seq(S), NEW e, NEW i, Distinct(i, q), Apart(i, Of(q), {e})
    PROVE  Distinct(i, Append(q, e))
<1> DEFINE p == Append(q, e)
<1>1. /\ Len(q) \in Nat /\ Len(p) = Len(q) + 1
      /\ \A n \in 1..Len(q) : p[n] = q[n]
      /\ p[Len(q) + 1] = e
  <2>1. q \in Seq(S \cup {e}) /\ e \in S \cup {e}
    OBVIOUS
  <2> QED
    BY <2>1
<1> HIDE DEF p
<1>2. \A n \in 1..Len(p) : n \in 1..Len(q) \/ n = Len(q) + 1
  BY <1>1
<1>3. \A n \in 1..Len(q) : Changed(i, q[n]) /\ Changed(i, e) => q[n].revision # e.revision
  BY DEF Apart, Of
<1> SUFFICES ASSUME NEW m \in 1..Len(p), NEW n \in 1..Len(p), m # n,
                    Changed(i, p[m]), Changed(i, p[n])
             PROVE  p[m].revision # p[n].revision
  BY DEF Distinct, p
<1>4. CASE m \in 1..Len(q) /\ n \in 1..Len(q)
  BY <1>1, <1>4 DEF Distinct
<1>5. CASE m = Len(q) + 1 /\ n \in 1..Len(q)
  BY <1>1, <1>3, <1>5
<1>6. CASE m \in 1..Len(q) /\ n = Len(q) + 1
  BY <1>1, <1>3, <1>6
<1> QED
  BY <1>2, <1>4, <1>5, <1>6

LEMMA DistinctConcat ==
    ASSUME NEW S, NEW p \in Seq(S), NEW q \in Seq(S), NEW i,
           Distinct(i, p), Distinct(i, q), Apart(i, Of(q), Of(p))
    PROVE  Distinct(i, p \o q)
<1> DEFINE w == p \o q
<1>1. /\ Len(p) \in Nat /\ Len(q) \in Nat /\ Len(w) = Len(p) + Len(q)
      /\ \A n \in 1..Len(p) : w[n] = p[n]
      /\ \A n \in 1..Len(q) : w[Len(p) + n] = q[n]
  OBVIOUS
<1> HIDE DEF w
<1>2. \A n \in 1..Len(w) : \/ n \in 1..Len(p) /\ w[n] = p[n]
                           \/ n > Len(p) /\ n - Len(p) \in 1..Len(q) /\ w[n] = q[n - Len(p)]
  <2> TAKE n \in 1..Len(w)
  <2>1. CASE n <= Len(p)
    BY <1>1, <2>1
  <2>2. CASE n > Len(p)
    <3>1. n - Len(p) \in 1..Len(q) /\ n = Len(p) + (n - Len(p))
      BY <1>1, <2>2
    <3> QED
      BY <1>1, <2>2, <3>1
  <2> QED
    BY <1>1, <2>1, <2>2
<1>3. \A m \in 1..Len(p), n \in 1..Len(q) :
          Changed(i, p[m]) /\ Changed(i, q[n]) => p[m].revision # q[n].revision
  BY DEF Apart, Of
<1> SUFFICES ASSUME NEW m \in 1..Len(w), NEW n \in 1..Len(w), m # n,
                    Changed(i, w[m]), Changed(i, w[n])
             PROVE  w[m].revision # w[n].revision
  BY DEF Distinct, w
<1>4. CASE m \in 1..Len(p) /\ w[m] = p[m] /\ n \in 1..Len(p) /\ w[n] = p[n]
  BY <1>4 DEF Distinct
<1>5. CASE /\ m - Len(p) \in 1..Len(q) /\ w[m] = q[m - Len(p)]
           /\ n - Len(p) \in 1..Len(q) /\ w[n] = q[n - Len(p)]
  <2>1. m - Len(p) # n - Len(p)
    BY <1>1
  <2> QED
    BY <1>5, <2>1 DEF Distinct
<1>6. CASE /\ m \in 1..Len(p) /\ w[m] = p[m]
           /\ n - Len(p) \in 1..Len(q) /\ w[n] = q[n - Len(p)]
  BY <1>3, <1>6
<1>7. CASE /\ n \in 1..Len(p) /\ w[n] = p[n]
           /\ m - Len(p) \in 1..Len(q) /\ w[m] = q[m - Len(p)]
  BY <1>3, <1>7
<1> QED
  BY <1>2, <1>4, <1>5, <1>6, <1>7

\* Sorting changes the order of the events, and repeats none.
LEMMA Sorted ==
    ASSUME NEW E, NEW q \in Seq(E), \A e \in E : e.revision \in Nat, NEW i, Distinct(i, q)
    PROVE  /\ Of(ByRevision(q)) \subseteq Of(q)
           /\ Distinct(i, ByRevision(q))
<1> DEFINE at(n) == CHOOSE j \in 1..Len(q) : Rank(q, j) = n
           p == ByRevision(q)
<1>1. \A n \in 1..Len(q) : at(n) \in 1..Len(q) /\ Rank(q, at(n)) = n
  BY RanksTaken
<1>2. Len(q) \in Nat /\ Len(p) = Len(q) /\ \A n \in 1..Len(q) : p[n] = q[at(n)]
  BY DEF ByRevision
<1> HIDE DEF at, p
<1>3. \A m, n \in 1..Len(q) : m # n => at(m) # at(n)
  BY <1>1
<1>4. Distinct(i, p)
  <2> SUFFICES ASSUME NEW m \in 1..Len(p), NEW n \in 1..Len(p), m # n,
                      Changed(i, p[m]), Changed(i, p[n])
               PROVE  p[m].revision # p[n].revision
    BY DEF Distinct
  <2>1. m \in 1..Len(q) /\ n \in 1..Len(q) /\ p[m] = q[at(m)] /\ p[n] = q[at(n)]
    BY <1>2
  <2>2. at(m) \in 1..Len(q) /\ at(n) \in 1..Len(q) /\ at(m) # at(n)
    BY <1>1, <1>3, <2>1
  <2> QED
    BY <2>1, <2>2 DEF Distinct
<1>5. Of(p) \subseteq Of(q)
  BY <1>1, <1>2 DEF Of
<1> QED
  BY <1>4, <1>5 DEF p

\* The newer events of a sequence in order are in order.
LEMMA NewerOrder ==
    ASSUME NEW S, NEW q \in Seq(S), NEW r, NEW i, InOrder(i, q)
    PROVE  /\ Newer(q, r) \in Seq(S)
           /\ InOrder(i, Newer(q, r))
           /\ \A x \in Of(Newer(q, r)) : x \in Of(q) /\ x.revision > r
<1> DEFINE N == Len(q)
           seen(n) == {q[m] : m \in 1..n}
           SS == [n \in 0..N |-> {t \in Seq(S) : /\ InOrder(i, t)
                                                /\ \A x \in Of(t) : x \in seen(n) /\ x.revision > r}]
<1>1. N \in Nat
  OBVIOUS
<1>2. \A n \in 0..N : SS[n] = {t \in Seq(S) : /\ InOrder(i, t)
                                              /\ \A x \in Of(t) : x \in seen(n) /\ x.revision > r}
  OBVIOUS
<1> HIDE DEF SS
<1>3. <<>> \in SS[0]
  <2>1. 0 \in 0..N /\ <<>> \in Seq(S) /\ InOrder(i, <<>>) /\ Of(<<>>) = {}
    BY <1>1, OfEmpty DEF InOrder
  <2> QED
    BY <1>2, <2>1
<1>4. ASSUME NEW n \in 1..N, NEW t \in SS[n - 1]
      PROVE  (IF q[n].revision > r THEN Append(t, q[n]) ELSE t) \in SS[n]
  <2>1. /\ n - 1 \in 0..N /\ n \in 0..N /\ q[n] \in S
        /\ \A m \in 1..n : m \in 1..(n - 1) \/ m = n
        /\ \A m \in 1..(n - 1) : m \in 1..n
    BY <1>1
  <2>2. t \in Seq(S) /\ InOrder(i, t) /\ \A x \in Of(t) : x \in seen(n - 1) /\ x.revision > r
    BY <1>2, <2>1
  <2>3. seen(n - 1) \subseteq seen(n) /\ q[n] \in seen(n)
    BY <2>1
  <2>4. CASE ~(q[n].revision > r)
    BY <1>2, <2>1, <2>2, <2>3, <2>4
  <2>5. CASE q[n].revision > r
    <3> DEFINE e == q[n]
               p == Append(t, e)
    <3>1. p \in Seq(S) /\ Of(p) = Of(t) \cup {e}
      BY <2>1, <2>2, OfAppend
    <3>2. Earlier(i, Of(t), {e})
      <4> SUFFICES ASSUME NEW x \in Of(t), Word(i, x), Changed(i, e)
                   PROVE  x.revision < e.revision
        BY DEF Earlier
      <4>1. PICK m \in 1..(n - 1) : x = q[m]
        BY <2>2
      <4>2. m \in 1..N /\ m < n
        BY <1>1, <4>1
      <4> QED
        BY <4>1, <4>2 DEF InOrder
    <3>3. InOrder(i, p)
      BY <2>2, <3>2, OrderAppend
    <3> HIDE DEF p
    <3>4. p \in SS[n]
      BY <1>2, <2>1, <2>2, <2>3, <2>5, <3>1, <3>3
    <3> QED
      BY <2>5, <3>4 DEF p
  <2> QED
    BY <2>4, <2>5
<1>5. Newer(q, r) \in SS[N]
  BY <1>1, <1>3, <1>4, NewerPasses
<1>6. seen(N) = Of(q) /\ N \in 0..N
  BY <1>1 DEF Of
<1> QED
  BY <1>2, <1>5, <1>6

-----------------------------------------------------------------------------
(* What a reader keeps through the steps of its browser.                     *)

\* What is there for less to come is there.
LEMMA LessToCome ==
    ASSUME NEW H, NEW i, NEW r, NEW s, NEW Y, NEW Z, Reader(H, i, r, s, Z), Y \subseteq Z
    PROVE  Reader(H, i, r, s, Y)
BY DEF Reader, Earlier, Reads, Resumable

\* A connection or a snapshot more to come, but none that would be taken for stale.
LEMMA MoreToCome ==
    ASSUME NEW H, NEW i, NEW r, NEW s, NEW Z, Reader(H, i, r, s, Z), NEW e, e.type \notin Kind,
           s.dirty /\ e.type = "snapshot" /\ e.instance = 1 => e.revision # FirstRevision
    PROVE  Reader(H, i, r, s, Z \cup {e})
BY DEF Reader, Earlier, Reads, Resumable, Changed

\* t differs from s in nothing that makes it a reader: what it shows and keeps is the
\* same, and so is what it believes, or it believes nothing.
SameReader(t, s) ==
    /\ t.applying = s.applying /\ t.queued = s.queued /\ t.later = s.later
    /\ t.overrun = s.overrun /\ t.instance = s.instance /\ t.view = s.view
    /\ t.creating = s.creating /\ t.adrift = s.adrift
    /\ t.dirty = s.dirty /\ t.recover = s.recover
    /\ (\A x \in s.calls \cup s.answers : x.type # "field")
       => \A x \in t.calls \cup t.answers : x.type # "field"
    /\ \/ t.since = 0 /\ t.applying = None
       \/ /\ t.since = s.since /\ t.latest = s.latest /\ t.gap = s.gap
          /\ t.awaiting = s.awaiting /\ t.base = s.base
          /\ Idle(s) => Idle(t)

LEMMA SameReaderKept ==
    ASSUME NEW H, NEW i, NEW r, NEW s, NEW t, SameReader(t, s), NEW Z, Reader(H, i, r, s, Z)
    PROVE  Reader(H, i, r, t, Z)
<1>1. Kept(t) = Kept(s) /\ Waits(i, t) /\ Resumable(t, Kept(s) \cup Z)
  BY DEF SameReader, Kept, Reader, Waits, Resumable
<1>2. Steady(i, r, t)
  BY DEF SameReader, Reader, Steady
<1>3. Reads(H, i, r, t, Z)
  BY DEF SameReader, Reader, Reads, Fit, Shows, Loose
<1> QED
  BY <1>1, <1>2, <1>3 DEF Reader

\* What e makes of the payload that s shows.
Shown(view, e) ==
    IF e.type # "create" /\ view[e.card] = Absent THEN view
    ELSE [view EXCEPT ![e.card] = Written(e)]

LEMMA ShownTrue ==
    ASSUME NEW H \in Histories, NEW i \in Nat, NEW r \in Nat, NEW e \in Changes,
           TrueChange(H, i, r, e), e.instance = i
    PROVE  Shown(H[e.revision - 1], e) = H[e.revision]
<1> DEFINE n == e.revision
           old == H[n - 1]
           new == H[n]
<1>1. /\ n \in 1..r /\ new[e.card] = Becoming(H, e)
      /\ \A k \in Card \ {e.card} : new[k] = old[k]
      /\ e.card \in Card
  BY DEF TrueChange, Changes
<1>2. n \in Nat /\ n - 1 \in Nat
  BY <1>1
<1>3. old \in [Card -> Value \cup {Absent}] /\ new \in [Card -> Value \cup {Absent}]
  BY <1>2 DEF Histories, Cards
<1>4. Becoming(H, e) = IF e.type # "create" /\ old[e.card] = Absent THEN Absent ELSE Written(e)
  BY DEF Becoming
<1> HIDE DEF n, old, new
<1>5. Shown(old, e) = new
  BY <1>1, <1>3, <1>4 DEF Shown
<1> QED
  BY <1>5 DEF n, old, new

\* t shows what e made of the view of s, or waits for the object that e creates.
Follows(t, s, e) ==
    /\ t.adrift = s.adrift
    /\ \/ t.view = Shown(s.view, e) /\ t.creating = s.creating
       \/ t.view = s.view /\ t.creating = s.creating \cup {e}

LEMMA FollowsShows ==
    ASSUME NEW s, NEW t, NEW e \in Changes, s.view \in Cards, NEW old \in Cards,
           Follows(t, s, e), Shows(s, old)
    PROVE  Shows(t, Shown(old, e))
<1>1. e.card \in Card
  BY DEF Changes
<1>2. ASSUME NEW f \in Cards, NEW k \in Card
      PROVE  Shown(f, e)[k] = IF k = e.card /\ (e.type = "create" \/ f[k] # Absent)
                              THEN Written(e) ELSE f[k]
  BY <1>1 DEF Shown, Cards
<1> SUFFICES ASSUME NEW k \in Card, k \notin Loose(t)
             PROVE  t.view[k] = Shown(old, e)[k]
  BY DEF Shows
<1>3. CASE t.view = Shown(s.view, e) /\ t.creating = s.creating
  <2>1. k \notin Loose(s)
    BY <1>3 DEF Follows, Loose
  <2>2. s.view[k] = old[k]
    BY <2>1 DEF Shows
  <2> QED
    BY <1>2, <1>3, <2>2
<1>4. CASE t.view = s.view /\ t.creating = s.creating \cup {e}
  <2>1. k \notin Loose(s) /\ k # e.card
    BY <1>4 DEF Follows, Loose
  <2>2. s.view[k] = old[k]
    BY <2>1 DEF Shows
  <2> QED
    BY <1>2, <1>4, <2>1, <2>2
<1> QED
  BY <1>3, <1>4 DEF Follows

\* What a browser makes of a change while it applies no snapshot.
LEMMA ChangeEffect ==
    ASSUME NEW s \in Browsers, s.applying = None, NEW e \in Changes, NEW t, t = OnEvent(s, e)
    PROVE  /\ Follows(t, s, e)
           /\ s.base = s.view => t.base = t.view
           /\ t.latest = IF e.revision > s.latest THEN e.revision ELSE s.latest
           /\ ~t.gap => ~s.gap /\ ~(s.latest > 0 /\ e.revision > s.latest + 1)
           /\ t.since = IF e.instance # s.instance THEN 0 ELSE s.since
           /\ t.instance = s.instance /\ t.awaiting = s.awaiting /\ t.applying = None
           /\ t.queued = s.queued /\ t.later = s.later /\ t.overrun = s.overrun
           /\ t.dirty = s.dirty /\ t.recover = s.recover /\ t.wrote = s.wrote
           /\ t.active = s.active /\ t.queue = s.queue
           /\ t.calls = s.calls /\ t.answers = s.answers
<1> DEFINE o == Observe(s, e.revision)
           a == ApplyEvent(o, e)
<1>1. OnEvent(s, e) = Told(a, e)
  BY DEF OnEvent, Changes, Kind
<1>2. e.revision \in Nat /\ e.card \in Card /\ e.now \in Held /\ e.value \in Held /\ e.type \in Kind
  BY DEF Changes
<1>0. o \in Browsers
  BY <1>2, ObserveEffect
<1>3. /\ o \in Browsers /\ o.view = s.view /\ o.base = s.base
      /\ o.creating = s.creating /\ o.adrift = s.adrift
      /\ o.latest = IF e.revision > s.latest THEN e.revision ELSE s.latest
      /\ ~o.gap => ~s.gap /\ ~(s.latest > 0 /\ e.revision > s.latest + 1)
      /\ o.since = s.since
      /\ o.instance = s.instance /\ o.awaiting = s.awaiting /\ o.applying = None
      /\ o.queued = s.queued /\ o.later = s.later /\ o.overrun = s.overrun
      /\ o.dirty = s.dirty /\ o.recover = s.recover /\ o.wrote = s.wrote
      /\ o.active = s.active /\ o.queue = s.queue
      /\ o.calls = s.calls /\ o.answers = s.answers
  <2> DEFINE top == IF e.revision > s.latest THEN e.revision ELSE s.latest
             gap == s.gap \/ (s.latest > 0 /\ e.revision > s.latest + 1)
             w == [s EXCEPT !.gap = gap, !.latest = top, !.presence = top]
  <2>1. o = w
    BY DEF Observe, Browsers
  <2> HIDE DEF top, gap, o
  <2>2. /\ w.view = s.view /\ w.base = s.base
        /\ w.creating = s.creating /\ w.adrift = s.adrift
        /\ w.latest = top /\ w.gap = gap
        /\ w.since = s.since
        /\ w.instance = s.instance /\ w.awaiting = s.awaiting /\ w.applying = None
        /\ w.queued = s.queued /\ w.later = s.later /\ w.overrun = s.overrun
        /\ w.dirty = s.dirty /\ w.recover = s.recover /\ w.wrote = s.wrote
        /\ w.active = s.active /\ w.queue = s.queue
        /\ w.calls = s.calls /\ w.answers = s.answers
    BY DEF Browsers
  <2> HIDE DEF w
  <2> QED
    BY <1>0, <2>1, <2>2 DEF gap, top
<1> HIDE DEF o
<1>4. /\ a \in Browsers /\ Follows(a, o, e)
      /\ o.base = o.view => a.base = a.view
      /\ a.latest = o.latest /\ a.gap = o.gap /\ a.since = o.since
      /\ a.instance = o.instance /\ a.awaiting = o.awaiting /\ a.applying = o.applying
      /\ a.queued = o.queued /\ a.later = o.later /\ a.overrun = o.overrun
      /\ a.dirty = o.dirty /\ a.recover = o.recover /\ a.wrote = o.wrote
      /\ a.active = o.active /\ a.queue = o.queue
      /\ a.calls = o.calls /\ a.answers = o.answers
  <2>1. a \in Browsers /\ SameWord(a, o) /\ SameQueue(a, o)
    BY <1>3, ApplyEffect
  <2>2. o.view \in [Card -> Held] /\ o.base \in [Card -> Held]
    BY <1>3 DEF Browsers, Cards, Held
  <2>3. CASE e.type = "field"
    <3> DEFINE w == [o.view EXCEPT ![e.card] = e.value]
    <3>1. Written(e) = e.value
      BY <2>3 DEF Written
    <3>2. CASE Present(o, e.card)
      <4>1. a = [o EXCEPT !.view = w, !.base = w]
        BY <1>3, <2>3, <3>2 DEF ApplyEvent, ApplyField, SeedBaselines, Browsers
      <4>2. Shown(o.view, e) = w
        BY <3>1, <3>2 DEF Shown, Present
      <4> HIDE DEF w, a
      <4> QED
        BY <1>3, <2>1, <4>1, <4>2, ZenonT(30) DEF Browsers, SameWord, SameQueue, Follows
    <3>3. CASE ~Present(o, e.card)
      <4>1. a = o /\ Shown(o.view, e) = o.view
        BY <2>3, <3>3 DEF ApplyEvent, ApplyField, Present, Shown
      <4> QED
        BY <1>3, <4>1 DEF Follows
    <3> QED
      BY <3>2, <3>3
  <2>4. CASE e.type # "field"
    <3> DEFINE w == [o.view EXCEPT ![e.card] = Written(e)]
               b == [o.base EXCEPT ![e.card] = Written(e)]
               x == o.creating \cup {e}
    <3>0. a = IF Awaits(o, e) THEN [o EXCEPT !.creating = x]
              ELSE IF e.type = "update" /\ ~Present(o, e.card) THEN o
              ELSE [o EXCEPT !.view = w, !.base = b]
      BY <1>3, <2>4 DEF ApplyEvent, ApplyMutation, Browsers
    <3>4. CASE Awaits(o, e)
      <4>1. a = [o EXCEPT !.creating = x]
        BY <3>0, <3>4
      <4> HIDE DEF a, x
      <4>2. /\ a.creating = x /\ a.view = o.view /\ a.base = o.base /\ a.adrift = o.adrift
            /\ a.overrun = o.overrun /\ a.dirty = o.dirty /\ a.recover = o.recover
            /\ a.wrote = o.wrote
        BY <1>3, <4>1 DEF Browsers
      <4> QED
        BY <1>3, <2>1, <4>2 DEF SameWord, SameQueue, Follows, x
    <3>1. CASE ~Awaits(o, e) /\ e.type = "update" /\ ~Present(o, e.card)
      <4>1. a = o /\ Shown(o.view, e) = o.view
        BY <3>0, <3>1 DEF Present, Shown
      <4> QED
        BY <1>3, <4>1 DEF Follows
    <3>2. CASE ~Awaits(o, e) /\ ~(e.type = "update" /\ ~Present(o, e.card))
      <4>1. a = [o EXCEPT !.view = w, !.base = b]
        BY <3>0, <3>2
      <4>2. Shown(o.view, e) = w
        <5>1. CASE e.type # "create" /\ o.view[e.card] = Absent
          <6>1. e.type = "remove" /\ Written(e) = Absent
            BY <1>2, <2>4, <3>2, <5>1 DEF Kind, Written, Present
          <6>2. w = o.view
            BY <2>2, <5>1, <6>1
          <6> QED
            BY <5>1, <6>2 DEF Shown
        <5> QED
          BY <5>1 DEF Shown
      <4>3. o.base = o.view => b = w
        OBVIOUS
      <4> HIDE DEF w, b, a
      <4>4. /\ a.creating = o.creating /\ a.view = w /\ a.base = b /\ a.adrift = o.adrift
            /\ a.overrun = o.overrun /\ a.dirty = o.dirty /\ a.recover = o.recover
            /\ a.wrote = o.wrote
        BY <1>3, <4>1 DEF Browsers
      <4> QED
        BY <1>3, <2>1, <4>2, <4>3, <4>4 DEF SameWord, SameQueue, Follows
    <3> QED
      BY <3>1, <3>2, <3>4
  <2> QED
    BY <2>3, <2>4
<1> HIDE DEF a
<1>5. /\ t.view = a.view /\ t.creating = a.creating /\ t.adrift = a.adrift
      /\ t.base = a.base /\ t.latest = a.latest /\ t.gap = a.gap
      /\ t.since = IF e.instance # a.instance THEN 0 ELSE a.since
      /\ t.instance = a.instance /\ t.awaiting = a.awaiting /\ t.applying = a.applying
      /\ t.queued = a.queued /\ t.later = a.later /\ t.overrun = a.overrun
      /\ t.dirty = a.dirty /\ t.recover = a.recover /\ t.wrote = a.wrote
      /\ t.active = a.active /\ t.queue = a.queue
      /\ t.calls = a.calls /\ t.answers = a.answers
  <2>1. a \in Browsers /\ t = Told(a, e)
    BY <1>1, <1>4
  <2>2. CASE e.instance # a.instance
    <3>1. t = [a EXCEPT !.since = 0]
      BY <2>1, <2>2 DEF Told
    <3> QED
      BY <2>1, <2>2, <3>1 DEF Browsers
  <2>3. CASE e.instance = a.instance /\ e.revision < a.told[e.card].revision
    BY <2>1, <2>3, Zenon DEF Told
  <2>4. CASE e.instance = a.instance /\ ~(e.revision < a.told[e.card].revision)
    <3> DEFINE w == [a.told EXCEPT ![e.card] = [value |-> e.now, revision |-> e.revision]]
    <3>1. t = [a EXCEPT !.told = w]
      BY <2>1, <2>4 DEF Told
    <3> HIDE DEF w
    <3> QED
      BY <2>1, <2>4, <3>1 DEF Browsers
  <2> QED
    BY <2>2, <2>3, <2>4, Zenon
<1>6. Follows(t, s, e)
  BY <1>3, <1>4, <1>5 DEF Follows
<1> QED
  BY <1>3, <1>4, <1>5, <1>6

\* What it makes of any other event, or of any while it applies a snapshot.
LEMMA OtherEffect ==
    ASSUME NEW s \in Browsers, NEW e \in Events,
           s.applying # None \/ e.type \in {"snapshot", "unavailable"},
           NEW t, t = OnEvent(s, e)
    PROVE  /\ t.view = s.view /\ t.base = s.base /\ t.latest = s.latest
           /\ t.creating = s.creating /\ t.adrift = s.adrift
           /\ t.since = s.since /\ t.instance = s.instance /\ t.awaiting = s.awaiting
           /\ t.later = s.later /\ t.dirty = s.dirty /\ t.recover = s.recover
           /\ t.wrote = s.wrote /\ t.calls = s.calls /\ t.answers = s.answers
           /\ Idle(s) => Idle(t)
           /\ \/ /\ s.applying # None /\ t.applying = s.applying /\ t.overrun = s.overrun
                 /\ t.queued = Append(s.queued, e)
              \/ /\ s.applying = None /\ e.type = "snapshot" /\ t.applying = e
                 /\ t.queued = s.queued /\ Idle(t)
              \/ /\ s.applying = None /\ e.type = "unavailable" /\ t.applying = None
                 /\ t.queued = s.queued /\ t.gap
<1>1. CASE s.applying # None
  <2> DEFINE q == Append(s.queued, e)
  <2>1. t = [s EXCEPT !.queued = q]
    BY <1>1 DEF OnEvent
  <2> HIDE DEF q
  <2>2. /\ t.view = s.view /\ t.base = s.base /\ t.latest = s.latest
        /\ t.creating = s.creating /\ t.adrift = s.adrift
        /\ t.since = s.since /\ t.instance = s.instance /\ t.awaiting = s.awaiting
        /\ t.later = s.later /\ t.dirty = s.dirty /\ t.recover = s.recover
        /\ t.wrote = s.wrote /\ t.calls = s.calls /\ t.answers = s.answers
        /\ t.active = s.active /\ t.queue = s.queue
        /\ t.applying = s.applying /\ t.overrun = s.overrun /\ t.queued = q
    BY <2>1 DEF Browsers
  <2> QED
    BY <1>1, <2>2 DEF Idle, q
<1>2. CASE s.applying = None /\ e.type = "snapshot"
  <2> DEFINE f == [k \in Card |-> 0]
             g == s.generation + 1
  <2>1. t = [ResetTracking(s) EXCEPT !.applying = e, !.overrun = FALSE]
    BY <1>2 DEF OnEvent, StartSnapshot
  <2>2. ResetTracking(s) = [s EXCEPT !.generation = g, !.inFlight = f, !.queue = <<>>,
                                     !.active = 0, !.failed = {}]
    BY DEF ResetTracking, Browsers
  <2> HIDE DEF f, g
  <2>3. /\ t.view = s.view /\ t.base = s.base /\ t.latest = s.latest
        /\ t.creating = s.creating /\ t.adrift = s.adrift
        /\ t.since = s.since /\ t.instance = s.instance /\ t.awaiting = s.awaiting
        /\ t.later = s.later /\ t.dirty = s.dirty /\ t.recover = s.recover
        /\ t.wrote = s.wrote /\ t.calls = s.calls /\ t.answers = s.answers
        /\ t.active = 0 /\ t.queue = <<>>
        /\ t.applying = e /\ t.queued = s.queued
    BY <2>1, <2>2 DEF Browsers
  <2> QED
    BY <1>2, <2>3 DEF Idle
<1>3. CASE s.applying = None /\ e.type = "unavailable"
  <2>1. t = [s EXCEPT !.gap = TRUE]
    BY <1>3 DEF OnEvent
  <2>2. /\ t.view = s.view /\ t.base = s.base /\ t.latest = s.latest
        /\ t.creating = s.creating /\ t.adrift = s.adrift
        /\ t.since = s.since /\ t.instance = s.instance /\ t.awaiting = s.awaiting
        /\ t.later = s.later /\ t.dirty = s.dirty /\ t.recover = s.recover
        /\ t.wrote = s.wrote /\ t.calls = s.calls /\ t.answers = s.answers
        /\ t.active = s.active /\ t.queue = s.queue
        /\ t.applying = None /\ t.queued = s.queued /\ t.gap
    BY <1>3, <2>1 DEF Browsers
  <2> QED
    BY <1>3, <2>2 DEF Idle
<1> QED
  BY <1>1, <1>2, <1>3

\* A reader stays steady through an event.
LEMMA EventSteady ==
    ASSUME NEW H, NEW i \in Nat, NEW r \in Nat, NEW s \in Browsers, NEW e \in TrueEvents(H, i, r),
           Steady(i, r, s), NEW t, t = OnEvent(s, e)
    PROVE  Steady(i, r, t) /\ t.dirty = s.dirty /\ t.wrote = s.wrote
<1>1. e \in Events
  BY DEF TrueEvents
<1>2. CASE s.applying # None \/ e.type \in {"snapshot", "unavailable"}
  BY <1>1, <1>2, OtherEffect DEF Steady
<1>3. CASE s.applying = None /\ e.type \notin {"snapshot", "unavailable"}
  <2>1. e \in Changes
    BY <1>1, <1>3, EventKinds
  <2>2. e.type \in Kind /\ e.revision \in Nat /\ e.instance \in Nat
    BY <2>1 DEF Changes
  <2>3. TrueChange(H, i, r, e)
    BY <2>2 DEF TrueEvents
  <2>4. ~(i = 1 /\ r = FirstRevision)
    BY <2>2, <2>3, BoundAssumption DEF TrueChange
  <2>5. /\ s.base = s.view => t.base = t.view
        /\ t.since = IF e.instance # s.instance THEN 0 ELSE s.since
        /\ t.instance = s.instance /\ t.applying = None
        /\ t.dirty = s.dirty /\ t.recover = s.recover /\ t.wrote = s.wrote
        /\ t.active = s.active /\ t.queue = s.queue
        /\ t.calls = s.calls /\ t.answers = s.answers
    BY <1>3, <2>1, ChangeEffect
  <2> QED
    BY <2>4, <2>5 DEF Steady, Idle
<1> QED
  BY <1>2, <1>3

\* It shows the payload of the latest revision also after an event, of which no other
\* that is to come has the revision.
LEMMA EventReads ==
    ASSUME NEW H \in Histories, NEW i \in Nat, NEW r \in Nat, NEW s \in Browsers,
           WordInv(H, i, r, s), NEW e \in TrueEvents(H, i, r), NEW Z,
           \A z \in Z : Changed(i, z) => z.revision \in Nat,
           Reads(H, i, r, s, Z \cup {e}), s.applying = None, Apart(i, {e}, Z)
    PROVE  Reads(H, i, r, OnEvent(s, e), Z)
<1> DEFINE t == OnEvent(s, e)
<1>1. e \in Events
  BY DEF TrueEvents
<1>2. e.type \in {"snapshot", "unavailable"} => t.applying # None \/ t.gap
  <2> SUFFICES ASSUME e.type \in {"snapshot", "unavailable"}
               PROVE  t.applying # None \/ t.gap
    OBVIOUS
  <2>1. e.type = "snapshot" => e # None
    BY <1>1, EventKinds, NoneAssumption
  <2> QED
    BY <1>1, <2>1, OtherEffect
<1>3. CASE e.type \in {"snapshot", "unavailable"}
  <2> HIDE DEF t
  <2>1. Reads(H, i, r, t, Z)
    BY <1>2, <1>3 DEF Reads, Fit
  <2> QED
    BY <2>1 DEF t
<1>4. CASE e.type \notin {"snapshot", "unavailable"}
  <2>1. e \in Changes
    BY <1>1, <1>4, EventKinds
  <2>2. e.type \in Kind /\ e.revision \in Nat /\ e.instance \in Nat
    BY <2>1 DEF Changes
  <2>3. TrueChange(H, i, r, e)
    BY <2>2 DEF TrueEvents
  <2>4. /\ Follows(t, s, e)
        /\ t.latest = IF e.revision > s.latest THEN e.revision ELSE s.latest
        /\ ~t.gap => ~s.gap /\ ~(s.latest > 0 /\ e.revision > s.latest + 1)
        /\ t.since = IF e.instance # s.instance THEN 0 ELSE s.since
        /\ t.instance = s.instance /\ t.awaiting = s.awaiting /\ t.applying = None
        /\ t.overrun = s.overrun
    BY <2>1, ChangeEffect
  <2>5. s.latest \in Nat /\ s.since \in Nat /\ s.gap \in BOOLEAN
    BY DEF Browsers
  <2> HIDE DEF t
  <2> SUFFICES ASSUME Fit(i, t)
               PROVE  /\ t.latest \in 0..r
                      /\ Shows(t, H[t.latest])
                      /\ \A z \in Z : Changed(i, z) => z.revision > t.latest
    BY DEF Reads, t
  <2>6. e.instance = i /\ s.instance = i /\ Fit(i, s) /\ s.since > 0 /\ ~s.awaiting /\ ~s.gap
    BY <2>4 DEF Fit
  <2>7. /\ Shows(s, H[s.latest])
        /\ \A z \in Z : Changed(i, z) => z.revision > s.latest
        /\ e.revision > s.latest
    BY <2>2, <2>6 DEF Reads, Changed
  <2>8. s.latest \in 1..r
    BY <2>6 DEF WordInv, KnowsAll
  <2>9. e.revision = s.latest + 1 /\ t.latest = e.revision /\ e.revision - 1 = s.latest
    BY <2>2, <2>4, <2>5, <2>7, <2>8 DEF Fit
  <2>10. Shows(t, H[t.latest])
    <3>1. H[s.latest] \in Cards /\ s.view \in Cards
      BY <2>5 DEF Histories, Browsers
    <3>2. Shows(t, Shown(H[s.latest], e))
      BY <2>1, <2>4, <2>7, <3>1, FollowsShows
    <3>3. Shown(H[s.latest], e) = H[t.latest]
      BY <2>1, <2>3, <2>6, <2>9, ShownTrue
    <3> QED
      BY <3>2, <3>3
  <2>11. t.latest \in 0..r
    BY <2>3, <2>6, <2>9 DEF TrueChange
  <2>12. ASSUME NEW z \in Z, Changed(i, z)
         PROVE  z.revision > t.latest
    <3>1. z.revision > s.latest /\ z.revision # e.revision /\ z.revision \in Nat
      BY <2>2, <2>6, <2>7, <2>12 DEF Apart, Changed
    <3> QED
      BY <2>5, <2>9, <3>1
  <2> QED
    BY <2>10, <2>11, <2>12
<1> QED
  BY <1>3, <1>4

LEMMA KeptEvents ==
    ASSUME NEW s \in Browsers
    PROVE  Kept(s) \subseteq Events
<1>1. s.applying \in Snapshots \cup {None} /\ s.queued \in Seq(Events) /\ s.later \in Seq(Events)
  BY DEF Browsers
<1>2. Of(s.queued) \subseteq Events /\ Of(s.later) \subseteq Events
  BY <1>1, OfType
<1> QED
  BY <1>1, <1>2 DEF Kept, Events

\* An event that comes before all others to come leaves a reader one.
LEMMA EventReader ==
    ASSUME NEW H \in Histories, NEW i \in Nat, NEW r \in Nat, NEW s \in Browsers,
           WordInv(H, i, r, s), NEW e \in TrueEvents(H, i, r), NEW Z,
           \A z \in Z : Changed(i, z) => z.revision \in Nat,
           Reader(H, i, r, s, Z \cup {e}), Earlier(i, {e}, Z)
    PROVE  Reader(H, i, r, OnEvent(s, e), Z)
<1> DEFINE t == OnEvent(s, e)
<1>1. e \in Events /\ e.revision \in Nat
  BY EventKinds DEF TrueEvents
<1>2. /\ Waits(i, s) /\ Earlier(i, Kept(s), Z \cup {e}) /\ Steady(i, r, s)
      /\ Resumable(s, Kept(s) \cup Z \cup {e})
  BY DEF Reader, Resumable
<1>3. s.queued \in Seq(Events) /\ s.later \in Seq(Events) /\ Len(s.queued) \in Nat
  BY DEF Browsers
<1>4. Steady(i, r, t) /\ t.dirty = s.dirty
  BY <1>2, EventSteady
<1>5. Reads(H, i, r, t, Z)
  <2>1. CASE s.applying = None
    <3>1. Apart(i, {e}, Z)
      <4>1. \A z \in Z : Changed(i, e) /\ Changed(i, z) => e.revision < z.revision /\ z.revision \in Nat
        BY DEF Earlier, Changed, Word
      <4> QED
        BY <1>1, <4>1 DEF Apart
    <3>2. Reads(H, i, r, s, Z \cup {e})
      BY DEF Reader
    <3> QED
      BY <2>1, <3>1, <3>2, EventReads
  <2>2. CASE s.applying # None
    <3>1. t.applying # None
      BY <1>1, <2>2, OtherEffect
    <3> HIDE DEF t
    <3> QED
      BY <3>1 DEF Reads, Fit
  <2> QED
    BY <2>1, <2>2
<1>6. Waits(i, t) /\ Kept(t) \subseteq Kept(s) \cup {e}
  <2>1. CASE s.applying # None
    <3> DEFINE q == Append(s.queued, e)
    <3>1. t.applying = s.applying /\ t.overrun = s.overrun /\ t.queued = q /\ t.later = s.later
      BY <1>1, <2>1, OtherEffect
    <3>2. Of(q) = Of(s.queued) \cup {e}
      BY <1>1, <1>3, OfAppend
    <3>3. Of(s.queued) \subseteq Kept(s) /\ Of(s.later) \subseteq Kept(s) /\ s.applying \in Kept(s)
      BY <2>1 DEF Kept
    <3>4. Earlier(i, {s.applying}, Of(q))
      BY <1>2, <2>1, <3>2, <3>3 DEF Waits, Earlier
    <3>5. \A x \in Kept(s) : Changed(i, x) /\ Changed(i, e) => x.revision # e.revision
      <4> SUFFICES ASSUME NEW x \in Kept(s), Changed(i, x), Changed(i, e)
                   PROVE  x.revision # e.revision
        OBVIOUS
      <4>1. x.revision \in Nat
        BY KeptEvents, EventKinds
      <4>2. x.revision < e.revision
        BY <1>2 DEF Earlier, Changed, Word
      <4> QED
        BY <1>1, <4>1, <4>2
    <3>6. Distinct(i, q)
      <4>1. Apart(i, Of(s.queued), {e})
        BY <3>3, <3>5 DEF Apart
      <4> QED
        BY <1>2, <1>3, <4>1, DistinctAppend DEF Waits
    <3>7. Apart(i, Of(s.later), Of(q))
      BY <1>2, <3>2, <3>3, <3>5 DEF Apart, Waits
    <3> HIDE DEF t, q
    <3>8. Waits(i, t)
      BY <1>2, <2>1, <3>1, <3>4, <3>6, <3>7 DEF Waits
    <3>9. Kept(t) \subseteq Kept(s) \cup {e}
      BY <3>1, <3>2 DEF Kept
    <3> QED
      BY <3>8, <3>9
  <2>2. CASE s.applying = None
    <3>1. s.queued = <<>> /\ s.later = <<>>
      BY <1>2, <2>2 DEF Waits
    <3>2. t.applying \in {None, e} /\ t.queued = <<>> /\ t.later = <<>>
      <4>1. CASE e.type \in {"snapshot", "unavailable"}
        BY <1>1, <2>2, <3>1, <4>1, OtherEffect
      <4>2. CASE e.type \notin {"snapshot", "unavailable"}
        <5>1. e \in Changes
          BY <1>1, <4>2, EventKinds
        <5> QED
          BY <2>2, <3>1, <5>1, ChangeEffect
      <4> QED
        BY <4>1, <4>2
    <3> HIDE DEF t
    <3>3. Distinct(i, <<>>) /\ Of(<<>>) = {}
      BY OfEmpty DEF Distinct
    <3>4. Waits(i, t)
      BY <3>2, <3>3 DEF Waits, Earlier, Apart
    <3>5. Kept(t) \subseteq {e}
      BY <3>2, <3>3 DEF Kept
    <3> QED
      BY <3>4, <3>5
  <2> QED
    BY <2>1, <2>2
<1> HIDE DEF t
<1>7. Earlier(i, Kept(t), Z)
  BY <1>2, <1>6 DEF Earlier
<1>8. Resumable(t, Kept(t) \cup Z)
  BY <1>2, <1>4, <1>6 DEF Resumable
<1> QED
  BY <1>4, <1>5, <1>6, <1>7, <1>8 DEF Reader, t

\* The replay of events, no two of one revision, each the next one or never needed,
\* leaves a reader one.  Before the n-th it reads with the others still to come.
LEMMA ReplayReader ==
    ASSUME NEW H \in Histories, NEW i \in Nat, NEW r \in Nat, NEW s \in Browsers,
           WordInv(H, i, r, s), NEW q \in Seq(TrueEvents(H, i, r)), NEW Z,
           \A z \in Z : Changed(i, z) => z.revision \in Nat,
           s.applying = None, s.queued = <<>>, Distinct(i, q), Earlier(i, Of(q), Z),
           Steady(i, r, s), Reads(H, i, r, s, Of(q) \cup Z), Resumable(s, Of(q) \cup Z)
    PROVE  Reader(H, i, r, Replay(s, q), Z) /\ Replay(s, q).wrote = s.wrote
<1> DEFINE E == TrueEvents(H, i, r)
           N == Len(q)
           snaps == {n \in 1..N : q[n].type = "snapshot"}
           upto == IF snaps = {} THEN N ELSE CHOOSE n \in snaps : \A m \in snaps : n <= m
           left == SubSeq(q, upto + 1, N)
           over == \E n \in 1..Len(left) : left[n].revision <= q[upto].revision
           Rest(n) == {q[m] : m \in (n + 1)..N} \cup Z
           At(n) == {t \in Browsers : /\ WordInv(H, i, r, t) /\ Steady(i, r, t)
                                      /\ t.dirty = s.dirty /\ t.wrote = s.wrote
                                      /\ t.queued = <<>>
                                      /\ t.applying = IF n \in snaps THEN q[n] ELSE None
                                      /\ Reads(H, i, r, t, Rest(n))}
           SS == [n \in 0..N |-> At(n)]
<1>1. N \in Nat /\ snaps \in SUBSET (1..N) /\ snaps \in SUBSET Nat
  OBVIOUS
<1>2. upto \in 0..N /\ (\A n \in 1..N : n < upto => n \notin snaps)
      /\ (snaps # {} => upto \in snaps) /\ (snaps = {} => upto = N)
  <2>1. CASE snaps = {}
    BY <1>1, <2>1
  <2>2. CASE snaps # {}
    <3> DEFINE first == CHOOSE n \in snaps : \A m \in snaps : n <= m
    <3>1. upto = first
      BY <2>2
    <3> HIDE DEF snaps
    <3>2. \E n \in snaps : \A m \in snaps : n <= m
      BY <1>1, <2>2, Smallest
    <3>3. first \in snaps /\ \A m \in snaps : first <= m
      BY <3>2, Zenon
    <3> HIDE DEF first, upto
    <3> QED
      BY <1>1, <2>2, <3>1, <3>3
  <2> QED
    BY <2>1, <2>2
<1>3. Replay(s, q) = [After(s, q, upto) EXCEPT !.later = left, !.overrun = @ \/ over]
  BY Zenon DEF Replay
<1> HIDE DEF upto
<1>4. \A n \in 1..N : q[n] \in E /\ q[n] \in Events /\ q[n].revision \in Nat /\ q[n] \in Of(q)
  BY EventKinds DEF TrueEvents, Of
<1>5. \A n \in 0..N : SS[n] = At(n)
  OBVIOUS
<1> HIDE DEF SS, At
<1>6. \A n \in 0..N : Rest(n) \subseteq Of(q) \cup Z
  BY <1>1, <1>4
<1>7. s \in SS[0]
  <2>1. 0 \in 0..N /\ 0 \notin snaps
    BY <1>1
  <2>2. Reads(H, i, r, s, Rest(0))
    BY <1>6, <2>1 DEF Reads
  <2> HIDE DEF Rest, snaps
  <2>3. s \in At(0)
    BY <2>1, <2>2 DEF At
  <2> QED
    BY <1>5, <2>1, <2>3
<1>8. ASSUME NEW n \in 1..upto, NEW t \in SS[n - 1]
      PROVE  OnEvent(t, q[n]) \in SS[n]
  <2> DEFINE e == q[n]
             v == OnEvent(t, e)
  <2>1. /\ n \in 1..N /\ n \in 0..N /\ n - 1 \in 0..N /\ n - 1 \notin snaps
        /\ \A m \in (n + 1)..N : m \in ((n - 1) + 1)..N /\ m \in 1..N /\ m # n
        /\ n \in ((n - 1) + 1)..N
    BY <1>1, <1>2
  <2>2. /\ t \in Browsers /\ WordInv(H, i, r, t) /\ Steady(i, r, t)
        /\ t.dirty = s.dirty /\ t.wrote = s.wrote /\ t.queued = <<>> /\ t.applying = None
        /\ Reads(H, i, r, t, Rest(n - 1))
    <3>1. t \in At(n - 1)
      BY <1>5, <2>1
    <3> HIDE DEF snaps, Rest
    <3> QED
      BY <2>1, <3>1 DEF At
  <2>3. e \in E /\ e \in Events /\ e.revision \in Nat /\ e \in Of(q)
    BY <1>4, <2>1
  <2>4. v \in Browsers /\ WordInv(H, i, r, v)
    BY <2>2, <2>3, EventEffect, EventWord
  <2>5. Steady(i, r, v) /\ v.dirty = t.dirty /\ v.wrote = t.wrote
    <3> HIDE DEF e
    <3> QED
      BY <2>2, <2>3, EventSteady
  <2>6. v.queued = <<>> /\ v.applying = IF n \in snaps THEN e ELSE None
    <3>1. CASE e.type \in {"snapshot", "unavailable"}
      BY <2>1, <2>2, <2>3, <3>1, OtherEffect
    <3>2. CASE e.type \notin {"snapshot", "unavailable"}
      <4>1. e \in Changes
        BY <2>3, <3>2, EventKinds
      <4> QED
        BY <2>1, <2>2, <3>2, <4>1, ChangeEffect
    <3> QED
      BY <3>1, <3>2
  <2>7. Reads(H, i, r, v, Rest(n))
    <3>1. Rest(n - 1) = Rest(n) \cup {e} \/ Rest(n) \cup {e} \subseteq Rest(n - 1)
      BY <2>1
    <3>2. Reads(H, i, r, t, Rest(n) \cup {e})
      BY <2>2, <3>1 DEF Reads
    <3>3. \A z \in Rest(n) : z \in Z \/ \E m \in 1..N : m # n /\ z = q[m]
      BY <2>1
    <3>4. \A z \in Rest(n) : Changed(i, z) => z.revision \in Nat
      BY <1>4, <3>3
    <3>5. Apart(i, {e}, Rest(n))
      <4> SUFFICES ASSUME NEW z \in Rest(n), Changed(i, e), Changed(i, z)
                   PROVE  e.revision # z.revision
        BY DEF Apart
      <4>1. CASE z \in Z
        <5>1. e.revision < z.revision /\ z.revision \in Nat
          BY <2>3, <4>1 DEF Earlier, Changed, Word
        <5> QED
          BY <2>3, <5>1
      <4>2. CASE \E m \in 1..N : m # n /\ z = q[m]
        BY <2>1, <4>2 DEF Distinct
      <4> QED
        BY <3>3, <4>1, <4>2
    <3> HIDE DEF Rest, v, e, E
    <3> QED
      BY <2>2, <2>3, <3>2, <3>4, <3>5, EventReads DEF v, E
  <2> HIDE DEF v, Rest
  <2>8. v \in SS[n]
    <3> HIDE DEF snaps
    <3>1. v \in At(n)
      BY <2>2, <2>4, <2>5, <2>6, <2>7 DEF At
    <3> QED
      BY <1>5, <2>1, <3>1
  <2> QED
    BY <2>8 DEF v
<1> DEFINE t == After(s, q, upto)
<1>9. t \in SS[upto]
  BY <1>2, <1>7, <1>8, AfterPasses, SMTT(30)
<1> HIDE DEF t
<1>10. /\ t \in Browsers /\ WordInv(H, i, r, t) /\ Steady(i, r, t)
       /\ t.dirty = s.dirty /\ t.wrote = s.wrote /\ t.queued = <<>>
       /\ t.applying = IF upto \in snaps THEN q[upto] ELSE None
       /\ Reads(H, i, r, t, Rest(upto))
  <2>1. t \in At(upto)
    BY <1>2, <1>5, <1>9
  <2> HIDE DEF snaps, Rest
  <2> QED
    BY <2>1 DEF At
<1>11. /\ Len(left) = N - upto
       /\ \A n \in 1..(N - upto) : left[n] = q[upto + n] /\ upto + n \in (upto + 1)..N /\ upto + n \in 1..N
  BY <1>1, <1>2
<1>12. Of(left) \subseteq Of(q) /\ Of(left) \subseteq Rest(upto)
  BY <1>4, <1>11 DEF Of
<1>13. Distinct(i, left)
  <2> SUFFICES ASSUME NEW m \in 1..Len(left), NEW n \in 1..Len(left), m # n,
                      Changed(i, left[m]), Changed(i, left[n])
               PROVE  left[m].revision # left[n].revision
    BY DEF Distinct
  <2>1. /\ left[m] = q[upto + m] /\ left[n] = q[upto + n] /\ upto + m # upto + n
        /\ upto + m \in 1..N /\ upto + n \in 1..N
    BY <1>2, <1>11
  <2> QED
    BY <2>1 DEF Distinct
<1>14. upto \notin snaps => left = <<>>
  <2>1. upto \notin snaps => upto = N
    BY <1>2
  <2>2. upto = N => left = <<>>
    BY <1>1
  <2> QED
    BY <2>1, <2>2
<1>15. ~over => Earlier(i, {q[upto]}, Of(left)) \/ upto \notin snaps
  <2> SUFFICES ASSUME ~over, upto \in snaps, NEW n \in 1..Len(left)
               PROVE  q[upto].revision < left[n].revision
    BY DEF Earlier, Of
  <2>1. left[n].revision \in Nat /\ q[upto].revision \in Nat
    BY <1>4, <1>11
  <2>2. ~(left[n].revision <= q[upto].revision)
    OBVIOUS
  <2> HIDE DEF left
  <2> QED
    BY <2>1, <2>2
<1>16. upto \in snaps => q[upto] \in Of(q) /\ q[upto] # None
  <2>1. upto \in snaps => upto \in 1..N /\ q[upto].type = "snapshot"
    OBVIOUS
  <2> HIDE DEF snaps
  <2> QED
    BY <1>4, <2>1, EventKinds, NoneAssumption
<1> DEFINE v == [t EXCEPT !.later = left, !.overrun = t.overrun \/ over]
<1> HIDE DEF left, over, snaps
<1>17. /\ v.later = left /\ v.overrun = (t.overrun \/ over)
       /\ v.applying = t.applying /\ v.queued = t.queued /\ v.instance = t.instance
       /\ v.since = t.since /\ v.awaiting = t.awaiting /\ v.gap = t.gap /\ v.latest = t.latest
       /\ v.view = t.view /\ v.creating = t.creating /\ v.adrift = t.adrift
       /\ v.base = t.base /\ v.recover = t.recover /\ v.dirty = t.dirty
       /\ v.active = t.active /\ v.queue = t.queue /\ v.wrote = t.wrote
       /\ v.calls = t.calls /\ v.answers = t.answers
  BY <1>10 DEF Browsers
<1>18. ~v.overrun => ~t.overrun /\ ~over
  BY <1>17
<1> HIDE DEF v
<1>19. Distinct(i, <<>>) /\ Of(<<>>) = {}
  BY OfEmpty DEF Distinct
<1>20. Waits(i, v)
  <2>1. v.applying = None => v.queued = <<>> /\ v.later = <<>>
    BY <1>10, <1>14, <1>16, <1>17
  <2>2. v.applying # None => /\ Earlier(i, {v.applying}, Of(v.queued))
                             /\ ~v.overrun => Earlier(i, {v.applying}, Of(v.later))
    <3> SUFFICES ASSUME v.applying # None
                 PROVE  /\ Earlier(i, {v.applying}, Of(v.queued))
                        /\ ~v.overrun => Earlier(i, {v.applying}, Of(v.later))
      OBVIOUS
    <3>1. upto \in snaps /\ v.applying = q[upto] /\ v.queued = <<>>
      BY <1>10, <1>17
    <3>2. Earlier(i, {v.applying}, Of(v.queued))
      BY <1>19, <3>1 DEF Earlier
    <3>3. ~v.overrun => Earlier(i, {v.applying}, Of(v.later))
      BY <1>15, <1>17, <1>18, <3>1
    <3> QED
      BY <3>2, <3>3
  <2>3. Distinct(i, v.queued) /\ Distinct(i, v.later) /\ Apart(i, Of(v.later), Of(v.queued))
    BY <1>10, <1>13, <1>17, <1>19 DEF Apart
  <2> QED
    BY <2>1, <2>2, <2>3 DEF Waits
<1>21. Kept(v) \subseteq Of(q)
  BY <1>10, <1>12, <1>16, <1>17, <1>19 DEF Kept
<1>22. Reads(H, i, r, v, Z)
  <2>1. Z \subseteq Rest(upto)
    OBVIOUS
  <2> HIDE DEF Rest
  <2> QED
    BY <1>10, <1>17, <1>18, <2>1 DEF Reads, Fit, Shows, Loose
<1>23. Steady(i, r, v)
  BY <1>10, <1>17 DEF Steady, Idle
<1>24. Earlier(i, Kept(v), Z) /\ Resumable(v, Kept(v) \cup Z)
  BY <1>10, <1>17, <1>21 DEF Earlier, Resumable
<1>25. Replay(s, q) = v
  BY <1>3 DEF t, v
<1> QED
  BY <1>10, <1>17, <1>20, <1>22, <1>23, <1>24, <1>25 DEF Reader

\* So does that of what the browser kept back.
LEMMA ReplayQueuedReader ==
    ASSUME NEW H \in Histories, NEW i \in Nat, NEW r \in Nat, NEW s \in Browsers,
           WordInv(H, i, r, s), NEW Z,
           \A z \in Z : Changed(i, z) => z.revision \in Nat,
           Distinct(i, s.queued), Distinct(i, s.later), Apart(i, Of(s.later), Of(s.queued)),
           Earlier(i, Of(s.queued) \cup Of(s.later), Z), Steady(i, r, s),
           Resumable(s, Of(s.queued) \cup Of(s.later) \cup Z),
           Reads(H, i, r, Replaying(s), Of(s.queued) \cup Of(s.later) \cup Z)
    PROVE  Reader(H, i, r, ReplayQueued(s), Z) /\ ReplayQueued(s).wrote = s.wrote
<1> DEFINE E == TrueEvents(H, i, r)
           u == Replaying(s)
           p == ByRevision(s.queued)
           q == p \o s.later
<1>1. s.queued \in Seq(E) /\ s.later \in Seq(E) /\ \A e \in E : e.revision \in Nat
  BY EventKinds DEF WordInv, TrueEvents
<1>2. <<>> \in Seq(Events) /\ <<>> \in Seq(E)
  OBVIOUS
<1> HIDE DEF E
<1>3. p \in Seq(E) /\ Of(p) \subseteq Of(s.queued) /\ Distinct(i, p)
  BY <1>1, ByRevisionStays, Sorted
<1>4. /\ u \in Browsers /\ u.applying = None /\ u.queued = <<>> /\ u.later = s.later
      /\ u.me = s.me /\ u.instance = s.instance /\ u.told = s.told /\ u.latest = s.latest
      /\ u.gap = s.gap /\ u.since = s.since /\ u.awaiting = s.awaiting /\ u.answers = s.answers
      /\ u.view = s.view /\ u.creating = s.creating /\ u.adrift = s.adrift
      /\ u.base = s.base /\ u.recover = s.recover /\ u.dirty = s.dirty
      /\ u.active = s.active /\ u.queue = s.queue /\ u.wrote = s.wrote /\ u.calls = s.calls
  BY <1>2 DEF Browsers, Replaying
<1> HIDE DEF u, p
<1>5. WordInv(H, i, r, u)
  BY <1>2, <1>4 DEF WordInv, ToldTrue, KnowsAll, E
<1>6. Steady(i, r, u)
  BY <1>4 DEF Steady, Idle
<1>7. q \in Seq(E) /\ Of(q) = Of(p) \cup Of(s.later)
  BY <1>1, <1>3, OfConcat
<1>8. Distinct(i, q)
  <2>1. Apart(i, Of(s.later), Of(p))
    BY <1>3 DEF Apart
  <2> QED
    BY <1>1, <1>3, <2>1, DistinctConcat
<1> HIDE DEF q
<1>9. Of(q) \subseteq Of(s.queued) \cup Of(s.later)
  BY <1>3, <1>7
<1>10. Earlier(i, Of(q), Z) /\ Resumable(u, Of(q) \cup Z) /\ Reads(H, i, r, u, Of(q) \cup Z)
  BY <1>4, <1>9 DEF Earlier, Resumable, Reads, u
<1>11. ReplayQueued(s) = Replay(u, q)
  BY DEF ReplayQueued, Replaying, u, p, q
<1> QED
  BY <1>4, <1>5, <1>6, <1>7, <1>8, <1>10, <1>11, ReplayReader, ZenonT(30) DEF E

\* The queue leaves the canvas alone and sends no field.
SameCanvas(t, s) ==
    /\ t.view = s.view /\ t.creating = s.creating /\ t.adrift = s.adrift
    /\ t.overrun = s.overrun /\ t.recover = s.recover
    /\ t.dirty = s.dirty /\ t.wrote = s.wrote
NoField(s) == \A x \in s.calls \cup s.answers : x.type # "field"
Deltas(s) == \A n \in 1..Len(s.queue) : s.queue[n].type # "field"

LEMMA DrainCanvas ==
    ASSUME NEW s \in Browsers, Deltas(s)
    PROVE  SameCanvas(Drain(s), s) /\ (NoField(s) => NoField(Drain(s)))
<1>1. CASE s.active # 0 \/ s.queue = <<>>
  BY <1>1 DEF Drain, SameCanvas
<1>2. CASE ~(s.active # 0 \/ s.queue = <<>>)
  <2> DEFINE m == [Head(s.queue) EXCEPT !.sequence = s.sequence + 1]
             calls == s.calls \cup {m}
             tail == Tail(s.queue)
             next == s.sequence + 1
             t == [s EXCEPT !.queue = tail, !.active = s.generation, !.sequence = next,
                            !.calls = calls]
  <2>1. Drain(s) = t
    BY <1>2 DEF Drain, Browsers
  <2>2. s.queue \in Seq(Mutations)
    BY DEF Browsers
  <2>3. Head(s.queue) \in Mutations /\ Head(s.queue).type # "field"
    <3>1. Head(s.queue) = s.queue[1] /\ 1 \in 1..Len(s.queue) /\ s.queue[1] \in Mutations
      BY <1>2, <2>2
    <3> QED
      BY <3>1 DEF Deltas
  <2>4. m.type # "field"
    BY <2>3 DEF Mutations
  <2>5. NoField(s) => \A x \in calls \cup s.answers : x.type # "field"
    <3> HIDE DEF m
    <3> QED
      BY <2>4 DEF NoField
  <2> HIDE DEF m, calls, tail, next
  <2>6. /\ t.view = s.view /\ t.creating = s.creating /\ t.adrift = s.adrift
        /\ t.overrun = s.overrun /\ t.recover = s.recover
        /\ t.dirty = s.dirty /\ t.wrote = s.wrote /\ t.calls = calls /\ t.answers = s.answers
    BY DEF Browsers
  <2> HIDE DEF t
  <2> QED
    BY <2>1, <2>5, <2>6 DEF SameCanvas, NoField
<1> QED
  BY <1>1, <1>2

LEMMA BroadcastCanvas ==
    ASSUME NEW s \in Browsers, NEW due \in SUBSET Card, Deltas(s)
    PROVE  /\ SameCanvas(BroadcastDeltas(s, due), s)
           /\ NoField(s) => NoField(BroadcastDeltas(s, due))
<1> DEFINE new == Queued(s, due)
           q == s.queue \o new
           f == [k \in Card |-> IF k \in due THEN s.generation ELSE s.inFlight[k]]
           t == [s EXCEPT !.queue = q, !.inFlight = f]
<1>1. BroadcastDeltas(s, due) = Drain(t)
  BY Zenon DEF BroadcastDeltas, Queued
<1>2. s.queue \in Seq(Mutations) /\ new \in Seq(Mutations)
      /\ \A n \in 1..Len(new) : \E k \in due : new[n] = Mutation(s, k)
  BY QueuedEffect DEF Browsers
<1>3. f \in [Card -> Nat]
  BY DEF Browsers
<1> HIDE DEF new, f
<1>4. q \in Seq(Mutations) /\ Of(q) = Of(s.queue) \cup Of(new)
  BY <1>2, OfConcat
<1>5. \A x \in Of(q) : x.type # "field"
  <2>1. \A x \in Of(new) : x.type # "field"
    <3>1. \A k \in due : Mutation(s, k).type # "field"
      BY DEF Mutation
    <3> QED
      BY <1>2, <3>1 DEF Of
  <2>2. \A x \in Of(s.queue) : x.type # "field"
    BY DEF Of, Deltas
  <2> QED
    BY <1>4, <2>1, <2>2
<1> HIDE DEF q
<1>6. t \in Browsers
  BY <1>3, <1>4 DEF Browsers
<1>7. SameCanvas(t, s) /\ t.queue = q /\ t.calls = s.calls /\ t.answers = s.answers
  BY DEF Browsers, SameCanvas
<1> HIDE DEF t
<1>8. Deltas(t)
  BY <1>5, <1>7 DEF Deltas, Of
<1>9. SameCanvas(Drain(t), t) /\ (NoField(t) => NoField(Drain(t)))
  BY <1>6, <1>8, DrainCanvas
<1> QED
  BY <1>1, <1>7, <1>9 DEF SameCanvas, NoField

-----------------------------------------------------------------------------
(* The steps of a browser.                                                   *)

\* A browser that takes its first snapshot of this process resumes nothing; else it
\* shows the snapshot, and what it kept back is newer.
LEMMA ApplySnapshotReader ==
    ASSUME NEW H \in Histories, NEW i \in Nat, NEW r \in Nat, NEW c \in Client,
           NEW s \in Browsers, WordInv(H, i, r, s), NEW Z, Reader(H, i, r, s, Z),
           s.applying # None, NEW t, t = ApplySnapshot(c, s, s.applying)
    PROVE  /\ Steady(i, r, t) /\ t.dirty = FALSE /\ t.wrote = s.wrote
           /\ Reads(H, i, r, Replaying(t), Of(s.queued) \cup Of(s.later) \cup Z)
<1> DEFINE e == s.applying
           since == IF e.instance = s.instance THEN e.revision ELSE 0
           told == [k \in Card |-> IF e.instance # s.instance \/ e.revision < s.told[k].revision
                                  THEN s.told[k]
                                  ELSE [value |-> e.payload[k], revision |-> e.revision]]
           a == AfterSnapshot(s, e)
           b == [a EXCEPT !.base = e.payload]
           known == {k \in Card : e.payload[k] # Absent}
           w == [a EXCEPT !.view = e.payload, !.adrift = {}, !.known = known]
           Y == Of(s.queued) \cup Of(s.later)
<1>1. /\ Waits(i, s) /\ Steady(i, r, s) /\ Earlier(i, Kept(s), Z)
      /\ Resumable(s, Kept(s) \cup Z)
  BY DEF Reader
<1>2. e \in Snapshots /\ TrueSnapshot(H, i, r, e)
  <2>1. e \in Snapshots
    BY DEF Browsers
  <2>2. e \in TrueEvents(H, i, r)
    BY DEF WordInv
  <2> QED
    BY <2>1, <2>2 DEF TrueEvents, Snapshots
<1>3. /\ e.type = "snapshot" /\ e.instance \in Nat /\ e.revision \in Nat /\ e.durable \in Nat
      /\ e.payload \in Cards
  BY <1>2 DEF Snapshots
<1>4. a = [s EXCEPT !.applying = None, !.recover = FALSE, !.resume = None, !.dirty = FALSE,
                    !.awaiting = FALSE, !.latest = e.revision, !.presence = e.revision,
                    !.gap = FALSE, !.since = since, !.told = told]
  BY DEF AfterSnapshot
<1>5. a \in Browsers
  BY <1>2, AfterSnapshotEffect
<1> HIDE DEF told
<1>6. since = IF e.instance = s.instance THEN e.revision ELSE 0
  OBVIOUS
<1>7. e \in Kept(s) /\ Y \subseteq Kept(s)
  BY DEF Kept
<1>8. Earlier(i, {e}, Of(s.queued)) /\ (~s.overrun => Earlier(i, {e}, Of(s.later)))
  BY <1>1 DEF Waits
<1> HIDE DEF e, since, Y, known
<1>9. /\ a.applying = None /\ a.recover = FALSE /\ ~a.dirty /\ a.awaiting = FALSE
      /\ a.latest = e.revision /\ a.gap = FALSE /\ a.since = since
      /\ a.instance = s.instance /\ a.view = s.view /\ a.overrun = s.overrun
      /\ a.creating = s.creating
      /\ a.wrote = s.wrote /\ a.active = s.active /\ a.queue = s.queue
      /\ a.calls = s.calls /\ a.answers = s.answers
  BY <1>4 DEF Browsers
<1> HIDE DEF a
<1>10. t = IF Resumes(c, s, e) THEN BroadcastDeltas(ResetTracking(b), Unsent(ResetTracking(b)))
           ELSE SeedBaselines(w)
  BY DEF ApplySnapshot, a, e, known
<1>11. t \in Browsers /\ SameWord(t, a)
  BY <1>2, ApplySnapshotEffect DEF a, e
<1>12. NoField(s)
  BY <1>1 DEF Steady, NoField
<1>13. CASE Resumes(c, s, e)
  <2>1. since = 0
    <3> SUFFICES ASSUME since # 0
                 PROVE  FALSE
      OBVIOUS
    <3>1. e.instance = s.instance /\ e.revision > 0 /\ e.revision <= e.durable
      BY <1>3, <1>6, <1>13 DEF Resumes
    <3>2. FromStored(e.instance, e.revision, e.durable, e.payload)
      BY <1>2 DEF TrueSnapshot
    <3>3. e.instance = 1 /\ e.revision = FirstRevision
      BY <1>3, <3>1, <3>2, BoundAssumption DEF FromStored
    <3>4. ~s.recover
      BY <1>1, <3>1, <3>3 DEF Steady
    <3>5. s.dirty
      BY <1>13, <3>4 DEF Resumes
    <3> QED
      BY <1>1, <1>3, <1>7, <3>3, <3>5 DEF Resumable
  <2> DEFINE f == [k \in Card |-> 0]
             g == a.generation + 1
             u == ResetTracking(b)
  <2>2. b \in Browsers /\ b.calls = a.calls /\ b.answers = a.answers /\ SameCanvas(b, a)
    BY <1>3, <1>5 DEF Browsers, SameCanvas
  <2>3. u \in Browsers
    BY <2>2, ResetEffect
  <2>4. u.calls = b.calls /\ u.answers = b.answers /\ SameCanvas(u, b) /\ u.queue = <<>>
    <3> DEFINE h == b.generation + 1
    <3>1. u = [b EXCEPT !.generation = h, !.inFlight = f, !.queue = <<>>, !.active = 0,
                        !.failed = {}]
      BY <2>2 DEF ResetTracking, Browsers
    <3> HIDE DEF f, h, u, b
    <3> QED
      BY <2>2, <3>1 DEF Browsers, SameCanvas
  <2> HIDE DEF u, b
  <2>5. Deltas(u) /\ Unsent(u) \in SUBSET Card
    BY <2>4 DEF Deltas, Unsent
  <2>6. SameCanvas(t, u) /\ (NoField(u) => NoField(t))
    BY <1>10, <1>13, <2>3, <2>5, BroadcastCanvas DEF u
  <2>7. /\ t.view = s.view /\ t.creating = s.creating
        /\ ~t.dirty /\ t.recover = FALSE /\ t.wrote = s.wrote
        /\ NoField(t) /\ t.since = 0 /\ t.applying = None
    BY <1>9, <1>11, <1>12, <2>1, <2>2, <2>4, <2>6 DEF SameCanvas, NoField, SameWord
  <2>8. Steady(i, r, t)
    BY <1>1, <2>7 DEF Steady, NoField
  <2>9. Replaying(t).since = 0
    BY <1>11, <2>7 DEF Replaying, Browsers
  <2>10. Reads(H, i, r, Replaying(t), Y \cup Z)
    BY <2>9 DEF Reads, Fit
  <2> QED
    BY <2>7, <2>8, <2>10 DEF Y
<1>14. CASE ~Resumes(c, s, e)
  <2>1. /\ t.view = e.payload /\ t.base = e.payload /\ ~t.dirty /\ t.recover = FALSE
        /\ t.wrote = s.wrote /\ t.active = s.active /\ t.queue = s.queue /\ t.calls = s.calls
        /\ t.answers = s.answers /\ t.overrun = s.overrun /\ t.creating = s.creating
    <3>1. t = SeedBaselines(w)
      BY <1>10, <1>14
    <3>2. t = [a EXCEPT !.view = e.payload, !.adrift = {}, !.known = known, !.base = e.payload]
      BY <1>5, <3>1 DEF SeedBaselines, Browsers
    <3> QED
      BY <1>5, <1>9, <3>2 DEF Browsers
  <2>2. /\ t.applying = None /\ t.latest = e.revision /\ t.since = since
        /\ t.instance = s.instance
    BY <1>9, <1>11 DEF SameWord
  <2>3. i = 1 /\ r = FirstRevision => e.payload = Stored
    <3>1. FromStored(e.instance, e.revision, e.durable, e.payload) /\ e.instance <= i
          /\ (e.instance = i => e.revision <= r)
      BY <1>2 DEF TrueSnapshot
    <3> QED
      BY <1>3, <3>1, BoundAssumption DEF FromStored
  <2>4. Idle(t)
    <3>1. Idle(s)
      BY <1>1 DEF Steady
    <3> QED
      BY <2>1, <3>1 DEF Idle
  <2>5. Steady(i, r, t)
    BY <1>1, <1>12, <2>1, <2>2, <2>3, <2>4 DEF Steady, NoField
  <2> DEFINE u == Replaying(t)
  <2>6. /\ u.instance = t.instance /\ u.since = t.since /\ u.overrun = t.overrun
        /\ u.latest = t.latest /\ u.view = t.view
    BY <1>11 DEF Browsers, Replaying
  <2> HIDE DEF u
  <2>7. Reads(H, i, r, u, Y \cup Z)
    <3> SUFFICES ASSUME Fit(i, u)
                 PROVE  /\ u.latest \in 0..r
                        /\ Shows(u, H[u.latest])
                        /\ \A z \in Y \cup Z : Changed(i, z) => z.revision > u.latest
      BY DEF Reads
    <3>1. e.instance = i /\ s.instance = i /\ ~s.overrun /\ u.latest = e.revision
          /\ u.view = e.payload
      BY <1>6, <2>1, <2>2, <2>6 DEF Fit
    <3>2. e.revision <= r /\ H[e.revision] = e.payload
      BY <1>2, <3>1 DEF TrueSnapshot
    <3>3. ASSUME NEW z \in Y \cup Z, Changed(i, z)
          PROVE  z.revision > e.revision
      <4>1. e.revision < z.revision
        BY <1>1, <1>3, <1>7, <1>8, <3>1, <3>3 DEF Earlier, Word, Y
      <4>2. z.revision \in Nat \/ z \in Z
        BY <1>7, KeptEvents, EventKinds
      <4> QED
        BY <4>1
    <3> QED
      BY <1>3, <3>1, <3>2, <3>3 DEF Shows
  <2> QED
    BY <2>1, <2>5, <2>7 DEF Y, u
<1> QED
  BY <1>13, <1>14

\* The state in which a snapshot could not be applied.
Failed(s) == [s EXCEPT !.gap = TRUE, !.awaiting = TRUE]

LEMMA SnapshotReader ==
    ASSUME NEW H \in Histories, NEW i \in Nat, NEW r \in Nat, NEW c \in Client,
           NEW s \in Browsers, WordInv(H, i, r, s), NEW Z, Reader(H, i, r, s, Z),
           \A z \in Z : Changed(i, z) => z.revision \in Nat,
           s.applying # None,
           NEW t, t \in {ApplySnapshot(c, s, s.applying), Failed(s)}
    PROVE  Reader(H, i, r, ReplayQueued(t), Z) /\ ReplayQueued(t).wrote = s.wrote
<1> DEFINE Y == Of(s.queued) \cup Of(s.later)
<1>1. Waits(i, s) /\ Steady(i, r, s) /\ Earlier(i, Kept(s), Z) /\ Resumable(s, Kept(s) \cup Z)
  BY DEF Reader
<1>2. Y \subseteq Kept(s)
  BY DEF Kept
<1>3. /\ t \in Browsers /\ WordInv(H, i, r, t) /\ t.queued = s.queued /\ t.later = s.later
      /\ Steady(i, r, t) /\ t.wrote = s.wrote /\ (~t.dirty \/ t.dirty = s.dirty)
      /\ Reads(H, i, r, Replaying(t), Y \cup Z)
  <2>1. CASE t = ApplySnapshot(c, s, s.applying)
    <3> DEFINE e == s.applying
               a == AfterSnapshot(s, e)
    <3>1. e \in Snapshots /\ TrueSnapshot(H, i, r, e)
      <4>1. e \in Snapshots
        BY DEF Browsers
      <4>2. e \in TrueEvents(H, i, r)
        BY DEF WordInv
      <4> QED
        BY <4>1, <4>2 DEF TrueEvents, Snapshots
    <3>2. a.me = s.me /\ a.queued = s.queued /\ a.later = s.later /\ WordInv(H, i, r, a)
      BY <3>1, AfterSnapshotEffect, AfterSnapshotWord DEF SameQueue
    <3>3. t \in Browsers /\ SameWord(t, a) /\ t.me = s.me
      BY <2>1, <3>1, ApplySnapshotEffect
    <3> HIDE DEF a
    <3>4. WordInv(H, i, r, t)
      BY <3>2, <3>3, SameWordInv
    <3>5. t.queued = s.queued /\ t.later = s.later
      BY <3>2, <3>3 DEF SameWord
    <3>6. /\ Steady(i, r, t) /\ t.dirty = FALSE /\ t.wrote = s.wrote
          /\ Reads(H, i, r, Replaying(t), Of(s.queued) \cup Of(s.later) \cup Z)
      <4> DEFINE u == ApplySnapshot(c, s, e)
      <4>1. /\ Steady(i, r, u) /\ u.dirty = FALSE /\ u.wrote = s.wrote
            /\ Reads(H, i, r, Replaying(u), Of(s.queued) \cup Of(s.later) \cup Z)
        BY ApplySnapshotReader
      <4> HIDE DEF u
      <4>2. t = u
        BY <2>1 DEF u
      <4> QED
        BY <4>1, <4>2
    <3> QED
      BY <3>3, <3>4, <3>5, <3>6
  <2>2. CASE t = Failed(s)
    <3>1. /\ t \in Browsers /\ t.gap /\ t.awaiting
          /\ t.me = s.me /\ t.instance = s.instance /\ t.told = s.told
          /\ t.applying = s.applying /\ t.queued = s.queued /\ t.later = s.later
          /\ t.answers = s.answers /\ t.calls = s.calls /\ t.since = s.since
          /\ t.view = s.view /\ t.base = s.base /\ t.recover = s.recover /\ t.dirty = s.dirty
          /\ t.creating = s.creating
          /\ t.active = s.active /\ t.queue = s.queue /\ t.wrote = s.wrote
      BY <2>2 DEF Failed, Browsers
    <3>2. WordInv(H, i, r, t)
      BY <3>1 DEF WordInv, ToldTrue, KnowsAll
    <3>3. Steady(i, r, t)
      BY <1>1, <3>1 DEF Steady, Idle
    <3>4. Replaying(t).gap
      BY <3>1 DEF Replaying, Browsers
    <3>5. Reads(H, i, r, Replaying(t), Y \cup Z)
      BY <3>4 DEF Reads, Fit
    <3> QED
      BY <3>1, <3>2, <3>3, <3>5
  <2> QED
    BY <2>1, <2>2
<1>4. Distinct(i, t.queued) /\ Distinct(i, t.later) /\ Apart(i, Of(t.later), Of(t.queued))
  BY <1>1, <1>3 DEF Waits
<1>5. Earlier(i, Y, Z) /\ Resumable(t, Y \cup Z)
  BY <1>1, <1>2, <1>3 DEF Earlier, Resumable
<1>6. Y = Of(t.queued) \cup Of(t.later)
  BY <1>3
<1> QED
  BY <1>3, <1>4, <1>5, <1>6, ReplayQueuedReader

\* A connection announced: what the stream brought before counts no more.
LEMMA InitReader ==
    ASSUME NEW H \in Histories, NEW i \in Nat, NEW r \in Nat, NEW c \in Client,
           NEW s \in Browsers, WordInv(H, i, r, s), NEW e \in NewInits(i),
           NEW Z, Reader(H, i, r, s, Z), NEW t, t = OnInit(c, s, e)
    PROVE  Reader(H, i, r, t, Z) /\ t.wrote = s.wrote
<1> DEFINE told == IF e.instance = s.instance THEN s.told ELSE NothingTold
           rec == c \in Owner /\ s.instance \notin {0, e.instance}
           gap == e.revision > e.durable
<1>1. t = [s EXCEPT !.me = e.conn, !.instance = e.instance, !.recover = rec,
                    !.latest = e.durable, !.gap = gap, !.awaiting = TRUE, !.told = told,
                    !.base = s.view]
  BY DEF OnInit, SeedBaselines, Browsers
<1>2. e.instance = i
  BY DEF NewInits
<1>3. rec => i > 1
  BY <1>2 DEF WordInv, Browsers
<1> HIDE DEF told, rec, gap
<1>4. /\ t.instance = i /\ t.recover = rec /\ t.awaiting = TRUE /\ t.base = s.view
      /\ t.view = s.view /\ t.since = s.since /\ t.dirty = s.dirty /\ t.wrote = s.wrote
      /\ t.creating = s.creating
      /\ t.applying = s.applying /\ t.queued = s.queued /\ t.later = s.later
      /\ t.overrun = s.overrun /\ t.active = s.active /\ t.queue = s.queue
      /\ t.calls = s.calls /\ t.answers = s.answers
  BY <1>1, <1>2 DEF Browsers
<1>5. Kept(t) = Kept(s)
  BY <1>4 DEF Kept
<1>6. Waits(i, t) /\ Steady(i, r, t) /\ Resumable(t, Kept(t) \cup Z) /\ Earlier(i, Kept(t), Z)
  <2>1. Waits(i, s) /\ Steady(i, r, s) /\ Resumable(s, Kept(s) \cup Z) /\ Earlier(i, Kept(s), Z)
    BY DEF Reader
  <2>2. Waits(i, t)
    BY <1>4, <2>1 DEF Waits
  <2>3. Steady(i, r, t)
    BY <1>3, <1>4, <2>1 DEF Steady, Idle
  <2> QED
    BY <1>4, <1>5, <2>1, <2>2, <2>3 DEF Resumable
<1>7. Reads(H, i, r, t, Z)
  BY <1>4 DEF Reads, Fit
<1> QED
  BY <1>4, <1>6, <1>7 DEF Reader

LEMMA AwayReader ==
    ASSUME NEW s \in Browsers, NEW t, t = [s EXCEPT !.me = 0]
    PROVE  SameReader(t, s) /\ t.wrote = s.wrote
BY DEF Browsers, SameReader, Idle

LEMMA ResubscribedReader ==
    ASSUME NEW H, NEW i \in Nat, NEW r \in Nat, NEW s \in Browsers, NEW Z, Reader(H, i, r, s, Z)
    PROVE  Reader(H, i, r, Resubscribed(s), {})
<1> DEFINE t == Resubscribed(s)
<1>1. /\ t.answers = s.answers /\ t.calls = s.calls /\ t.instance = s.instance /\ t.since = 0
      /\ t.applying = None /\ t.queued = <<>> /\ t.later = <<>>
  BY ResubscribedEffect
<1>2. /\ t.view = s.view /\ t.recover = FALSE /\ t.creating = s.creating
      /\ t.dirty => s.view # Stored
  <2> DEFINE g == s.generation + 1
             f == Fresh(s.view, g)
             dirty == Dirty(s)
  <2>1. /\ t.view = f.view /\ t.recover = f.recover /\ t.creating = s.creating
        /\ t.dirty = dirty
    BY DEF Resubscribed, Fresh
  <2>2. f.view = s.view /\ f.recover = FALSE
    BY DEF Fresh
  <2>3. dirty => s.view # Stored
    BY DEF Dirty
  <2> QED
    BY <2>1, <2>2, <2>3
<1> HIDE DEF t
<1>3. Distinct(i, <<>>) /\ Of(<<>>) = {}
  BY OfEmpty DEF Distinct
<1>4. Waits(i, t)
  BY <1>1, <1>3 DEF Waits, Apart
<1>5. Kept(t) = {}
  BY <1>1, <1>3 DEF Kept
<1>6. Steady(i, r, t)
  BY <1>1, <1>2 DEF Reader, Steady
<1>7. Reads(H, i, r, t, {})
  BY <1>1 DEF Reads, Fit
<1>8. Earlier(i, Kept(t), {}) /\ Resumable(t, Kept(t) \cup {})
  BY <1>5 DEF Earlier, Resumable
<1> QED
  BY <1>4, <1>6, <1>7, <1>8 DEF Reader, t

\* A reader that knows the canvas has nothing to send; before, it may.
LEMMA TickReader ==
    ASSUME NEW i, NEW r, NEW s \in Browsers, Steady(i, r, s), Deltas(s), s.applying = None,
           NEW early, Unsent(s) \ early # {},
           NEW t, t = BroadcastDeltas(s, Unsent(s) \ early)
    PROVE  SameReader(t, s) /\ t.wrote = s.wrote
<1> DEFINE due == Unsent(s) \ early
<1>1. due \in SUBSET Card
  BY DEF Unsent
<1>2. s.since = 0
  <2>1. s.base # s.view
    BY DEF Unsent
  <2> QED
    BY <2>1 DEF Steady, Browsers
<1> HIDE DEF due
<1>3. SameWord(t, s)
  BY <1>1, BroadcastEffect DEF due
<1>4. SameCanvas(t, s) /\ (NoField(s) => NoField(t))
  BY <1>1, BroadcastCanvas DEF due
<1> QED
  BY <1>2, <1>3, <1>4 DEF SameReader, SameWord, SameCanvas, NoField

\* A reader that knows the canvas awaits no answer of its generation; before, one
\* tells it nothing that it would rely on.
LEMMA AnswerReader ==
    ASSUME NEW i, NEW r, NEW s \in Browsers, Steady(i, r, s), QueueInv(s),
           NEW a \in s.answers, a.type # "field",
           NEW t, t = Finished(Learned(Heard(s, a), a), a)
    PROVE  SameReader(t, s) /\ t.wrote = s.wrote
<1> DEFINE h == Heard(s, a)
           l == Learned(h, a)
<1>0. t = Finished(l, a)
  OBVIOUS
<1>1. /\ a \in Answers /\ h \in Browsers /\ SameWord([h EXCEPT !.answers = s.answers], s)
      /\ h.answers = s.answers \ {a}
  BY HeardEffect
<1>2. /\ h.view = s.view /\ h.creating = s.creating /\ h.adrift = s.adrift
      /\ h.base = s.base /\ h.overrun = s.overrun /\ h.recover = s.recover
      /\ h.dirty = s.dirty /\ h.wrote = s.wrote /\ h.active = s.active /\ h.queue = s.queue
      /\ h.calls = s.calls /\ h.generation = s.generation /\ h.since = s.since
      /\ h.applying = s.applying /\ h.queued = s.queued /\ h.later = s.later
      /\ h.instance = s.instance /\ h.latest = s.latest /\ h.gap = s.gap
      /\ h.awaiting = s.awaiting
  BY DEF Heard, Browsers
<1> HIDE DEF h
<1>3. a \in Out(s) /\ 0 < a.generation /\ a.generation <= s.generation
      /\ (a.generation = s.generation => s.active # 0)
  BY DEF Out, QueueInv, QueueReady
<1>4. a.generation \in Nat /\ a.revision \in Nat /\ a.card \in Card /\ a.now \in Held /\ a.value \in Held
  BY <1>1 DEF Answers
<1>5. CASE Idle(s)
  <2>1. a.generation # s.generation /\ s.active # a.generation
    BY <1>3, <1>5 DEF Idle
  <2>2. l = h
    BY <1>2, <2>1 DEF Learned
  <2>3. t = Released(h, a)
    <3> HIDE DEF l
    <3> QED
      BY <1>0, <1>1, <1>2, <2>1, <2>2, FinishedEffect
  <2> DEFINE f == [h.inFlight EXCEPT ![a.card] = IF @ = a.generation THEN 0 ELSE @]
  <2>4. t = [h EXCEPT !.inFlight = f]
    BY <2>3 DEF Released
  <2> HIDE DEF f, l
  <2>5. SameReader(t, h) /\ t.wrote = h.wrote
    BY <1>1, <2>4 DEF Browsers, SameReader, Idle
  <2> QED
    BY <1>1, <1>2, <2>5 DEF SameReader, Idle
<1>6. CASE ~Idle(s)
  <2>1. s.since = 0 /\ s.applying = None
    BY <1>6 DEF Steady, Browsers
  <2>2. /\ l \in Browsers /\ l.since = 0 /\ l.applying = None /\ l.queued = h.queued
        /\ l.later = h.later /\ l.instance = h.instance /\ SameCanvas(l, h)
        /\ l.queue = h.queue /\ l.calls = h.calls /\ l.answers = h.answers
    <3>1. CASE a.generation # h.generation
      <4>1. l = h
        BY <3>1 DEF Learned
      <4> QED
        BY <1>1, <1>2, <2>1, <4>1 DEF SameCanvas
    <3>2. CASE a.generation = h.generation /\ ~a.ok
      <4>1. l = [h EXCEPT !.failed = h.failed \cup {a.card}]
        BY <1>1, <3>2 DEF Learned, Refused, Browsers
      <4> HIDE DEF l
      <4>2. l \in Browsers
        BY <1>1, <1>4, <4>1 DEF Browsers
      <4> QED
        BY <1>1, <1>2, <2>1, <4>1, <4>2, ZenonT(30) DEF SameCanvas, Browsers
    <3>3. CASE a.generation = h.generation /\ a.ok
      <4> DEFINE o == Observe(h, a.revision)
                 w == Told(o, a)
      <4>1. /\ o \in Browsers /\ o.since = h.since /\ o.applying = h.applying
            /\ o.queued = h.queued /\ o.later = h.later /\ o.instance = h.instance
            /\ o.queue = h.queue /\ o.calls = h.calls /\ o.answers = h.answers
            /\ SameCanvas(o, h)
        BY <1>1, <1>4, ZenonT(30) DEF Observe, Browsers, SameCanvas
      <4> HIDE DEF o
      <4>2. w \in Browsers
        BY <1>4, <4>1, ToldEffect
      <4>3. /\ w.since \in {o.since, 0} /\ w.applying = o.applying
            /\ w.queued = o.queued /\ w.later = o.later /\ w.instance = o.instance
            /\ w.queue = o.queue /\ w.calls = o.calls /\ w.answers = o.answers
            /\ SameCanvas(w, o)
        BY <1>4, <4>1 DEF Told, Browsers, SameCanvas
      <4> HIDE DEF w
      <4> DEFINE b == [w.base EXCEPT ![a.card] = a.value]
                 f == w.failed \ {a.card}
      <4>4. l = [w EXCEPT !.base = b, !.failed = f]
        BY <3>3, <4>2 DEF Learned, Accepted, w, o, Browsers
      <4>5. l \in Browsers
        BY <1>1, LearnedEffect
      <4> HIDE DEF b, f, l
      <4>6. /\ l.since = w.since /\ l.applying = w.applying
            /\ l.queued = w.queued /\ l.later = w.later /\ l.instance = w.instance
            /\ l.queue = w.queue /\ l.calls = w.calls /\ l.answers = w.answers
            /\ SameCanvas(l, w)
        BY <4>2, <4>4 DEF Browsers, SameCanvas
      <4> QED
        BY <1>2, <2>1, <4>1, <4>3, <4>5, <4>6 DEF SameCanvas
    <3> QED
      BY <3>1, <3>2, <3>3
  <2> HIDE DEF l
  <2>3. t \in Browsers /\ SameWord(t, l)
    BY <1>0, <1>1, <2>2, FinishedEffect
  <2> DEFINE f == [l.inFlight EXCEPT ![a.card] = IF @ = a.generation THEN 0 ELSE @]
             d == [l EXCEPT !.inFlight = f]
             e == [d EXCEPT !.active = 0]
  <2>4. d \in Browsers /\ d.queue = l.queue /\ d.calls = l.calls /\ d.answers = l.answers
        /\ SameCanvas(d, l)
    <3>1. d = Released(l, a)
      BY DEF Released
    <3>2. d \in Browsers
      <4> HIDE DEF d
      <4> QED
        BY <1>1, <2>2, <3>1, ReleasedEffect
    <3> HIDE DEF f
    <3> QED
      BY <2>2, <3>2 DEF Browsers, SameCanvas
  <2>5. t = IF l.active = a.generation THEN Drain(e) ELSE d
    BY <1>0, <1>1, <2>2, FinishedEffect DEF Released
  <2> HIDE DEF d
  <2>6. e \in Browsers /\ e.queue = d.queue /\ e.calls = d.calls /\ e.answers = d.answers
        /\ SameCanvas(e, d)
    BY <2>4 DEF Browsers, SameCanvas
  <2> HIDE DEF e
  <2>7. Deltas(e)
    BY <1>2, <2>2, <2>4, <2>6 DEF Deltas, QueueInv, QueueReady
  <2>8. SameCanvas(Drain(e), e) /\ (NoField(e) => NoField(Drain(e)))
    BY <2>6, <2>7, DrainCanvas
  <2>9. NoField(s) => NoField(d) /\ NoField(e)
    BY <1>1, <1>2, <2>2, <2>4, <2>6 DEF NoField
  <2>10. SameCanvas(t, s) /\ (NoField(s) => NoField(t))
    BY <1>2, <2>2, <2>4, <2>5, <2>6, <2>8, <2>9 DEF SameCanvas
  <2> QED
    BY <1>2, <2>1, <2>2, <2>3, <2>10 DEF SameReader, SameWord, SameCanvas, NoField
<1> QED
  BY <1>5, <1>6

\* A call of a reader, which is none to commit a field, is answered.
LEMMA RepliedReader ==
    ASSUME NEW s \in Browsers, NEW m \in s.calls, NEW a \in Answers, a.type = m.type,
           NEW t, t = Replied(s, m, a)
    PROVE  SameReader(t, s) /\ t.wrote = s.wrote
<1> DEFINE calls == s.calls \ {m}
           answers == s.answers \cup {a}
<1>1. t = [s EXCEPT !.calls = calls, !.answers = answers]
  BY DEF Replied, Browsers
<1>2. (\A x \in s.calls \cup s.answers : x.type # "field")
      => \A x \in calls \cup answers : x.type # "field"
  OBVIOUS
<1> HIDE DEF calls, answers
<1> QED
  BY <1>1, <1>2 DEF Browsers, SameReader, Idle

-----------------------------------------------------------------------------
(* The steps of the whole.                                                   *)

\* What is there of one client.
LEMMA ReaderType ==
    ASSUME TypeOK, NEW H, HistoryInv(H), ReadersInv(H), NEW c \in Client
    PROVE  /\ client[c] \in Browsers /\ instance \in Nat /\ revision \in Nat
           /\ WordInv(H, instance, revision, client[c])
           /\ stream[c] \in Seq(Events \cup Inits) /\ held[c] \in Seq(Changes)
           /\ syncing[c] \in Snapshots \cup {None}
           /\ stream[c] \in Seq(Way(H))
           /\ held[c] \in Seq(TrueEvents(H, instance, revision))
           /\ ReaderInv(H, instance, revision, conn[c], client[c], stream[c], held[c], syncing[c])
BY HistoryType DEF TypeOK, ReadersInv

\* The changes that are to come have numbers.
LEMMA ComingNumbered ==
    ASSUME NEW q \in Seq(Events \cup Inits), NEW h \in Seq(Changes), NEW y \in Snapshots \cup {None},
           NEW i, NEW z \in Coming(q, h, y), Changed(i, z)
    PROVE  z.revision \in Nat
<1>1. Of(q) \subseteq Events \cup Inits /\ Of(h) \subseteq Changes
  BY OfType
<1>2. z \in Events \cup Inits
  BY <1>1 DEF Coming, Events
<1>3. z \notin Inits
  BY DEF Changed, Kind, Inits
<1> QED
  BY <1>2, <1>3, EventKinds

\* A step of one client and its connection leaves the others readers.
LEMMA ReadersStep ==
    ASSUME NEW H, ReadersInv(H), NEW c \in Client, UNCHANGED <<instance, revision>>,
           \A d \in Client \ {c} : /\ client'[d] = client[d] /\ stream'[d] = stream[d]
                                   /\ held'[d] = held[d] /\ syncing'[d] = syncing[d]
                                   /\ conn'[d] = conn[d],
           ReaderInv(H, instance, revision, conn'[c], client'[c], stream'[c], held'[c], syncing'[c])
    PROVE  ReadersInv(H)'
<1> SUFFICES ASSUME NEW d \in Client
             PROVE  ReaderInv(H, instance', revision', conn'[d], client'[d], stream'[d],
                              held'[d], syncing'[d])
  BY DEF ReadersInv
<1>1. CASE d = c
  BY <1>1
<1>2. CASE d # c
  BY <1>2 DEF ReadersInv
<1> QED
  BY <1>1, <1>2

LEMMA ReadersAlone ==
    ASSUME TypeOK, NEW H, HistoryInv(H), ReadersInv(H), NEW c \in Client, NEW t, Becomes(c, t),
           UNCHANGED <<instance, revision, conn, held, syncing, stream>>,
           ~t.wrote => Reader(H, instance, revision, t, Coming(stream[c], held[c], syncing[c]))
    PROVE  ReadersInv(H)'
<1>1. client'[c] = t /\ \A d \in Client \ {c} : client'[d] = client[d]
  BY DEF Becomes, TypeOK
<1>2. ReaderInv(H, instance, revision, conn[c], client[c], stream[c], held[c], syncing[c])
  BY DEF ReadersInv
<1>3. ReaderInv(H, instance, revision, conn[c], t, stream[c], held[c], syncing[c])
  BY <1>2 DEF ReaderInv
<1> QED
  BY <1>1, <1>3, ReadersStep

LEMMA SameReaders ==
    ASSUME TypeOK, NEW H, HistoryInv(H), ReadersInv(H), NEW c \in Client, NEW t, Becomes(c, t),
           UNCHANGED <<instance, revision, conn, held, syncing, stream>>,
           ~t.wrote => ~client[c].wrote /\ SameReader(t, client[c])
    PROVE  ReadersInv(H)'
<1> DEFINE Z == Coming(stream[c], held[c], syncing[c])
<1>1. ReaderInv(H, instance, revision, conn[c], client[c], stream[c], held[c], syncing[c])
  BY DEF ReadersInv
<1>2. ~client[c].wrote => Reader(H, instance, revision, client[c], Z)
  BY <1>1 DEF ReaderInv
<1> HIDE DEF Z
<1>3. ~t.wrote => Reader(H, instance, revision, t, Z)
  BY <1>2, SameReaderKept
<1> QED
  BY <1>3, ReadersAlone DEF Z

\* What the server says makes nobody write.
LEMMA EventWrote ==
    ASSUME NEW s \in Browsers, NEW e \in Events
    PROVE  OnEvent(s, e).wrote = s.wrote
<1>1. CASE s.applying # None \/ e.type \in {"snapshot", "unavailable"}
  BY <1>1, OtherEffect
<1>2. CASE s.applying = None /\ e.type \notin {"snapshot", "unavailable"}
  <2>1. e \in Changes
    BY <1>2, EventKinds
  <2> QED
    BY <1>2, <2>1, ChangeEffect
<1> QED
  BY <1>1, <1>2

LEMMA ReplayWrote ==
    ASSUME NEW s \in Browsers
    PROVE  ReplayQueued(s).wrote = s.wrote
<1> DEFINE S == {t \in Browsers : t.wrote = s.wrote}
<1>1. s.queued \in Seq(Events) /\ s.later \in Seq(Events)
  BY DEF Browsers
<1>2. Replaying(s) \in S
  <2>1. <<>> \in Seq(Events)
    OBVIOUS
  <2> QED
    BY <2>1 DEF Browsers, Replaying
<1>3. \A t \in S : \A e \in Events : OnEvent(t, e) \in S
  BY EventEffect, EventWrote
<1>4. \A t \in S : t \in Browsers /\ t.wrote = s.wrote
  OBVIOUS
<1>5. Events \subseteq Events
  OBVIOUS
<1> HIDE DEF S
<1>6. \E t \in S : \E left \in Seq(Events) : \E over \in BOOLEAN :
          ReplayQueued(s) = Leaves(t, left, over)
  BY <1>1, <1>2, <1>3, <1>5, ReplayQueuedStays
<1>7. PICK t \in S, left \in Seq(Events), over \in BOOLEAN :
          ReplayQueued(s) = Leaves(t, left, over)
  BY <1>6
<1> QED
  BY <1>4, <1>7 DEF Leaves, Browsers

LEMMA ApplySnapshotWrote ==
    ASSUME NEW c \in Client, NEW s \in Browsers, NEW e \in Snapshots
    PROVE  ApplySnapshot(c, s, e).wrote = s.wrote
<1> DEFINE a == AfterSnapshot(s, e)
           b == [a EXCEPT !.base = e.payload]
           u == ResetTracking(b)
           known == {k \in Card : e.payload[k] # Absent}
           w == [a EXCEPT !.view = e.payload, !.adrift = {}, !.known = known]
<1>1. a \in Browsers /\ e.payload \in Cards
  BY AfterSnapshotEffect DEF Snapshots
<1>2. a.wrote = s.wrote
  BY DEF AfterSnapshot, Browsers
<1>3. ApplySnapshot(c, s, e) = IF Resumes(c, s, e) THEN BroadcastDeltas(u, Unsent(u))
                               ELSE SeedBaselines(w)
  BY DEF ApplySnapshot
<1> HIDE DEF a, known
<1>4. b \in Browsers /\ b.wrote = a.wrote
  BY <1>1 DEF Browsers
<1> HIDE DEF b
<1>5. u \in Browsers /\ u.queue = <<>> /\ u.wrote = b.wrote
  BY <1>4, ResetEffect DEF ResetTracking, Browsers
<1> HIDE DEF u
<1>6. Deltas(u) /\ Unsent(u) \in SUBSET Card
  BY <1>5 DEF Deltas, Unsent
<1>7. BroadcastDeltas(u, Unsent(u)).wrote = u.wrote
  BY <1>5, <1>6, BroadcastCanvas DEF SameCanvas
<1>8. SeedBaselines(w).wrote = a.wrote
  BY <1>1 DEF SeedBaselines, Browsers
<1> QED
  BY <1>2, <1>3, <1>4, <1>5, <1>7, <1>8

LEMMA ReceiveReads ==
    ASSUME TypeOK, NEW H \in Histories, HistoryInv(H), ReadersInv(H), NEW c \in Client, Receive(c)
    PROVE  ReadersInv(H)'
<1> DEFINE s == client[c]
           q == stream[c]
           h == held[c]
           y == syncing[c]
           e == Head(q)
           t == IF e.type = "init" THEN OnInit(c, s, e) ELSE OnEvent(s, e)
           rest == Tail(q)
           i == instance
<1>1. /\ s \in Browsers /\ i \in Nat /\ revision \in Nat /\ WordInv(H, i, revision, s)
      /\ q \in Seq(Events \cup Inits) /\ h \in Seq(Changes) /\ y \in Snapshots \cup {None}
      /\ q \in Seq(Way(H)) /\ ReaderInv(H, i, revision, conn[c], s, q, h, y)
  BY ReaderType
<1>2. q # <<>> /\ Becomes(c, t) /\ stream' = [stream EXCEPT ![c] = rest]
      /\ UNCHANGED <<serverVars, counters>>
  BY DEF Receive
<1>3. e \in Way(H) /\ rest \in Seq(Events \cup Inits)
  BY <1>1, <1>2
<1>4. stream'[c] = rest /\ client'[c] = t
      /\ \A d \in Client \ {c} : client'[d] = client[d] /\ stream'[d] = stream[d]
  BY <1>2 DEF Becomes, TypeOK
<1> HIDE DEF s, h, y
<1>5. Of(q) = {e} \cup Of(rest) /\ InOrder(i, rest) /\ Earlier(i, {e}, Of(rest))
  BY <1>1, <1>2, OfTail, OrderTail DEF ReaderInv, Order
<1> HIDE DEF q, e, rest
<1> DEFINE Z == Coming(rest, h, y)
<1>6. Coming(q, h, y) = Z \cup {e}
  BY <1>5 DEF Coming
<1>7. Earlier(i, Of(rest), Of(h)) /\ Earlier(i, {e}, Of(h)) /\ InOrder(i, h)
  BY <1>1, <1>5 DEF ReaderInv, Order, Earlier
<1>8. Earlier(i, {e}, Z)
  <2>1. \A z \in {y} \ {None} : ~Changed(i, z)
    BY <1>1 DEF Changed, Snapshots, Kind
  <2> QED
    BY <1>5, <1>7, <2>1 DEF Earlier, Coming
<1>9. \A z \in Z : Changed(i, z) => z.revision \in Nat
  BY <1>1, <1>3, ComingNumbered
<1> HIDE DEF Z, i
<1>10. CASE e.type = "init"
  <2>1. e \in NewInits(i)
    BY <1>3, <1>10, EventKinds DEF Way, TrueEvents, i
  <2>2. ASSUME ~t.wrote
        PROVE  Reader(H, i, revision, t, Z)
    <3> DEFINE o == OnInit(c, s, e)
    <3>1. t = o
      BY <1>10
    <3>2. ~s.wrote => Reader(H, i, revision, s, Z)
      BY <1>1, <1>6, LessToCome DEF ReaderInv
    <3>3. o.wrote = s.wrote
      BY <1>1 DEF OnInit, SeedBaselines, Browsers
    <3>4. ~s.wrote
      BY <2>2, <3>1, <3>3
    <3> QED
      BY <1>1, <2>1, <3>1, <3>2, <3>4, InitReader
  <2> HIDE DEF t
  <2>3. ReaderInv(H, i, revision, conn[c], t, rest, h, y)
    BY <1>1, <1>5, <1>6, <1>7, <2>2 DEF ReaderInv, Order, Z
  <2> QED
    BY <1>2, <1>4, <2>3, ReadersStep DEF serverVars, i, h, y
<1>11. CASE e.type # "init"
  <2>1. e \in TrueEvents(H, i, revision)
    BY <1>3, <1>11 DEF Way, NewInits, Inits, i
  <2>2. ASSUME ~t.wrote
        PROVE  Reader(H, i, revision, t, Z)
    <3> DEFINE o == OnEvent(s, e)
    <3>1. t = o
      BY <1>11
    <3>2. ~s.wrote => Reader(H, i, revision, s, Z \cup {e})
      BY <1>1, <1>6 DEF ReaderInv
    <3>3. o.wrote = s.wrote
      BY <1>1, <2>1, EventWrote DEF TrueEvents
    <3>4. ~s.wrote
      BY <2>2, <3>1, <3>3
    <3> QED
      BY <1>1, <1>8, <1>9, <2>1, <3>1, <3>2, <3>4, EventReader
  <2> HIDE DEF t
  <2>3. ReaderInv(H, i, revision, conn[c], t, rest, h, y)
    BY <1>1, <1>5, <1>6, <1>7, <2>2 DEF ReaderInv, Order, Z
  <2> QED
    BY <1>2, <1>4, <2>3, ReadersStep DEF serverVars, i, h, y
<1> QED
  BY <1>10, <1>11

LEMMA SnapshotStepReads ==
    ASSUME TypeOK, NEW H \in Histories, HistoryInv(H), ReadersInv(H), NEW c \in Client,
           FinishSnapshot(c) \/ FailSnapshot(c)
    PROVE  ReadersInv(H)'
<1> DEFINE s == client[c]
           q == stream[c]
           h == held[c]
           y == syncing[c]
           Z == Coming(q, h, y)
<1>1. /\ s \in Browsers /\ instance \in Nat /\ revision \in Nat /\ WordInv(H, instance, revision, s)
      /\ q \in Seq(Events \cup Inits) /\ h \in Seq(Changes) /\ y \in Snapshots \cup {None}
      /\ ReaderInv(H, instance, revision, conn[c], s, q, h, y)
  BY ReaderType
<1>2. s.applying # None /\ UNCHANGED <<instance, revision, conn, held, syncing, stream>>
  BY DEF FinishSnapshot, FailSnapshot, serverVars
<1>3. \E t \in {ApplySnapshot(c, s, s.applying), Failed(s)} : Becomes(c, ReplayQueued(t))
  BY DEF FinishSnapshot, FailSnapshot, Failed
<1>4. \A z \in Z : Changed(instance, z) => z.revision \in Nat
  BY <1>1, ComingNumbered
<1>5. ~s.wrote => Reader(H, instance, revision, s, Z)
  BY <1>1 DEF ReaderInv
<1> HIDE DEF s, Z
<1>6. PICK t \in {ApplySnapshot(c, s, s.applying), Failed(s)} : Becomes(c, ReplayQueued(t))
  BY <1>3
<1>7. t.wrote = s.wrote /\ ReplayQueued(t).wrote = t.wrote
  <2>1. t \in Browsers /\ t.wrote = s.wrote
    <3>1. CASE t = Failed(s)
      BY <1>1, <3>1 DEF Failed, Browsers
    <3>2. CASE t = ApplySnapshot(c, s, s.applying)
      <4>1. s.applying \in Snapshots
        BY <1>1, <1>2 DEF Browsers
      <4>2. ApplySnapshot(c, s, s.applying) \in Browsers
        BY <1>1, <4>1, ApplySnapshotEffect
      <4>3. ApplySnapshot(c, s, s.applying).wrote = s.wrote
        BY <1>1, <4>1, ApplySnapshotWrote
      <4> QED
        BY <3>2, <4>2, <4>3
    <3> QED
      BY <1>6, <3>1, <3>2
  <2> QED
    BY <2>1, ReplayWrote
<1>8. ~ReplayQueued(t).wrote => Reader(H, instance, revision, ReplayQueued(t), Z)
  BY <1>1, <1>2, <1>4, <1>5, <1>6, <1>7, SnapshotReader
<1> QED
  BY <1>2, <1>6, <1>8, ReadersAlone DEF s, Z

\* Nor does an answer make anybody write.
LEMMA LearnedWrote ==
    ASSUME NEW s \in Browsers, NEW a \in Answers
    PROVE  Told(Observe(s, a.revision), a).wrote = s.wrote /\ Learned(s, a).wrote = s.wrote
<1> DEFINE o == Observe(s, a.revision)
           w == Told(o, a)
<1>1. a.revision \in Nat /\ a.card \in Card /\ a.now \in Held /\ a.value \in Held
  BY DEF Answers
<1>2. o \in Browsers /\ o.wrote = s.wrote
  <2>1. o \in Browsers
    BY <1>1, ObserveEffect
  <2>2. o.wrote = s.wrote
    BY DEF Observe, Browsers
  <2> QED
    BY <2>1, <2>2
<1> HIDE DEF o
<1>3. w \in Browsers /\ w.wrote = o.wrote
  <2>1. w \in Browsers
    BY <1>1, <1>2, ToldEffect
  <2>2. w.wrote = o.wrote
    BY <1>2 DEF Told, Browsers
  <2> QED
    BY <2>1, <2>2
<1> HIDE DEF w
<1>4. Accepted(s, a).wrote = w.wrote /\ Refused(s, a).wrote = s.wrote
  BY <1>3 DEF Accepted, Refused, Browsers, w, o
<1> QED
  BY <1>2, <1>3, <1>4 DEF Learned, w, o

LEMMA DrainWrote ==
    ASSUME NEW s \in Browsers
    PROVE  Drain(s).wrote = s.wrote
BY DEF Drain, Browsers

LEMMA AnswerWrote ==
    ASSUME NEW s \in Browsers, NEW a \in s.answers
    PROVE  Finished(Learned(Heard(s, a), a), a).wrote = s.wrote
<1> DEFINE h == Heard(s, a)
           l == Learned(h, a)
           d == Released(l, a)
           e == [d EXCEPT !.active = 0]
<1>1. a \in Answers /\ h \in Browsers
  BY HeardEffect
<1>2. h.wrote = s.wrote
  BY DEF Heard, Browsers
<1> HIDE DEF h
<1>3. l \in Browsers /\ l.wrote = h.wrote
  BY <1>1, LearnedEffect, LearnedWrote
<1> HIDE DEF l
<1>4. d \in Browsers /\ d.wrote = l.wrote
  <2>1. d \in Browsers
    BY <1>1, <1>3, ReleasedEffect
  <2>2. d.wrote = l.wrote
    BY <1>3 DEF Released, Browsers
  <2> QED
    BY <2>1, <2>2
<1>5. Finished(l, a) = IF l.active = a.generation THEN Drain(e) ELSE d
  BY <1>1, <1>3, FinishedEffect
<1> HIDE DEF d
<1>6. e \in Browsers /\ e.wrote = d.wrote
  BY <1>4 DEF Browsers
<1> HIDE DEF e
<1>7. Drain(e).wrote = e.wrote
  BY <1>6, DrainWrote
<1>8. Finished(l, a).wrote = s.wrote
  BY <1>2, <1>3, <1>4, <1>5, <1>6, <1>7
<1> QED
  BY <1>8 DEF l, h

LEMMA CommittedWrote ==
    ASSUME NEW s \in Browsers, NEW a \in s.answers
    PROVE  Committed(Heard(s, a), a).wrote = s.wrote
<1> DEFINE h == Heard(s, a)
           t == IF Present(h, a.card) THEN [h EXCEPT !.view[a.card] = a.value] ELSE h
           w == Told(Observe(t, a.revision), a)
<1>1. a \in Answers /\ h \in Browsers
  BY HeardEffect
<1>2. h.wrote = s.wrote
  BY DEF Heard, Browsers
<1>3. Committed(h, a) = IF a.ok THEN SeedBaselines(w) ELSE h
  BY DEF Committed
<1> HIDE DEF h
<1>4. t \in Browsers /\ t.wrote = h.wrote
  BY <1>1, ZenonT(30) DEF Browsers, Cards, Held, Answers
<1> HIDE DEF t
<1>5. w.wrote = t.wrote
  BY <1>1, <1>4, LearnedWrote
<1>6. w \in Browsers
  <2>1. a.revision \in Nat /\ a.card \in Card /\ a.now \in Held
    BY <1>1 DEF Answers
  <2> QED
    BY <1>4, <2>1, ObserveEffect, ToldEffect
<1> HIDE DEF w
<1>7. SeedBaselines(w).wrote = w.wrote
  BY <1>6 DEF SeedBaselines, Browsers
<1> QED
  BY <1>2, <1>3, <1>4, <1>5, <1>7 DEF h

\* Who writes is no reader any more.
LEMMA WriterReads ==
    ASSUME TypeOK, NEW H, HistoryInv(H), ReadersInv(H), NEW c \in Client,
           (\E k \in Card, v \in Value \cup {Absent} : Edit(c, k, v))
           \/ (\E k \in Card, v \in Value : CommitField(c, k, v))
    PROVE  ReadersInv(H)'
<1> DEFINE s == client[c]
<1>1. s \in Browsers
  BY ClientType
<1>2. UNCHANGED <<instance, revision, conn, held, syncing, stream>>
  BY DEF Edit, CommitField, serverVars
<1>3. \E t : Becomes(c, t) /\ t.wrote
  <2>1. CASE \E k \in Card, v \in Value \cup {Absent} : Edit(c, k, v)
    <3>1. PICK k \in Card, v \in Value \cup {Absent} : Edit(c, k, v)
      BY <2>1
    <3> DEFINE t == Edited(s, k, v)
    <3>2. Becomes(c, t)
      BY <3>1 DEF Edit, Edited
    <3>3. t.wrote
      BY <1>1, EditedEffect
    <3> HIDE DEF t
    <3> QED
      BY <3>2, <3>3
  <2>2. CASE \E k \in Card, v \in Value : CommitField(c, k, v)
    <3>1. PICK k \in Card, v \in Value : CommitField(c, k, v)
      BY <2>2
    <3> DEFINE m == [type |-> "field", card |-> k, value |-> v, conn |-> s.me, sequence |-> 0,
                     generation |-> s.generation]
    <3>2. Becomes(c, [s EXCEPT !.wrote = TRUE, !.calls = @ \cup {m}])
      BY <3>1, Zenon DEF CommitField
    <3> HIDE DEF m
    <3> DEFINE t == [s EXCEPT !.wrote = TRUE, !.calls = @ \cup {m}]
    <3>3. t.wrote
      BY <1>1 DEF Browsers
    <3>4. Becomes(c, t)
      BY <3>2
    <3> HIDE DEF t
    <3> QED
      BY <3>3, <3>4
  <2> QED
    BY <2>1, <2>2
<1> QED
  BY <1>2, <1>3, ReadersAlone

\* A reader stays one when the fetch behind a creation ends: the card it shows then is
\* what it was told last, or adrift.
LEMMA FetchedReader ==
    ASSUME NEW H \in Histories, NEW i \in Nat, NEW r \in Nat, NEW s \in Browsers,
           WordInv(H, i, r, s), NEW e \in s.creating, NEW v \in Held,
           NEW Z, Reader(H, i, r, s, Z),
           NEW t, \/ t = Concluded(s, e, v) /\ v = s.view[e.card]
                  \/ t = Created(s, e, v) /\ v = e.value
    PROVE  Reader(H, i, r, t, Z)
<1> DEFINE adrift == IF LastTold(s, e.card, v) THEN s.adrift ELSE s.adrift \cup {e.card}
           view == [s.view EXCEPT ![e.card] = v]
<1>1. /\ Waits(i, s) /\ Earlier(i, Kept(s), Z) /\ Reads(H, i, r, s, Z) /\ Steady(i, r, s)
      /\ Resumable(s, Kept(s) \cup Z)
  BY DEF Reader
<1>2. e.card \in Card /\ s.view \in Cards /\ s.base \in Cards
  BY DEF Browsers, Changes
<1>3. /\ SameQueue(t, s) /\ SameWord(t, s)
      /\ t.creating = s.creating \ {e} /\ t.view = view /\ t.adrift = adrift
      /\ t.recover = s.recover /\ t.dirty = s.dirty /\ t.overrun = s.overrun
  <2>1. SameQueue(t, s) /\ SameWord(t, s) /\ Fetched(t, s, e, v)
    BY ConcludedEffect, CreatedEffect
  <2> QED
    BY <2>1 DEF Fetched
<1>4. s.base = s.view => t.base = t.view
  <2>1. CASE t = Concluded(s, e, v) /\ v = s.view[e.card]
    <3>1. Dropped(t, s)
      BY <2>1, ConcludedEffect
    <3>2. view = s.view
      BY <1>2, <2>1 DEF Cards
    <3> QED
      BY <1>3, <3>1, <3>2 DEF Dropped
  <2>2. CASE t = Created(s, e, v) /\ v = e.value
    <3>1. Seeded(t, s, e)
      BY <2>2, CreatedEffect
    <3> QED
      BY <1>3, <2>2, <3>1 DEF Seeded
  <2> QED
    BY <2>1, <2>2
<1>5. Kept(t) = Kept(s) /\ Waits(i, t) /\ Resumable(t, Kept(s) \cup Z)
  BY <1>1, <1>3 DEF Kept, Waits, Resumable, SameWord
<1>6. Steady(i, r, t)
  <2>1. ~(i = 1 /\ r = FirstRevision)
    BY <1>1 DEF Steady
  <2> QED
    BY <1>1, <1>3, <1>4, <2>1 DEF Steady, Idle, SameQueue, SameWord
<1>7. Reads(H, i, r, t, Z)
  <2> SUFFICES ASSUME Fit(i, t)
               PROVE  /\ t.latest \in 0..r
                      /\ Shows(t, H[t.latest])
                      /\ \A z \in Z : Changed(i, z) => z.revision > t.latest
    BY DEF Reads
  <2>1. Fit(i, s) /\ t.latest = s.latest
    BY <1>3 DEF Fit, SameWord
  <2>2. /\ s.latest \in 0..r /\ Shows(s, H[s.latest])
        /\ \A z \in Z : Changed(i, z) => z.revision > s.latest
    BY <1>1, <2>1 DEF Reads
  <2>3. \A k \in Card : s.told[k].revision <= s.latest => H[s.latest][k] = s.told[k].value
    <3>1. /\ s.latest \in 1..r
          /\ \A k \in Card : /\ s.told[k].revision > 0
                             /\ \A n \in s.told[k].revision..s.latest : H[n][k] = s.told[k].value
      BY <2>1 DEF Fit, WordInv, KnowsAll
    <3> SUFFICES ASSUME NEW k \in Card, s.told[k].revision <= s.latest
                 PROVE  H[s.latest][k] = s.told[k].value
      OBVIOUS
    <3>2. s.told[k].revision \in Nat /\ s.latest \in Nat
      BY DEF Browsers
    <3>3. s.latest \in s.told[k].revision..s.latest
      BY <3>2
    <3> QED
      BY <3>1, <3>3, Zenon
  <2>4. ASSUME NEW k \in Card, k \notin Loose(t)
        PROVE  t.view[k] = H[s.latest][k]
    <3>1. CASE k = e.card
      <4>1. v = s.told[k].value /\ s.told[k].revision <= s.latest
        BY <1>3, <2>4, <3>1 DEF Loose, LastTold
      <4>2. t.view[k] = v
        BY <1>2, <1>3, <3>1 DEF Cards
      <4> QED
        BY <2>3, <4>1, <4>2
    <3>2. CASE k # e.card
      <4>1. k \notin Loose(s)
        BY <1>3, <2>4, <3>2 DEF Loose
      <4>2. t.view[k] = s.view[k]
        BY <1>2, <1>3, <3>2 DEF Cards
      <4> QED
        BY <2>2, <4>1, <4>2 DEF Shows
    <3> QED
      BY <3>1, <3>2
  <2> QED
    BY <2>1, <2>2, <2>4 DEF Shows
<1> QED
  BY <1>1, <1>5, <1>6, <1>7 DEF Reader

LEMMA FetchReads ==
    ASSUME TypeOK, NEW H \in Histories, HistoryInv(H), ReadersInv(H), NEW c \in Client,
           NEW e \in client[c].creating,
           FetchFail(c, e) \/ \E v \in Value \cup {Absent} : FetchDone(c, e, v)
    PROVE  ReadersInv(H)'
<1> DEFINE s == client[c]
           Z == Coming(stream[c], held[c], syncing[c])
<1>1. /\ s \in Browsers /\ instance \in Nat /\ revision \in Nat
      /\ WordInv(H, instance, revision, s)
      /\ ReaderInv(H, instance, revision, conn[c], s, stream[c], held[c], syncing[c])
  BY ReaderType
<1>2. UNCHANGED <<instance, revision, conn, held, syncing, stream>>
  BY DEF FetchFail, FetchDone, serverVars
<1>3. e \in Changes /\ e.card \in Card
  BY <1>1 DEF Browsers, Changes
<1>4. ~s.wrote => Reader(H, instance, revision, s, Z)
  BY <1>1 DEF ReaderInv
<1> HIDE DEF Z
<1>5. CASE FetchFail(c, e)
  <2> DEFINE v == s.view[e.card]
             t == Concluded(s, e, v)
  <2>1. v \in Held
    BY <1>1, <1>3 DEF Browsers, Cards, Held
  <2>2. Becomes(c, t)
    BY <1>5 DEF FetchFail
  <2>3. Dropped(t, s)
    BY <1>1, <2>1, ConcludedEffect
  <2>4. ~s.wrote => Reader(H, instance, revision, t, Z)
    BY <1>1, <1>4, <2>1, FetchedReader
  <2> HIDE DEF t
  <2>5. ~t.wrote => Reader(H, instance, revision, t, Z)
    BY <2>3, <2>4 DEF Dropped
  <2> QED
    BY <1>2, <2>2, <2>5, ReadersAlone DEF Z
<1>6. CASE \E v \in Value \cup {Absent} : FetchDone(c, e, v)
  <2>1. PICK v \in Value \cup {Absent} : FetchDone(c, e, v)
    BY <1>6
  <2> DEFINE t == Created(s, e, v)
  <2>2. v \in Held /\ Becomes(c, t) /\ (v = e.value \/ Present(s, e.card))
    BY <2>1 DEF FetchDone, Held
  <2>3. Seeded(t, s, e)
    BY <1>1, <2>2, CreatedEffect
  <2>4. ASSUME ~t.wrote
        PROVE  Reader(H, instance, revision, t, Z)
    <3>1. ~s.wrote /\ v = e.value
      BY <2>2, <2>3, <2>4 DEF Seeded
    <3> QED
      BY <1>1, <1>4, <2>2, <3>1, FetchedReader
  <2> HIDE DEF t
  <2> QED
    BY <1>2, <2>2, <2>4, ReadersAlone DEF Z
<1> QED
  BY <1>5, <1>6

LEMMA TickReads ==
    ASSUME TypeOK, CallsInv, NEW H, HistoryInv(H), ReadersInv(H), NEW c \in Client,
           NEW early \in SUBSET Card, Tick(c, early)
    PROVE  ReadersInv(H)'
<1> DEFINE s == client[c]
           t == BroadcastDeltas(s, Unsent(s) \ early)
<1>1. s \in Browsers /\ QueueInv(s)
  BY ClientInv DEF BrowserInv
<1>2. /\ Becomes(c, t) /\ s.applying = None /\ Unsent(s) \ early # {}
      /\ UNCHANGED <<instance, revision, conn, held, syncing, stream>>
  BY DEF Tick, CanPublish, serverVars
<1>3. ReaderInv(H, instance, revision, conn[c], s, stream[c], held[c], syncing[c])
  BY DEF ReadersInv
<1>4. ~s.wrote => Steady(instance, revision, s)
  BY <1>3 DEF ReaderInv, Reader
<1> HIDE DEF s
<1>5. Deltas(s)
  BY <1>1 DEF QueueInv, QueueReady, Deltas
<1>6. t.wrote = s.wrote
  <2>1. Unsent(s) \ early \in SUBSET Card
    BY DEF Unsent
  <2> QED
    BY <1>1, <1>5, <2>1, BroadcastCanvas DEF SameCanvas
<1>7. ~s.wrote => SameReader(t, s)
  BY <1>1, <1>2, <1>4, <1>5, TickReader
<1> HIDE DEF t
<1> QED
  BY <1>2, <1>6, <1>7, SameReaders DEF s

LEMMA AnswerReads ==
    ASSUME TypeOK, CallsInv, NEW H, HistoryInv(H), ReadersInv(H), NEW c \in Client,
           NEW a \in client[c].answers, Answer(c, a) \/ AnswerField(c, a)
    PROVE  ReadersInv(H)'
<1> DEFINE s == client[c]
           t == Finished(Learned(Heard(s, a), a), a)
           u == Committed(Heard(s, a), a)
<1>1. s \in Browsers /\ QueueInv(s)
  BY ClientInv DEF BrowserInv
<1>2. /\ \/ a.type # "field" /\ Becomes(c, t)
         \/ a.type = "field" /\ Becomes(c, u)
      /\ UNCHANGED <<instance, revision, conn, held, syncing, stream>>
  BY DEF Answer, AnswerField, Heard, Learned, Committed, serverVars
<1>3. ReaderInv(H, instance, revision, conn[c], s, stream[c], held[c], syncing[c])
  BY DEF ReadersInv
<1>4. ~s.wrote => Steady(instance, revision, s)
  BY <1>3 DEF ReaderInv, Reader
<1> HIDE DEF s
<1>5. a \in s.answers
  BY DEF s
<1>6. t.wrote = s.wrote /\ u.wrote = s.wrote
  BY <1>1, <1>5, AnswerWrote, CommittedWrote
<1>7. a.type # "field" /\ ~s.wrote => SameReader(t, s)
  BY <1>1, <1>4, <1>5, AnswerReader
<1>8. a.type = "field" => s.wrote
  BY <1>4, <1>5 DEF Steady
<1> HIDE DEF t, u
<1> QED
  BY <1>2, <1>6, <1>7, <1>8, SameReaders DEF s

LEMMA LoseCallReads ==
    ASSUME TypeOK, NEW H, HistoryInv(H), ReadersInv(H), NEW c \in Client,
           NEW m \in client[c].calls, LoseCall(c, m)
    PROVE  ReadersInv(H)'
<1> DEFINE s == client[c]
           a == AnswerTo(m, FALSE, 0)
           t == Replied(s, m, a)
<1>1. s \in Browsers
  BY ClientType
<1>2. Reply(c, m, FALSE, 0) /\ UNCHANGED <<instance, revision, conn, held, syncing, stream>>
  BY DEF LoseCall, serverVars
<1>3. Becomes(c, t) /\ a \in Answers
  BY <1>2, ReplyEffect
<1>4. a.type = m.type
  BY DEF AnswerTo
<1> HIDE DEF a
<1>5. SameReader(t, s) /\ t.wrote = s.wrote
  BY <1>1, <1>3, <1>4, RepliedReader
<1> HIDE DEF t
<1> QED
  BY <1>2, <1>3, <1>5, SameReaders

-----------------------------------------------------------------------------
(* The steps of the server.                                                  *)

\* A snapshot of the payload contains all that was announced of it.
LEMMA SnapshotToCome ==
    ASSUME TypeOK, NEW H, NEW s, NEW Z, Reader(H, instance, revision, s, Z)
    PROVE  /\ Reader(H, instance, revision, s, Z \cup {Snapshot})
           /\ Snapshot # None /\ Snapshot.type \notin Kind
<1> DEFINE e == Snapshot
<1>1. e.type = "snapshot" /\ e.instance = instance /\ e.revision = revision
  BY DEF Snapshot
<1>2. e \in Snapshots
  BY SnapshotType
<1> HIDE DEF e
<1>3. e.type \notin Kind
  BY <1>1 DEF Kind
<1>4. s.dirty /\ e.type = "snapshot" /\ e.instance = 1 => e.revision # FirstRevision
  BY <1>1 DEF Reader, Steady
<1>5. Reader(H, instance, revision, s, Z \cup {e})
  BY <1>3, <1>4, MoreToCome
<1> QED
  BY <1>2, <1>3, <1>5, NoneAssumption DEF e

LEMMA RefreshReads ==
    ASSUME TypeOK, NEW H, HistoryInv(H), ReadersInv(H), NEW c \in Client, Refresh(c)
    PROVE  ReadersInv(H)'
<1> DEFINE s == client[c]
           q == stream[c]
           h == held[c]
           Z == Coming(q, h, None)
<1>1. /\ conn[c] # 0 /\ syncing[c] = None /\ syncing' = [syncing EXCEPT ![c] = Snapshot]
      /\ UNCHANGED <<instance, revision, conn, held, stream, client>>
  BY DEF Refresh
<1>2. syncing'[c] = Snapshot /\ \A d \in Client \ {c} : syncing'[d] = syncing[d]
  BY <1>1 DEF TypeOK
<1>3. ReaderInv(H, instance, revision, conn[c], s, q, h, None)
  BY <1>1 DEF ReadersInv
<1> HIDE DEF s, q, h
<1>4. Coming(q, h, Snapshot) \subseteq Z \cup {Snapshot}
  BY DEF Coming
<1>5. ASSUME ~s.wrote
      PROVE  Reader(H, instance, revision, s, Coming(q, h, Snapshot))
  <2>1. Reader(H, instance, revision, s, Z)
    BY <1>3, <1>5 DEF ReaderInv
  <2>2. Reader(H, instance, revision, s, Z \cup {Snapshot})
    BY <2>1, SnapshotToCome
  <2> QED
    BY <1>4, <2>2, LessToCome
<1>6. ReaderInv(H, instance, revision, conn[c], s, q, h, Snapshot)
  BY <1>1, <1>3, <1>5 DEF ReaderInv
<1> QED
  BY <1>1, <1>2, <1>6, ReadersStep DEF s, q, h

\* When a snapshot goes out, what follows it is newer.
LEMMA DeliverReads ==
    ASSUME TypeOK, NEW H, HistoryInv(H), ReadersInv(H), NEW c \in Client,
           DeliverSnapshot(c) \/ DeliverUnavailable(c)
    PROVE  ReadersInv(H)'
<1> DEFINE s == client[c]
           q == stream[c]
           h == held[c]
           y == syncing[c]
           i == instance
           Z == Coming(q, h, y)
<1>1. /\ y # None
      /\ syncing' = [syncing EXCEPT ![c] = None] /\ held' = [held EXCEPT ![c] = <<>>]
      /\ UNCHANGED <<instance, revision, conn, client>>
  BY DEF DeliverSnapshot, DeliverUnavailable
<1>2. /\ s \in Browsers /\ q \in Seq(Events \cup Inits) /\ h \in Seq(Changes)
      /\ y \in Snapshots
      /\ ReaderInv(H, i, revision, conn[c], s, q, h, y)
  BY <1>1, ReaderType
<1>3. InOrder(i, q) /\ InOrder(i, h) /\ Earlier(i, Of(q), Of(h))
  BY <1>2 DEF ReaderInv, Order
<1>4. y \in Z /\ Of(q) \subseteq Z /\ Of(h) \subseteq Z
  BY <1>1 DEF Coming
<1>5. /\ syncing'[c] = None /\ held'[c] = <<>>
      /\ \A d \in Client \ {c} : syncing'[d] = syncing[d] /\ held'[d] = held[d]
  BY <1>1 DEF TypeOK
<1>6. ~s.wrote => Reader(H, i, revision, s, Z)
  BY <1>2 DEF ReaderInv
<1> HIDE DEF Z
<1>7. \E p : /\ stream' = [stream EXCEPT ![c] = p] /\ InOrder(i, p)
             /\ ~s.wrote => Reader(H, i, revision, s, Of(p))
  <2>1. CASE DeliverSnapshot(c)
    <3> DEFINE e == [y EXCEPT !.durable = durableRevision]
               n == Newer(h, y.revision)
               S == Events \cup Inits \cup {e}
               p == Append(q, e)
    <3>1. /\ e.type = "snapshot" /\ e.revision = y.revision /\ e.instance = y.instance
          /\ y.type = "snapshot"
      BY <1>2 DEF Snapshots
    <3>2. stream' = [stream EXCEPT ![c] = Append(q, e) \o n]
      BY <2>1 DEF DeliverSnapshot
    <3> HIDE DEF e, s, q, h, y, i
    <3>3. e.type \notin Kind
      BY <3>1 DEF Kind
    <3>4. q \in Seq(S) /\ p \in Seq(S)
      <4>1. Events \cup Inits \subseteq S /\ e \in S
        OBVIOUS
      <4> HIDE DEF S
      <4> QED
        BY <1>2, <4>1
    <3>5. Of(p) = Of(q) \cup {e}
      BY <1>2, OfAppend
    <3>6. InOrder(i, p)
      <4>1. Earlier(i, Of(q), {e})
        BY <3>3 DEF Earlier, Changed
      <4> QED
        BY <1>2, <1>3, <4>1, OrderAppend
    <3>7. /\ n \in Seq(Changes) /\ InOrder(i, n)
          /\ \A x \in Of(n) : x \in Of(h) /\ x.revision > y.revision
      BY <1>2, <1>3, NewerOrder
    <3>8. Earlier(i, Of(p), Of(n))
      <4>1. Of(n) \subseteq Changes /\ e.revision \in Nat
        BY <1>2, <3>1, <3>7, OfType DEF Snapshots
      <4>2. \A x \in Of(n) : x.revision \in Nat
        BY <4>1 DEF Changes
      <4>3. \A x \in Of(n) : e.revision < x.revision
        BY <3>1, <3>7, <4>1, <4>2
      <4> QED
        BY <1>3, <3>5, <3>7, <4>3 DEF Earlier
    <3>9. n \in Seq(S)
      <4>1. Changes \subseteq S
        BY DEF Events
      <4> HIDE DEF S, n
      <4> QED
        BY <3>7, <4>1
    <3> HIDE DEF p, n, S
    <3>10. InOrder(i, p \o n) /\ Of(p \o n) = Of(p) \cup Of(n)
      BY <3>4, <3>6, <3>7, <3>8, <3>9, OrderConcat, OfConcat
    <3>11. Of(p \o n) \subseteq Z \cup {e}
      BY <1>4, <3>5, <3>7, <3>10
    <3>12. ASSUME ~s.wrote
           PROVE  Reader(H, i, revision, s, Of(p \o n))
      <4>1. s.dirty /\ e.type = "snapshot" /\ e.instance = 1 => e.revision # FirstRevision
        BY <1>4, <1>6, <3>1, <3>12 DEF Reader, Resumable
      <4>2. Reader(H, i, revision, s, Z \cup {e})
        BY <1>6, <3>3, <3>12, <4>1, MoreToCome
      <4> QED
        BY <3>11, <4>2, LessToCome
    <3>13. stream' = [stream EXCEPT ![c] = p \o n]
      BY <3>2 DEF p
    <3> QED
      BY <3>10, <3>12, <3>13
  <2>2. CASE DeliverUnavailable(c)
    <3> DEFINE e == [type |-> "unavailable", revision |-> y.revision]
               p == Append(q, e)
    <3>1. e.type = "unavailable" /\ e.type \notin Kind /\ e.type # "snapshot"
      BY DEF Kind
    <3>2. stream' = [stream EXCEPT ![c] = p]
      BY <2>2 DEF DeliverUnavailable
    <3> HIDE DEF e, s, q, h, y, i
    <3>3. Of(p) = Of(q) \cup {e}
      BY <1>2, OfAppend
    <3>4. InOrder(i, p)
      <4>1. Earlier(i, Of(q), {e})
        BY <3>1 DEF Earlier, Changed
      <4> QED
        BY <1>2, <1>3, <4>1, OrderAppend
    <3> HIDE DEF p
    <3>5. Of(p) \subseteq Z \cup {e}
      BY <1>4, <3>3
    <3>6. ASSUME ~s.wrote
          PROVE  Reader(H, i, revision, s, Of(p))
      <4>1. Reader(H, i, revision, s, Z \cup {e})
        BY <1>6, <3>1, <3>6, MoreToCome
      <4> QED
        BY <3>5, <4>1, LessToCome
    <3> QED
      BY <3>2, <3>4, <3>6
  <2> QED
    BY <2>1, <2>2
<1>8. PICK p : /\ stream' = [stream EXCEPT ![c] = p] /\ InOrder(i, p)
               /\ ~s.wrote => Reader(H, i, revision, s, Of(p))
  BY <1>7
<1>9. stream'[c] = p /\ \A d \in Client \ {c} : stream'[d] = stream[d]
  BY <1>8 DEF TypeOK
<1>10. ReaderInv(H, i, revision, conn[c], s, p, <<>>, None)
  <2>1. Coming(p, <<>>, None) = Of(p)
    BY OfEmpty DEF Coming
  <2>2. Order(i, p, <<>>)
    <3>1. InOrder(i, <<>>)
      BY OrderOne
    <3> QED
      BY <1>8, <3>1, OfEmpty DEF Order, Earlier
  <2> QED
    BY <1>8, <2>1, <2>2 DEF ReaderInv
<1> QED
  BY <1>1, <1>5, <1>9, <1>10, ReadersStep DEF s, i

\* A subscription starts with the connection and a snapshot.
LEMMA SubscribeReads ==
    ASSUME TypeOK, NEW H, HistoryInv(H), ReadersInv(H), NEW c \in Client, Subscribe(c)
    PROVE  ReadersInv(H)'
<1> DEFINE s == client[c]
           i == instance
           e == Snapshot
           init == [type |-> "init", conn |-> conns + 1, instance |-> instance,
                    revision |-> revision, durable |-> durableRevision]
           q == IF c \in Owner THEN <<init, e>> ELSE <<init>>
           y == IF c \in Owner THEN None ELSE e
           n == conns + 1
           Z == Coming(stream[c], held[c], syncing[c])
<1>1. /\ stream' = [stream EXCEPT ![c] = q] /\ syncing' = [syncing EXCEPT ![c] = y]
      /\ conn' = [conn EXCEPT ![c] = n] /\ conn[c] = 0
      /\ UNCHANGED <<instance, revision, held, client>>
  BY Zenon DEF Subscribe
<1>2. ReaderInv(H, i, revision, conn[c], s, stream[c], held[c], syncing[c])
  BY DEF ReadersInv
<1>3. held[c] = <<>>
  BY <1>1, <1>2 DEF ReaderInv
<1>4. init.type \notin Kind /\ init.type # "snapshot" /\ n # 0
  BY DEF Kind, TypeOK
<1>5. e.type \notin Kind
  BY DEF Snapshot, Kind
<1>6. ~s.wrote => Reader(H, i, revision, s, Z)
  BY <1>2 DEF ReaderInv
<1>7. /\ stream'[c] = q /\ syncing'[c] = y /\ conn'[c] = n
      /\ \A d \in Client \ {c} : stream'[d] = stream[d] /\ syncing'[d] = syncing[d]
                                 /\ conn'[d] = conn[d]
  BY <1>1 DEF TypeOK
<1> HIDE DEF init, e, n, Z
<1>8. /\ \A m \in 1..Len(q) : q[m] \in {init, e}
      /\ Of(q) \cup ({y} \ {None}) \subseteq {init} \cup {e}
  <2>1. CASE c \in Owner
    <3>1. q = <<init, e>> /\ y = None
      BY <2>1
    <3> HIDE DEF q
    <3> QED
      BY <3>1 DEF Of
  <2>2. CASE c \notin Owner
    <3>1. q = <<init>> /\ y = e
      BY <2>2
    <3> HIDE DEF q
    <3> QED
      BY <3>1 DEF Of
  <2> QED
    BY <2>1, <2>2
<1> HIDE DEF q, y
<1>9. Order(i, q, <<>>)
  <2>1. InOrder(i, <<>>)
    BY OrderOne
  <2>2. InOrder(i, q)
    BY <1>4, <1>5, <1>8 DEF InOrder, Changed
  <2> QED
    BY <2>1, <2>2, OfEmpty DEF Order, Earlier
<1>10. ASSUME ~s.wrote
       PROVE  Reader(H, i, revision, s, Coming(q, <<>>, y))
  <2>1. Reader(H, i, revision, s, {})
    BY <1>6, <1>10, LessToCome
  <2>2. Reader(H, i, revision, s, {} \cup {init})
    BY <1>4, <2>1, MoreToCome
  <2>3. Reader(H, i, revision, s, {init})
    BY <2>2
  <2>4. Reader(H, i, revision, s, {init} \cup {e})
    BY <2>3, SnapshotToCome DEF e
  <2>5. Coming(q, <<>>, y) \subseteq {init} \cup {e}
    BY <1>8, OfEmpty DEF Coming
  <2> QED
    BY <2>4, <2>5, LessToCome
<1>11. ReaderInv(H, i, revision, n, s, q, <<>>, y)
  BY <1>4, <1>9, <1>10 DEF ReaderInv
<1> QED
  BY <1>1, <1>3, <1>7, <1>11, ReadersStep DEF s, i

\* Nothing is to come where a connection ended.
LEMMA NothingToCome ==
    ASSUME NEW H, NEW i, NEW r, NEW s, ~s.wrote => Reader(H, i, r, s, {})
    PROVE  ReaderInv(H, i, r, 0, s, <<>>, <<>>, None)
<1>1. Coming(<<>>, <<>>, None) = {}
  BY OfEmpty DEF Coming
<1>2. Order(i, <<>>, <<>>)
  <2>1. InOrder(i, <<>>)
    BY OrderOne
  <2> QED
    BY <2>1, OfEmpty DEF Order, Earlier
<1> QED
  BY <1>1, <1>2 DEF ReaderInv

LEMMA LeaveReads ==
    ASSUME TypeOK, NEW H, HistoryInv(H), ReadersInv(H), NEW c \in Client, Drop(c) \/ Resubscribe(c)
    PROVE  ReadersInv(H)'
<1> DEFINE s == client[c]
           Z == Coming(stream[c], held[c], syncing[c])
<1>1. Ended({c}) /\ UNCHANGED <<instance, revision>>
  BY DEF Drop, Resubscribe
<1>2. /\ stream'[c] = <<>> /\ held'[c] = <<>> /\ syncing'[c] = None /\ conn'[c] = 0
      /\ \A d \in Client \ {c} : /\ stream'[d] = stream[d] /\ held'[d] = held[d]
                                 /\ syncing'[d] = syncing[d] /\ conn'[d] = conn[d]
  BY <1>1 DEF Ended
<1>3. /\ s \in Browsers /\ instance \in Nat /\ revision \in Nat
      /\ ReaderInv(H, instance, revision, conn[c], s, stream[c], held[c], syncing[c])
  BY ReaderType
<1>4. ~s.wrote => Reader(H, instance, revision, s, Z)
  BY <1>3 DEF ReaderInv
<1> HIDE DEF Z, s
<1>5. ~s.wrote => Reader(H, instance, revision, s, {})
  BY <1>4, LessToCome
<1>6. \E t : Becomes(c, t) /\ (~t.wrote => Reader(H, instance, revision, t, {}))
  <2>1. CASE Drop(c)
    <3> DEFINE t == [s EXCEPT !.me = 0]
    <3>1. Becomes(c, t)
      BY <2>1 DEF Drop, s
    <3>2. SameReader(t, s) /\ t.wrote = s.wrote
      BY <1>3, AwayReader
    <3> HIDE DEF t
    <3> QED
      BY <1>5, <3>1, <3>2, SameReaderKept
  <2>2. CASE Resubscribe(c)
    <3> DEFINE t == Resubscribed(s)
    <3>1. Becomes(c, t)
      BY <2>2 DEF Resubscribe, Resubscribed, s
    <3>2. t.wrote = s.wrote
      BY DEF Resubscribed, Fresh
    <3>3. ~s.wrote => Reader(H, instance, revision, t, {})
      BY <1>3, <1>5, ResubscribedReader
    <3> HIDE DEF t
    <3> QED
      BY <3>1, <3>2, <3>3
  <2> QED
    BY <2>1, <2>2
<1>7. PICK t : Becomes(c, t) /\ (~t.wrote => Reader(H, instance, revision, t, {}))
  BY <1>6
<1>8. client'[c] = t /\ \A d \in Client \ {c} : client'[d] = client[d]
  BY <1>7 DEF Becomes, TypeOK
<1>9. ReaderInv(H, instance, revision, 0, t, <<>>, <<>>, None)
  BY <1>7, NothingToCome
<1> QED
  BY <1>1, <1>2, <1>8, <1>9, ReadersStep

\* What a reader keeps from an earlier process is no word of the new one.
LEMMA RestartReads ==
    ASSUME TypeOK, NEW H, HistoryInv(H), ReadersInv(H), Restart, NEW G
    PROVE  ReadersInv(G)'
<1> SUFFICES ASSUME NEW c \in Client
             PROVE  ReaderInv(G, instance', revision', conn'[c], client'[c], stream'[c],
                              held'[c], syncing'[c])
  BY DEF ReadersInv
<1> DEFINE s == client[c]
           t == [s EXCEPT !.me = 0]
           i == instance
           j == instance + 1
           Z == Coming(stream[c], held[c], syncing[c])
<1>1. /\ instance' = j /\ revision' = 0 /\ conn'[c] = 0 /\ client'[c] = t
      /\ stream'[c] = <<>> /\ held'[c] = <<>> /\ syncing'[c] = None
  BY DEF Restart, Ended
<1>2. /\ s \in Browsers /\ i \in Nat /\ revision \in Nat /\ WordInv(H, i, revision, s)
      /\ ReaderInv(H, i, revision, conn[c], s, stream[c], held[c], syncing[c])
  BY ReaderType
<1>3. i >= 1
  BY DEF HistoryInv, FromStored
<1>4. ~s.wrote => Reader(H, i, revision, s, Z)
  BY <1>2 DEF ReaderInv
<1>5. SameReader(t, s) /\ t.wrote = s.wrote
  BY <1>2, AwayReader
<1> HIDE DEF Z, s, i, t
<1>6. ASSUME ~s.wrote
      PROVE  Reader(G, j, 0, s, {})
  <2>1. Reader(H, i, revision, s, {})
    BY <1>4, <1>6, LessToCome
  <2>2. \A x \in Kept(s) : ~Word(j, x)
    <3> SUFFICES ASSUME NEW x \in Kept(s), x.type \in Kind \cup {"snapshot"}
                 PROVE  x.instance # j
      BY DEF Word
    <3>1. x \in TrueEvents(H, i, revision)
      <4>1. /\ Of(s.queued) \subseteq TrueEvents(H, i, revision)
            /\ Of(s.later) \subseteq TrueEvents(H, i, revision)
            /\ s.applying \in TrueEvents(H, i, revision) \cup {None}
        BY <1>2, OfType DEF WordInv
      <4> QED
        BY <4>1 DEF Kept
    <3>2. x \in Events /\ (TrueSnapshot(H, i, revision, x) \/ TrueChange(H, i, revision, x))
      BY <3>1 DEF TrueEvents
    <3>3. x.instance \in Nat
      BY <3>2 DEF Events, Changes, Snapshots, Kind
    <3>4. x.instance <= i
      BY <3>2 DEF TrueSnapshot, TrueChange
    <3> QED
      BY <1>2, <3>3, <3>4 DEF i
  <2>3. Kept(s) = ({s.applying} \ {None}) \cup Of(s.queued) \cup Of(s.later)
    BY DEF Kept
  <2>4. \A x \in Of(s.queued) \cup Of(s.later) : ~Changed(j, x)
    BY <2>2, <2>3 DEF Changed, Word
  <2>5. Waits(j, s)
    <3>1. Waits(i, s)
      BY <2>1 DEF Reader
    <3>2. Distinct(j, s.queued) /\ Distinct(j, s.later)
      BY <2>4 DEF Distinct, Of
    <3>3. Apart(j, Of(s.later), Of(s.queued))
      BY <2>4 DEF Apart
    <3>4. Earlier(j, {s.applying}, Of(s.queued)) /\ Earlier(j, {s.applying}, Of(s.later))
      BY <2>4 DEF Earlier
    <3> QED
      BY <3>1, <3>2, <3>3, <3>4 DEF Waits
  <2>6. Reads(G, j, 0, s, {})
    <3>1. s.instance <= i /\ s.instance \in Nat
      BY <1>2 DEF WordInv, Browsers
    <3>2. s.instance # j
      BY <1>2, <3>1 DEF i
    <3> QED
      BY <3>2 DEF Reads, Fit
  <2>7. Steady(j, 0, s)
    <3>1. j # 1
      BY <1>2, <1>3 DEF i
    <3> HIDE DEF j
    <3> QED
      BY <2>1, <3>1 DEF Reader, Steady
  <2>8. Earlier(j, Kept(s), {})
    BY DEF Earlier
  <2>9. Resumable(s, Kept(s) \cup {})
    BY <2>1 DEF Reader
  <2> QED
    BY <2>5, <2>6, <2>7, <2>8, <2>9 DEF Reader
<1> HIDE DEF j
<1>7. ~t.wrote => Reader(G, j, 0, t, {})
  BY <1>5, <1>6, SameReaderKept
<1>8. ReaderInv(G, j, 0, 0, t, <<>>, <<>>, None)
  BY <1>7, NothingToCome
<1> QED
  BY <1>1, <1>8

\* What the server has said so far is of no later revision than its own.
LEMMA SaidSoFar ==
    ASSUME NEW H, NEW i \in Nat, NEW r \in Nat, NEW x \in TrueEvents(H, i, r) \cup NewInits(i),
           Word(i, x)
    PROVE  x.revision \in Nat /\ x.revision <= r
<1>1. x \notin NewInits(i)
  BY DEF NewInits, Inits, Word, Kind
<1>2. x \in Events /\ (TrueSnapshot(H, i, r, x) \/ TrueChange(H, i, r, x))
      /\ x.type \in Kind \cup {"snapshot"}
  BY <1>1 DEF TrueEvents, Word
<1>3. x.revision \in Nat
  BY <1>2 DEF Events, Changes, Snapshots, Kind
<1> QED
  BY <1>2, <1>3 DEF TrueSnapshot, TrueChange, Word

\* A reader goes on when the server goes on, whatever new it is to be told.
LEMMA ContinuedReader ==
    ASSUME NEW H, NEW G, NEW i \in Nat, NEW r \in Nat, NEW q \in Nat, NEW s \in Browsers,
           WordInv(H, i, r, s), NEW Z, Reader(H, i, r, s, Z), r <= q,
           \A n \in 0..r : G[n] = H[n],
           i = 1 => r >= FirstRevision,
           NEW X, \A x \in X : x.type \in Kind /\ x.revision \in Nat /\ x.revision > r
    PROVE  Reader(G, i, q, s, Z \cup X)
<1>1. Waits(i, s) /\ Earlier(i, Kept(s), Z) /\ Reads(H, i, r, s, Z) /\ Steady(i, r, s)
      /\ Resumable(s, Kept(s) \cup Z)
  BY DEF Reader
<1>2. ASSUME NEW k \in Kept(s), Word(i, k)
      PROVE  k.revision \in Nat /\ k.revision <= r
  <2>1. k \in TrueEvents(H, i, r)
    <3>1. /\ Of(s.queued) \subseteq TrueEvents(H, i, r)
          /\ Of(s.later) \subseteq TrueEvents(H, i, r)
          /\ s.applying \in TrueEvents(H, i, r) \cup {None}
      BY OfType DEF WordInv
    <3> QED
      BY <3>1 DEF Kept
  <2> QED
    BY <1>2, <2>1, SaidSoFar
<1>3. Earlier(i, Kept(s), Z \cup X)
  <2>1. \A k \in Kept(s), x \in X : Word(i, k) => k.revision < x.revision
    BY <1>2
  <2> QED
    BY <1>1, <2>1 DEF Earlier
<1>4. Reads(G, i, q, s, Z \cup X)
  <2> SUFFICES ASSUME Fit(i, s)
               PROVE  /\ s.latest \in 0..q
                      /\ Shows(s, G[s.latest])
                      /\ \A z \in Z \cup X : Changed(i, z) => z.revision > s.latest
    BY DEF Reads
  <2>1. /\ s.latest \in 0..r /\ Shows(s, H[s.latest])
        /\ \A z \in Z : Changed(i, z) => z.revision > s.latest
    BY <1>1 DEF Reads
  <2>2. \A x \in X : x.revision > s.latest
    BY <2>1
  <2> QED
    BY <2>1, <2>2
<1>5. Steady(i, q, s)
  <2>1. i = 1 /\ q = FirstRevision => r = FirstRevision
    BY BoundAssumption
  <2> QED
    BY <1>1, <2>1 DEF Steady
<1>6. Resumable(s, Kept(s) \cup (Z \cup X))
  <2>1. \A x \in X : x.type # "snapshot"
    BY DEF Kind
  <2> QED
    BY <1>1, <2>1 DEF Resumable
<1> QED
  BY <1>1, <1>3, <1>4, <1>5, <1>6 DEF Reader

\* What the server announces is newer than all it has said.
LEMMA HandleReads ==
    ASSUME TypeOK, NEW H \in Histories, HistoryInv(H), ReadersInv(H), NEW c \in Client,
           NEW m \in client[c].calls, NEW heard \in BOOLEAN,
           NEW unknown \in SUBSET (Client \ Owner), Handle(c, m, heard, unknown),
           NEW G \in Histories, Continued(H, G)
    PROVE  ReadersInv(G)'
<1> DEFINE i == instance
           r == revision
           e == Event(m)
<1>1. i \in Nat /\ r \in Nat /\ m \in Mutations
  <2>1. client[c].calls \in SUBSET Mutations
    BY ClientType DEF Browsers
  <2> QED
    BY <2>1 DEF TypeOK
<1>2. UNCHANGED <<instance, syncing, conn>>
  BY DEF Handle
<1>3. e.type \in Kind /\ e.instance = i /\ e.revision = r + 1 /\ e \in Changes
  <2>1. e \in Changes /\ e.instance = i /\ e.revision = r + 1
    BY <1>1, EventType DEF Event
  <2> QED
    BY <2>1 DEF Changes
<1>4. \E ok \in BOOLEAN, n \in Nat : Reply(c, m, ok, n)
  <2>1. CASE Accepts(c, m)
    <3>1. Reply(c, m, heard, revision + 1)
      BY <2>1 DEF Handle
    <3>2. revision + 1 \in Nat
      BY <1>1
    <3> QED
      BY <3>1, <3>2
  <2>2. CASE ~Accepts(c, m)
    <3>1. Reply(c, m, FALSE, 0)
      BY <2>2 DEF Handle
    <3> QED
      BY <3>1
  <2> QED
    BY <2>1, <2>2
<1>5. /\ revision' \in {r, r + 1}
      /\ \A d \in Client :
            \/ stream'[d] = stream[d] /\ held'[d] = held[d]
            \/ /\ revision' = r + 1 /\ syncing[d] = None
               /\ stream'[d] = Append(stream[d], e) /\ held'[d] = held[d]
            \/ /\ revision' = r + 1 /\ syncing[d] # None
               /\ stream'[d] = stream[d] /\ held'[d] = Append(held[d], e)
  <2>1. CASE Accepts(c, m)
    <3>1. BroadcastMutation(c, m, unknown) /\ revision' = r + 1
      BY <2>1 DEF Handle
    <3> QED
      BY <3>1 DEF BroadcastMutation
  <2>2. CASE ~Accepts(c, m)
    BY <2>2 DEF Handle
  <2> QED
    BY <2>1, <2>2
<1>6. /\ revision' \in Nat /\ r <= revision'
      /\ \A n \in 0..r : G[n] = H[n]
  <2>1. revision' \in Nat /\ r <= revision'
    BY <1>1, <1>5
  <2>2. i' = i /\ i # i + 1
    BY <1>1, <1>2
  <2> QED
    BY <2>1, <2>2 DEF Continued, Continues
<1>7. i = 1 => r >= FirstRevision
  BY DEF HistoryInv, FromStored
<1> HIDE DEF e
<1> SUFFICES ASSUME NEW d \in Client
             PROVE  ReaderInv(G, i, revision', conn[d], client'[d], stream'[d], held'[d],
                              syncing[d])
  BY <1>2 DEF ReadersInv
<1> DEFINE s == client[d]
           t == client'[d]
           q == stream[d]
           h == held[d]
           y == syncing[d]
           Z == Coming(q, h, y)
<1>8. /\ s \in Browsers /\ WordInv(H, i, r, s)
      /\ q \in Seq(Events \cup Inits) /\ h \in Seq(Changes)
      /\ q \in Seq(Way(H)) /\ h \in Seq(TrueEvents(H, i, r))
      /\ ReaderInv(H, i, r, conn[d], s, q, h, y)
  BY ReaderType
<1>9. ~t.wrote => ~s.wrote /\ SameReader(t, s)
  <2>1. PICK ok \in BOOLEAN, n \in Nat : Reply(c, m, ok, n)
    BY <1>4
  <2> DEFINE a == AnswerTo(m, ok, n)
             u == Replied(client[c], m, a)
  <2>2. Becomes(c, u) /\ a \in Answers
    BY <2>1, ReplyEffect
  <2>3. a.type = m.type
    BY DEF AnswerTo
  <2> HIDE DEF a
  <2>4. client[c] \in Browsers
    BY ClientType
  <2>5. SameReader(u, client[c]) /\ u.wrote = client[c].wrote
    BY <2>2, <2>3, <2>4, RepliedReader
  <2> HIDE DEF u
  <2>6. CASE d = c
    <3>1. t = u
      BY <2>2, <2>6 DEF Becomes, TypeOK
    <3> HIDE DEF t
    <3> QED
      BY <2>5, <2>6, <3>1
  <2>7. CASE d # c
    <3>1. t = s
      BY <2>2, <2>7 DEF Becomes, TypeOK
    <3>2. SameReader(s, s)
      BY DEF SameReader
    <3> HIDE DEF t, s
    <3> QED
      BY <3>1, <3>2
  <2> QED
    BY <2>6, <2>7
<1>10. ~s.wrote => Reader(H, i, r, s, Z)
  BY <1>8 DEF ReaderInv
<1>11. InOrder(i, q) /\ InOrder(i, h) /\ Earlier(i, Of(q), Of(h))
       /\ (conn[d] = 0 => y = None) /\ (y = None => h = <<>>)
  BY <1>8 DEF ReaderInv, Order
<1> HIDE DEF Z, t, s
<1>12. ASSUME NEW X, X \subseteq {e}, X # {} => revision' = r + 1, ~t.wrote
       PROVE  Reader(G, i, revision', t, Z \cup X)
  <2>1. \A x \in X : x.type \in Kind /\ x.revision \in Nat /\ x.revision > r
    BY <1>1, <1>3, <1>12
  <2>2. Reader(H, i, r, s, Z)
    BY <1>9, <1>10, <1>12
  <2>3. Reader(G, i, revision', s, Z \cup X)
    BY <1>1, <1>6, <1>7, <1>8, <2>1, <2>2, ContinuedReader
  <2> QED
    BY <1>9, <1>12, <2>3, SameReaderKept
<1>13. Earlier(i, Of(q), {e}) /\ Earlier(i, Of(h), {e})
  <2>1. Of(q) \subseteq Way(H) /\ Of(h) \subseteq Way(H)
    BY <1>8, OfType DEF Way
  <2>2. \A x \in Way(H) : Word(i, x) => x.revision \in Nat /\ x.revision <= r
    BY <1>1, SaidSoFar DEF Way
  <2> QED
    BY <1>1, <1>3, <2>1, <2>2 DEF Earlier
<1> HIDE DEF q, h, y
<1>14. CASE stream'[d] = q /\ held'[d] = h
  <2>1. ~t.wrote => Reader(G, i, revision', t, Z \cup {})
    BY <1>12
  <2>2. ~t.wrote => Reader(G, i, revision', t, Z)
    BY <2>1
  <2>3. ReaderInv(G, i, revision', conn[d], t, q, h, y)
    BY <1>11, <2>2 DEF ReaderInv, Order, Z
  <2> QED
    BY <1>14, <2>3 DEF t, y
<1>15. CASE revision' = r + 1 /\ y = None /\ stream'[d] = Append(q, e) /\ held'[d] = h
  <2> DEFINE p == Append(q, e)
  <2>1. Of(p) = Of(q) \cup {e} /\ InOrder(i, p)
    BY <1>8, <1>11, <1>13, OfAppend, OrderAppend
  <2> HIDE DEF p
  <2>2. Coming(p, h, y) = Z \cup {e}
    BY <2>1 DEF Coming, Z
  <2>3. Earlier(i, Of(p), Of(h))
    BY <1>11, <1>15, OfEmpty DEF Earlier
  <2>4. ~t.wrote => Reader(G, i, revision', t, Coming(p, h, y))
    BY <1>12, <1>15, <2>2
  <2>5. ReaderInv(G, i, revision', conn[d], t, p, h, y)
    BY <1>11, <2>1, <2>3, <2>4 DEF ReaderInv, Order
  <2> QED
    BY <1>15, <2>5 DEF t, y, p
<1>16. CASE revision' = r + 1 /\ y # None /\ stream'[d] = q /\ held'[d] = Append(h, e)
  <2> DEFINE p == Append(h, e)
  <2>1. Of(p) = Of(h) \cup {e} /\ InOrder(i, p)
    BY <1>8, <1>11, <1>13, OfAppend, OrderAppend
  <2> HIDE DEF p
  <2>2. Coming(q, p, y) = Z \cup {e}
    BY <2>1 DEF Coming, Z
  <2>3. Earlier(i, Of(q), Of(p))
    BY <1>11, <1>13, <2>1 DEF Earlier
  <2>4. ~t.wrote => Reader(G, i, revision', t, Coming(q, p, y))
    BY <1>12, <1>16, <2>2
  <2>5. ReaderInv(G, i, revision', conn[d], t, q, p, y)
    BY <1>11, <1>16, <2>1, <2>3, <2>4 DEF ReaderInv, Order
  <2> QED
    BY <1>16, <2>5 DEF t, y, p
<1> QED
  BY <1>5, <1>14, <1>15, <1>16 DEF q, h, y

-----------------------------------------------------------------------------
(* The theorem.                                                              *)

LEMMA InitReads ==
    ASSUME Init
    PROVE  ReadInv
<1>1. PICK H \in Histories : HistoryInv(H)
  BY InitWordInv DEF GapInv
<1>2. ASSUME NEW c \in Client
      PROVE  ReaderInv(H, instance, revision, conn[c], client[c], stream[c], held[c], syncing[c])
  <2> DEFINE s == client[c]
  <2>1. s = Fresh(Stored, 1)
    BY DEF Init
  <2>2. /\ conn[c] = 0 /\ stream[c] = <<>> /\ held[c] = <<>> /\ syncing[c] = None
    BY DEF Init
  <2>3. /\ s.since = 0 /\ s.applying = None /\ s.queued = <<>> /\ s.later = <<>>
        /\ s.calls = {} /\ s.answers = {} /\ s.recover = FALSE /\ s.view = Stored
        /\ ~s.dirty /\ s.creating = {}
    BY <2>1 DEF Fresh
  <2> HIDE DEF s
  <2>4. Waits(instance, s) /\ Kept(s) = {}
    BY <2>3, OfEmpty DEF Waits, Distinct, Apart, Kept
  <2>5. Steady(instance, revision, s)
    BY <2>3 DEF Steady
  <2>6. Reads(H, instance, revision, s, {})
    BY <2>3 DEF Reads, Fit
  <2>7. Earlier(instance, Kept(s), {}) /\ Resumable(s, Kept(s) \cup {})
    BY <2>3 DEF Earlier, Resumable
  <2>8. Reader(H, instance, revision, s, {})
    BY <2>4, <2>5, <2>6, <2>7 DEF Reader
  <2> QED
    BY <2>2, <2>8, NothingToCome DEF s
<1>3. ReadersInv(H)
  BY <1>2 DEF ReadersInv
<1> QED
  BY <1>1, <1>3 DEF ReadInv

LEMMA NextReads ==
    ASSUME TypeOK, CallsInv, ReadInv, [Next]_vars
    PROVE  ReadInv'
<1> PICK H \in Histories : HistoryInv(H) /\ ReadersInv(H)
  BY DEF ReadInv
<1>1. CASE UNCHANGED vars
  <2>1. HistoryInv(H)' /\ ReadersInv(H)'
    BY <1>1 DEF vars, serverVars, HistoryInv, ReadersInv
  <2> QED
    BY <2>1 DEF ReadInv
<1>2. CASE Restart
  <2>1. PICK G \in Histories : HistoryInv(G)' /\ Continued(H, G)
    BY <1>2, RestartWord
  <2>2. ReadersInv(G)'
    BY <1>2, RestartReads
  <2> QED
    BY <2>1, <2>2 DEF ReadInv
<1>3. CASE \E c \in Client : \E m \in client[c].calls :
              \E heard \in BOOLEAN, unknown \in SUBSET (Client \ Owner) : Handle(c, m, heard, unknown)
  <2> PICK c \in Client : \E m \in client[c].calls :
              \E heard \in BOOLEAN, unknown \in SUBSET (Client \ Owner) : Handle(c, m, heard, unknown)
    BY <1>3
  <2> PICK m \in client[c].calls :
              \E heard \in BOOLEAN, unknown \in SUBSET (Client \ Owner) : Handle(c, m, heard, unknown)
    OBVIOUS
  <2>1. PICK heard \in BOOLEAN, unknown \in SUBSET (Client \ Owner) : Handle(c, m, heard, unknown)
    OBVIOUS
  <2>2. PICK G \in Histories : HistoryInv(G)' /\ Continued(H, G)
    BY <2>1, HandleWord
  <2>3. ReadersInv(G)'
    BY <2>1, <2>2, HandleReads
  <2> QED
    BY <2>2, <2>3 DEF ReadInv
<1>4. CASE \E c \in Client :
              \/ Receive(c) \/ FinishSnapshot(c) \/ FailSnapshot(c)
              \/ Refresh(c) \/ DeliverSnapshot(c) \/ DeliverUnavailable(c)
              \/ Subscribe(c) \/ Drop(c) \/ Resubscribe(c)
  <2>1. HistoryInv(H)'
    BY <1>4, ReceiveWord, SnapshotStepWord, RefreshWord, DeliverWord, SubscribeWord, LeaveWord
  <2>2. ReadersInv(H)'
    BY <1>4, ReceiveReads, SnapshotStepReads, RefreshReads, DeliverReads, SubscribeReads, LeaveReads
  <2> QED
    BY <2>1, <2>2 DEF ReadInv
<1>5. CASE \E c \in Client :
              \/ \E k \in Card, v \in Value \cup {Absent} : Edit(c, k, v)
              \/ \E k \in Card, v \in Value : CommitField(c, k, v)
              \/ \E early \in SUBSET Card : Tick(c, early)
              \/ \E a \in client[c].answers : Answer(c, a) \/ AnswerField(c, a)
              \/ \E m \in client[c].calls : LoseCall(c, m)
  <2>1. HistoryInv(H)'
    BY <1>5, EditWord, CommitFieldWord, TickWord, AnswerWord, AnswerFieldWord, LoseCallWord
  <2>2. ReadersInv(H)'
    BY <1>5, WriterReads, TickReads, AnswerReads, LoseCallReads
  <2> QED
    BY <2>1, <2>2 DEF ReadInv
<1>6. CASE \E c \in Client : \E e \in client[c].creating :
              FetchFail(c, e) \/ \E v \in Value \cup {Absent} : FetchDone(c, e, v)
  <2>1. PICK c \in Client : \E e \in client[c].creating :
              FetchFail(c, e) \/ \E v \in Value \cup {Absent} : FetchDone(c, e, v)
    BY <1>6
  <2>2. PICK e \in client[c].creating :
              FetchFail(c, e) \/ \E v \in Value \cup {Absent} : FetchDone(c, e, v)
    BY <2>1
  <2>3. HistoryInv(H)' /\ ReadersInv(H)'
    BY <2>2, FetchWord, FetchReads
  <2> QED
    BY <2>3 DEF ReadInv
<1> QED
  BY <1>1, <1>2, <1>3, <1>4, <1>5, <1>6, Zenon DEF Next

\* A browser whose user only reads shows the live payload once it has reached the
\* revision of the server without a gap, for any clients, cards, values and bounds:
\* the events that came while a snapshot was applied, or before another one, were
\* replayed in their order and none was missed.  Left out are a browser that has
\* events to replay which a second snapshot contains, one on which a creation put a
\* card twice, and the cards whose creation waits for its object or, until the next
\* snapshot, was overtaken by other events or failed.
THEOREM ReadersAlwaysAgree == Spec => []ReadersAgree
<1>1. Init => ReadInv
  BY InitReads
<1>2. TypeOK /\ CallsInv /\ ReadInv /\ [Next]_vars => ReadInv'
  BY NextReads
<1>3. TypeOK /\ ReadInv => ReadersAgree
  <2> SUFFICES ASSUME TypeOK, ReadInv, NEW c \in Client,
                      Current(c), ~client[c].wrote, ~client[c].overrun
               PROVE  \A k \in Card \ Loose(client[c]) : client[c].view[k] = live[k]
    BY DEF ReadersAgree
  <2> DEFINE s == client[c]
             Z == Coming(stream[c], held[c], syncing[c])
  <2>1. PICK H \in Histories : HistoryInv(H) /\ ReadersInv(H)
    BY DEF ReadInv
  <2>2. /\ s \in Browsers /\ WordInv(H, instance, revision, s) /\ H[revision] = live
        /\ ReaderInv(H, instance, revision, conn[c], s, stream[c], held[c], syncing[c])
    BY <2>1, HistoryType, ReaderType
  <2>3. /\ s.me # 0 /\ ~s.awaiting /\ s.applying = None /\ s.latest = revision /\ ~s.gap
        /\ s.since > 0 /\ ~s.wrote /\ ~s.overrun
    BY DEF Current, CanPublish
  <2> HIDE DEF s
  <2>4. Fit(instance, s)
    BY <2>2, <2>3 DEF Fit, WordInv
  <2>5. Shows(s, H[s.latest])
    BY <2>2, <2>3, <2>4 DEF ReaderInv, Reader, Reads
  <2> QED
    BY <2>2, <2>3, <2>5 DEF Shows, s
<1> QED
  BY <1>1, <1>2, <1>3, TypeCorrect, CallsCorrect, PTL DEF Spec

=============================================================================
