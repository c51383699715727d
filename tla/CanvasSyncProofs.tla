-------------------------- MODULE CanvasSyncProofs --------------------------
(* Proofs about CanvasSync, for any clients, cards, values and bounds: the types *)
(* of both sides, and that the queues move and the numbers of their requests are *)
(* never stale.  The replay of events is recursive; what it keeps is shown from  *)
(* the smallest number of events after which it would not (Smallest, NoneLeft).  *)
EXTENDS CanvasSync, FiniteSetTheorems, TLAPS

-----------------------------------------------------------------------------
(* Induction, by a smallest counterexample.                                  *)

\* Every set of numbers has a smallest one.
LEMMA Smallest ==
    ASSUME NEW T \in SUBSET Nat, T # {}
    PROVE  \E x \in T : \A y \in T : x <= y
<1>1. \E x \in T : \A y \in T : ~(<<y, x>> \in OpToRel(<, Nat))
  BY NatLessThanWellFounded, WFMin
<1>2. \A x, y \in Nat : y < x => <<y, x>> \in OpToRel(<, Nat)
  <2> SUFFICES ASSUME NEW x \in Nat, NEW y \in Nat, y < x
               PROVE  <<y, x>> \in OpToRel(<, Nat)
    OBVIOUS
  <2>1. <<y, x>> \in {ss \in Nat \X Nat : ss[1] < ss[2]}
    OBVIOUS
  <2> QED
    BY <2>1, Zenon DEF OpToRel
<1>3. PICK x \in T : \A y \in T : ~(<<y, x>> \in OpToRel(<, Nat))
  BY <1>1, Zenon
<1>4. \A y \in T : ~(y < x)
  BY <1>2, <1>3, Zenon
<1> QED
  BY <1>4

\* What holds of 0, and of n + 1 when of n, holds of every number up to N: there is
\* no number of T when 0 is none, and the successor of a number outside T is none.
LEMMA NoneLeft ==
    ASSUME NEW N \in Nat, NEW T \in SUBSET (0..N), 0 \notin T,
           \A n \in 1..N : n - 1 \notin T => n \notin T
    PROVE  T = {}
<1> SUFFICES ASSUME T # {} PROVE FALSE
  OBVIOUS
<1>1. T \in SUBSET Nat
  OBVIOUS
<1>2. PICK x \in T : \A y \in T : x <= y
  BY <1>1, Smallest
<1>3. x \in 1..N /\ x - 1 \notin T
  BY <1>1, <1>2
<1> QED
  BY <1>3

-----------------------------------------------------------------------------
(* What the replay of events keeps.                                          *)

\* Each event of q leads from one set of states into the next, and all into the last.
LEMMA AfterPasses ==
    ASSUME NEW N \in Nat, NEW SS, NEW s \in SS[0], NEW q,
           \A n \in 1..N : \A t \in SS[n - 1] : OnEvent(t, q[n]) \in SS[n]
    PROVE  After(s, q, N) \in SS[N]
<1> DEFINE f == CHOOSE g : g = [i \in 0..N |-> IF i = 0 THEN s ELSE OnEvent(g[i - 1], q[i])]
<1>1. \E g : g = [i \in 0..N |-> IF i = 0 THEN s ELSE OnEvent(g[i - 1], q[i])]
  <2> DEFINE Exists(m) ==
          \E g : g = [i \in 0..m |-> IF i = 0 THEN s ELSE OnEvent(g[i - 1], q[i])]
             T == {m \in 0..N : ~Exists(m)}
  <2>1. Exists(0)
    <3> DEFINE g == [i \in 0..0 |-> s]
    <3>1. g = [i \in 0..0 |-> IF i = 0 THEN s ELSE OnEvent(g[i - 1], q[i])]
      OBVIOUS
    <3> QED
      BY <3>1
  <2>2. ASSUME NEW m \in Nat, Exists(m)
        PROVE  Exists(m + 1)
    <3>1. PICK g : g = [i \in 0..m |-> IF i = 0 THEN s ELSE OnEvent(g[i - 1], q[i])]
      BY <2>2
    <3> DEFINE h == [i \in 0..(m + 1) |-> IF i = m + 1 THEN OnEvent(g[m], q[m + 1]) ELSE g[i]]
    <3>2. \A i \in 0..(m + 1) : h[i] = IF i = 0 THEN s ELSE OnEvent(h[i - 1], q[i])
      <4> TAKE i \in 0..(m + 1)
      <4>1. CASE i = m + 1
        <5>1. h[i] = OnEvent(g[m], q[m + 1])
          BY <4>1
        <5>2. h[i - 1] = g[m]
          BY <4>1
        <5> QED
          BY <4>1, <5>1, <5>2
      <4>2. CASE i \in 0..m /\ i # 0
        <5>1. h[i] = g[i] /\ h[i - 1] = g[i - 1]
          BY <4>2
        <5>2. g[i] = OnEvent(g[i - 1], q[i])
          BY <3>1, <4>2, Zenon
        <5> QED
          BY <4>2, <5>1, <5>2
      <4>3. CASE i = 0
        <5>1. h[i] = g[0]
          BY <4>3
        <5>2. g[0] = s
          BY <3>1
        <5> QED
          BY <4>3, <5>1, <5>2
      <4> QED
        BY <4>1, <4>2, <4>3
    <3>3. h = [i \in 0..(m + 1) |-> IF i = 0 THEN s ELSE OnEvent(h[i - 1], q[i])]
      <4> HIDE DEF h
      <4> QED
        BY <3>2, Zenon DEF h
    <3> QED
      BY <3>3, Zenon
  <2> HIDE DEF Exists
  <2>3. \A n \in 1..N : n - 1 \notin T => n \notin T
    <3> SUFFICES ASSUME NEW n \in 1..N, n - 1 \notin T
                 PROVE  n \notin T
      OBVIOUS
    <3>1. n - 1 \in Nat /\ Exists(n - 1) /\ n - 1 + 1 = n
      OBVIOUS
    <3> QED
      BY <2>2, <3>1
  <2>4. 0 \notin T
    BY <2>1
  <2>5. T = {}
    <3> HIDE DEF T
    <3>1. T \in SUBSET (0..N)
      BY DEF T
    <3> QED
      BY <2>3, <2>4, <3>1, NoneLeft
  <2>6. Exists(N)
    BY <2>5
  <2> QED
    BY <2>6 DEF Exists
<1>2. f = [i \in 0..N |-> IF i = 0 THEN s ELSE OnEvent(f[i - 1], q[i])]
  BY <1>1, Zenon
<1>3. After(s, q, N) = f[N]
  BY Zenon DEF After
<1> HIDE DEF f
<1> DEFINE T == {m \in 0..N : f[m] \notin SS[m]}
<1>4. 0 \notin T
  <2>1. f[0] = s
    BY <1>2
  <2> QED
    BY <2>1
<1>5. \A n \in 1..N : n - 1 \notin T => n \notin T
  <2> SUFFICES ASSUME NEW n \in 1..N, n - 1 \notin T
               PROVE  n \notin T
    OBVIOUS
  <2>1. f[n - 1] \in SS[n - 1]
    OBVIOUS
  <2>2. n \in 0..N /\ n # 0
    OBVIOUS
  <2>3. f[n] = OnEvent(f[n - 1], q[n])
    BY <1>2, <2>2, Zenon
  <2> QED
    BY <2>1, <2>3
<1>6. T = {}
  <2> HIDE DEF T
  <2>1. T \in SUBSET (0..N)
    BY DEF T
  <2> QED
    BY <1>4, <1>5, <2>1, NoneLeft
<1>7. f[N] \in SS[N]
  BY <1>6
<1> QED
  BY <1>3, <1>7

\* A set of states that every event of q leads back into contains the last one.
LEMMA AfterStays ==
    ASSUME NEW S, NEW s \in S, NEW q, NEW N \in Nat,
           \A t \in S : \A n \in 1..N : OnEvent(t, q[n]) \in S
    PROVE  After(s, q, N) \in S
<1> DEFINE SS == [n \in 0..N |-> S]
<1>1. s \in SS[0] /\ SS[N] = S
  OBVIOUS
<1>2. \A n \in 1..N : \A t \in SS[n - 1] : OnEvent(t, q[n]) \in SS[n]
  <2>1. \A n \in 1..N : SS[n - 1] = S /\ SS[n] = S
    OBVIOUS
  <2> HIDE DEF SS
  <2> QED
    BY <2>1
<1> HIDE DEF SS
<1> QED
  BY <1>1, <1>2, AfterPasses

\* Each event of q leads from one set of sequences into the next, if it is newer
\* by being appended, and all into the last.
LEMMA NewerPasses ==
    ASSUME NEW q, Len(q) \in Nat, NEW r, NEW SS, <<>> \in SS[0],
           \A i \in 1..Len(q) : \A t \in SS[i - 1] :
               (IF q[i].revision > r THEN Append(t, q[i]) ELSE t) \in SS[i]
    PROVE  Newer(q, r) \in SS[Len(q)]
<1> DEFINE Step(t, i) == IF q[i].revision > r THEN Append(t, q[i]) ELSE t
           f == CHOOSE g : g = [i \in 0..Len(q) |->
                    IF i = 0 THEN <<>>
                    ELSE IF q[i].revision > r THEN Append(g[i - 1], q[i]) ELSE g[i - 1]]
<1>1. \E g : g = [i \in 0..Len(q) |->
                    IF i = 0 THEN <<>>
                    ELSE IF q[i].revision > r THEN Append(g[i - 1], q[i]) ELSE g[i - 1]]
  <2> DEFINE Exists(m) == \E g : g = [i \in 0..m |-> IF i = 0 THEN <<>> ELSE Step(g[i - 1], i)]
             T == {m \in 0..Len(q) : ~Exists(m)}
  <2>0. Exists(Len(q)) => \E g : g = [i \in 0..Len(q) |->
                         IF i = 0 THEN <<>>
                         ELSE IF q[i].revision > r THEN Append(g[i - 1], q[i]) ELSE g[i - 1]]
    BY Zenon
  <2> HIDE DEF Step
  <2>1. Exists(0)
    <3> DEFINE g == [i \in 0..0 |-> <<>>]
    <3>1. g = [i \in 0..0 |-> IF i = 0 THEN <<>> ELSE Step(g[i - 1], i)]
      OBVIOUS
    <3> QED
      BY <3>1
  <2>2. ASSUME NEW m \in Nat, Exists(m)
        PROVE  Exists(m + 1)
    <3>1. PICK g : g = [i \in 0..m |-> IF i = 0 THEN <<>> ELSE Step(g[i - 1], i)]
      BY <2>2
    <3> DEFINE h == [i \in 0..(m + 1) |-> IF i = m + 1 THEN Step(g[m], m + 1) ELSE g[i]]
    <3>2. \A i \in 0..(m + 1) : h[i] = IF i = 0 THEN <<>> ELSE Step(h[i - 1], i)
      <4> TAKE i \in 0..(m + 1)
      <4>1. CASE i = m + 1
        <5>1. h[i] = Step(g[m], m + 1)
          BY <4>1
        <5>2. h[i - 1] = g[m]
          BY <4>1
        <5> QED
          BY <4>1, <5>1, <5>2
      <4>2. CASE i \in 0..m /\ i # 0
        <5>1. h[i] = g[i] /\ h[i - 1] = g[i - 1]
          BY <4>2
        <5>2. g[i] = Step(g[i - 1], i)
          BY <3>1, <4>2, Zenon
        <5> QED
          BY <4>2, <5>1, <5>2
      <4>3. CASE i = 0
        <5>1. h[i] = g[0]
          BY <4>3
        <5>2. g[0] = <<>>
          BY <3>1
        <5> QED
          BY <4>3, <5>1, <5>2
      <4> QED
        BY <4>1, <4>2, <4>3
    <3>3. h = [i \in 0..(m + 1) |-> IF i = 0 THEN <<>> ELSE Step(h[i - 1], i)]
      <4> HIDE DEF h
      <4> QED
        BY <3>2, Zenon DEF h
    <3> QED
      BY <3>3, Zenon
  <2> HIDE DEF Exists
  <2>3. \A n \in 1..Len(q) : n - 1 \notin T => n \notin T
    <3> SUFFICES ASSUME NEW n \in 1..Len(q), n - 1 \notin T
                 PROVE  n \notin T
      OBVIOUS
    <3>1. n - 1 \in Nat /\ Exists(n - 1) /\ n - 1 + 1 = n
      OBVIOUS
    <3> QED
      BY <2>2, <3>1
  <2>4. 0 \notin T
    BY <2>1
  <2>5. T = {}
    <3> HIDE DEF T
    <3>1. T \in SUBSET (0..Len(q))
      BY DEF T
    <3> QED
      BY <2>3, <2>4, <3>1, NoneLeft
  <2>6. Exists(Len(q))
    BY <2>5
  <2> QED
    BY <2>0, <2>6 DEF Exists
<1>2. f = [i \in 0..Len(q) |-> IF i = 0 THEN <<>> ELSE Step(f[i - 1], i)]
  BY <1>1, Zenon
<1>3. Newer(q, r) = f[Len(q)]
  BY Zenon DEF Newer
<1>4. \A i \in 1..Len(q) : \A t \in SS[i - 1] : Step(t, i) \in SS[i]
  OBVIOUS
<1> HIDE DEF f, Step
<1> DEFINE T == {m \in 0..Len(q) : f[m] \notin SS[m]}
<1>5. 0 \notin T
  <2>1. f[0] = <<>>
    BY <1>2
  <2> QED
    BY <2>1
<1>6. \A n \in 1..Len(q) : n - 1 \notin T => n \notin T
  <2> SUFFICES ASSUME NEW n \in 1..Len(q), n - 1 \notin T
               PROVE  n \notin T
    OBVIOUS
  <2>1. f[n - 1] \in SS[n - 1]
    OBVIOUS
  <2>2. n \in 0..Len(q) /\ n # 0
    OBVIOUS
  <2>3. f[n] = Step(f[n - 1], n)
    BY <1>2, <2>2, Zenon
  <2> QED
    BY <1>4, <2>1, <2>3
<1>7. T = {}
  <2> HIDE DEF T
  <2>1. T \in SUBSET (0..Len(q))
    BY DEF T
  <2> QED
    BY <1>5, <1>6, <2>1, NoneLeft
<1>8. f[Len(q)] \in SS[Len(q)]
  BY <1>7
<1> QED
  BY <1>3, <1>8

\* The newer events of q are events of q.
LEMMA NewerStays ==
    ASSUME NEW E, NEW q \in Seq(E), NEW r
    PROVE  Newer(q, r) \in Seq(E)
<1> DEFINE SS == [n \in 0..Len(q) |-> Seq(E)]
<1>1. Len(q) \in Nat
  OBVIOUS
<1>2. <<>> \in SS[0] /\ SS[Len(q)] = Seq(E)
  BY <1>1
<1>3. \A i \in 1..Len(q) : SS[i - 1] = Seq(E) /\ SS[i] = Seq(E)
  BY <1>1
<1>4. \A t \in Seq(E) : \A i \in 1..Len(q) :
          (IF q[i].revision > r THEN Append(t, q[i]) ELSE t) \in Seq(E)
  OBVIOUS
<1> HIDE DEF SS
<1>5. \A i \in 1..Len(q) : \A t \in SS[i - 1] :
          (IF q[i].revision > r THEN Append(t, q[i]) ELSE t) \in SS[i]
  BY <1>3, <1>4
<1>6. Newer(q, r) \in SS[Len(q)]
  BY <1>1, <1>2, <1>5, NewerPasses
<1> QED
  BY <1>2, <1>6

-----------------------------------------------------------------------------
(* Sorting.                                                                  *)

\* Every place of the sorted sequence is the rank of one event.
LEMMA RanksTaken ==
    ASSUME NEW E, NEW q \in Seq(E), \A e \in E : e.revision \in Nat
    PROVE  \A n \in 1..Len(q) : \E i \in 1..Len(q) : Rank(q, i) = n
<1> DEFINE N == Len(q)
           Up(i) == {j \in 1..N : Before(q, j, i)}
           f == [i \in 1..N |-> Rank(q, i)]
<1>0. N \in Nat /\ IsFiniteSet(1..N) /\ Cardinality(1..N) = N
  <2>1. N \in Nat
    OBVIOUS
  <2> HIDE DEF N
  <2> QED
    BY <2>1, FS_Interval
<1>1. \A i \in 1..N : q[i].revision \in Nat
  OBVIOUS
<1> HIDE DEF N
<1>2. \A i \in 1..N : /\ IsFiniteSet(Up(i)) /\ Cardinality(Up(i)) \in 1..N
                      /\ Rank(q, i) = Cardinality(Up(i))
  <2> SUFFICES ASSUME NEW i \in 1..N
               PROVE  /\ IsFiniteSet(Up(i)) /\ Cardinality(Up(i)) \in 1..N
                      /\ Rank(q, i) = Cardinality(Up(i))
    OBVIOUS
  <2>1. Up(i) \in SUBSET (1..N)
    OBVIOUS
  <2>2. i \in Up(i)
    BY <1>0, <1>1 DEF Before
  <2>3. Rank(q, i) = Cardinality(Up(i))
    BY DEF Rank, N
  <2> HIDE DEF Up
  <2>4. IsFiniteSet(Up(i)) /\ Cardinality(Up(i)) <= N
    BY <1>0, <2>1, FS_Subset
  <2>5. Cardinality(Up(i)) \in Nat /\ Cardinality(Up(i)) # 0
    BY <2>2, <2>4, FS_CardinalityType, FS_EmptySet
  <2> QED
    BY <1>0, <2>3, <2>4, <2>5
<1>3. \A i, j \in 1..N : f[i] = f[j] => i = j
  <2> SUFFICES ASSUME NEW i \in 1..N, NEW j \in 1..N, i # j, f[i] = f[j]
               PROVE  FALSE
    OBVIOUS
  <2>1. Cardinality(Up(i)) = Cardinality(Up(j))
    BY <1>2
  <2>2. ASSUME NEW k \in 1..N, NEW l \in 1..N, k # l, Before(q, k, l),
               Cardinality(Up(k)) = Cardinality(Up(l))
        PROVE  FALSE
    <3>1. Up(k) \in SUBSET Up(l)
      <4> SUFFICES ASSUME NEW x \in 1..N, Before(q, x, k)
                   PROVE  Before(q, x, l)
        OBVIOUS
      <4> QED
        BY <1>0, <1>1, <2>2 DEF Before
    <3>2. l \in Up(l) /\ l \notin Up(k)
      BY <1>0, <1>1, <2>2 DEF Before
    <3>3. IsFiniteSet(Up(l))
      BY <1>2
    <3> HIDE DEF Up
    <3>4. Up(k) = Up(l)
      BY <2>2, <3>1, <3>3, FS_Subset
    <3> QED
      BY <3>2, <3>4
  <2>3. Before(q, i, j) \/ Before(q, j, i)
    BY <1>0, <1>1 DEF Before
  <2> QED
    BY <2>1, <2>2, <2>3
<1>4. f \in [1..N -> 1..N]
  BY <1>2
<1> HIDE DEF f
<1>5. f \in Injection(1..N, 1..N)
  BY <1>3, <1>4 DEF Injection, IsInjective
<1>6. f \in Surjection(1..N, 1..N)
  BY <1>0, <1>5, FS_Injection
<1>7. \A n \in 1..N : \E i \in 1..N : f[i] = n
  BY <1>4, <1>6 DEF Surjection
<1> QED
  BY <1>7 DEF f, N

\* The sorted events are the events.
LEMMA ByRevisionStays ==
    ASSUME NEW E, NEW q \in Seq(E), \A e \in E : e.revision \in Nat
    PROVE  ByRevision(q) \in Seq(E)
<1>1. ASSUME NEW n \in 1..Len(q)
      PROVE  q[CHOOSE i \in 1..Len(q) : Rank(q, i) = n] \in E
  <2>1. \E i \in 1..Len(q) : Rank(q, i) = n
    BY RanksTaken
  <2> DEFINE at == CHOOSE i \in 1..Len(q) : Rank(q, i) = n
  <2>2. at \in 1..Len(q)
    BY <2>1, Zenon
  <2> HIDE DEF at
  <2>3. q[at] \in E
    BY <2>2
  <2> QED
    BY <2>3 DEF at
<1> DEFINE g(n) == q[CHOOSE i \in 1..Len(q) : Rank(q, i) = n]
<1>2. \A n \in 1..Len(q) : g(n) \in E
  BY <1>1
<1>3. ByRevision(q) = [n \in 1..Len(q) |-> g(n)]
  BY DEF ByRevision
<1> HIDE DEF g
<1> QED
  BY <1>2, <1>3

\* The state t, with the events `left` still to replay.
Leaves(t, left, over) == [t EXCEPT !.later = left, !.overrun = @ \/ over]

\* The replay of events ends in a state that each of them keeps, apart from what is
\* left to replay.
LEMMA ReplayStays ==
    ASSUME NEW S, NEW s \in S, NEW E, NEW q \in Seq(E),
           \A t \in S : \A e \in E : OnEvent(t, e) \in S
    PROVE  \E t \in S : \E left \in Seq(E) : \E over \in BOOLEAN :
               Replay(s, q) = Leaves(t, left, over)
<1> DEFINE snaps == {i \in 1..Len(q) : q[i].type = "snapshot"}
           upto == IF snaps = {} THEN Len(q) ELSE CHOOSE i \in snaps : \A j \in snaps : i <= j
           left == SubSeq(q, upto + 1, Len(q))
           over == \E i \in 1..Len(left) : left[i].revision <= q[upto].revision
<1>1. upto \in 0..Len(q)
  <2>1. CASE snaps = {}
    BY <2>1
  <2>2. CASE snaps # {}
    <3> DEFINE first == CHOOSE i \in snaps : \A j \in snaps : i <= j
    <3>1. snaps \in SUBSET Nat
      OBVIOUS
    <3>2. snaps \in SUBSET (1..Len(q))
      OBVIOUS
    <3>3. upto = first
      BY <2>2
    <3> HIDE DEF snaps
    <3>4. \E i \in snaps : \A j \in snaps : i <= j
      BY <2>2, <3>1, Smallest
    <3>5. first \in snaps
      BY <3>4, Zenon
    <3> HIDE DEF first, upto
    <3> QED
      BY <3>2, <3>3, <3>5
  <2> QED
    BY <2>1, <2>2
<1>2. Replay(s, q) = [After(s, q, upto) EXCEPT !.later = left, !.overrun = @ \/ over]
  BY Zenon DEF Replay
<1> HIDE DEF upto
<1>3. left \in Seq(E)
  <2>1. \A i \in (upto + 1)..Len(q) : q[i] \in E
    BY <1>1
  <2> QED
    BY <1>1, <2>1
<1>4. \A t \in S : \A n \in 1..upto : OnEvent(t, q[n]) \in S
  BY <1>1
<1>5. After(s, q, upto) \in S
  BY <1>1, <1>4, AfterStays
<1>6. over \in BOOLEAN
  OBVIOUS
<1> HIDE DEF left, over
<1>7. Replay(s, q) = Leaves(After(s, q, upto), left, over)
  BY <1>2 DEF Leaves
<1> QED
  BY <1>3, <1>5, <1>6, <1>7

\* A finite set as a sequence: all its elements, and no others.
LEMMA SequenceOfSet ==
    ASSUME NEW S, IsFiniteSet(S)
    PROVE  /\ SetToSeq(S) \in Seq(S)
           /\ \A x \in S : \E i \in 1..Len(SetToSeq(S)) : SetToSeq(S)[i] = x
<1> DEFINE n == Cardinality(S)
<1>1. n \in Nat /\ ExistsBijection(1..n, S)
  BY FS_CardinalityType
<1>2. IsFiniteSet(1..n) /\ Cardinality(1..n) = n
  BY <1>1, FS_Interval
<1>3. PICK b : b \in Bijection(1..n, S)
  BY <1>1 DEF ExistsBijection
<1>4. b \in [1..n -> S] /\ IsInjective(b)
  BY <1>3 DEF Bijection, Injection
<1>5. SetToSeq(S) \in [1..n -> S] /\ IsInjective(SetToSeq(S))
  BY <1>4, Zenon DEF SetToSeq
<1> HIDE DEF n
<1>6. SetToSeq(S) \in Injection(1..n, S)
  BY <1>5 DEF Injection
<1>7. SetToSeq(S) \in Surjection(1..n, S)
  BY <1>2, <1>6, FS_Injection DEF n
<1>8. \A x \in S : \E i \in 1..n : SetToSeq(S)[i] = x
  BY <1>5, <1>7 DEF Surjection
<1>9. SetToSeq(S) \in Seq(S) /\ Len(SetToSeq(S)) = n
  BY <1>1, <1>5
<1> QED
  BY <1>8, <1>9

-----------------------------------------------------------------------------
(* The steps of a browser keep its type, and each leaves alone what it says   *)
(* nothing about: the word of the server, or the queue of mutations.          *)

\* What t and s were told by the server is the same.
SameWord(t, s) ==
    /\ t.instance = s.instance /\ t.told = s.told /\ t.latest = s.latest
    /\ t.gap = s.gap /\ t.since = s.since /\ t.awaiting = s.awaiting
    /\ t.applying = s.applying /\ t.queued = s.queued /\ t.later = s.later
    /\ t.answers = s.answers

\* The queues of t and s are the same.
SameQueue(t, s) ==
    /\ t.me = s.me /\ t.active = s.active /\ t.queue = s.queue
    /\ t.inFlight = s.inFlight /\ t.generation = s.generation
    /\ t.sequence = s.sequence /\ t.calls = s.calls /\ t.answers = s.answers

LEMMA ObserveEffect ==
    ASSUME NEW s \in Browsers, NEW r \in Nat
    PROVE  /\ Observe(s, r) \in Browsers
           /\ SameQueue(Observe(s, r), s)
BY ZenonT(30) DEF Observe, Browsers, SameQueue

LEMMA ToldEffect ==
    ASSUME NEW s \in Browsers, NEW x, x.revision \in Nat, x.card \in Card, x.now \in Held
    PROVE  /\ Told(s, x) \in Browsers
           /\ SameQueue(Told(s, x), s)
BY ZenonT(30) DEF Told, Browsers, SameQueue

LEMMA SeedEffect ==
    ASSUME NEW s \in Browsers
    PROVE  /\ SeedBaselines(s) \in Browsers
           /\ SameQueue(SeedBaselines(s), s)
           /\ SameWord(SeedBaselines(s), s)
BY DEF SeedBaselines, Browsers, SameQueue, SameWord

LEMMA ResetEffect ==
    ASSUME NEW s \in Browsers
    PROVE  /\ ResetTracking(s) \in Browsers
           /\ SameWord(ResetTracking(s), s)
           /\ ResetTracking(s).me = s.me
<1> DEFINE f == [k \in Card |-> 0]
           g == s.generation + 1
           t == [s EXCEPT !.generation = g, !.inFlight = f, !.queue = <<>>, !.active = 0,
                          !.failed = {}]
<1>1. f \in [Card -> Nat] /\ g \in Nat /\ <<>> \in Seq(Mutations)
  BY DEF Browsers
<1>2. ResetTracking(s) = t
  BY DEF ResetTracking, Browsers
<1> HIDE DEF f, g
<1>3. t \in Browsers /\ SameWord(t, s) /\ t.me = s.me
  BY <1>1 DEF Browsers, SameWord
<1> QED
  BY <1>2, <1>3

LEMMA ApplyEffect ==
    ASSUME NEW s \in Browsers, NEW e \in Changes
    PROVE  /\ ApplyEvent(s, e) \in Browsers
           /\ SameQueue(ApplyEvent(s, e), s)
           /\ SameWord(ApplyEvent(s, e), s)
<1>1. ApplyMutation(s, e) \in Browsers /\ SameQueue(ApplyMutation(s, e), s)
      /\ SameWord(ApplyMutation(s, e), s)
  <2> DEFINE creating == s.creating \cup {e}
             u == [s EXCEPT !.creating = creating]
             view == [s.view EXCEPT ![e.card] = Written(e)]
             base == [s.base EXCEPT ![e.card] = Written(e)]
             w == [s EXCEPT !.view = view, !.base = base]
  <2>1. creating \in SUBSET Changes
    BY DEF Browsers
  <2>2. view \in Cards /\ base \in Cards
    BY DEF Browsers, Changes, Written, Cards, Held
  <2>3. ApplyMutation(s, e) = IF Awaits(s, e) THEN u
                              ELSE IF e.type = "update" /\ ~Present(s, e.card) THEN s ELSE w
    BY DEF ApplyMutation, Browsers
  <2> HIDE DEF creating, view, base
  <2>4. u \in Browsers /\ SameQueue(u, s) /\ SameWord(u, s)
    BY <2>1 DEF Browsers, SameQueue, SameWord
  <2>5. w \in Browsers /\ SameQueue(w, s) /\ SameWord(w, s)
    BY <2>2 DEF Browsers, SameQueue, SameWord
  <2>6. SameQueue(s, s) /\ SameWord(s, s)
    BY DEF SameQueue, SameWord
  <2> HIDE DEF u, w
  <2> QED
    BY <2>3, <2>4, <2>5, <2>6
<1> DEFINE t == [s EXCEPT !.view[e.card] = e.value]
<1>2. t \in Browsers /\ SameQueue(t, s) /\ SameWord(t, s)
  BY ZenonT(30) DEF Changes, Cards, Held, Browsers, SameQueue, SameWord
<1> HIDE DEF t
<1>3. SeedBaselines(t) \in Browsers /\ SameQueue(SeedBaselines(t), s)
      /\ SameWord(SeedBaselines(t), s)
  BY <1>2, SeedEffect DEF SameQueue, SameWord
<1>4. ApplyField(s, e) = IF Present(s, e.card) THEN SeedBaselines(t) ELSE s
  BY DEF ApplyField, t
<1>5. SameQueue(s, s) /\ SameWord(s, s)
  BY DEF SameQueue, SameWord
<1> QED
  BY <1>1, <1>3, <1>4, <1>5 DEF ApplyEvent

LEMMA DrainEffect ==
    ASSUME NEW s \in Browsers
    PROVE  /\ Drain(s) \in Browsers
           /\ SameWord(Drain(s), s)
           /\ Drain(s).me = s.me
<1>1. CASE s.active # 0 \/ s.queue = <<>>
  BY <1>1 DEF Drain, SameWord
<1>2. CASE ~(s.active # 0 \/ s.queue = <<>>)
  <2> DEFINE m == [Head(s.queue) EXCEPT !.sequence = s.sequence + 1]
             calls == s.calls \cup {m}
             tail == Tail(s.queue)
             t == [s EXCEPT !.queue = tail, !.active = s.generation,
                            !.sequence = @ + 1, !.calls = calls]
  <2>1. s.queue \in Seq(Mutations) /\ s.calls \subseteq Mutations /\ s.sequence \in Nat
    BY DEF Browsers
  <2>2. Head(s.queue) \in Mutations /\ tail \in Seq(Mutations)
    BY <1>2, <2>1
  <2>3. calls \in SUBSET Mutations
    <3> HIDE DEF tail
    <3>1. \A h \in Mutations : \A n \in Nat : [h EXCEPT !.sequence = n] \in Mutations
      BY DEF Mutations
    <3>2. s.sequence + 1 \in Nat /\ Head(s.queue) \in Mutations
      BY <2>1, <2>2
    <3>3. m \in Mutations
      BY <3>1, <3>2, Zenon
    <3> HIDE DEF m
    <3> QED
      BY <2>1, <3>3
  <2>4. Drain(s) = t
    BY <1>2 DEF Drain
  <2>5. s.sequence + 1 \in Nat /\ s.generation \in Nat
    BY <2>1 DEF Browsers
  <2> HIDE DEF m, calls, tail
  <2>6. t \in Browsers /\ SameWord(t, s) /\ t.me = s.me
    BY <2>2, <2>3, <2>5 DEF Browsers, SameWord
  <2> QED
    BY <2>4, <2>6
<1> QED
  BY <1>1, <1>2

\* The mutations a broadcast queues.
Queued(s, due) ==
    LET order == SetToSeq({k \in due : s.view[k] # Absent})
                 \o SetToSeq({k \in due : s.view[k] = Absent})
    IN  [i \in 1..Len(order) |-> Mutation(s, order[i])]

LEMMA MutationType ==
    ASSUME NEW s \in Browsers, NEW k \in Card
    PROVE  Mutation(s, k) \in Mutations
BY DEF Mutation, Mutations, Browsers, Cards, Held, Kind

\* They are one mutation for each card that is due.
LEMMA QueuedEffect ==
    ASSUME NEW s \in Browsers, NEW due \in SUBSET Card
    PROVE  /\ Queued(s, due) \in Seq(Mutations)
           /\ \A i \in 1..Len(Queued(s, due)) :
                 \E k \in due : Queued(s, due)[i] = Mutation(s, k)
           /\ \A k \in due : \E i \in 1..Len(Queued(s, due)) :
                 Queued(s, due)[i] = Mutation(s, k)
<1> DEFINE P == {k \in due : s.view[k] # Absent}
           C == {k \in due : s.view[k] = Absent}
           p == SetToSeq(P)
           c == SetToSeq(C)
           order == p \o c
<1>1. IsFiniteSet(Card)
  BY ClientAssumption
<1>2. IsFiniteSet(P) /\ IsFiniteSet(C)
  <2>1. P \in SUBSET Card /\ C \in SUBSET Card
    OBVIOUS
  <2> HIDE DEF P, C
  <2> QED
    BY <1>1, <2>1, FS_Subset
<1>3. due = P \cup C
  OBVIOUS
<1>4. Queued(s, due) = [i \in 1..Len(order) |-> Mutation(s, order[i])]
  BY Zenon DEF Queued
<1> HIDE DEF P, C
<1>5. /\ p \in Seq(P) /\ \A x \in P : \E i \in 1..Len(p) : p[i] = x
      /\ c \in Seq(C) /\ \A x \in C : \E i \in 1..Len(c) : c[i] = x
  BY <1>2, SequenceOfSet
<1> HIDE DEF p, c
<1>6. p \in Seq(due) /\ c \in Seq(due) /\ Len(p) \in Nat /\ Len(c) \in Nat
  BY <1>3, <1>5
<1>7. /\ order \in Seq(due)
      /\ Len(order) = Len(p) + Len(c)
      /\ \A i \in 1..Len(p) : order[i] = p[i]
      /\ \A i \in 1..Len(c) : order[i + Len(p)] = c[i]
  BY <1>6
<1>8. \A k \in due : \E i \in 1..Len(order) : order[i] = k
  <2> SUFFICES ASSUME NEW k \in due
               PROVE  \E i \in 1..Len(order) : order[i] = k
    OBVIOUS
  <2> HIDE DEF order
  <2>1. CASE k \in P
    <3>1. PICK i \in 1..Len(p) : p[i] = k
      BY <1>5, <2>1
    <3>2. i \in 1..Len(order) /\ order[i] = k
      BY <1>6, <1>7, <3>1
    <3> QED
      BY <3>2
  <2>2. CASE k \in C
    <3>1. PICK i \in 1..Len(c) : c[i] = k
      BY <1>5, <2>2
    <3>2. i + Len(p) \in 1..Len(order) /\ order[i + Len(p)] = k
      BY <1>6, <1>7, <3>1
    <3> QED
      BY <3>2
  <2> QED
    BY <1>3, <2>1, <2>2
<1>9. \A i \in 1..Len(order) : order[i] \in due
  BY <1>7
<1>10. Len(order) \in Nat
  BY <1>7
<1> HIDE DEF order
<1>11. \A k \in due : Mutation(s, k) \in Mutations
  BY MutationType
<1>12. Queued(s, due) \in Seq(Mutations) /\ Len(Queued(s, due)) = Len(order)
  BY <1>4, <1>9, <1>10, <1>11
<1>13. \A i \in 1..Len(order) : Queued(s, due)[i] = Mutation(s, order[i])
  BY <1>4
<1> QED
  BY <1>8, <1>9, <1>12, <1>13

LEMMA BroadcastEffect ==
    ASSUME NEW s \in Browsers, NEW due \in SUBSET Card
    PROVE  /\ BroadcastDeltas(s, due) \in Browsers
           /\ SameWord(BroadcastDeltas(s, due), s)
           /\ BroadcastDeltas(s, due).me = s.me
<1> DEFINE q == s.queue \o Queued(s, due)
           f == [k \in Card |-> IF k \in due THEN s.generation ELSE s.inFlight[k]]
           t == [s EXCEPT !.queue = q, !.inFlight = f]
<1>1. BroadcastDeltas(s, due) = Drain(t)
  BY Zenon DEF BroadcastDeltas, Queued
<1>2. q \in Seq(Mutations)
  <2>1. s.queue \in Seq(Mutations)
    BY DEF Browsers
  <2>2. Queued(s, due) \in Seq(Mutations)
    BY QueuedEffect
  <2> QED
    BY <2>1, <2>2
<1>3. f \in [Card -> Nat]
  BY DEF Browsers
<1> HIDE DEF q, f
<1>4. t \in Browsers /\ SameWord(t, s) /\ t.me = s.me
  BY <1>2, <1>3 DEF Browsers, SameWord
<1> HIDE DEF t
<1>5. /\ Drain(t) \in Browsers /\ SameWord(Drain(t), t) /\ Drain(t).me = t.me
  BY <1>4, DrainEffect
<1> QED
  BY <1>1, <1>4, <1>5 DEF SameWord

\* The kinds of events.
LEMMA EventKinds ==
    ASSUME NEW e \in Events
    PROVE  /\ e.revision \in Nat
           /\ e.type = "snapshot" => e \in Snapshots
           /\ e.type \notin {"snapshot", "unavailable"} => e \in Changes
           /\ e.type # "init"
BY DEF Events, Changes, Snapshots, Kind

LEMMA EventEffect ==
    ASSUME NEW s \in Browsers, NEW e \in Events
    PROVE  OnEvent(s, e) \in Browsers
<1>1. CASE s.applying # None
  <2>1. OnEvent(s, e) = [s EXCEPT !.queued = Append(s.queued, e)]
    BY <1>1 DEF OnEvent
  <2>2. Append(s.queued, e) \in Seq(Events)
    BY DEF Browsers
  <2> QED
    BY <2>1, <2>2, ZenonT(30) DEF Browsers
<1>2. CASE s.applying = None /\ e.type = "snapshot"
  <2>1. OnEvent(s, e) = [ResetTracking(s) EXCEPT !.applying = e, !.overrun = FALSE]
    BY <1>2 DEF OnEvent, StartSnapshot
  <2>2. e \in Snapshots
    BY <1>2, EventKinds
  <2>3. ResetTracking(s) \in Browsers
    BY ResetEffect
  <2> QED
    BY <2>1, <2>2, <2>3, ZenonT(30) DEF Browsers
<1>3. CASE s.applying = None /\ e.type = "unavailable"
  <2>1. OnEvent(s, e) = [s EXCEPT !.gap = TRUE]
    BY <1>3 DEF OnEvent
  <2> QED
    BY <2>1, ZenonT(30) DEF Browsers
<1>4. CASE s.applying = None /\ e.type \notin {"snapshot", "unavailable"}
  <2>1. OnEvent(s, e) = Told(ApplyEvent(Observe(s, e.revision), e), e)
    BY <1>4 DEF OnEvent
  <2>2. e \in Changes
    BY <1>4, EventKinds
  <2>3. e.revision \in Nat /\ e.card \in Card /\ e.now \in Held
    BY <2>2 DEF Changes
  <2>4. Observe(s, e.revision) \in Browsers
    BY <2>3, ObserveEffect
  <2>5. ApplyEvent(Observe(s, e.revision), e) \in Browsers
    BY <2>2, <2>4, ApplyEffect
  <2>6. Told(ApplyEvent(Observe(s, e.revision), e), e) \in Browsers
    BY <2>3, <2>5, ToldEffect
  <2> QED
    BY <2>1, <2>6
<1> QED
  BY <1>1, <1>2, <1>3, <1>4

\* The state from which the queue is replayed.
Replaying(s) == [s EXCEPT !.applying = None, !.queued = <<>>]

\* A state of S after the replay of its queue is again one of S, if S is kept by
\* events of E, has nothing queued that is not of E, and says nothing of what is
\* applied, queued or left.
LEMMA ReplayQueuedStays ==
    ASSUME NEW S, NEW E, NEW s \in Browsers,
           s.queued \in Seq(E), s.later \in Seq(E), E \subseteq Events,
           Replaying(s) \in S,
           \A t \in S : \A e \in E : OnEvent(t, e) \in S
    PROVE  \E t \in S : \E left \in Seq(E) : \E over \in BOOLEAN :
               ReplayQueued(s) = Leaves(t, left, over)
<1> DEFINE u == Replaying(s)
           q == ByRevision(s.queued) \o s.later
<1>1. \A e \in E : e.revision \in Nat
  BY EventKinds
<1>2. ByRevision(s.queued) \in Seq(E)
  BY <1>1, ByRevisionStays
<1>3. q \in Seq(E)
  BY <1>2
<1>4. ReplayQueued(s) = Replay(u, q)
  BY DEF ReplayQueued, Replaying
<1> HIDE DEF u, q
<1>5. u \in S
  BY DEF u
<1> QED
  BY <1>3, <1>4, <1>5, ReplayStays

LEMMA ReplayQueuedType ==
    ASSUME NEW s \in Browsers
    PROVE  ReplayQueued(s) \in Browsers
<1>1. s.queued \in Seq(Events) /\ s.later \in Seq(Events)
  BY DEF Browsers
<1>2. Replaying(s) \in Browsers
  <2>1. <<>> \in Seq(Events)
    OBVIOUS
  <2> QED
    BY <2>1 DEF Browsers, Replaying
<1>3. \A t \in Browsers : \A e \in Events : OnEvent(t, e) \in Browsers
  BY EventEffect
<1>4. Events \subseteq Events
  OBVIOUS
<1>5. \E t \in Browsers : \E left \in Seq(Events) : \E over \in BOOLEAN :
          ReplayQueued(s) = Leaves(t, left, over)
  BY <1>1, <1>2, <1>3, <1>4, ReplayQueuedStays, ZenonT(30)
<1>6. PICK t \in Browsers, left \in Seq(Events), over \in BOOLEAN :
          ReplayQueued(s) = Leaves(t, left, over)
  BY <1>5
<1> QED
  BY <1>6, ZenonT(30) DEF Browsers, Leaves

LEMMA AfterSnapshotEffect ==
    ASSUME NEW s \in Browsers, NEW e \in Snapshots
    PROVE  /\ AfterSnapshot(s, e) \in Browsers
           /\ SameQueue(AfterSnapshot(s, e), s)
           /\ AfterSnapshot(s, e).queued = s.queued
           /\ AfterSnapshot(s, e).later = s.later
           /\ AfterSnapshot(s, e).instance = s.instance
<1> DEFINE f == [k \in Card |-> IF e.instance # s.instance \/ e.revision < s.told[k].revision
                               THEN s.told[k]
                               ELSE [value |-> e.payload[k], revision |-> e.revision]]
           n == IF e.instance = s.instance THEN e.revision ELSE 0
           t == [s EXCEPT !.applying = None, !.recover = FALSE, !.resume = None, !.dirty = FALSE,
                          !.awaiting = FALSE, !.latest = e.revision, !.presence = e.revision,
                          !.gap = FALSE,
                          !.since = n, !.told = f]
<1>1. f \in [Card -> [value : Held, revision : Nat]]
  BY DEF Browsers, Snapshots, Cards, Held
<1>2. n \in Nat /\ e.revision \in Nat
  BY DEF Snapshots
<1>3. AfterSnapshot(s, e) = t
  BY DEF AfterSnapshot
<1> HIDE DEF f, n
<1>4. /\ t \in Browsers /\ SameQueue(t, s) /\ t.queued = s.queued
      /\ t.later = s.later /\ t.instance = s.instance
  BY <1>1, <1>2, ZenonT(30) DEF Browsers, SameQueue
<1> QED
  BY <1>3, <1>4

\* The snapshot on the canvas; the queue is left alone, or thrown away and filled
\* anew.
LEMMA ApplySnapshotEffect ==
    ASSUME NEW c \in Client, NEW s \in Browsers, NEW e \in Snapshots
    PROVE  /\ ApplySnapshot(c, s, e) \in Browsers
           /\ SameWord(ApplySnapshot(c, s, e), AfterSnapshot(s, e))
           /\ ApplySnapshot(c, s, e).me = s.me
<1> DEFINE a == AfterSnapshot(s, e)
           b == [a EXCEPT !.base = e.payload]
           t == ResetTracking(b)
           known == {k \in Card : e.payload[k] # Absent}
           u == [a EXCEPT !.view = e.payload, !.adrift = {}, !.known = known]
<1>1. a \in Browsers /\ a.me = s.me
  BY AfterSnapshotEffect DEF SameQueue
<1>2. e.payload \in Cards
  BY DEF Snapshots
<1>3. ApplySnapshot(c, s, e) = IF Resumes(c, s, e) THEN BroadcastDeltas(t, Unsent(t))
                               ELSE SeedBaselines(u)
  BY DEF ApplySnapshot
<1>0. known \in SUBSET Card /\ {} \in SUBSET Card
  OBVIOUS
<1> HIDE DEF a, known
<1>4. b \in Browsers /\ SameWord(b, a) /\ b.me = a.me
  BY <1>1, <1>2 DEF Browsers, SameWord
<1>5. u \in Browsers /\ SameWord(u, a) /\ u.me = a.me
  BY <1>1, <1>2, <1>0 DEF Browsers, SameWord
<1> HIDE DEF b, u
<1>6. t \in Browsers /\ SameWord(t, b) /\ t.me = b.me
  BY <1>4, ResetEffect
<1> HIDE DEF t
<1>7. Unsent(t) \in SUBSET Card
  BY DEF Unsent
<1>8. /\ BroadcastDeltas(t, Unsent(t)) \in Browsers
      /\ SameWord(BroadcastDeltas(t, Unsent(t)), t)
      /\ BroadcastDeltas(t, Unsent(t)).me = t.me
  BY <1>6, <1>7, BroadcastEffect
<1>9. SeedBaselines(u) \in Browsers /\ SameWord(SeedBaselines(u), u) /\ SameQueue(SeedBaselines(u), u)
  BY <1>5, SeedEffect
<1> QED
  BY <1>1, <1>3, <1>4, <1>5, <1>6, <1>8, <1>9 DEF SameWord, SameQueue, a

LEMMA InitEffect ==
    ASSUME NEW c \in Client, NEW s \in Browsers, NEW e \in Inits
    PROVE  /\ OnInit(c, s, e) \in Browsers
           /\ OnInit(c, s, e).me = e.conn
           /\ SameQueue([OnInit(c, s, e) EXCEPT !.me = s.me], s)
<1> DEFINE told == IF e.instance = s.instance THEN s.told ELSE NothingTold
           rec == c \in Owner /\ s.instance \notin {0, e.instance}
           gap == e.revision > e.durable
           t == [s EXCEPT !.me = e.conn, !.instance = e.instance, !.recover = rec,
                          !.latest = e.durable, !.gap = gap, !.awaiting = TRUE, !.told = told]
<1>1. told \in [Card -> [value : Held, revision : Nat]]
  BY DEF Browsers, NothingTold, Held
<1>2. /\ e.conn \in Nat /\ e.instance \in Nat /\ e.durable \in Nat
      /\ rec \in BOOLEAN /\ gap \in BOOLEAN
  BY DEF Inits
<1>3. OnInit(c, s, e) = SeedBaselines(t)
  BY DEF OnInit
<1> HIDE DEF told, rec, gap
<1>4. t \in Browsers /\ t.me = e.conn /\ SameQueue([t EXCEPT !.me = s.me], s)
  BY <1>1, <1>2, ZenonT(30) DEF Browsers, SameQueue
<1> HIDE DEF t
<1>5. SeedBaselines(t) \in Browsers /\ SameQueue(SeedBaselines(t), t)
  BY <1>4, SeedEffect
<1> QED
  BY <1>3, <1>4, <1>5, ZenonT(30) DEF SameQueue, Browsers

LEMMA AcceptedEffect ==
    ASSUME NEW s \in Browsers, NEW a \in Answers
    PROVE  /\ Accepted(s, a) \in Browsers
           /\ SameQueue(Accepted(s, a), s)
           /\ SameWord(Accepted(s, a), Told(Observe(s, a.revision), a))
<1> DEFINE t == Told(Observe(s, a.revision), a)
<1>1. a.revision \in Nat /\ a.card \in Card /\ a.now \in Held /\ a.value \in Held
  BY DEF Answers
<1>2. Observe(s, a.revision) \in Browsers /\ SameQueue(Observe(s, a.revision), s)
  BY <1>1, ObserveEffect
<1>3. t \in Browsers /\ SameQueue(t, s)
  BY <1>1, <1>2, ToldEffect DEF SameQueue
<1>4. Accepted(s, a) = [t EXCEPT !.base[a.card] = a.value, !.failed = @ \ {a.card}]
  BY DEF Accepted
<1> HIDE DEF t
<1>5. t.base \in Cards /\ t.failed \in SUBSET Card
  BY <1>3 DEF Browsers
<1> DEFINE base == [t.base EXCEPT ![a.card] = a.value]
           failed == t.failed \ {a.card}
<1>6. base \in Cards /\ failed \in SUBSET Card
  BY <1>1, <1>5 DEF Cards, Held
<1>7. Accepted(s, a) = [t EXCEPT !.base = base, !.failed = failed]
  BY <1>3, <1>4 DEF Browsers
<1> DEFINE u == [t EXCEPT !.base = base, !.failed = failed]
<1> HIDE DEF base, failed
<1>8. u \in Browsers
  BY <1>3, <1>6 DEF Browsers
<1>9. SameQueue(u, t) /\ SameWord(u, t)
  BY <1>3 DEF SameQueue, SameWord, Browsers
<1>10. Accepted(s, a) = u
  BY <1>7
<1> HIDE DEF u
<1> QED
  BY <1>3, <1>8, <1>9, <1>10 DEF SameQueue, t

LEMMA RefusedEffect ==
    ASSUME NEW s \in Browsers, NEW a \in Answers
    PROVE  /\ Refused(s, a) \in Browsers
           /\ SameQueue(Refused(s, a), s)
           /\ SameWord(Refused(s, a), s)
<1>1. a.card \in Card
  BY DEF Answers
<1> QED
  BY <1>1 DEF Refused, Browsers, SameQueue, SameWord

\* The state in which the answer a is no longer counted on.
Released(s, a) == [s EXCEPT !.inFlight[a.card] = IF @ = a.generation THEN 0 ELSE @]

LEMMA ReleasedEffect ==
    ASSUME NEW s \in Browsers, NEW a \in Answers
    PROVE  /\ Released(s, a) \in Browsers
           /\ SameWord(Released(s, a), s)
           /\ Released(s, a).me = s.me
           /\ SameQueue([Released(s, a) EXCEPT !.inFlight = s.inFlight], s)
           /\ Released(s, a).inFlight =
                 [k \in Card |-> IF k = a.card /\ s.inFlight[k] = a.generation THEN 0
                                 ELSE s.inFlight[k]]
<1> DEFINE f == [k \in Card |-> IF k = a.card /\ s.inFlight[k] = a.generation THEN 0
                                 ELSE s.inFlight[k]]
<1>1. s.inFlight \in [Card -> Nat] /\ a.card \in Card
  BY DEF Answers, Browsers
<1>2. f \in [Card -> Nat]
  BY <1>1
<1>3. [s.inFlight EXCEPT ![a.card] = IF @ = a.generation THEN 0 ELSE @] = f
  BY <1>1
<1>4. Released(s, a) = [s EXCEPT !.inFlight = f]
  BY <1>3 DEF Released, Browsers
<1> HIDE DEF f
<1>5. [s EXCEPT !.inFlight = f] \in Browsers
  BY <1>2 DEF Browsers
<1> QED
  BY <1>4, <1>5, ZenonT(30) DEF Browsers, SameWord, SameQueue, f

LEMMA FinishedEffect ==
    ASSUME NEW s \in Browsers, NEW a \in Answers
    PROVE  /\ Finished(s, a) \in Browsers
           /\ SameWord(Finished(s, a), s)
           /\ Finished(s, a).me = s.me
           /\ Finished(s, a) = IF s.active = a.generation
                               THEN Drain([Released(s, a) EXCEPT !.active = 0])
                               ELSE Released(s, a)
<1> DEFINE t == Released(s, a)
           u == [t EXCEPT !.active = 0]
<1>1. Finished(s, a) = IF s.active = a.generation THEN Drain(u) ELSE t
  BY DEF Finished, Released
<1>2. t \in Browsers /\ SameWord(t, s) /\ t.me = s.me
  BY ReleasedEffect
<1> HIDE DEF t
<1>3. u \in Browsers /\ SameWord(u, s) /\ u.me = s.me
  BY <1>2 DEF Browsers, SameWord
<1> HIDE DEF u
<1>4. Drain(u) \in Browsers /\ SameWord(Drain(u), u) /\ Drain(u).me = u.me
  BY <1>3, DrainEffect
<1> QED
  BY <1>1, <1>2, <1>3, <1>4 DEF SameWord, t, u

\* The state of a browser whose user changed card k.
Edited(s, k, v) == [s EXCEPT !.view[k] = v, !.wrote = TRUE,
                             !.known = IF v = Absent THEN @ ELSE @ \cup {k}]

LEMMA EditedEffect ==
    ASSUME NEW s \in Browsers, NEW k \in Card, NEW v \in Value \cup {Absent}
    PROVE  /\ Edited(s, k, v) \in Browsers
           /\ SameQueue(Edited(s, k, v), s)
           /\ SameWord(Edited(s, k, v), s)
           /\ Edited(s, k, v).wrote = TRUE
<1> DEFINE view == [s.view EXCEPT ![k] = v]
           known == IF v = Absent THEN s.known ELSE s.known \cup {k}
           t == [s EXCEPT !.view = view, !.wrote = TRUE, !.known = known]
<1>1. view \in Cards /\ known \in SUBSET Card
  BY DEF Browsers, Cards
<1>2. Edited(s, k, v) = t
  BY DEF Edited, Browsers
<1> HIDE DEF view, known
<1>3. t \in Browsers
  BY <1>1 DEF Browsers
<1>4. SameQueue(t, s) /\ SameWord(t, s) /\ t.wrote = TRUE
  BY DEF Browsers, SameQueue, SameWord
<1> QED
  BY <1>2, <1>3, <1>4

\* In t the creation e that s waited for is over, its card shown as v.
Fetched(t, s, e, v) ==
    /\ t.creating = s.creating \ {e}
    /\ t.view = [s.view EXCEPT ![e.card] = v]
    /\ t.adrift = IF LastTold(s, e.card, v) THEN s.adrift ELSE s.adrift \cup {e.card}
    /\ t.recover = s.recover /\ t.dirty = s.dirty /\ t.overrun = s.overrun

\* The card was not created, or created with its value as the baseline.
Dropped(t, s) == t.base = s.base /\ (t.wrote <=> s.wrote)
Seeded(t, s, e) ==
    /\ t.base = [s.base EXCEPT ![e.card] = e.value]
    /\ (t.wrote <=> s.wrote \/ Present(s, e.card))

\* The fetch behind a creation ends: what is shown changes, no queue and no word.
LEMMA ConcludedEffect ==
    ASSUME NEW s \in Browsers, NEW e \in s.creating, NEW v \in Held
    PROVE  /\ e \in Changes
           /\ Concluded(s, e, v) \in Browsers
           /\ SameQueue(Concluded(s, e, v), s)
           /\ SameWord(Concluded(s, e, v), s)
           /\ Fetched(Concluded(s, e, v), s, e, v)
           /\ Dropped(Concluded(s, e, v), s)
<1> DEFINE creating == s.creating \ {e}
           view == [s.view EXCEPT ![e.card] = v]
           adrift == IF LastTold(s, e.card, v) THEN s.adrift ELSE s.adrift \cup {e.card}
           t == [s EXCEPT !.creating = creating, !.view = view, !.adrift = adrift]
<1>1. e \in Changes /\ e.card \in Card
  BY DEF Browsers, Changes
<1>2. creating \in SUBSET Changes /\ view \in Cards /\ adrift \in SUBSET Card
  BY <1>1 DEF Browsers, Cards, Held
<1>3. Concluded(s, e, v) = t
  BY DEF Concluded, Browsers
<1> HIDE DEF creating, view, adrift
<1>4. t \in Browsers
  BY <1>2 DEF Browsers
<1>5. SameQueue(t, s) /\ SameWord(t, s)
  BY DEF Browsers, SameQueue, SameWord
<1>6. /\ t.creating = creating /\ t.view = view /\ t.adrift = adrift /\ t.base = s.base
      /\ t.wrote = s.wrote /\ t.recover = s.recover /\ t.dirty = s.dirty
      /\ t.overrun = s.overrun
  BY DEF Browsers
<1>7. Fetched(t, s, e, v) /\ Dropped(t, s)
  <2> HIDE DEF t
  <2> QED
    BY <1>6 DEF Fetched, Dropped, creating, view, adrift
<1> HIDE DEF t
<1> QED
  BY <1>1, <1>3, <1>4, <1>5, <1>7

LEMMA CreatedEffect ==
    ASSUME NEW s \in Browsers, NEW e \in s.creating, NEW v \in Held
    PROVE  /\ Created(s, e, v) \in Browsers
           /\ SameQueue(Created(s, e, v), s)
           /\ SameWord(Created(s, e, v), s)
           /\ Fetched(Created(s, e, v), s, e, v)
           /\ Seeded(Created(s, e, v), s, e)
<1> DEFINE creating == s.creating \ {e}
           view == [s.view EXCEPT ![e.card] = v]
           adrift == IF LastTold(s, e.card, v) THEN s.adrift ELSE s.adrift \cup {e.card}
           base == [s.base EXCEPT ![e.card] = e.value]
           known == s.known \cup {e.card}
           wrote == s.wrote \/ Present(s, e.card)
           t == [s EXCEPT !.creating = creating, !.view = view, !.adrift = adrift,
                          !.base = base, !.known = known, !.wrote = wrote]
<1>1. e.card \in Card /\ e.value \in Held /\ s.wrote \in BOOLEAN
  BY DEF Browsers, Changes
<1>2. creating \in SUBSET Changes /\ view \in Cards /\ adrift \in SUBSET Card
  BY <1>1 DEF Browsers, Cards, Held
<1>3. base \in Cards /\ known \in SUBSET Card /\ wrote \in BOOLEAN
  BY <1>1 DEF Browsers, Cards, Held, Present
<1>4. Created(s, e, v) = t
  BY DEF Created, Concluded, Browsers
<1>5. wrote <=> s.wrote \/ Present(s, e.card)
  OBVIOUS
<1> HIDE DEF creating, view, adrift, base, known, wrote
<1>6. t \in Browsers
  BY <1>2, <1>3 DEF Browsers
<1>7. SameQueue(t, s) /\ SameWord(t, s)
  BY DEF Browsers, SameQueue, SameWord
<1>8. /\ t.creating = creating /\ t.view = view /\ t.adrift = adrift /\ t.base = base
      /\ t.wrote = wrote /\ t.recover = s.recover /\ t.dirty = s.dirty
      /\ t.overrun = s.overrun
  BY DEF Browsers
<1>9. Fetched(t, s, e, v) /\ Seeded(t, s, e)
  <2> HIDE DEF t
  <2> QED
    BY <1>5, <1>8 DEF Fetched, Seeded, creating, view, adrift, base
<1> HIDE DEF t
<1> QED
  BY <1>4, <1>6, <1>7, <1>9

-----------------------------------------------------------------------------
(* Type correctness.                                                         *)

LEMMA BecomesType ==
    ASSUME TypeOK, NEW c \in Client, NEW s \in Browsers, Becomes(c, s)
    PROVE  client' \in [Client -> Browsers]
BY DEF TypeOK, Becomes

LEMMA ClientType ==
    ASSUME TypeOK, NEW c \in Client
    PROVE  client[c] \in Browsers
BY DEF TypeOK

LEMMA InitType ==
    ASSUME Init
    PROVE  TypeOK
<1>1. \A g \in Nat : Fresh(Stored, g) \in Browsers
  <2>1. <<>> \in Seq(Events) /\ <<>> \in Seq(Mutations)
    OBVIOUS
  <2>2. NoCards \in Cards /\ NothingTold \in [Card -> [value : Held, revision : Nat]]
    BY DEF NoCards, NothingTold, Cards, Held
  <2>3. Stored \in Cards
    BY StoredAssumption
  <2> QED
    BY <2>1, <2>2, <2>3 DEF Fresh, Browsers
<1>2. client \in [Client -> Browsers]
  BY <1>1 DEF Init
<1>3. held \in [Client -> Seq(Changes)] /\ stream \in [Client -> Seq(Events \cup Inits)]
  BY DEF Init
<1> QED
  BY <1>2, <1>3, StoredAssumption, BoundAssumption DEF Init, TypeOK

LEMMA ReceiveType ==
    ASSUME TypeOK, NEW c \in Client, Receive(c)
    PROVE  TypeOK'
<1> DEFINE e == Head(stream[c])
           s == client[c]
           t == IF e.type = "init" THEN OnInit(c, s, e) ELSE OnEvent(s, e)
<1>1. stream[c] \in Seq(Events \cup Inits) /\ stream[c] # <<>>
  BY DEF TypeOK, Receive
<1>2. e \in Events \cup Inits /\ Tail(stream[c]) \in Seq(Events \cup Inits)
  BY <1>1
<1>3. s \in Browsers
  BY ClientType
<1>4. Becomes(c, t)
  BY DEF Receive
<1> HIDE DEF e, s
<1>5. t \in Browsers
  <2>1. CASE e.type = "init"
    <3>1. e \in Inits
      BY <1>2, <2>1, EventKinds
    <3> QED
      BY <1>3, <2>1, <3>1, InitEffect
  <2>2. CASE e.type # "init"
    <3>1. e \in Events
      BY <1>2, <2>2 DEF Inits
    <3> QED
      BY <1>3, <2>2, <3>1, EventEffect
  <2> QED
    BY <2>1, <2>2
<1> HIDE DEF t
<1>6. client' \in [Client -> Browsers]
  BY <1>4, <1>5, BecomesType
<1>7. stream' \in [Client -> Seq(Events \cup Inits)]
  BY <1>2 DEF Receive, TypeOK
<1> QED
  BY <1>6, <1>7 DEF Receive, TypeOK, serverVars, counters

LEMMA SnapshotStepType ==
    ASSUME TypeOK, NEW c \in Client, FinishSnapshot(c) \/ FailSnapshot(c)
    PROVE  TypeOK'
<1> DEFINE s == client[c]
<1>1. s \in Browsers
  BY ClientType
<1>2. CASE FinishSnapshot(c)
  <2>1. s.applying \in Snapshots
    BY <1>1, <1>2 DEF FinishSnapshot, Browsers
  <2>2. ApplySnapshot(c, s, s.applying) \in Browsers
    BY <1>1, <2>1, ApplySnapshotEffect
  <2>3. ReplayQueued(ApplySnapshot(c, s, s.applying)) \in Browsers
    BY <2>2, ReplayQueuedType
  <2>4. client' \in [Client -> Browsers]
    BY <1>2, <2>3, BecomesType DEF FinishSnapshot
  <2> QED
    BY <1>2, <2>4 DEF FinishSnapshot, TypeOK, serverVars, counters
<1>3. CASE FailSnapshot(c)
  <2>1. [s EXCEPT !.gap = TRUE, !.awaiting = TRUE] \in Browsers
    BY <1>1 DEF Browsers
  <2>2. ReplayQueued([s EXCEPT !.gap = TRUE, !.awaiting = TRUE]) \in Browsers
    BY <2>1, ReplayQueuedType
  <2>3. client' \in [Client -> Browsers]
    BY <1>3, <2>2, BecomesType DEF FailSnapshot
  <2>4. faults' \in Nat
    BY <1>3 DEF FailSnapshot, Fault, TypeOK
  <2> QED
    BY <1>3, <2>3, <2>4 DEF FailSnapshot, TypeOK, serverVars
<1> QED
  BY <1>2, <1>3

LEMMA EditType ==
    ASSUME TypeOK, NEW c \in Client, NEW k \in Card, NEW v \in Value \cup {Absent},
           Edit(c, k, v)
    PROVE  TypeOK'
<1>1. client[c] \in Browsers
  BY ClientType
<1>2. Edited(client[c], k, v) \in Browsers
  BY <1>1, EditedEffect
<1>3. client' \in [Client -> Browsers]
  BY <1>2, BecomesType DEF Edit, Edited
<1>4. edits' \in Nat
  BY DEF Edit, TypeOK
<1> QED
  BY <1>3, <1>4 DEF Edit, TypeOK, serverVars

\* The end of a fetch changes one browser, and neither its queue nor its word.
LEMMA FetchEffect ==
    ASSUME TypeOK, NEW c \in Client, NEW e \in client[c].creating,
           FetchFail(c, e) \/ \E v \in Value \cup {Absent} : FetchDone(c, e, v)
    PROVE  \E t \in Browsers :
               /\ Becomes(c, t) /\ SameQueue(t, client[c]) /\ SameWord(t, client[c])
               /\ UNCHANGED <<serverVars, stream, edits, conns>> /\ faults' \in Nat
<1>1. client[c] \in Browsers
  BY ClientType
<1>2. CASE FetchFail(c, e)
  <2>1. client[c].view[e.card] \in Held
    BY <1>1 DEF Browsers, Cards, Changes, Held
  <2>2. faults' \in Nat
    BY <1>2 DEF FetchFail, Fault, TypeOK
  <2> DEFINE t == Concluded(client[c], e, client[c].view[e.card])
  <2>3. t \in Browsers /\ SameQueue(t, client[c]) /\ SameWord(t, client[c])
    BY <1>1, <2>1, ConcludedEffect
  <2>4. Becomes(c, t) /\ UNCHANGED <<serverVars, stream, edits, conns>>
    BY <1>2 DEF FetchFail
  <2> HIDE DEF t
  <2> QED
    BY <2>2, <2>3, <2>4
<1>3. CASE \E v \in Value \cup {Absent} : FetchDone(c, e, v)
  <2>1. PICK v \in Value \cup {Absent} : FetchDone(c, e, v)
    BY <1>3
  <2>2. v \in Held
    BY DEF Held
  <2> DEFINE t == Created(client[c], e, v)
  <2>3. t \in Browsers /\ SameQueue(t, client[c]) /\ SameWord(t, client[c])
    BY <1>1, <2>2, CreatedEffect
  <2>4. Becomes(c, t) /\ UNCHANGED <<serverVars, stream, edits, conns>> /\ faults' \in Nat
    BY <2>1 DEF FetchDone, counters, TypeOK
  <2> HIDE DEF t
  <2> QED
    BY <2>3, <2>4
<1> QED
  BY <1>2, <1>3

LEMMA FetchType ==
    ASSUME TypeOK, NEW c \in Client, NEW e \in client[c].creating,
           FetchFail(c, e) \/ \E v \in Value \cup {Absent} : FetchDone(c, e, v)
    PROVE  TypeOK'
<1>1. PICK t \in Browsers :
          Becomes(c, t) /\ UNCHANGED <<serverVars, stream, edits, conns>> /\ faults' \in Nat
  BY FetchEffect
<1>2. client' \in [Client -> Browsers]
  BY <1>1, BecomesType
<1> QED
  BY <1>1, <1>2 DEF TypeOK, serverVars

LEMMA TickType ==
    ASSUME TypeOK, NEW c \in Client, NEW early \in SUBSET Card, Tick(c, early)
    PROVE  TypeOK'
<1> DEFINE due == Unsent(client[c]) \ early
<1>1. client[c] \in Browsers
  BY ClientType
<1>2. due \in SUBSET Card
  BY DEF Unsent
<1>3. Becomes(c, BroadcastDeltas(client[c], due))
  BY DEF Tick
<1> HIDE DEF due
<1>4. BroadcastDeltas(client[c], due) \in Browsers
  BY <1>1, <1>2, BroadcastEffect
<1>5. client' \in [Client -> Browsers]
  BY <1>3, <1>4, BecomesType
<1> QED
  BY <1>5 DEF Tick, TypeOK, serverVars, counters

\* The state of a browser that has taken the answer a.
Heard(s, a) == [s EXCEPT !.answers = @ \ {a}]

LEMMA HeardEffect ==
    ASSUME NEW s \in Browsers, NEW a \in s.answers
    PROVE  /\ a \in Answers
           /\ Heard(s, a) \in Browsers
           /\ SameQueue([Heard(s, a) EXCEPT !.answers = s.answers], s)
           /\ SameWord([Heard(s, a) EXCEPT !.answers = s.answers], s)
           /\ Heard(s, a).answers = s.answers \ {a}
<1>1. s.answers \in SUBSET Answers
  BY DEF Browsers
<1> DEFINE rest == s.answers \ {a}
<1>2. rest \in SUBSET Answers
  BY <1>1
<1>3. Heard(s, a) = [s EXCEPT !.answers = rest]
  BY DEF Heard
<1> HIDE DEF rest
<1>4. [s EXCEPT !.answers = rest] \in Browsers
  BY <1>2 DEF Browsers
<1> QED
  BY <1>1, <1>3, <1>4, ZenonT(30) DEF Browsers, SameWord, SameQueue, rest

\* What an answer to a mutation makes of the browser, before its queue moves on.
Learned(s, a) ==
    IF a.generation # s.generation THEN s ELSE IF a.ok THEN Accepted(s, a) ELSE Refused(s, a)

LEMMA LearnedEffect ==
    ASSUME NEW s \in Browsers, NEW a \in Answers
    PROVE  /\ Learned(s, a) \in Browsers
           /\ SameQueue(Learned(s, a), s)
           /\ SameWord(Learned(s, a), s) \/ (a.ok /\ SameWord(Learned(s, a), Told(Observe(s, a.revision), a)))
BY AcceptedEffect, RefusedEffect, SMTT(30) DEF Learned, SameQueue, SameWord

LEMMA AnswerType ==
    ASSUME TypeOK, NEW c \in Client, NEW a \in client[c].answers, Answer(c, a)
    PROVE  TypeOK'
<1> DEFINE s == Heard(client[c], a)
           t == Learned(s, a)
<1>1. s \in Browsers /\ a \in Answers
  BY ClientType, HeardEffect
<1>2. Becomes(c, Finished(t, a))
  BY DEF Answer, Heard, Learned
<1> HIDE DEF s
<1>3. t \in Browsers
  BY <1>1, LearnedEffect
<1> HIDE DEF t
<1>4. Finished(t, a) \in Browsers
  BY <1>1, <1>3, FinishedEffect
<1>5. client' \in [Client -> Browsers]
  BY <1>2, <1>4, BecomesType
<1> QED
  BY <1>5 DEF Answer, TypeOK, serverVars, counters

LEMMA CommitFieldType ==
    ASSUME TypeOK, NEW c \in Client, NEW k \in Card, NEW v \in Value, CommitField(c, k, v)
    PROVE  TypeOK'
<1> DEFINE s == client[c]
           m == [type |-> "field", card |-> k, value |-> v, conn |-> s.me, sequence |-> 0,
                 generation |-> s.generation]
           calls == s.calls \cup {m}
<1>1. s \in Browsers
  BY ClientType
<1>2. m \in Mutations
  BY <1>1 DEF Browsers, Mutations, Held, Kind
<1>3. Becomes(c, [s EXCEPT !.wrote = TRUE, !.calls = @ \cup {m}])
  BY Zenon DEF CommitField
<1> HIDE DEF m
<1>4. calls \in SUBSET Mutations
  BY <1>1, <1>2 DEF Browsers
<1>5. Becomes(c, [s EXCEPT !.wrote = TRUE, !.calls = calls])
  BY <1>1, <1>3 DEF Browsers
<1> HIDE DEF calls
<1>6. [s EXCEPT !.wrote = TRUE, !.calls = calls] \in Browsers
  BY <1>1, <1>4 DEF Browsers
<1>7. client' \in [Client -> Browsers]
  BY <1>5, <1>6, BecomesType
<1>8. edits' \in Nat /\ lease' \in [Card -> Client \cup {None}]
  BY DEF CommitField, TypeOK
<1> QED
  BY <1>7, <1>8, SMTT(30) DEF CommitField, TypeOK

\* What a field commit's answer makes of the browser.
Committed(s, a) ==
    LET t == IF Present(s, a.card) THEN [s EXCEPT !.view[a.card] = a.value] ELSE s
    IN  IF a.ok THEN SeedBaselines(Told(Observe(t, a.revision), a)) ELSE s

LEMMA CommittedEffect ==
    ASSUME NEW s \in Browsers, NEW a \in Answers
    PROVE  /\ Committed(s, a) \in Browsers
           /\ SameQueue(Committed(s, a), s)
           /\ a.ok => \E t \in Browsers : /\ SameWord(t, s) /\ t.me = s.me
                                          /\ SameWord(Committed(s, a), Told(Observe(t, a.revision), a))
           /\ ~a.ok => SameWord(Committed(s, a), s)
<1> DEFINE t == IF Present(s, a.card) THEN [s EXCEPT !.view[a.card] = a.value] ELSE s
           u == Told(Observe(t, a.revision), a)
<1>1. a.revision \in Nat /\ a.card \in Card /\ a.now \in Held /\ a.value \in Held /\ a.ok \in BOOLEAN
  BY DEF Answers
<1>2. t \in Browsers /\ SameQueue(t, s) /\ SameWord(t, s) /\ t.me = s.me
  BY <1>1, ZenonT(30) DEF Browsers, Cards, Held, SameQueue, SameWord
<1>3. Committed(s, a) = IF a.ok THEN SeedBaselines(u) ELSE s
  BY DEF Committed
<1> HIDE DEF t
<1>4. Observe(t, a.revision) \in Browsers /\ SameQueue(Observe(t, a.revision), t)
  BY <1>1, <1>2, ObserveEffect
<1>5. u \in Browsers /\ SameQueue(u, Observe(t, a.revision))
  BY <1>1, <1>4, ToldEffect
<1>6. SeedBaselines(u) \in Browsers /\ SameQueue(SeedBaselines(u), u) /\ SameWord(SeedBaselines(u), u)
  BY <1>5, SeedEffect
<1>7. SameQueue(SeedBaselines(u), s)
  BY <1>2, <1>4, <1>5, <1>6 DEF SameQueue
<1>8. SameQueue(s, s) /\ SameWord(s, s)
  BY DEF SameQueue, SameWord
<1>9. CASE a.ok
  BY <1>2, <1>3, <1>6, <1>7, <1>9
<1>10. CASE ~a.ok
  BY <1>3, <1>8, <1>10
<1> QED
  BY <1>9, <1>10

LEMMA AnswerFieldType ==
    ASSUME TypeOK, NEW c \in Client, NEW a \in client[c].answers, AnswerField(c, a)
    PROVE  TypeOK'
<1> DEFINE s == Heard(client[c], a)
<1>1. s \in Browsers /\ a \in Answers
  BY ClientType, HeardEffect
<1>2. Becomes(c, Committed(s, a))
  BY DEF AnswerField, Heard, Committed
<1> HIDE DEF s
<1>3. Committed(s, a) \in Browsers
  BY <1>1, CommittedEffect
<1>4. client' \in [Client -> Browsers]
  BY <1>2, <1>3, BecomesType
<1> QED
  BY <1>4 DEF AnswerField, TypeOK, serverVars, counters

LEMMA MutatedType ==
    ASSUME TypeOK, NEW m \in Mutations
    PROVE  /\ Mutated(m) \in Cards
           /\ m.card \in Card
           /\ Mutated(m) = [live EXCEPT ![m.card] = Mutated(m)[m.card]]
<1>1. live \in Cards /\ m.card \in Card /\ m.value \in Held
  BY DEF TypeOK, Mutations
<1> QED
  BY <1>1 DEF Mutated, Written, Cards, Held

\* The answer to the call m.
AnswerTo(m, ok, r) ==
    [type |-> m.type, instance |-> instance, card |-> m.card, value |-> m.value,
     now |-> Mutated(m)[m.card], generation |-> m.generation, sequence |-> m.sequence,
     ok |-> ok, revision |-> r]

\* The state of a browser whose call m was answered with a.
Replied(s, m, a) == [s EXCEPT !.calls = @ \ {m}, !.answers = @ \cup {a}]

LEMMA AnswerToType ==
    ASSUME TypeOK, NEW m \in Mutations, NEW ok \in BOOLEAN, NEW r \in Nat
    PROVE  AnswerTo(m, ok, r) \in Answers
<1>1. Mutated(m)[m.card] \in Held
  BY MutatedType DEF Cards, Held
<1>2. instance \in Nat
  BY DEF TypeOK
<1> QED
  BY <1>1, <1>2 DEF AnswerTo, Answers, Mutations

LEMMA RepliedEffect ==
    ASSUME NEW s \in Browsers, NEW m \in s.calls, NEW a \in Answers
    PROVE  /\ m \in Mutations
           /\ Replied(s, m, a) \in Browsers
           /\ SameQueue([Replied(s, m, a) EXCEPT !.calls = s.calls, !.answers = s.answers], s)
           /\ SameWord([Replied(s, m, a) EXCEPT !.answers = s.answers], s)
           /\ Replied(s, m, a).calls = s.calls \ {m}
           /\ Replied(s, m, a).answers = s.answers \cup {a}
<1> DEFINE calls == s.calls \ {m}
           answers == s.answers \cup {a}
<1>1. s.calls \in SUBSET Mutations /\ s.answers \in SUBSET Answers
  BY DEF Browsers
<1>2. calls \in SUBSET Mutations /\ answers \in SUBSET Answers
  BY <1>1
<1>3. Replied(s, m, a) = [s EXCEPT !.calls = calls, !.answers = answers]
  BY DEF Replied, Browsers
<1>4. m \in Mutations
  BY <1>1
<1> HIDE DEF calls, answers
<1>5. [s EXCEPT !.calls = calls, !.answers = answers] \in Browsers
  BY <1>2 DEF Browsers
<1> QED
  BY <1>3, <1>4, <1>5, SMTT(30) DEF Browsers, SameWord, SameQueue, calls, answers

\* A reply concerns the browser that called.
LEMMA ReplyEffect ==
    ASSUME TypeOK, NEW c \in Client, NEW m \in client[c].calls, NEW ok \in BOOLEAN,
           NEW r \in Nat, Reply(c, m, ok, r)
    PROVE  /\ Becomes(c, Replied(client[c], m, AnswerTo(m, ok, r)))
           /\ AnswerTo(m, ok, r) \in Answers
           /\ client' \in [Client -> Browsers]
<1>1. client[c] \in Browsers
  BY ClientType
<1>2. m \in Mutations
  BY <1>1 DEF Browsers
<1>3. Becomes(c, Replied(client[c], m, AnswerTo(m, ok, r)))
  BY DEF Reply, Replied, AnswerTo
<1>4. AnswerTo(m, ok, r) \in Answers
  BY <1>2, AnswerToType
<1>5. Replied(client[c], m, AnswerTo(m, ok, r)) \in Browsers
  BY <1>1, <1>4, RepliedEffect
<1> QED
  BY <1>3, <1>4, <1>5, BecomesType

LEMMA EventType ==
    ASSUME TypeOK, NEW m \in Mutations
    PROVE  Event(m) \in Changes
<1>1. Mutated(m)[m.card] \in Held
  BY MutatedType DEF Cards, Held
<1>2. revision \in Nat /\ instance \in Nat
  BY DEF TypeOK
<1> QED
  BY <1>1, <1>2 DEF Event, Changes, Mutations

LEMMA BroadcastMutationType ==
    ASSUME TypeOK, NEW c \in Client, NEW m \in Mutations, NEW unknown \in SUBSET Client,
           BroadcastMutation(c, m, unknown)
    PROVE  /\ stream' \in [Client -> Seq(Events \cup Inits)]
           /\ held' \in [Client -> Seq(Changes)]
           /\ refresh' \in [Client -> BOOLEAN]
<1> DEFINE others == {d \in Client \ {c} : conn[d] # 0}
           behind == {d \in others : syncing[d] # None}
           e == Event(m)
<1>1. e \in Changes /\ e \in Events \cup Inits
  BY EventType DEF Events
<1>2. /\ stream' = [d \in Client |-> IF d \in others \ behind THEN Append(stream[d], e) ELSE stream[d]]
      /\ held' = [d \in Client |-> IF d \in behind THEN Append(held[d], e) ELSE held[d]]
      /\ refresh' = [d \in Client |-> refresh[d] \/ (d \in unknown \cap others)]
  BY Zenon DEF BroadcastMutation
<1>3. \A d \in Client : stream[d] \in Seq(Events \cup Inits) /\ held[d] \in Seq(Changes)
                        /\ refresh[d] \in BOOLEAN
  BY DEF TypeOK
<1> HIDE DEF e, others, behind
<1>4. \A d \in Client : Append(stream[d], e) \in Seq(Events \cup Inits) /\ Append(held[d], e) \in Seq(Changes)
  BY <1>1, <1>3
<1>5. stream' \in [Client -> Seq(Events \cup Inits)]
  BY <1>2, <1>3, <1>4
<1>6. held' \in [Client -> Seq(Changes)]
  BY <1>2, <1>3, <1>4
<1> QED
  BY <1>2, <1>5, <1>6

LEMMA HandleType ==
    ASSUME TypeOK, NEW c \in Client, NEW m \in client[c].calls, NEW heard \in BOOLEAN,
           NEW unknown \in SUBSET (Client \ Owner), Handle(c, m, heard, unknown)
    PROVE  TypeOK'
<1>1. m \in Mutations
  BY ClientType DEF Browsers
<1>2. faults' \in Nat
  BY DEF Handle, Fault, TypeOK
<1>3. lastSequence' \in [Client -> Nat]
  BY <1>1 DEF Handle, TakeSequence, TypeOK, Mutations
<1>4. revision \in Nat /\ revision + 1 \in Nat /\ 0 \in Nat
  BY DEF TypeOK
<1>5. CASE Accepts(c, m)
  <2>1. /\ live' = Mutated(m)
        /\ revision' = revision + 1
        /\ BroadcastMutation(c, m, unknown)
        /\ lease' = IF m.type = "field" THEN [lease EXCEPT ![m.card] = None] ELSE lease
        /\ Reply(c, m, heard, revision + 1)
        /\ UNCHANGED <<durableRevision, instance, conn, syncing, edits, conns>>
    BY <1>5 DEF Handle
  <2>2. client' \in [Client -> Browsers]
    BY <1>4, <2>1, ReplyEffect
  <2>3. unknown \in SUBSET Client
    OBVIOUS
  <2>4. /\ stream' \in [Client -> Seq(Events \cup Inits)]
        /\ held' \in [Client -> Seq(Changes)]
        /\ refresh' \in [Client -> BOOLEAN]
    BY <1>1, <2>1, <2>3, BroadcastMutationType
  <2>5. live' \in Cards /\ lease' \in [Card -> Client \cup {None}]
    BY <1>1, <2>1, MutatedType DEF TypeOK
  <2> QED
    BY <1>2, <1>3, <1>4, <2>1, <2>2, <2>4, <2>5 DEF TypeOK
<1>6. CASE ~Accepts(c, m)
  <2>1. /\ Reply(c, m, FALSE, 0)
        /\ UNCHANGED <<live, revision, held, refresh, lease, stream>>
        /\ UNCHANGED <<durableRevision, instance, conn, syncing, edits, conns>>
    BY <1>6 DEF Handle
  <2>2. client' \in [Client -> Browsers]
    BY <1>4, <2>1, ReplyEffect
  <2> QED
    BY <1>2, <1>3, <2>1, <2>2 DEF TypeOK
<1> QED
  BY <1>5, <1>6

LEMMA LoseCallType ==
    ASSUME TypeOK, NEW c \in Client, NEW m \in client[c].calls, LoseCall(c, m)
    PROVE  TypeOK'
<1>1. client' \in [Client -> Browsers]
  BY ReplyEffect DEF LoseCall
<1>2. faults' \in Nat
  BY DEF LoseCall, Fault, TypeOK
<1> QED
  BY <1>1, <1>2 DEF LoseCall, TypeOK, serverVars

LEMMA SnapshotType ==
    ASSUME TypeOK
    PROVE  Snapshot \in Snapshots
BY DEF Snapshot, Snapshots, TypeOK

LEMMA RefreshType ==
    ASSUME TypeOK, NEW c \in Client, Refresh(c)
    PROVE  TypeOK'
BY SnapshotType DEF Refresh, TypeOK, counters

LEMMA DeliverType ==
    ASSUME TypeOK, NEW c \in Client, DeliverSnapshot(c) \/ DeliverUnavailable(c)
    PROVE  TypeOK'
<1>0. syncing[c] # None
  BY DEF DeliverSnapshot, DeliverUnavailable
<1>1. /\ stream[c] \in Seq(Events \cup Inits) /\ held[c] \in Seq(Changes)
      /\ syncing[c] \in Snapshots /\ durableRevision \in Nat
  BY <1>0 DEF TypeOK
<1>2. held' \in [Client -> Seq(Changes)] /\ syncing' \in [Client -> Snapshots \cup {None}]
  <2>1. syncing' = [syncing EXCEPT ![c] = None] /\ held' = [held EXCEPT ![c] = <<>>]
    BY DEF DeliverSnapshot, DeliverUnavailable
  <2>2. <<>> \in Seq(Changes)
    OBVIOUS
  <2> QED
    BY <2>1, <2>2 DEF TypeOK
<1>3. stream' \in [Client -> Seq(Events \cup Inits)]
  <2>1. CASE DeliverSnapshot(c)
    <3> DEFINE e == [syncing[c] EXCEPT !.durable = durableRevision]
               new == Newer(held[c], syncing[c].revision)
    <3>1. e \in Snapshots
      BY <1>1 DEF Snapshots
    <3>2. new \in Seq(Changes)
      BY <1>1, NewerStays
    <3>3. stream' = [stream EXCEPT ![c] = Append(@, e) \o new]
      BY <2>1 DEF DeliverSnapshot
    <3> HIDE DEF e, new
    <3>4. Append(stream[c], e) \o new \in Seq(Events \cup Inits)
      <4>1. e \in Events \cup Inits
        BY <3>1 DEF Events
      <4>2. new \in Seq(Events \cup Inits)
        BY <3>2 DEF Events
      <4>3. Append(stream[c], e) \in Seq(Events \cup Inits)
        BY <1>1, <4>1
      <4> QED
        BY <4>2, <4>3
    <3> QED
      BY <3>3, <3>4 DEF TypeOK
  <2>2. CASE DeliverUnavailable(c)
    <3> DEFINE e == [type |-> "unavailable", revision |-> syncing[c].revision]
    <3>1. e \in Events \cup Inits
      BY <1>1 DEF Snapshots, Events
    <3>2. stream' = [stream EXCEPT ![c] = Append(@, e)]
      BY <2>2 DEF DeliverUnavailable
    <3> HIDE DEF e
    <3>3. Append(stream[c], e) \in Seq(Events \cup Inits)
      BY <1>1, <3>1
    <3> QED
      BY <3>2, <3>3 DEF TypeOK
  <2> QED
    BY <2>1, <2>2
<1>4. faults' \in Nat
  BY DEF DeliverSnapshot, DeliverUnavailable, Fault, counters, TypeOK
<1>5. /\ UNCHANGED <<live, revision, durableRevision, instance, conn, lastSequence, refresh,
                     lease, client, edits, conns>>
  BY DEF DeliverSnapshot, DeliverUnavailable, counters
<1> QED
  BY <1>2, <1>3, <1>4, <1>5 DEF TypeOK

LEMMA SubscribeType ==
    ASSUME TypeOK, NEW c \in Client, Subscribe(c)
    PROVE  TypeOK'
<1> DEFINE init == [type |-> "init", conn |-> conns + 1, instance |-> instance,
                    revision |-> revision, durable |-> durableRevision]
           q == IF c \in Owner THEN <<init, Snapshot>> ELSE <<init>>
<1>1. init \in Inits
  BY DEF Inits, TypeOK
<1>2. stream' = [stream EXCEPT ![c] = q]
  BY Zenon DEF Subscribe
<1>3. Snapshot \in Snapshots
  BY SnapshotType
<1> HIDE DEF init
<1>4. q \in Seq(Events \cup Inits)
  <2>1. init \in Events \cup Inits /\ Snapshot \in Events \cup Inits
    BY <1>1, <1>3 DEF Events
  <2>2. <<init>> \in Seq(Events \cup Inits) /\ <<init, Snapshot>> \in Seq(Events \cup Inits)
    BY <2>1
  <2> QED
    BY <2>2
<1> HIDE DEF q
<1>5. stream' \in [Client -> Seq(Events \cup Inits)]
  BY <1>2, <1>4 DEF TypeOK
<1>6. syncing' \in [Client -> Snapshots \cup {None}]
  BY <1>3 DEF Subscribe, TypeOK
<1>7. conns' \in Nat /\ conn' \in [Client -> Nat] /\ lastSequence' \in [Client -> Nat]
  BY DEF Subscribe, TypeOK
<1>8. UNCHANGED <<live, revision, durableRevision, instance, held, refresh, lease, client, edits, faults>>
  BY DEF Subscribe
<1> QED
  BY <1>5, <1>6, <1>7, <1>8 DEF TypeOK

LEMMA EndedType ==
    ASSUME TypeOK, NEW gone \in SUBSET Client, Ended(gone)
    PROVE  /\ conn' \in [Client -> Nat]
           /\ syncing' \in [Client -> Snapshots \cup {None}]
           /\ held' \in [Client -> Seq(Changes)]
           /\ refresh' \in [Client -> BOOLEAN]
           /\ lease' \in [Card -> Client \cup {None}]
           /\ stream' \in [Client -> Seq(Events \cup Inits)]
<1>1. /\ \A c \in Client : held[c] \in Seq(Changes) /\ stream[c] \in Seq(Events \cup Inits)
      /\ <<>> \in Seq(Changes) /\ <<>> \in Seq(Events \cup Inits)
  BY DEF TypeOK
<1>2. held' \in [Client -> Seq(Changes)] /\ stream' \in [Client -> Seq(Events \cup Inits)]
  BY <1>1 DEF Ended
<1>3. conn' \in [Client -> Nat] /\ lease' \in [Card -> Client \cup {None}]
  BY DEF Ended, TypeOK
<1>4. syncing' \in [Client -> Snapshots \cup {None}]
  BY DEF Ended, TypeOK
<1>5. refresh' \in [Client -> BOOLEAN]
  BY DEF Ended, TypeOK
<1> QED
  BY <1>2, <1>3, <1>4, <1>5

LEMMA DropType ==
    ASSUME TypeOK, NEW c \in Client, Drop(c)
    PROVE  TypeOK'
<1>1. [client[c] EXCEPT !.me = 0] \in Browsers
  <2>1. client[c] \in Browsers
    BY ClientType
  <2> QED
    BY <2>1 DEF Browsers
<1>2. client' \in [Client -> Browsers]
  BY <1>1, BecomesType DEF Drop
<1>3. Ended({c}) /\ {c} \in SUBSET Client
  BY DEF Drop
<1>4. /\ conn' \in [Client -> Nat] /\ syncing' \in [Client -> Snapshots \cup {None}]
      /\ held' \in [Client -> Seq(Changes)] /\ refresh' \in [Client -> BOOLEAN]
      /\ lease' \in [Card -> Client \cup {None}] /\ stream' \in [Client -> Seq(Events \cup Inits)]
  BY <1>3, EndedType
<1> QED
  BY <1>2, <1>4 DEF Drop, TypeOK, counters

\* The state of a browser that subscribes anew.
Resubscribed(s) ==
    [Fresh(s.view, s.generation + 1) EXCEPT
        !.instance = s.instance, !.calls = s.calls, !.answers = s.answers,
        !.known = s.known, !.creating = s.creating, !.adrift = s.adrift,
        !.wrote = s.wrote, !.presence = s.presence, !.dirty = Dirty(s), !.resume = s.presence]

LEMMA CarriedType ==
    ASSUME NEW s \in Browsers, NEW f \in Browsers, NEW dirty \in BOOLEAN
    PROVE  [f EXCEPT !.instance = s.instance, !.calls = s.calls, !.answers = s.answers,
                !.known = s.known, !.creating = s.creating, !.adrift = s.adrift,
                !.wrote = s.wrote, !.presence = s.presence, !.dirty = dirty,
                !.resume = s.presence] \in Browsers
<1> DEFINE g == [f EXCEPT !.instance = s.instance, !.calls = s.calls, !.answers = s.answers]
           h == [g EXCEPT !.known = s.known, !.creating = s.creating, !.adrift = s.adrift]
           t == [h EXCEPT !.wrote = s.wrote, !.presence = s.presence, !.dirty = dirty,
                          !.resume = s.presence]
<1>1. g \in Browsers
  BY DEF Browsers
<1>2. t = [f EXCEPT !.instance = s.instance, !.calls = s.calls, !.answers = s.answers,
                !.known = s.known, !.creating = s.creating, !.adrift = s.adrift,
                !.wrote = s.wrote, !.presence = s.presence, !.dirty = dirty,
                !.resume = s.presence]
  BY DEF Browsers
<1> HIDE DEF g
<1>3. h \in Browsers
  BY <1>1 DEF Browsers
<1> HIDE DEF h
<1>4. t \in Browsers
  BY <1>3 DEF Browsers
<1> QED
  BY <1>2, <1>4

LEMMA ResubscribedEffect ==
    ASSUME NEW s \in Browsers
    PROVE  /\ Resubscribed(s) \in Browsers
           /\ Resubscribed(s).calls = s.calls /\ Resubscribed(s).answers = s.answers
           /\ Resubscribed(s).instance = s.instance
           /\ Resubscribed(s).me = 0 /\ Resubscribed(s).since = 0
           /\ Resubscribed(s).told = NothingTold
           /\ Resubscribed(s).active = 0 /\ Resubscribed(s).queue = <<>>
           /\ Resubscribed(s).sequence = 0
           /\ Resubscribed(s).generation = s.generation + 1
           /\ Resubscribed(s).inFlight = [k \in Card |-> 0]
           /\ Resubscribed(s).applying = None
           /\ Resubscribed(s).queued = <<>> /\ Resubscribed(s).later = <<>>
<1> DEFINE g == s.generation + 1
           dirty == Dirty(s)
           f == [k \in Card |-> 0]
<1>1. /\ g \in Nat /\ dirty \in BOOLEAN /\ f \in [Card -> Nat]
      /\ <<>> \in Seq(Events) /\ <<>> \in Seq(Mutations)
  BY DEF Browsers, Dirty
<1>2. NoCards \in Cards /\ NothingTold \in [Card -> [value : Held, revision : Nat]]
  BY DEF NoCards, NothingTold, Cards, Held
<1> DEFINE fresh == Fresh(s.view, g)
           t == [fresh EXCEPT !.instance = s.instance, !.calls = s.calls, !.answers = s.answers,
                    !.known = s.known, !.creating = s.creating, !.adrift = s.adrift,
                    !.wrote = s.wrote, !.presence = s.presence, !.dirty = dirty,
                    !.resume = s.presence]
<1>3. Resubscribed(s) = t
  BY DEF Resubscribed
<1>4. s.view \in Cards
  BY DEF Browsers
<1>5. /\ fresh \in Browsers
      /\ fresh.me = 0 /\ fresh.since = 0 /\ fresh.told = NothingTold
      /\ fresh.active = 0 /\ fresh.queue = <<>> /\ fresh.sequence = 0
      /\ fresh.generation = g /\ fresh.inFlight = f /\ fresh.applying = None
      /\ fresh.queued = <<>> /\ fresh.later = <<>>
  <2> HIDE DEF g
  <2> QED
    BY <1>1, <1>2, <1>4 DEF Fresh, Browsers
<1> HIDE DEF dirty, f, fresh
<1>7. t \in Browsers
  <2> HIDE DEF t
  <2> QED
    BY <1>1, <1>5, CarriedType DEF t
<1>8. /\ t.calls = s.calls /\ t.answers = s.answers /\ t.instance = s.instance
      /\ t.me = fresh.me /\ t.since = fresh.since /\ t.told = fresh.told
      /\ t.active = fresh.active /\ t.queue = fresh.queue /\ t.sequence = fresh.sequence
      /\ t.generation = fresh.generation /\ t.inFlight = fresh.inFlight
      /\ t.applying = fresh.applying /\ t.queued = fresh.queued /\ t.later = fresh.later
  BY <1>5 DEF Browsers
<1> HIDE DEF t
<1> QED
  BY <1>3, <1>5, <1>7, <1>8 DEF f

LEMMA ResubscribeType ==
    ASSUME TypeOK, NEW c \in Client, Resubscribe(c)
    PROVE  TypeOK'
<1>1. Resubscribed(client[c]) \in Browsers
  BY ClientType, ResubscribedEffect
<1>2. Becomes(c, Resubscribed(client[c]))
  BY DEF Resubscribe, Resubscribed
<1>3. client' \in [Client -> Browsers]
  BY <1>1, <1>2, BecomesType
<1>4. Ended({c}) /\ {c} \in SUBSET Client
  BY DEF Resubscribe
<1>5. /\ conn' \in [Client -> Nat] /\ syncing' \in [Client -> Snapshots \cup {None}]
      /\ held' \in [Client -> Seq(Changes)] /\ refresh' \in [Client -> BOOLEAN]
      /\ lease' \in [Card -> Client \cup {None}] /\ stream' \in [Client -> Seq(Events \cup Inits)]
  BY <1>4, EndedType
<1> QED
  BY <1>3, <1>5 DEF Resubscribe, TypeOK, counters

LEMMA RestartType ==
    ASSUME TypeOK, Restart
    PROVE  TypeOK'
<1>1. \A c \in Client : [client[c] EXCEPT !.me = 0] \in Browsers
  <2>1. \A s \in Browsers : [s EXCEPT !.me = 0] \in Browsers
    BY ZenonT(30) DEF Browsers
  <2> QED
    BY <2>1, ClientType
<1>2. client' \in [Client -> Browsers]
  BY <1>1 DEF Restart
<1>3. /\ conn' \in [Client -> Nat] /\ syncing' \in [Client -> Snapshots \cup {None}]
      /\ held' \in [Client -> Seq(Changes)] /\ refresh' \in [Client -> BOOLEAN]
      /\ lease' \in [Card -> Client \cup {None}] /\ stream' \in [Client -> Seq(Events \cup Inits)]
  BY EndedType DEF Restart
<1>4. faults' \in Nat /\ instance' \in Nat /\ live' \in Cards
  BY StoredAssumption DEF Restart, Fault, TypeOK
<1> QED
  BY <1>2, <1>3, <1>4, SMTT(30) DEF Restart, TypeOK

LEMMA NextType ==
    ASSUME TypeOK, [Next]_vars
    PROVE  TypeOK'
<1>1. CASE UNCHANGED vars
  BY <1>1 DEF vars, serverVars, counters, TypeOK
<1>2. CASE Restart
  BY <1>2, RestartType
<1>3. CASE \E c \in Client : Receive(c)
  BY <1>3, ReceiveType
<1>4. CASE \E c \in Client : FinishSnapshot(c) \/ FailSnapshot(c)
  BY <1>4, SnapshotStepType
<1>5. CASE \E c \in Client : Refresh(c)
  BY <1>5, RefreshType
<1>6. CASE \E c \in Client : DeliverSnapshot(c) \/ DeliverUnavailable(c)
  BY <1>6, DeliverType
<1>7. CASE \E c \in Client : Subscribe(c) \/ Drop(c) \/ Resubscribe(c)
  BY <1>7, SubscribeType, DropType, ResubscribeType
<1>8. CASE \E c \in Client : \E k \in Card, v \in Value \cup {Absent} : Edit(c, k, v)
  BY <1>8, EditType
<1>9. CASE \E c \in Client : \E k \in Card, v \in Value : CommitField(c, k, v)
  BY <1>9, CommitFieldType
<1>10. CASE \E c \in Client : \E early \in SUBSET Card : Tick(c, early)
  BY <1>10, TickType
<1>11. CASE \E c \in Client : \E a \in client[c].answers : Answer(c, a) \/ AnswerField(c, a)
  BY <1>11, AnswerType, AnswerFieldType
<1>12. CASE \E c \in Client : \E m \in client[c].calls : LoseCall(c, m)
  BY <1>12, LoseCallType
<1>14. CASE \E c \in Client : \E e \in client[c].creating :
               FetchFail(c, e) \/ \E v \in Value \cup {Absent} : FetchDone(c, e, v)
  BY <1>14, FetchType
<1>13. CASE \E c \in Client : \E m \in client[c].calls :
               \E heard \in BOOLEAN, unknown \in SUBSET (Client \ Owner) : Handle(c, m, heard, unknown)
  BY <1>13, HandleType
<1> QED
  BY <1>1, <1>2, <1>3, <1>4, <1>5, <1>6, <1>7, <1>8, <1>9, <1>10, <1>11, <1>12, <1>13, <1>14, Zenon DEF Next

\* The types of both sides, for any clients, cards and values, and any bounds.
THEOREM TypeCorrect == Spec => []TypeOK
<1>1. Init => TypeOK
  BY InitType
<1>2. TypeOK /\ [Next]_vars => TypeOK'
  BY NextType
<1> QED
  BY <1>1, <1>2, PTL DEF Spec

-----------------------------------------------------------------------------
(* The queue of mutations.                                                   *)

\* The mutations that are under way.
Out(s) == {x \in s.calls \cup s.answers : x.type # "field"}

\* One mutation of the current generation is under way if one is marked as active,
\* and else none; earlier ones have earlier generations.
QueueReady(s) ==
    /\ s.generation > 0
    /\ s.active \in {0, s.generation}
    /\ \A i \in 1..Len(s.queue) :
          s.queue[i].generation = s.generation /\ s.queue[i].type # "field"
    /\ \A x \in Out(s) : 0 < x.generation /\ x.generation <= s.generation
    /\ \A x, y \in Out(s) : x.generation = s.generation /\ y.generation = s.generation => x = y
    /\ \A x \in Out(s) : x.generation = s.generation => s.active # 0
    /\ s.active # 0 => \E x \in Out(s) : x.generation = s.generation
    /\ \A k \in Card : s.inFlight[k] # 0 =>
        /\ s.inFlight[k] = s.generation
        /\ \/ \E x \in Out(s) : x.card = k /\ x.generation = s.generation
           \/ \E i \in 1..Len(s.queue) : s.queue[i].card = k

\* And nothing waits unless one is under way.
QueueInv(s) == QueueReady(s) /\ (s.queue # <<>> => s.active # 0)

\* The last number the server took of the connection cn is not above that of the
\* browser, whose current mutation has the highest number of all on the way.
SequenceInv(s, cn, last) == cn # 0 =>
    /\ last <= s.sequence
    /\ \A x \in s.calls : x.type # "field" /\ x.conn = cn =>
        /\ x.sequence <= s.sequence
        /\ x.generation = s.generation => x.sequence = s.sequence /\ x.sequence > last
        /\ s.active # 0 /\ x.generation # s.generation => x.sequence < s.sequence

\* Connections are numbered upwards.
ConnInv(s, q, cn, top) ==
    /\ cn <= top /\ s.me <= top
    /\ \A x \in s.calls : x.conn <= top
    /\ \A i \in 1..Len(s.queue) : s.queue[i].conn <= top
    /\ \A i \in 1..Len(q) : q[i].type = "init" => q[i].conn <= top

\* What one browser and its connection keep.
BrowserInv(s, q, cn, last, top) ==
    QueueInv(s) /\ SequenceInv(s, cn, last) /\ ConnInv(s, q, cn, top)

CallsInv == \A c \in Client : BrowserInv(client[c], stream[c], conn[c], lastSequence[c], conns)

LEMMA SameQueueInv ==
    ASSUME NEW s, NEW t, SameQueue(t, s), NEW q, NEW cn, NEW last, NEW top
    PROVE  BrowserInv(s, q, cn, last, top) => BrowserInv(t, q, cn, last, top)
BY DEF SameQueue, BrowserInv, QueueInv, QueueReady, SequenceInv, ConnInv, Out

LEMMA ResetInv ==
    ASSUME NEW s \in Browsers, NEW q, NEW cn, NEW last, NEW top, BrowserInv(s, q, cn, last, top)
    PROVE  BrowserInv(ResetTracking(s), q, cn, last, top)
<1> DEFINE t == ResetTracking(s)
<1>1. /\ t.generation = s.generation + 1 /\ t.inFlight = [k \in Card |-> 0]
      /\ t.queue = <<>> /\ t.active = 0 /\ t.calls = s.calls /\ t.answers = s.answers
      /\ t.sequence = s.sequence /\ t.me = s.me
  BY DEF ResetTracking, Browsers
<1>2. /\ s.generation \in Nat /\ s.sequence \in Nat
      /\ \A x \in Out(s) : x.generation \in Nat
      /\ \A x \in s.calls : x.type # "field" => x \in Out(s)
  BY DEF Browsers, Mutations, Answers, Out
<1> HIDE DEF t
<1>3. Out(t) = Out(s)
  BY <1>1 DEF Out
<1>4. QueueInv(t)
  BY <1>1, <1>2, <1>3 DEF BrowserInv, QueueInv, QueueReady
<1>5. \A x \in Out(s) : x.generation # t.generation
  BY <1>1, <1>2 DEF BrowserInv, QueueInv, QueueReady
<1>6. SequenceInv(t, cn, last)
  BY <1>1, <1>2, <1>5 DEF BrowserInv, SequenceInv
<1>7. ConnInv(t, q, cn, top)
  BY <1>1 DEF BrowserInv, ConnInv
<1> QED
  BY <1>4, <1>6, <1>7 DEF BrowserInv, t

LEMMA DrainInv ==
    ASSUME NEW s \in Browsers, NEW q, NEW cn, NEW last \in Nat, NEW top,
           QueueReady(s), SequenceInv(s, cn, last), ConnInv(s, q, cn, top)
    PROVE  BrowserInv(Drain(s), q, cn, last, top)
<1>1. CASE s.active # 0 \/ s.queue = <<>>
  <2>1. Drain(s) = s
    BY <1>1 DEF Drain
  <2> QED
    BY <1>1, <2>1 DEF BrowserInv, QueueInv
<1>2. CASE s.active = 0 /\ s.queue # <<>>
  <2> DEFINE m == [Head(s.queue) EXCEPT !.sequence = s.sequence + 1]
             t == Drain(s)
  <2>1. s.queue \in Seq(Mutations) /\ s.sequence \in Nat /\ s.generation \in Nat
    BY DEF Browsers
  <2>2. /\ Head(s.queue) \in Mutations /\ Head(s.queue) = s.queue[1]
        /\ Len(s.queue) \in Nat /\ Len(s.queue) > 0
        /\ Len(Tail(s.queue)) = Len(s.queue) - 1
        /\ \A i \in 1..Len(Tail(s.queue)) : Tail(s.queue)[i] = s.queue[i + 1]
    BY <1>2, <2>1
  <2>3. /\ m.type = s.queue[1].type /\ m.card = s.queue[1].card
        /\ m.conn = s.queue[1].conn /\ m.generation = s.queue[1].generation
        /\ m.sequence = s.sequence + 1
    BY <2>2 DEF Mutations
  <2>4. /\ t.queue = Tail(s.queue) /\ t.active = s.generation
        /\ t.sequence = s.sequence + 1 /\ t.calls = s.calls \cup {m}
        /\ t.answers = s.answers /\ t.inFlight = s.inFlight
        /\ t.generation = s.generation /\ t.me = s.me
    BY <1>2 DEF Drain, Browsers
  <2>5. m.generation = s.generation /\ m.type # "field" /\ m.conn <= top
    BY <2>2, <2>3 DEF QueueReady, ConnInv
  <2>6. /\ \A x \in s.calls : x.type # "field" => x \in Out(s)
        /\ \A x \in s.calls : x.sequence \in Nat
    BY DEF Out, Browsers, Mutations
  <2> HIDE DEF m, t
  <2>7. Out(t) = Out(s) \cup {m}
    BY <2>4, <2>5 DEF Out
  <2>8. \A x \in Out(s) : x.generation # s.generation
    BY <1>2 DEF QueueReady
  <2>9. \A i \in 1..Len(t.queue) : i + 1 \in 1..Len(s.queue) /\ t.queue[i] = s.queue[i + 1]
    BY <2>2, <2>4
  <2>10. QueueInv(t)
    <3>1. t.generation > 0 /\ t.active = t.generation /\ t.active # 0
      BY <2>1, <2>4 DEF QueueReady
    <3>2. \A i \in 1..Len(t.queue) : t.queue[i].generation = t.generation /\ t.queue[i].type # "field"
      BY <2>4, <2>9 DEF QueueReady
    <3>3. \A x \in Out(t) : 0 < x.generation /\ x.generation <= t.generation
      BY <2>1, <2>4, <2>5, <2>7 DEF QueueReady
    <3>4. \A x, y \in Out(t) : x.generation = t.generation /\ y.generation = t.generation => x = y
      BY <2>4, <2>7, <2>8
    <3>5. \E x \in Out(t) : x.generation = t.generation
      BY <2>4, <2>5, <2>7
    <3>6. ASSUME NEW k \in Card, t.inFlight[k] # 0
          PROVE  /\ t.inFlight[k] = t.generation
                 /\ \/ \E x \in Out(t) : x.card = k /\ x.generation = t.generation
                    \/ \E i \in 1..Len(t.queue) : t.queue[i].card = k
      <4>1. s.inFlight[k] = s.generation /\ s.inFlight[k] # 0
        BY <2>4, <3>6 DEF QueueReady
      <4>2. CASE \E x \in Out(s) : x.card = k /\ x.generation = s.generation
        BY <2>8, <4>2
      <4>3. CASE \E i \in 1..Len(s.queue) : s.queue[i].card = k
        <5>1. PICK i \in 1..Len(s.queue) : s.queue[i].card = k
          BY <4>3
        <5>2. CASE i = 1
          <6>1. m \in Out(t) /\ m.card = k /\ m.generation = t.generation
            BY <2>3, <2>4, <2>5, <2>7, <5>1, <5>2
          <6> QED
            BY <2>4, <4>1, <6>1
        <5>3. CASE i # 1
          <6>1. i - 1 \in 1..Len(t.queue) /\ t.queue[i - 1].card = k
            BY <2>2, <2>4, <5>1, <5>3
          <6> QED
            BY <2>4, <4>1, <6>1
        <5> QED
          BY <5>2, <5>3
      <4> QED
        BY <4>1, <4>2, <4>3 DEF QueueReady
    <3> QED
      BY <3>1, <3>2, <3>3, <3>4, <3>5, <3>6 DEF QueueInv, QueueReady
  <2>11. SequenceInv(t, cn, last)
    <3> SUFFICES ASSUME cn # 0
                 PROVE  /\ last <= t.sequence
                        /\ \A x \in t.calls : x.type # "field" /\ x.conn = cn =>
                            /\ x.sequence <= t.sequence
                            /\ x.generation = t.generation => x.sequence = t.sequence /\ x.sequence > last
                            /\ t.active # 0 /\ x.generation # t.generation => x.sequence < t.sequence
      BY DEF SequenceInv
    <3>1. last <= s.sequence /\ last < t.sequence
      BY <2>1, <2>4 DEF SequenceInv
    <3>2. \A x \in s.calls : x.type # "field" /\ x.conn = cn => x.sequence < t.sequence /\ x.generation # t.generation
      BY <2>1, <2>4, <2>6, <2>8 DEF SequenceInv
    <3>3. m.sequence = t.sequence /\ m.generation = t.generation
      BY <2>3, <2>4, <2>5
    <3>4. t.sequence \in Nat
      BY <2>1, <2>4
    <3> QED
      BY <2>4, <2>6, <3>1, <3>2, <3>3, <3>4
  <2>12. ConnInv(t, q, cn, top)
    BY <2>4, <2>5, <2>9 DEF ConnInv
  <2> QED
    BY <2>10, <2>11, <2>12 DEF BrowserInv, t
<1> QED
  BY <1>1, <1>2

LEMMA BroadcastInv ==
    ASSUME NEW s \in Browsers, NEW due \in SUBSET Card,
           NEW q, NEW cn, NEW last \in Nat, NEW top, BrowserInv(s, q, cn, last, top)
    PROVE  BrowserInv(BroadcastDeltas(s, due), q, cn, last, top)
<1> DEFINE more == Queued(s, due)
           r == s.queue \o more
           f == [k \in Card |-> IF k \in due THEN s.generation ELSE s.inFlight[k]]
           t == [s EXCEPT !.queue = r, !.inFlight = f]
<1>1. BroadcastDeltas(s, due) = Drain(t)
  BY Zenon DEF BroadcastDeltas, Queued
<1>2. /\ more \in Seq(Mutations)
      /\ \A i \in 1..Len(more) : \E k \in due : more[i] = Mutation(s, k)
      /\ \A k \in due : \E i \in 1..Len(more) : more[i] = Mutation(s, k)
  BY QueuedEffect
<1>3. \A k \in Card : /\ Mutation(s, k).generation = s.generation /\ Mutation(s, k).type # "field"
                      /\ Mutation(s, k).card = k /\ Mutation(s, k).conn = s.me
  BY DEF Mutation
<1>4. s.queue \in Seq(Mutations) /\ s.inFlight \in [Card -> Nat] /\ s.generation \in Nat
  BY DEF Browsers
<1> HIDE DEF more
<1>5. /\ r \in Seq(Mutations) /\ Len(r) = Len(s.queue) + Len(more)
      /\ Len(s.queue) \in Nat /\ Len(more) \in Nat
      /\ \A i \in 1..Len(s.queue) : r[i] = s.queue[i]
      /\ \A i \in 1..Len(more) : r[i + Len(s.queue)] = more[i]
  BY <1>2, <1>4
<1>6. f \in [Card -> Nat]
  BY <1>4
<1>7. \A i \in 1..Len(r) : \/ i \in 1..Len(s.queue) /\ r[i] = s.queue[i]
                           \/ \E k \in due : r[i] = Mutation(s, k)
  <2> SUFFICES ASSUME NEW i \in 1..Len(r), i \notin 1..Len(s.queue)
               PROVE  \E k \in due : r[i] = Mutation(s, k)
    BY <1>5
  <2>1. i - Len(s.queue) \in 1..Len(more) /\ i - Len(s.queue) + Len(s.queue) = i
    BY <1>5
  <2> HIDE DEF r
  <2>2. r[i] = more[i - Len(s.queue)]
    BY <1>5, <2>1
  <2> QED
    BY <1>2, <2>1, <2>2
<1> HIDE DEF r
<1>8. \A k \in Card : f[k] = IF k \in due THEN s.generation ELSE s.inFlight[k]
  OBVIOUS
<1> HIDE DEF f
<1>9. /\ t \in Browsers
      /\ t.queue = r /\ t.inFlight = f /\ t.me = s.me /\ t.active = s.active
      /\ t.generation = s.generation /\ t.sequence = s.sequence
      /\ t.calls = s.calls /\ t.answers = s.answers
  BY <1>5, <1>6 DEF Browsers
<1> HIDE DEF t
<1>10. Out(t) = Out(s)
  BY <1>9 DEF Out
<1>11. QueueReady(t)
  <2>1. \A i \in 1..Len(t.queue) : t.queue[i].generation = t.generation /\ t.queue[i].type # "field"
    BY <1>3, <1>7, <1>9 DEF BrowserInv, QueueInv, QueueReady
  <2>2. ASSUME NEW k \in Card, t.inFlight[k] # 0
        PROVE  /\ t.inFlight[k] = t.generation
               /\ \/ \E x \in Out(t) : x.card = k /\ x.generation = t.generation
                  \/ \E i \in 1..Len(t.queue) : t.queue[i].card = k
    <3>1. CASE k \in due
      <4>1. PICK i \in 1..Len(more) : more[i] = Mutation(s, k)
        BY <1>2, <3>1
      <4>2. i + Len(s.queue) \in 1..Len(t.queue) /\ t.queue[i + Len(s.queue)].card = k
        BY <1>3, <1>5, <1>9, <4>1
      <4> QED
        BY <1>8, <1>9, <3>1, <4>2
    <3>2. CASE k \notin due
      <4>1. s.inFlight[k] # 0 /\ t.inFlight[k] = s.inFlight[k]
        BY <1>8, <1>9, <2>2, <3>2
      <4>2. /\ s.inFlight[k] = s.generation
            /\ \/ \E x \in Out(s) : x.card = k /\ x.generation = s.generation
               \/ \E i \in 1..Len(s.queue) : s.queue[i].card = k
        BY <4>1 DEF BrowserInv, QueueInv, QueueReady
      <4>3. \A i \in 1..Len(s.queue) : i \in 1..Len(t.queue) /\ t.queue[i] = s.queue[i]
        BY <1>5, <1>9
      <4> QED
        BY <1>9, <1>10, <4>1, <4>2, <4>3
    <3> QED
      BY <3>1, <3>2
  <2>3. /\ t.generation > 0 /\ t.active \in {0, t.generation}
        /\ \A x \in Out(t) : 0 < x.generation /\ x.generation <= t.generation
        /\ \A x, y \in Out(t) : x.generation = t.generation /\ y.generation = t.generation => x = y
        /\ \A x \in Out(t) : x.generation = t.generation => t.active # 0
        /\ t.active # 0 => \E x \in Out(t) : x.generation = t.generation
    BY <1>9, <1>10 DEF BrowserInv, QueueInv, QueueReady
  <2> QED
    BY <2>1, <2>2, <2>3 DEF QueueReady
<1>12. SequenceInv(t, cn, last)
  BY <1>9 DEF BrowserInv, SequenceInv
<1>13. ConnInv(t, q, cn, top)
  BY <1>3, <1>7, <1>9 DEF BrowserInv, ConnInv
<1>14. BrowserInv(Drain(t), q, cn, last, top)
  BY <1>9, <1>11, <1>12, <1>13, DrainInv
<1> QED
  BY <1>1, <1>14 DEF t

LEMMA CallsAreNoAnswers ==
    ASSUME NEW m \in Mutations, NEW a \in Answers
    PROVE  m # a
<1>1. "now" \notin DOMAIN m /\ "now" \in DOMAIN a
  BY DEF Mutations, Answers
<1> QED
  BY <1>1

\* The answer a is taken from s, in which it was under way; t differs from s in
\* no other part of the queue.
LEMMA FinishedInv ==
    ASSUME NEW s \in Browsers, NEW t \in Browsers, NEW a \in s.answers, a.type # "field",
           t.answers = s.answers \ {a}, SameQueue([t EXCEPT !.answers = s.answers], s),
           NEW q, NEW cn, NEW last \in Nat, NEW top, BrowserInv(s, q, cn, last, top)
    PROVE  BrowserInv(Finished(t, a), q, cn, last, top)
<1> DEFINE r == Released(t, a)
           u == [r EXCEPT !.active = 0]
<1>1. a \in Answers /\ a.generation \in Nat /\ a.card \in Card
  BY DEF Browsers, Answers
<1>2. /\ t.me = s.me /\ t.active = s.active /\ t.queue = s.queue /\ t.inFlight = s.inFlight
      /\ t.generation = s.generation /\ t.sequence = s.sequence /\ t.calls = s.calls
  BY DEF SameQueue, Browsers
<1>3. Finished(t, a) = IF t.active = a.generation THEN Drain(u) ELSE r
  BY <1>1, FinishedEffect
<1>4. /\ r \in Browsers
      /\ r.me = s.me /\ r.active = s.active /\ r.queue = s.queue
      /\ r.generation = s.generation /\ r.sequence = s.sequence /\ r.calls = s.calls
      /\ r.answers = s.answers \ {a}
      /\ r.inFlight = [k \in Card |-> IF k = a.card /\ s.inFlight[k] = a.generation THEN 0
                                      ELSE s.inFlight[k]]
  <2> HIDE DEF r
  <2>1. /\ r \in Browsers /\ r.me = t.me /\ SameWord(r, t)
        /\ SameQueue([r EXCEPT !.inFlight = t.inFlight], t)
        /\ r.inFlight = [k \in Card |-> IF k = a.card /\ t.inFlight[k] = a.generation THEN 0
                                        ELSE t.inFlight[k]]
    BY <1>1, ReleasedEffect DEF r
  <2>2. /\ r.active = t.active /\ r.queue = t.queue /\ r.generation = t.generation
        /\ r.sequence = t.sequence /\ r.calls = t.calls /\ r.answers = t.answers
    BY <2>1 DEF SameQueue, Browsers
  <2> QED
    BY <1>2, <2>1, <2>2
<1>5. a \in Out(s)
  BY DEF Out
<1>6. \A x : x \in Out(r) => x \in Out(s)
  BY <1>4 DEF Out
<1>7. \A x \in Out(s) : x # a => x \in Out(r)
  BY <1>4 DEF Out
<1> HIDE DEF r
<1>8. QueueInv(s) /\ SequenceInv(s, cn, last) /\ ConnInv(s, q, cn, top)
  BY DEF BrowserInv
<1>9. CASE t.active = a.generation
  <2>1. u.active = 0 /\ u \in Browsers
        /\ u.me = r.me /\ u.queue = r.queue /\ u.generation = r.generation
        /\ u.sequence = r.sequence /\ u.calls = r.calls /\ u.answers = r.answers
        /\ u.inFlight = r.inFlight
    BY <1>4 DEF Browsers
  <2> HIDE DEF u
  <2>2. Out(u) = Out(r)
    BY <2>1 DEF Out
  <2>3. s.active # 0 /\ a.generation = s.generation
    <3>1. a.generation # 0
      BY <1>1, <1>5, <1>8 DEF QueueInv, QueueReady
    <3> QED
      BY <1>2, <1>8, <1>9, <3>1 DEF QueueInv, QueueReady
  <2>4. \A x \in Out(r) : x.generation # s.generation
    <3>1. \A x \in Out(s) : x.generation = s.generation => x = a
      BY <1>5, <1>8, <2>3 DEF QueueInv, QueueReady
    <3>2. a \notin s.calls
      BY <1>1, CallsAreNoAnswers DEF Browsers
    <3>3. a \notin Out(r)
      BY <1>4, <3>2 DEF Out
    <3> QED
      BY <1>6, <3>1, <3>3
  <2>5. QueueReady(u)
    <3>1. \A i \in 1..Len(u.queue) : u.queue[i].generation = u.generation /\ u.queue[i].type # "field"
      BY <1>4, <1>8, <2>1 DEF QueueInv, QueueReady
    <3>2. /\ u.generation > 0
          /\ \A x \in Out(u) : 0 < x.generation /\ x.generation <= u.generation
      BY <1>4, <1>6, <1>8, <2>1, <2>2 DEF QueueInv, QueueReady
    <3>3. \A x \in Out(u) : x.generation # u.generation
      BY <1>4, <2>1, <2>2, <2>4
    <3>4. ASSUME NEW k \in Card, u.inFlight[k] # 0
          PROVE  u.inFlight[k] = u.generation /\ \E i \in 1..Len(u.queue) : u.queue[i].card = k
      <4>1. s.inFlight[k] # 0 /\ u.inFlight[k] = s.inFlight[k]
            /\ ~(k = a.card /\ s.inFlight[k] = a.generation)
        BY <1>4, <2>1, <3>4
      <4>2. /\ s.inFlight[k] = s.generation
            /\ \/ \E x \in Out(s) : x.card = k /\ x.generation = s.generation
               \/ \E i \in 1..Len(s.queue) : s.queue[i].card = k
        BY <1>8, <4>1 DEF QueueInv, QueueReady
      <4>3. ~\E x \in Out(s) : x.card = k /\ x.generation = s.generation
        BY <1>5, <1>8, <2>3, <4>1, <4>2 DEF QueueInv, QueueReady
      <4> QED
        BY <1>4, <2>1, <4>1, <4>2, <4>3
    <3> QED
      BY <2>1, <3>1, <3>2, <3>3, <3>4 DEF QueueReady
  <2>6. SequenceInv(u, cn, last)
    BY <1>4, <1>8, <2>1 DEF SequenceInv
  <2>7. ConnInv(u, q, cn, top)
    BY <1>4, <1>8, <2>1 DEF ConnInv
  <2> QED
    BY <1>3, <1>9, <2>1, <2>5, <2>6, <2>7, DrainInv
<1>10. CASE t.active # a.generation
  <2>1. a.generation # s.generation
    BY <1>2, <1>5, <1>8, <1>10 DEF QueueInv, QueueReady
  <2>2. \A k \in Card : r.inFlight[k] # 0 => r.inFlight[k] = s.inFlight[k]
    BY <1>4
  <2>3. \A x \in Out(s) : x.generation = s.generation => x \in Out(r)
    BY <1>7, <2>1
  <2>4. QueueInv(r)
    BY <1>4, <1>6, <1>8, <2>2, <2>3 DEF QueueInv, QueueReady
  <2>5. SequenceInv(r, cn, last)
    BY <1>4, <1>8 DEF SequenceInv
  <2>6. ConnInv(r, q, cn, top)
    BY <1>4, <1>8 DEF ConnInv
  <2> QED
    BY <1>3, <1>10, <2>4, <2>5, <2>6 DEF BrowserInv
<1> QED
  BY <1>9, <1>10

LEMMA EventInv ==
    ASSUME NEW s \in Browsers, NEW e \in Events,
           NEW q, NEW cn, NEW last \in Nat, NEW top, BrowserInv(s, q, cn, last, top)
    PROVE  BrowserInv(OnEvent(s, e), q, cn, last, top)
<1>1. CASE s.applying # None
  <2>1. OnEvent(s, e) = [s EXCEPT !.queued = Append(@, e)]
    BY <1>1 DEF OnEvent
  <2>2. SameQueue(OnEvent(s, e), s)
    BY <2>1 DEF SameQueue, Browsers
  <2> QED
    BY <2>2, SameQueueInv
<1>2. CASE s.applying = None /\ e.type = "snapshot"
  <2> DEFINE r == ResetTracking(s)
  <2>1. OnEvent(s, e) = [r EXCEPT !.applying = e, !.overrun = FALSE]
    BY <1>2 DEF OnEvent, StartSnapshot
  <2>2. r \in Browsers /\ BrowserInv(r, q, cn, last, top)
    BY ResetEffect, ResetInv
  <2> HIDE DEF r
  <2>3. SameQueue(OnEvent(s, e), r)
    BY <2>1, <2>2 DEF SameQueue, Browsers
  <2> QED
    BY <2>2, <2>3, SameQueueInv
<1>3. CASE s.applying = None /\ e.type = "unavailable"
  <2>1. OnEvent(s, e) = [s EXCEPT !.gap = TRUE]
    BY <1>3 DEF OnEvent
  <2>2. SameQueue(OnEvent(s, e), s)
    BY <2>1 DEF SameQueue, Browsers
  <2> QED
    BY <2>2, SameQueueInv
<1>4. CASE s.applying = None /\ e.type \notin {"snapshot", "unavailable"}
  <2> DEFINE o == Observe(s, e.revision)
             t == ApplyEvent(o, e)
  <2>1. OnEvent(s, e) = Told(t, e)
    BY <1>4 DEF OnEvent
  <2>2. e \in Changes
    BY <1>4, EventKinds
  <2>3. e.revision \in Nat /\ e.card \in Card /\ e.now \in Held
    BY <2>2 DEF Changes
  <2>4. o \in Browsers /\ SameQueue(o, s)
    BY <2>3, ObserveEffect
  <2> HIDE DEF o
  <2>5. t \in Browsers /\ SameQueue(t, o)
    BY <2>2, <2>4, ApplyEffect
  <2> HIDE DEF t
  <2>6. SameQueue(Told(t, e), t)
    BY <2>3, <2>5, ToldEffect
  <2> QED
    BY <2>1, <2>4, <2>5, <2>6, SameQueueInv
<1> QED
  BY <1>1, <1>2, <1>3, <1>4

LEMMA ReplayInv ==
    ASSUME NEW s \in Browsers,
           NEW q, NEW cn, NEW last \in Nat, NEW top, BrowserInv(s, q, cn, last, top)
    PROVE  BrowserInv(ReplayQueued(s), q, cn, last, top)
<1> DEFINE S == {t \in Browsers : BrowserInv(t, q, cn, last, top)}
<1>1. s.queued \in Seq(Events) /\ s.later \in Seq(Events) /\ Events \subseteq Events
  BY DEF Browsers
<1>2. Replaying(s) \in S
  <2>1. <<>> \in Seq(Events)
    OBVIOUS
  <2>2. Replaying(s) \in Browsers /\ SameQueue(Replaying(s), s)
    BY <2>1 DEF Browsers, Replaying, SameQueue
  <2> QED
    BY <2>2, SameQueueInv
<1>3. \A t \in S : \A e \in Events : OnEvent(t, e) \in S
  BY EventEffect, EventInv
<1>4. S \subseteq Browsers /\ \A t \in S : BrowserInv(t, q, cn, last, top)
  OBVIOUS
<1> HIDE DEF S
<1>5. \E t \in S : \E left \in Seq(Events) : \E over \in BOOLEAN :
          ReplayQueued(s) = Leaves(t, left, over)
  BY <1>1, <1>2, <1>3, ReplayQueuedStays
<1>6. PICK t \in S, left \in Seq(Events), over \in BOOLEAN :
          ReplayQueued(s) = Leaves(t, left, over)
  BY <1>5
<1>7. SameQueue(ReplayQueued(s), t)
  BY <1>4, <1>6 DEF Browsers, Leaves, SameQueue
<1> QED
  BY <1>4, <1>7, SameQueueInv

LEMMA ApplySnapshotInv ==
    ASSUME NEW c \in Client, NEW s \in Browsers, NEW e \in Snapshots,
           NEW q, NEW cn, NEW last \in Nat, NEW top, BrowserInv(s, q, cn, last, top)
    PROVE  BrowserInv(ApplySnapshot(c, s, e), q, cn, last, top)
<1> DEFINE a == AfterSnapshot(s, e)
           b == [a EXCEPT !.base = e.payload]
           t == ResetTracking(b)
           known == {k \in Card : e.payload[k] # Absent}
           u == [a EXCEPT !.view = e.payload, !.adrift = {}, !.known = known]
<1>1. a \in Browsers /\ SameQueue(a, s)
  BY AfterSnapshotEffect
<1>2. e.payload \in Cards
  BY DEF Snapshots
<1>3. ApplySnapshot(c, s, e) = IF Resumes(c, s, e) THEN BroadcastDeltas(t, Unsent(t))
                               ELSE SeedBaselines(u)
  BY DEF ApplySnapshot
<1>0. known \in SUBSET Card /\ {} \in SUBSET Card
  OBVIOUS
<1> HIDE DEF a, known
<1>4. b \in Browsers /\ SameQueue(b, s)
  BY <1>1, <1>2 DEF Browsers, SameQueue
<1>5. u \in Browsers /\ SameQueue(u, s)
  BY <1>1, <1>2, <1>0 DEF Browsers, SameQueue
<1> HIDE DEF b, u
<1>6. t \in Browsers /\ BrowserInv(t, q, cn, last, top)
  BY <1>4, ResetEffect, ResetInv, SameQueueInv
<1> HIDE DEF t
<1>7. Unsent(t) \in SUBSET Card
  BY DEF Unsent
<1>8. BrowserInv(BroadcastDeltas(t, Unsent(t)), q, cn, last, top)
  BY <1>6, <1>7, BroadcastInv
<1>9. SameQueue(SeedBaselines(u), u)
  BY <1>5, SeedEffect
<1>10. BrowserInv(SeedBaselines(u), q, cn, last, top)
  BY <1>5, <1>9, SameQueueInv
<1> QED
  BY <1>3, <1>8, <1>10

\* A call that is answered, whether the server took its number or not.
LEMMA RepliedInv ==
    ASSUME NEW s \in Browsers, NEW m \in s.calls, NEW a \in Answers,
           a.type = m.type, a.card = m.card, a.generation = m.generation,
           NEW q, NEW cn, NEW last \in Nat, NEW top, BrowserInv(s, q, cn, last, top),
           NEW next \in Nat, next = last \/ (m.type # "field" /\ m.conn = cn /\ next = m.sequence)
    PROVE  BrowserInv(Replied(s, m, a), q, cn, next, top)
<1> DEFINE t == Replied(s, m, a)
<1>1. /\ t \in Browsers
      /\ t.me = s.me /\ t.active = s.active /\ t.queue = s.queue /\ t.inFlight = s.inFlight
      /\ t.generation = s.generation /\ t.sequence = s.sequence
      /\ t.calls = s.calls \ {m} /\ t.answers = s.answers \cup {a}
  <2> HIDE DEF t
  <2>1. /\ t \in Browsers
        /\ SameQueue([t EXCEPT !.calls = s.calls, !.answers = s.answers], s)
        /\ t.calls = s.calls \ {m} /\ t.answers = s.answers \cup {a}
    BY RepliedEffect DEF t
  <2> QED
    BY <2>1 DEF SameQueue, Browsers
<1> HIDE DEF t
<1>2. m \in Mutations
  BY DEF Browsers
<1>3. \A x \in Out(t) : x = a \/ (x \in Out(s) /\ x # m)
  <2>1. m \notin s.answers
    BY <1>2, CallsAreNoAnswers DEF Browsers
  <2> QED
    BY <1>1, <2>1 DEF Out
<1>4. \A x \in Out(s) : x # m => x \in Out(t)
  BY <1>1 DEF Out
<1>5. (a \in Out(t) => m \in Out(s)) /\ (m \in Out(s) => a \in Out(t))
  BY <1>1 DEF Out
<1>6. QueueInv(s) /\ SequenceInv(s, cn, last) /\ ConnInv(s, q, cn, top)
  BY DEF BrowserInv
<1>7. QueueInv(t)
  <2>1. \A x \in Out(t) : 0 < x.generation /\ x.generation <= t.generation
    BY <1>1, <1>3, <1>5, <1>6 DEF QueueInv, QueueReady
  <2>2. \A x, y \in Out(t) : x.generation = t.generation /\ y.generation = t.generation => x = y
    BY <1>1, <1>3, <1>5, <1>6 DEF QueueInv, QueueReady
  <2>3. \A x \in Out(t) : x.generation = t.generation => t.active # 0
    BY <1>1, <1>3, <1>5, <1>6 DEF QueueInv, QueueReady
  <2>4. ASSUME NEW x \in Out(s)
        PROVE  \E y \in Out(t) : y.card = x.card /\ y.generation = x.generation
    <3>1. CASE x = m
      BY <1>5, <3>1
    <3>2. CASE x # m
      BY <1>4, <3>2
    <3> QED
      BY <3>1, <3>2
  <2>5. t.active # 0 => \E x \in Out(t) : x.generation = t.generation
    BY <1>1, <1>6, <2>4 DEF QueueInv, QueueReady
  <2>6. \A k \in Card : t.inFlight[k] # 0 =>
        /\ t.inFlight[k] = t.generation
        /\ \/ \E x \in Out(t) : x.card = k /\ x.generation = t.generation
           \/ \E i \in 1..Len(t.queue) : t.queue[i].card = k
    <3> SUFFICES ASSUME NEW k \in Card, t.inFlight[k] # 0
                 PROVE  /\ t.inFlight[k] = t.generation
                        /\ \/ \E x \in Out(t) : x.card = k /\ x.generation = t.generation
                           \/ \E i \in 1..Len(t.queue) : t.queue[i].card = k
      OBVIOUS
    <3>1. /\ s.inFlight[k] = s.generation
          /\ \/ \E x \in Out(s) : x.card = k /\ x.generation = s.generation
             \/ \E i \in 1..Len(s.queue) : s.queue[i].card = k
      BY <1>1, <1>6 DEF QueueInv, QueueReady
    <3>2. (\E x \in Out(s) : x.card = k /\ x.generation = s.generation)
          => \E x \in Out(t) : x.card = k /\ x.generation = t.generation
      BY <1>1, <2>4
    <3> QED
      BY <1>1, <3>1, <3>2
  <2> QED
    BY <1>1, <1>6, <2>1, <2>2, <2>3, <2>5, <2>6 DEF QueueInv, QueueReady
<1>8. SequenceInv(t, cn, next)
  <2> SUFFICES ASSUME cn # 0
               PROVE  /\ next <= t.sequence
                      /\ \A x \in t.calls : x.type # "field" /\ x.conn = cn =>
                          /\ x.sequence <= t.sequence
                          /\ x.generation = t.generation => x.sequence = t.sequence /\ x.sequence > next
                          /\ t.active # 0 /\ x.generation # t.generation => x.sequence < t.sequence
    BY DEF SequenceInv
  <2>1. next <= s.sequence
    BY <1>6 DEF SequenceInv
  <2>2. ASSUME NEW x \in t.calls, x.type # "field", x.conn = cn, x.generation = t.generation
        PROVE  x.sequence > next
    <3>1. x \in s.calls /\ x # m /\ x.sequence = s.sequence /\ x.sequence > last /\ x.sequence \in Nat
      BY <1>1, <1>6, <2>2 DEF SequenceInv, Browsers, Mutations
    <3>2. CASE next = last
      BY <3>1, <3>2
    <3>3. CASE m.type # "field" /\ m.conn = cn /\ next = m.sequence
      <4>1. x \in Out(s) /\ m \in Out(s)
        BY <2>2, <3>1, <3>3 DEF Out
      <4>2. m.generation # s.generation /\ s.active # 0
        BY <1>1, <1>6, <2>2, <3>1, <4>1 DEF QueueInv, QueueReady
      <4>3. m.sequence < s.sequence
        BY <1>6, <3>3, <4>2 DEF SequenceInv
      <4> QED
        BY <3>1, <3>3, <4>3
    <3> QED
      BY <3>2, <3>3
  <2> QED
    BY <1>1, <1>6, <2>1, <2>2 DEF SequenceInv
<1>9. ConnInv(t, q, cn, top)
  BY <1>1, <1>6 DEF ConnInv
<1> QED
  BY <1>7, <1>8, <1>9 DEF BrowserInv, t

\* The init events of r are some of q.
NoNewInits(r, q) ==
    \A i \in 1..Len(r) : r[i].type = "init" => \E j \in 1..Len(q) : r[i] = q[j]

LEMMA StreamInv ==
    ASSUME NEW s, NEW q, NEW r, NoNewInits(r, q), NEW cn, NEW last, NEW top,
           BrowserInv(s, q, cn, last, top)
    PROVE  BrowserInv(s, r, cn, last, top)
<1>1. \A i \in 1..Len(r) : r[i].type = "init" => r[i].conn <= top
  BY DEF NoNewInits, BrowserInv, ConnInv
<1> QED
  BY <1>1 DEF BrowserInv, ConnInv

\* The same browser without a connection.
LEMMA EndedInv ==
    ASSUME NEW s \in Browsers, NEW q, NEW cn, NEW last, NEW top \in Nat, NEW next,
           BrowserInv(s, q, cn, last, top)
    PROVE  BrowserInv([s EXCEPT !.me = 0], <<>>, 0, next, top)
<1> DEFINE t == [s EXCEPT !.me = 0]
<1>1. /\ t.me = 0 /\ t.active = s.active /\ t.queue = s.queue /\ t.inFlight = s.inFlight
      /\ t.generation = s.generation /\ t.sequence = s.sequence /\ t.calls = s.calls
      /\ t.answers = s.answers
  BY DEF Browsers
<1> HIDE DEF t
<1>2. Out(t) = Out(s)
  BY <1>1 DEF Out
<1>3. QueueInv(t)
  BY <1>1, <1>2 DEF BrowserInv, QueueInv, QueueReady
<1>4. SequenceInv(t, 0, next)
  BY DEF SequenceInv
<1>5. ConnInv(t, <<>>, 0, top)
  BY <1>1 DEF BrowserInv, ConnInv
<1> QED
  BY <1>3, <1>4, <1>5 DEF BrowserInv, t

\* A new connection, the number of which no call has.
LEMMA SubscribedInv ==
    ASSUME NEW s \in Browsers, NEW q, NEW r, NEW cn, NEW last, NEW top \in Nat,
           BrowserInv(s, q, cn, last, top),
           \A i \in 1..Len(r) : r[i].type = "init" => r[i].conn <= top + 1
    PROVE  BrowserInv(s, r, top + 1, 0, top + 1)
<1>1. \A x \in s.calls : x.conn \in Nat /\ x.conn <= top
  BY DEF Browsers, Mutations, BrowserInv, ConnInv
<1>2. s.sequence \in Nat /\ s.me \in Nat /\ s.me <= top
  BY DEF Browsers, BrowserInv, ConnInv
<1>3. SequenceInv(s, top + 1, 0)
  BY <1>1, <1>2 DEF SequenceInv
<1>4. \A i \in 1..Len(s.queue) : s.queue[i].conn \in Nat /\ s.queue[i].conn <= top
  <2>1. s.queue \in Seq(Mutations)
    BY DEF Browsers
  <2>2. \A i \in 1..Len(s.queue) : s.queue[i] \in Mutations
    BY <2>1
  <2> QED
    BY <2>2 DEF Mutations, BrowserInv, ConnInv
<1>5. ConnInv(s, r, top + 1, top + 1)
  BY <1>1, <1>2, <1>4 DEF ConnInv
<1> QED
  BY <1>3, <1>5 DEF BrowserInv

\* The others, whose connections stay and who see no init, when one more is opened.
LEMMA MoreConnsInv ==
    ASSUME NEW s \in Browsers, NEW q, NEW cn \in Nat, NEW last, NEW top \in Nat,
           q \in Seq(Events \cup Inits), BrowserInv(s, q, cn, last, top)
    PROVE  BrowserInv(s, q, cn, last, top + 1)
<1>1. s.me \in Nat /\ \A x \in s.calls : x.conn \in Nat
  BY DEF Browsers, Mutations
<1>2. \A i \in 1..Len(s.queue) : s.queue[i].conn \in Nat
  <2>1. s.queue \in Seq(Mutations)
    BY DEF Browsers
  <2>2. \A i \in 1..Len(s.queue) : s.queue[i] \in Mutations
    BY <2>1
  <2> QED
    BY <2>2 DEF Mutations
<1>3. \A i \in 1..Len(q) : q[i].type = "init" => q[i].conn \in Nat
  <2>1. \A i \in 1..Len(q) : q[i] \in Events \cup Inits
    OBVIOUS
  <2> QED
    BY <2>1, EventKinds DEF Inits
<1> QED
  BY <1>1, <1>2, <1>3 DEF BrowserInv, ConnInv

\* The step of one browser with its connection, beside which the others may see
\* more events.
LEMMA CallsStep ==
    ASSUME TypeOK, CallsInv, NEW c \in Client, NEW s, Becomes(c, s),
           conn' = conn, conns' = conns,
           \A d \in Client \ {c} : lastSequence'[d] = lastSequence[d],
           \A d \in Client : NoNewInits(stream'[d], stream[d]),
           BrowserInv(s, stream[c], conn[c], lastSequence'[c], conns)
    PROVE  CallsInv'
<1> SUFFICES ASSUME NEW d \in Client
             PROVE  BrowserInv(client'[d], stream'[d], conn[d], lastSequence'[d], conns)
  BY DEF CallsInv
<1>1. BrowserInv(client'[d], stream[d], conn[d], lastSequence'[d], conns)
  <2>1. CASE d = c
    <3>1. client'[c] = s
      BY DEF Becomes, TypeOK
    <3> QED
      BY <2>1, <3>1
  <2>2. CASE d # c
    <3>1. client'[d] = client[d] /\ lastSequence'[d] = lastSequence[d]
      BY <2>2 DEF Becomes, TypeOK
    <3> QED
      BY <3>1 DEF CallsInv
  <2> QED
    BY <2>1, <2>2
<1> QED
  BY <1>1, StreamInv

\* The common case: one browser alone.
LEMMA CallsAlone ==
    ASSUME TypeOK, CallsInv, NEW c \in Client, NEW s, Becomes(c, s),
           UNCHANGED <<conn, conns, lastSequence, stream>>,
           BrowserInv(s, stream[c], conn[c], lastSequence[c], conns)
    PROVE  CallsInv'
<1>1. \A d \in Client : NoNewInits(stream'[d], stream[d])
  BY DEF NoNewInits
<1> QED
  BY <1>1, CallsStep

LEMMA ClientInv ==
    ASSUME TypeOK, CallsInv, NEW c \in Client
    PROVE  /\ BrowserInv(client[c], stream[c], conn[c], lastSequence[c], conns)
           /\ client[c] \in Browsers /\ lastSequence[c] \in Nat /\ conns \in Nat /\ conn[c] \in Nat
BY DEF CallsInv, TypeOK

LEMMA ReceiveInv ==
    ASSUME TypeOK, CallsInv, NEW c \in Client, Receive(c)
    PROVE  CallsInv'
<1> DEFINE e == Head(stream[c])
           s == client[c]
           t == IF e.type = "init" THEN OnInit(c, s, e) ELSE OnEvent(s, e)
<1>1. stream[c] \in Seq(Events \cup Inits) /\ stream[c] # <<>>
  BY DEF TypeOK, Receive
<1>2. e \in Events \cup Inits /\ e = stream[c][1] /\ 1 \in 1..Len(stream[c])
  BY <1>1
<1>3. Becomes(c, t) /\ stream' = [stream EXCEPT ![c] = Tail(@)] /\ UNCHANGED <<serverVars, counters>>
  BY DEF Receive
<1>4. /\ BrowserInv(s, stream[c], conn[c], lastSequence[c], conns)
      /\ s \in Browsers /\ lastSequence[c] \in Nat /\ conns \in Nat /\ conn[c] \in Nat
  BY ClientInv
<1> HIDE DEF e, s
<1>5. BrowserInv(t, stream[c], conn[c], lastSequence[c], conns)
  <2>1. CASE e.type = "init"
    <3> DEFINE u == OnInit(c, s, e)
    <3>1. e \in Inits
      BY <1>2, <2>1, EventKinds
    <3>2. u \in Browsers /\ u.me = e.conn /\ SameQueue([u EXCEPT !.me = s.me], s)
      BY <1>4, <3>1, InitEffect
    <3> HIDE DEF u
    <3>3. /\ u.active = s.active /\ u.queue = s.queue /\ u.inFlight = s.inFlight
          /\ u.generation = s.generation /\ u.sequence = s.sequence /\ u.calls = s.calls
          /\ u.answers = s.answers
      BY <3>2 DEF SameQueue, Browsers
    <3>4. e.conn <= conns
      BY <1>2, <1>4, <2>1 DEF BrowserInv, ConnInv
    <3>5. QueueInv(u)
      <4>1. Out(u) = Out(s)
        BY <3>3 DEF Out
      <4> QED
        BY <1>4, <3>3, <4>1 DEF BrowserInv, QueueInv, QueueReady
    <3>6. SequenceInv(u, conn[c], lastSequence[c])
      BY <1>4, <3>3 DEF BrowserInv, SequenceInv
    <3>7. ConnInv(u, stream[c], conn[c], conns)
      BY <1>4, <3>2, <3>3, <3>4 DEF BrowserInv, ConnInv
    <3> QED
      BY <2>1, <3>5, <3>6, <3>7 DEF BrowserInv, u
  <2>2. CASE e.type # "init"
    <3>1. e \in Events
      BY <1>2, <2>2 DEF Inits
    <3> QED
      BY <1>4, <2>2, <3>1, EventInv
  <2> QED
    BY <2>1, <2>2
<1> HIDE DEF t
<1>6. \A d \in Client : NoNewInits(stream'[d], stream[d])
  <2> TAKE d \in Client
  <2>1. CASE d = c
    <3>1. stream'[d] = Tail(stream[c])
      BY <1>3, <2>1 DEF TypeOK
    <3>2. NoNewInits(Tail(stream[c]), stream[c])
      <4>1. \A i \in 1..Len(Tail(stream[c])) :
                i + 1 \in 1..Len(stream[c]) /\ Tail(stream[c])[i] = stream[c][i + 1]
        BY <1>1
      <4> QED
        BY <4>1, Zenon DEF NoNewInits
    <3> QED
      BY <2>1, <3>1, <3>2
  <2>2. CASE d # c
    BY <1>3, <2>2 DEF TypeOK, NoNewInits
  <2> QED
    BY <2>1, <2>2
<1>7. conn' = conn /\ conns' = conns /\ lastSequence' = lastSequence
  BY <1>3 DEF serverVars, counters
<1> QED
  BY <1>3, <1>5, <1>6, <1>7, CallsStep

LEMMA SnapshotStepInv ==
    ASSUME TypeOK, CallsInv, NEW c \in Client, FinishSnapshot(c) \/ FailSnapshot(c)
    PROVE  CallsInv'
<1> DEFINE s == client[c]
           u == [s EXCEPT !.gap = TRUE, !.awaiting = TRUE]
<1>1. /\ BrowserInv(s, stream[c], conn[c], lastSequence[c], conns)
      /\ s \in Browsers /\ lastSequence[c] \in Nat
  BY ClientInv
<1>2. CASE FinishSnapshot(c)
  <2> DEFINE a == ApplySnapshot(c, s, s.applying)
  <2>1. s.applying \in Snapshots
    BY <1>1, <1>2 DEF FinishSnapshot, Browsers
  <2>2. a \in Browsers /\ BrowserInv(a, stream[c], conn[c], lastSequence[c], conns)
    BY <1>1, <2>1, ApplySnapshotEffect, ApplySnapshotInv
  <2>3. Becomes(c, ReplayQueued(a)) /\ UNCHANGED <<serverVars, stream, counters>>
    BY <1>2 DEF FinishSnapshot
  <2> HIDE DEF a
  <2>4. BrowserInv(ReplayQueued(a), stream[c], conn[c], lastSequence[c], conns)
    BY <1>1, <2>2, ReplayInv
  <2> QED
    BY <2>3, <2>4, CallsAlone DEF serverVars, counters
<1>3. CASE FailSnapshot(c)
  <2>1. u \in Browsers /\ SameQueue(u, s)
    BY <1>1 DEF Browsers, SameQueue
  <2>2. Becomes(c, ReplayQueued(u)) /\ UNCHANGED <<serverVars, stream, edits, conns>>
    BY <1>3 DEF FailSnapshot
  <2> HIDE DEF u
  <2>3. BrowserInv(ReplayQueued(u), stream[c], conn[c], lastSequence[c], conns)
    BY <1>1, <2>1, SameQueueInv, ReplayInv
  <2> QED
    BY <2>2, <2>3, CallsAlone DEF serverVars
<1> QED
  BY <1>2, <1>3

LEMMA EditInv ==
    ASSUME TypeOK, CallsInv, NEW c \in Client, NEW k \in Card, NEW v \in Value \cup {Absent},
           Edit(c, k, v)
    PROVE  CallsInv'
<1> DEFINE t == Edited(client[c], k, v)
<1>1. SameQueue(t, client[c])
  BY ClientType, EditedEffect
<1>2. Becomes(c, t) /\ UNCHANGED <<serverVars, stream, conns>>
  BY DEF Edit, Edited
<1> HIDE DEF t
<1>3. BrowserInv(t, stream[c], conn[c], lastSequence[c], conns)
  BY <1>1, ClientInv, SameQueueInv
<1> QED
  BY <1>2, <1>3, CallsAlone DEF serverVars

LEMMA FetchInv ==
    ASSUME TypeOK, CallsInv, NEW c \in Client, NEW e \in client[c].creating,
           FetchFail(c, e) \/ \E v \in Value \cup {Absent} : FetchDone(c, e, v)
    PROVE  CallsInv'
<1>1. PICK t \in Browsers : /\ Becomes(c, t) /\ SameQueue(t, client[c])
                            /\ UNCHANGED <<serverVars, stream, edits, conns>>
  BY FetchEffect
<1>2. BrowserInv(t, stream[c], conn[c], lastSequence[c], conns)
  BY <1>1, ClientInv, SameQueueInv
<1> QED
  BY <1>1, <1>2, CallsAlone DEF serverVars

LEMMA TickInv ==
    ASSUME TypeOK, CallsInv, NEW c \in Client, NEW early \in SUBSET Card, Tick(c, early)
    PROVE  CallsInv'
<1> DEFINE due == Unsent(client[c]) \ early
<1>1. due \in SUBSET Card
  BY DEF Unsent
<1>2. Becomes(c, BroadcastDeltas(client[c], due)) /\ UNCHANGED <<serverVars, stream, counters>>
  BY DEF Tick
<1> HIDE DEF due
<1>3. BrowserInv(BroadcastDeltas(client[c], due), stream[c], conn[c], lastSequence[c], conns)
  BY <1>1, ClientInv, BroadcastInv
<1> QED
  BY <1>2, <1>3, CallsAlone DEF serverVars, counters

LEMMA AnswerInv ==
    ASSUME TypeOK, CallsInv, NEW c \in Client, NEW a \in client[c].answers, Answer(c, a)
    PROVE  CallsInv'
<1> DEFINE s == client[c]
           h == Heard(s, a)
           t == Learned(h, a)
<1>1. /\ BrowserInv(s, stream[c], conn[c], lastSequence[c], conns)
      /\ s \in Browsers /\ lastSequence[c] \in Nat
  BY ClientInv
<1>2. a \in Answers /\ h \in Browsers /\ h.answers = s.answers \ {a}
      /\ SameQueue([h EXCEPT !.answers = s.answers], s)
  BY <1>1, HeardEffect
<1>3. Becomes(c, Finished(t, a)) /\ a.type # "field" /\ UNCHANGED <<serverVars, stream, counters>>
  BY DEF Answer, Heard, Learned
<1> HIDE DEF h
<1>4. t \in Browsers /\ SameQueue(t, h)
  BY <1>2, LearnedEffect
<1> HIDE DEF t
<1>5. t.answers = s.answers \ {a} /\ SameQueue([t EXCEPT !.answers = s.answers], s)
  BY <1>2, <1>4 DEF SameQueue, Browsers
<1>6. BrowserInv(Finished(t, a), stream[c], conn[c], lastSequence[c], conns)
  BY <1>1, <1>3, <1>4, <1>5, FinishedInv
<1> QED
  BY <1>3, <1>6, CallsAlone DEF serverVars, counters

\* A field commit is no part of the queue.
LEMMA FieldInv ==
    ASSUME NEW s \in Browsers, NEW t \in Browsers, Out(t) = Out(s),
           t.me = s.me, t.active = s.active, t.queue = s.queue, t.inFlight = s.inFlight,
           t.generation = s.generation, t.sequence = s.sequence,
           NEW q, NEW cn, NEW last, NEW top, BrowserInv(s, q, cn, last, top),
           \A x \in t.calls : x \in s.calls \/ (x.type = "field" /\ x.conn <= top)
    PROVE  BrowserInv(t, q, cn, last, top)
<1>1. QueueInv(t)
  BY DEF BrowserInv, QueueInv, QueueReady
<1>2. SequenceInv(t, cn, last)
  BY DEF BrowserInv, SequenceInv
<1>3. ConnInv(t, q, cn, top)
  BY DEF BrowserInv, ConnInv
<1> QED
  BY <1>1, <1>2, <1>3 DEF BrowserInv

LEMMA CommitFieldInv ==
    ASSUME TypeOK, CallsInv, NEW c \in Client, NEW k \in Card, NEW v \in Value, CommitField(c, k, v)
    PROVE  CallsInv'
<1> DEFINE s == client[c]
           m == [type |-> "field", card |-> k, value |-> v, conn |-> s.me, sequence |-> 0,
                 generation |-> s.generation]
           calls == s.calls \cup {m}
           t == [s EXCEPT !.wrote = TRUE, !.calls = calls]
<1>1. /\ BrowserInv(s, stream[c], conn[c], lastSequence[c], conns)
      /\ s \in Browsers /\ lastSequence[c] \in Nat
  BY ClientInv
<1>2. m \in Mutations /\ m.type = "field" /\ m.conn = s.me
  BY <1>1 DEF Browsers, Mutations, Held, Kind
<1>3. Becomes(c, [s EXCEPT !.wrote = TRUE, !.calls = @ \cup {m}])
  BY Zenon DEF CommitField
<1> HIDE DEF m
<1>4. calls \in SUBSET Mutations /\ \A x \in calls : x \in s.calls \/ x = m
  BY <1>1, <1>2 DEF Browsers
<1>5. Becomes(c, t)
  BY <1>1, <1>3 DEF Browsers
<1>6. Out([s EXCEPT !.calls = calls]) = Out(s)
  BY <1>1, <1>2 DEF Out, Browsers
<1> HIDE DEF calls
<1>7. /\ t \in Browsers /\ t.calls = calls /\ t.answers = s.answers
      /\ t.me = s.me /\ t.active = s.active /\ t.queue = s.queue /\ t.inFlight = s.inFlight
      /\ t.generation = s.generation /\ t.sequence = s.sequence
  BY <1>1, <1>4 DEF Browsers
<1>8. Out(t) = Out(s)
  BY <1>1, <1>2, <1>4, <1>7 DEF Out, calls
<1> HIDE DEF t
<1>9. s.me <= conns
  BY <1>1 DEF BrowserInv, ConnInv
<1>10. BrowserInv(t, stream[c], conn[c], lastSequence[c], conns)
  BY <1>1, <1>2, <1>4, <1>7, <1>8, <1>9, FieldInv
<1>11. UNCHANGED <<conn, conns, lastSequence, stream>>
  BY DEF CommitField
<1> QED
  BY <1>5, <1>10, <1>11, CallsAlone

LEMMA AnswerFieldInv ==
    ASSUME TypeOK, CallsInv, NEW c \in Client, NEW a \in client[c].answers, AnswerField(c, a)
    PROVE  CallsInv'
<1> DEFINE s == client[c]
           h == Heard(s, a)
           t == Committed(h, a)
<1>1. /\ BrowserInv(s, stream[c], conn[c], lastSequence[c], conns)
      /\ s \in Browsers /\ lastSequence[c] \in Nat
  BY ClientInv
<1>2. a \in Answers /\ h \in Browsers /\ h.answers = s.answers \ {a}
      /\ SameQueue([h EXCEPT !.answers = s.answers], s)
  BY <1>1, HeardEffect
<1>3. Becomes(c, t) /\ a.type = "field" /\ UNCHANGED <<serverVars, stream, counters>>
  BY DEF AnswerField, Heard, Committed
<1> HIDE DEF h
<1>4. t \in Browsers /\ SameQueue(t, h)
  BY <1>2, CommittedEffect
<1> HIDE DEF t
<1>5. /\ t.me = s.me /\ t.active = s.active /\ t.queue = s.queue /\ t.inFlight = s.inFlight
      /\ t.generation = s.generation /\ t.sequence = s.sequence /\ t.calls = s.calls
      /\ t.answers = s.answers \ {a}
  BY <1>2, <1>4 DEF SameQueue, Browsers
<1>6. Out(t) = Out(s)
  <2>1. a \notin s.calls
    BY <1>1, <1>2, CallsAreNoAnswers DEF Browsers
  <2> QED
    BY <1>3, <1>5, <2>1 DEF Out
<1>7. BrowserInv(t, stream[c], conn[c], lastSequence[c], conns)
  BY <1>1, <1>4, <1>5, <1>6, FieldInv
<1> QED
  BY <1>3, <1>7, CallsAlone DEF serverVars, counters

\* The call m of c is answered; its number may have been taken.
LEMMA ReplyInv ==
    ASSUME TypeOK, CallsInv, NEW c \in Client, NEW m \in client[c].calls, NEW ok \in BOOLEAN,
           NEW r \in Nat, Reply(c, m, ok, r), NEW next \in Nat,
           next = lastSequence[c] \/ (m.type # "field" /\ m.conn = conn[c] /\ next = m.sequence)
    PROVE  \E s : Becomes(c, s) /\ BrowserInv(s, stream[c], conn[c], next, conns)
<1> DEFINE a == AnswerTo(m, ok, r)
<1>1. /\ BrowserInv(client[c], stream[c], conn[c], lastSequence[c], conns)
      /\ client[c] \in Browsers /\ lastSequence[c] \in Nat
  BY ClientInv
<1>2. Becomes(c, Replied(client[c], m, a)) /\ a \in Answers
  BY ReplyEffect
<1>3. a.type = m.type /\ a.card = m.card /\ a.generation = m.generation
  BY DEF AnswerTo
<1> HIDE DEF a
<1>4. BrowserInv(Replied(client[c], m, a), stream[c], conn[c], next, conns)
  BY <1>1, <1>2, <1>3, RepliedInv
<1> QED
  BY <1>2, <1>4

LEMMA LoseCallInv ==
    ASSUME TypeOK, CallsInv, NEW c \in Client, NEW m \in client[c].calls, LoseCall(c, m)
    PROVE  CallsInv'
<1>1. Reply(c, m, FALSE, 0) /\ UNCHANGED <<serverVars, stream, conns>>
  BY DEF LoseCall
<1>2. \E s : Becomes(c, s) /\ BrowserInv(s, stream[c], conn[c], lastSequence[c], conns)
  <2>1. lastSequence[c] \in Nat
    BY ClientInv
  <2> QED
    BY <1>1, <2>1, ReplyInv
<1> QED
  BY <1>1, <1>2, CallsAlone DEF serverVars

\* What is appended is no init event.
LEMMA AppendedInits ==
    ASSUME NEW q \in Seq(Events \cup Inits), NEW r \in Seq(Events \cup Inits),
           \A i \in 1..Len(r) : r[i].type # "init"
    PROVE  NoNewInits(q \o r, q)
<1>1. \A i \in 1..Len(q \o r) : \/ i \in 1..Len(q) /\ (q \o r)[i] = q[i]
                                \/ i - Len(q) \in 1..Len(r) /\ (q \o r)[i] = r[i - Len(q)]
  <2> TAKE i \in 1..Len(q \o r)
  <2>1. Len(q \o r) = Len(q) + Len(r) /\ Len(q) \in Nat /\ Len(r) \in Nat
    OBVIOUS
  <2>2. CASE i <= Len(q)
    <3>1. i \in 1..Len(q)
      BY <2>1, <2>2
    <3>2. (q \o r)[i] = q[i]
      BY <3>1
    <3> QED
      BY <3>1, <3>2, Zenon
  <2>3. CASE i > Len(q)
    BY <2>1, <2>3
  <2> QED
    BY <2>1, <2>2, <2>3
<1> QED
  BY <1>1, Zenon DEF NoNewInits

LEMMA AppendedInit ==
    ASSUME NEW q \in Seq(Events \cup Inits), NEW e \in Events
    PROVE  Append(q, e) \in Seq(Events \cup Inits) /\ NoNewInits(Append(q, e), q)
<1> DEFINE r == <<e>>
<1>1. r \in Seq(Events \cup Inits) /\ \A i \in 1..Len(r) : r[i].type # "init"
  BY EventKinds
<1>2. Append(q, e) = q \o r /\ Append(q, e) \in Seq(Events \cup Inits)
  OBVIOUS
<1> HIDE DEF r
<1> QED
  BY <1>1, <1>2, AppendedInits

LEMMA HandleInv ==
    ASSUME TypeOK, CallsInv, NEW c \in Client, NEW m \in client[c].calls, NEW heard \in BOOLEAN,
           NEW unknown \in SUBSET (Client \ Owner), Handle(c, m, heard, unknown)
    PROVE  CallsInv'
<1>1. m \in Mutations /\ m.sequence \in Nat
  BY ClientType DEF Browsers, Mutations
<1>2. lastSequence \in [Client -> Nat] /\ revision + 1 \in Nat
  BY DEF TypeOK
<1>3. /\ \A d \in Client \ {c} : lastSequence'[d] = lastSequence[d]
      /\ lastSequence'[c] \in Nat
      /\ \/ lastSequence'[c] = lastSequence[c]
         \/ m.type # "field" /\ m.conn = conn[c] /\ lastSequence'[c] = m.sequence
  BY <1>1, <1>2 DEF Handle, TakeSequence
<1>4. \E ok \in BOOLEAN, r \in Nat : Reply(c, m, ok, r)
  BY <1>2 DEF Handle
<1>5. \E s : Becomes(c, s) /\ BrowserInv(s, stream[c], conn[c], lastSequence'[c], conns)
  BY <1>3, <1>4, ReplyInv
<1>6. \A d \in Client : NoNewInits(stream'[d], stream[d])
  <2> TAKE d \in Client
  <2>1. stream[d] \in Seq(Events \cup Inits)
    BY DEF TypeOK
  <2>2. Event(m) \in Events
    BY <1>1, EventType DEF Events
  <2>3. stream'[d] = stream[d] \/ stream'[d] = Append(stream[d], Event(m))
    <3>1. CASE Accepts(c, m)
      BY <3>1 DEF Handle, BroadcastMutation
    <3>2. CASE ~Accepts(c, m)
      BY <3>2 DEF Handle
    <3> QED
      BY <3>1, <3>2
  <2>4. NoNewInits(stream[d], stream[d])
    BY DEF NoNewInits
  <2>5. NoNewInits(Append(stream[d], Event(m)), stream[d])
    BY <2>1, <2>2, AppendedInit
  <2> QED
    BY <2>3, <2>4, <2>5
<1>7. conn' = conn /\ conns' = conns
  BY DEF Handle
<1> QED
  BY <1>3, <1>5, <1>6, <1>7, CallsStep

LEMMA RefreshInv ==
    ASSUME TypeOK, CallsInv, NEW c \in Client, Refresh(c)
    PROVE  CallsInv'
BY DEF Refresh, CallsInv, counters

LEMMA DeliverInv ==
    ASSUME TypeOK, CallsInv, NEW c \in Client, DeliverSnapshot(c) \/ DeliverUnavailable(c)
    PROVE  CallsInv'
<1>1. UNCHANGED <<conn, lastSequence, client, conns>>
  BY DEF DeliverSnapshot, DeliverUnavailable, counters
<1>2. /\ stream[c] \in Seq(Events \cup Inits) /\ held[c] \in Seq(Changes)
      /\ syncing[c] \in Snapshots /\ durableRevision \in Nat
  BY DEF DeliverSnapshot, DeliverUnavailable, TypeOK
<1>3. \E q : stream' = [stream EXCEPT ![c] = q] /\ NoNewInits(q, stream[c])
  <2>1. CASE DeliverSnapshot(c)
    <3> DEFINE e == [syncing[c] EXCEPT !.durable = durableRevision]
               new == Newer(held[c], syncing[c].revision)
               q == Append(stream[c], e)
    <3>1. e \in Snapshots
      BY <1>2 DEF Snapshots
    <3>2. new \in Seq(Changes)
      BY <1>2, NewerStays
    <3>3. stream' = [stream EXCEPT ![c] = q \o new]
      BY <2>1 DEF DeliverSnapshot
    <3> HIDE DEF e, new
    <3>4. e \in Events /\ new \in Seq(Events)
      BY <3>1, <3>2 DEF Events
    <3>5. q \in Seq(Events \cup Inits) /\ NoNewInits(q, stream[c])
      BY <1>2, <3>4, AppendedInit
    <3> HIDE DEF q
    <3>6. new \in Seq(Events \cup Inits) /\ \A i \in 1..Len(new) : new[i].type # "init"
      BY <3>4, EventKinds
    <3>7. NoNewInits(q \o new, q)
      BY <3>5, <3>6, AppendedInits
    <3>8. NoNewInits(q \o new, stream[c])
      BY <3>5, <3>7, ZenonT(30) DEF NoNewInits
    <3> QED
      BY <3>3, <3>8
  <2>2. CASE DeliverUnavailable(c)
    <3> DEFINE e == [type |-> "unavailable", revision |-> syncing[c].revision]
    <3>1. e \in Events
      BY <1>2 DEF Snapshots, Events
    <3>2. stream' = [stream EXCEPT ![c] = Append(stream[c], e)]
      BY <2>2 DEF DeliverUnavailable
    <3> HIDE DEF e
    <3> QED
      BY <1>2, <3>1, <3>2, AppendedInit
  <2> QED
    BY <2>1, <2>2
<1>4. \A d \in Client : NoNewInits(stream'[d], stream[d])
  <2> TAKE d \in Client
  <2>1. PICK q : stream' = [stream EXCEPT ![c] = q] /\ NoNewInits(q, stream[c])
    BY <1>3
  <2>2. NoNewInits(stream[d], stream[d])
    BY DEF NoNewInits
  <2>3. stream'[d] = IF d = c THEN q ELSE stream[d]
    BY <2>1 DEF TypeOK
  <2> QED
    BY <2>1, <2>2, <2>3
<1> SUFFICES ASSUME NEW d \in Client
             PROVE  BrowserInv(client[d], stream'[d], conn[d], lastSequence[d], conns)
  BY <1>1 DEF CallsInv
<1> QED
  BY <1>4, ClientInv, StreamInv

LEMMA SubscribeInv ==
    ASSUME TypeOK, CallsInv, NEW c \in Client, Subscribe(c)
    PROVE  CallsInv'
<1> DEFINE init == [type |-> "init", conn |-> conns + 1, instance |-> instance,
                    revision |-> revision, durable |-> durableRevision]
           q == IF c \in Owner THEN <<init, Snapshot>> ELSE <<init>>
<1>1. /\ stream' = [stream EXCEPT ![c] = q]
      /\ conn' = [conn EXCEPT ![c] = conns + 1]
      /\ lastSequence' = [lastSequence EXCEPT ![c] = 0]
      /\ conns' = conns + 1 /\ client' = client
  BY Zenon DEF Subscribe
<1>2. init.conn = conns + 1
  OBVIOUS
<1> HIDE DEF init
<1>3. \A i \in 1..Len(q) : q[i].type = "init" => q[i].conn <= conns + 1
  <2>1. conns \in Nat
    BY ClientInv
  <2>2. Snapshot.type # "init"
    BY DEF Snapshot
  <2>3. CASE c \in Owner
    <3>1. q = <<init, Snapshot>>
      BY <2>3
    <3>2. \A i \in 1..Len(q) : q[i] = init \/ q[i] = Snapshot
      BY <3>1
    <3> QED
      BY <1>2, <2>1, <2>2, <3>2
  <2>4. CASE c \notin Owner
    <3>1. q = <<init>>
      BY <2>4
    <3>2. \A i \in 1..Len(q) : q[i] = init
      BY <3>1
    <3> QED
      BY <1>2, <2>1, <3>2
  <2> QED
    BY <2>3, <2>4
<1> HIDE DEF q
<1> SUFFICES ASSUME NEW d \in Client
             PROVE  BrowserInv(client[d], stream'[d], conn'[d], lastSequence'[d], conns + 1)
  BY <1>1 DEF CallsInv
<1>4. /\ BrowserInv(client[d], stream[d], conn[d], lastSequence[d], conns)
      /\ client[d] \in Browsers /\ conns \in Nat /\ conn[d] \in Nat
      /\ stream[d] \in Seq(Events \cup Inits)
  BY ClientInv DEF TypeOK
<1>5. CASE d = c
  <2>1. stream'[d] = q /\ conn'[d] = conns + 1 /\ lastSequence'[d] = 0
    BY <1>1, <1>5 DEF TypeOK
  <2> QED
    BY <1>3, <1>4, <2>1, SubscribedInv
<1>6. CASE d # c
  <2>1. stream'[d] = stream[d] /\ conn'[d] = conn[d] /\ lastSequence'[d] = lastSequence[d]
    BY <1>1, <1>6 DEF TypeOK
  <2> QED
    BY <1>4, <2>1, MoreConnsInv
<1> QED
  BY <1>5, <1>6

LEMMA DropInv ==
    ASSUME TypeOK, CallsInv, NEW c \in Client, Drop(c)
    PROVE  CallsInv'
<1>1. Ended({c}) /\ Becomes(c, [client[c] EXCEPT !.me = 0]) /\ UNCHANGED <<lastSequence, conns>>
  BY DEF Drop, counters
<1> SUFFICES ASSUME NEW d \in Client
             PROVE  BrowserInv(client'[d], stream'[d], conn'[d], lastSequence[d], conns)
  BY <1>1 DEF CallsInv
<1>2. /\ BrowserInv(client[d], stream[d], conn[d], lastSequence[d], conns)
      /\ client[d] \in Browsers /\ conns \in Nat
  BY ClientInv
<1>3. CASE d = c
  <2>1. client'[d] = [client[d] EXCEPT !.me = 0] /\ stream'[d] = <<>> /\ conn'[d] = 0
    BY <1>1, <1>3 DEF Becomes, Ended, TypeOK
  <2> QED
    BY <1>2, <2>1, EndedInv
<1>4. CASE d # c
  <2>1. client'[d] = client[d] /\ stream'[d] = stream[d] /\ conn'[d] = conn[d]
    BY <1>1, <1>4 DEF Becomes, Ended, TypeOK
  <2> QED
    BY <1>2, <2>1
<1> QED
  BY <1>3, <1>4

LEMMA ResubscribeInv ==
    ASSUME TypeOK, CallsInv, NEW c \in Client, Resubscribe(c)
    PROVE  CallsInv'
<1>1. /\ Ended({c}) /\ Becomes(c, Resubscribed(client[c]))
      /\ UNCHANGED <<lastSequence, conns>>
  BY DEF Resubscribe, Resubscribed, counters
<1> SUFFICES ASSUME NEW d \in Client
             PROVE  BrowserInv(client'[d], stream'[d], conn'[d], lastSequence[d], conns)
  BY <1>1 DEF CallsInv
<1>2. /\ BrowserInv(client[d], stream[d], conn[d], lastSequence[d], conns)
      /\ client[d] \in Browsers /\ conns \in Nat
  BY ClientInv
<1>3. CASE d = c
  <2> DEFINE s == client[d]
             t == Resubscribed(s)
  <2>1. client'[d] = t /\ stream'[d] = <<>> /\ conn'[d] = 0
    BY <1>1, <1>3 DEF Becomes, Ended, TypeOK
  <2>2. /\ t.calls = s.calls /\ t.answers = s.answers /\ t.me = 0 /\ t.active = 0
        /\ t.queue = <<>> /\ t.generation = s.generation + 1
        /\ t.inFlight = [k \in Card |-> 0]
    BY <1>2, ResubscribedEffect
  <2> HIDE DEF t
  <2>3. Out(t) = Out(s)
    BY <2>2 DEF Out
  <2>4. s.generation \in Nat /\ \A x \in Out(s) : x.generation \in Nat
    BY <1>2 DEF Browsers, Mutations, Answers, Out
  <2>5. QueueInv(t)
    BY <1>2, <2>2, <2>3, <2>4 DEF BrowserInv, QueueInv, QueueReady
  <2>6. SequenceInv(t, 0, lastSequence[d])
    BY DEF SequenceInv
  <2>7. ConnInv(t, <<>>, 0, conns)
    BY <1>2, <2>2 DEF BrowserInv, ConnInv
  <2> QED
    BY <2>1, <2>5, <2>6, <2>7 DEF BrowserInv
<1>4. CASE d # c
  <2>1. client'[d] = client[d] /\ stream'[d] = stream[d] /\ conn'[d] = conn[d]
    BY <1>1, <1>4 DEF Becomes, Ended, TypeOK
  <2> QED
    BY <1>2, <2>1
<1> QED
  BY <1>3, <1>4

LEMMA RestartInv ==
    ASSUME TypeOK, CallsInv, Restart
    PROVE  CallsInv'
<1> SUFFICES ASSUME NEW d \in Client
             PROVE  BrowserInv(client'[d], stream'[d], conn'[d], lastSequence[d], conns)
  BY DEF Restart, CallsInv
<1>1. client'[d] = [client[d] EXCEPT !.me = 0] /\ stream'[d] = <<>> /\ conn'[d] = 0
  BY DEF Restart, Ended
<1> QED
  BY <1>1, ClientInv, EndedInv

LEMMA InitInv ==
    ASSUME Init
    PROVE  CallsInv
<1> SUFFICES ASSUME NEW c \in Client
             PROVE  BrowserInv(client[c], stream[c], conn[c], lastSequence[c], conns)
  BY DEF CallsInv
<1> DEFINE s == client[c]
<1>1. s = Fresh(Stored, 1) /\ stream[c] = <<>> /\ conn[c] = 0 /\ conns = 0
  BY DEF Init
<1>2. /\ s.me = 0 /\ s.active = 0 /\ s.queue = <<>> /\ s.generation = 1
      /\ s.inFlight = [k \in Card |-> 0] /\ s.calls = {} /\ s.answers = {}
  BY <1>1 DEF Fresh
<1> HIDE DEF s
<1>3. Out(s) = {}
  BY <1>2 DEF Out
<1>4. QueueInv(s)
  BY <1>2, <1>3 DEF QueueInv, QueueReady
<1>5. SequenceInv(s, 0, lastSequence[c])
  BY DEF SequenceInv
<1>6. ConnInv(s, <<>>, 0, 0)
  BY <1>2 DEF ConnInv
<1> QED
  BY <1>1, <1>4, <1>5, <1>6 DEF BrowserInv, s

LEMMA NextInv ==
    ASSUME TypeOK, CallsInv, [Next]_vars
    PROVE  CallsInv'
<1>1. CASE UNCHANGED vars
  BY <1>1 DEF vars, serverVars, counters, CallsInv
<1>2. CASE Restart
  BY <1>2, RestartInv
<1>3. CASE \E c \in Client : Receive(c)
  BY <1>3, ReceiveInv
<1>4. CASE \E c \in Client : FinishSnapshot(c) \/ FailSnapshot(c)
  BY <1>4, SnapshotStepInv
<1>5. CASE \E c \in Client : Refresh(c)
  BY <1>5, RefreshInv
<1>6. CASE \E c \in Client : DeliverSnapshot(c) \/ DeliverUnavailable(c)
  BY <1>6, DeliverInv
<1>7. CASE \E c \in Client : Subscribe(c) \/ Drop(c) \/ Resubscribe(c)
  BY <1>7, SubscribeInv, DropInv, ResubscribeInv
<1>8. CASE \E c \in Client : \E k \in Card, v \in Value \cup {Absent} : Edit(c, k, v)
  BY <1>8, EditInv
<1>9. CASE \E c \in Client : \E k \in Card, v \in Value : CommitField(c, k, v)
  BY <1>9, CommitFieldInv
<1>10. CASE \E c \in Client : \E early \in SUBSET Card : Tick(c, early)
  BY <1>10, TickInv
<1>11. CASE \E c \in Client : \E a \in client[c].answers : Answer(c, a) \/ AnswerField(c, a)
  BY <1>11, AnswerInv, AnswerFieldInv
<1>12. CASE \E c \in Client : \E m \in client[c].calls : LoseCall(c, m)
  BY <1>12, LoseCallInv
<1>14. CASE \E c \in Client : \E e \in client[c].creating :
               FetchFail(c, e) \/ \E v \in Value \cup {Absent} : FetchDone(c, e, v)
  BY <1>14, FetchInv
<1>13. CASE \E c \in Client : \E m \in client[c].calls :
               \E heard \in BOOLEAN, unknown \in SUBSET (Client \ Owner) : Handle(c, m, heard, unknown)
  BY <1>13, HandleInv
<1> QED
  BY <1>1, <1>2, <1>3, <1>4, <1>5, <1>6, <1>7, <1>8, <1>9, <1>10, <1>11, <1>12, <1>13, <1>14, Zenon DEF Next

LEMMA CallsCorrect == Spec => []CallsInv
<1>1. Init => CallsInv
  BY InitInv
<1>2. TypeOK /\ CallsInv /\ [Next]_vars => CallsInv'
  BY NextInv
<1> QED
  BY <1>1, <1>2, TypeCorrect, PTL DEF Spec

\* The queue of every browser moves, for any clients, cards and bounds: what is
\* marked as being sent is under way or waits behind what is.
THEOREM QueueAlwaysMoves == Spec => []QueueMoves
<1>1. CallsInv => QueueMoves
  <2> SUFFICES ASSUME CallsInv, NEW c \in Client
               PROVE  LET s == client[c]
                          out == {x \in s.calls \cup s.answers : x.type # "field"}
                      IN  /\ s.active # 0 => \E x \in out : x.generation = s.active
                          /\ s.queue # <<>> => s.active # 0
                          /\ \A k \in Card : s.inFlight[k] # 0 =>
                                 \/ \E x \in out : x.card = k /\ x.generation = s.inFlight[k]
                                 \/ \E i \in 1..Len(s.queue) :
                                        s.queue[i].card = k /\ s.queue[i].generation = s.inFlight[k]
    BY DEF QueueMoves
  <2>1. QueueInv(client[c])
    BY DEF CallsInv, BrowserInv
  <2> QED
    BY <2>1 DEF QueueInv, QueueReady, Out
<1> QED
  BY <1>1, CallsCorrect, PTL

\* No request a browser still counts on is below the last number the server took,
\* for any clients, cards and bounds: the numbering outlives every reset of the queue.
THEOREM NumbersNeverStale == Spec => []CurrentNeverStale
<1>1. CallsInv => CurrentNeverStale
  BY DEF CallsInv, BrowserInv, SequenceInv, CurrentNeverStale
<1> QED
  BY <1>1, CallsCorrect, PTL

=============================================================================
