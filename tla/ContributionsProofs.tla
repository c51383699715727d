------------------------- MODULE ContributionsProofs -------------------------
(* Safety of the contributions for every set of fields and tabs, any number of  *)
(* submissions, entries and versions, and whatever call fails or goes unheard.  *)
EXTENDS Contributions, FiniteSetTheorems, SequenceTheorems, TLAPS

-----------------------------------------------------------------------------
(* Operators of the model *)

\* A set of row numbers has a latest one.
LEMMA LatestIsLast ==
    ASSUME NEW n \in Nat, NEW ids \in SUBSET (1..n), ids # {}
    PROVE  Latest(ids) \in ids /\ \A j \in ids : j <= Latest(ids)
  <1>. DEFINE later(i) == {j \in ids : j > i}
              T == {later(i) : i \in ids}
  <1>1. IsFiniteSet(ids)
    <2>1. IsFiniteSet(1..n)
      BY FS_Interval
    <2>. QED BY <2>1, FS_Subset
  <1>2. IsWellFoundedOn(StrictSubsetOrdering(ids), FiniteSubsetsOf(ids))
    BY FS_StrictSubsetOrderingWellFounded
  <1>3. T \subseteq FiniteSubsetsOf(ids) /\ T # {}
    <2>1. FiniteSubsetsOf(ids) = SUBSET ids
      BY <1>1, FS_FiniteSubsetsOfFinite
    <2>2. \A i : later(i) \in SUBSET ids
      OBVIOUS
    <2>3. PICK i : i \in ids
      OBVIOUS
    <2>4. later(i) \in T
      BY <2>3
    <2>5. T \subseteq SUBSET ids
      BY <2>2
    <2>. QED BY <2>1, <2>4, <2>5
  <1>4. PICK x \in T : \A y \in T : <<y, x>> \notin StrictSubsetOrdering(ids)
    BY <1>2, <1>3, WFMin, Zenon
  <1>5. PICK i \in ids : x = later(i)
    BY <1>4
  <1>6. ASSUME NEW j \in ids, j > i PROVE FALSE
    <2>1. later(j) \subseteq later(i) /\ later(j) # later(i)
      <3>1. j \in later(i) /\ j \notin later(j)
        BY <1>6
      <3>2. \A k \in later(j) : k \in later(i)
        BY <1>6
      <3>. QED BY <3>1, <3>2
    <2>2. later(j) \in T /\ later(j) \in SUBSET ids /\ later(i) \in SUBSET ids
      OBVIOUS
    <2>. QED BY <1>4, <1>5, <2>1, <2>2 DEF StrictSubsetOrdering
  <1>7. \A j \in ids : j <= i
    BY <1>6
  <1>. QED BY <1>7 DEF Latest

LEMMA WriteType ==
    ASSUME NEW value \in [Field -> 0..MaxWrites], NEW values \in Values
    PROVE  /\ Write(value, values) \in [Field -> 0..MaxWrites]
           /\ \A f \in Field : Write(value, values)[f] = IF f \in DOMAIN values THEN values[f] ELSE value[f]
           /\ DOMAIN values \subseteq Field
           /\ \A f \in DOMAIN values : values[f] \in 1..MaxWrites
  <1>1. PICK F \in SUBSET Field : values \in [F -> 1..MaxWrites]
    BY DEF Values
  <1>2. \A f \in F : values[f] \in 1..MaxWrites /\ values[f] \in 0..MaxWrites
    BY <1>1, ContributionsAssumption
  <1>. QED BY <1>1, <1>2 DEF Write

LEMMA RowType ==
    ASSUME TypeOK, NEW i \in RowIds
    PROVE  /\ rows[i] \in Rows /\ rows[i].values \in Values
           /\ DOMAIN rows[i].values \subseteq Field
           /\ \A f \in DOMAIN rows[i].values : rows[i].values[f] \in 1..MaxWrites
  <1>1. rows[i] \in Rows
    BY DEF TypeOK, RowIds
  <1>2. rows[i].values \in Values
    BY <1>1 DEF Rows
  <1>. QED BY <1>1, <1>2 DEF Values

\* What Applied writes over a field are values of the latest record that has one.
LEMMA AppliedField ==
    ASSUME TypeOK, NEW payload \in Payload, NEW ids \in SUBSET RowIds
    PROVE  /\ Applied(payload, ids) \in Payload
           /\ Applied(payload, ids).slot = payload.slot
           /\ \A f \in Field :
                 \/ /\ \A i \in ids : f \notin DOMAIN rows[i].values
                    /\ Applied(payload, ids).value[f] = payload.value[f]
                 \/ ~payload.slot /\ Applied(payload, ids).value[f] = payload.value[f]
                 \/ \E k \in ids :
                       /\ f \in DOMAIN rows[k].values
                       /\ Applied(payload, ids).value[f] = rows[k].values[f]
                       /\ \A i \in ids : f \in DOMAIN rows[i].values => i <= k
  <1>. DEFINE Over(f) == {i \in ids : f \in DOMAIN rows[i].values}
              value == [f \in Field |-> IF Over(f) = {} THEN payload.value[f]
                                        ELSE rows[Latest(Over(f))].values[f]]
  <1>1. CASE ~payload.slot
    BY <1>1 DEF Applied
  <1>2. CASE payload.slot
    <2>1. Applied(payload, ids) = [payload EXCEPT !.value = value]
      BY <1>2 DEF Applied
    <2>2. ASSUME NEW f \in Field, Over(f) # {}
          PROVE  /\ Latest(Over(f)) \in ids /\ f \in DOMAIN rows[Latest(Over(f))].values
                 /\ \A i \in ids : f \in DOMAIN rows[i].values => i <= Latest(Over(f))
      <3>1. Over(f) \in SUBSET (1..Len(rows))
        BY DEF RowIds
      <3>3. Len(rows) \in Nat
        BY LenProperties DEF TypeOK
      <3>2. Latest(Over(f)) \in Over(f) /\ \A j \in Over(f) : j <= Latest(Over(f))
        BY <2>2, <3>1, <3>3, LatestIsLast
      <3>. QED BY <3>2
    <2>3. \A f \in Field : value[f] \in 0..MaxWrites
      <3>. SUFFICES ASSUME NEW f \in Field PROVE value[f] \in 0..MaxWrites
        OBVIOUS
      <3>1. CASE Over(f) = {}
        BY <3>1 DEF Payload
      <3>2. CASE Over(f) # {}
        BY <2>2, <3>2, RowType, ContributionsAssumption
      <3>. QED BY <3>1, <3>2
    <2>4. [payload EXCEPT !.value = value] \in Payload
      BY <2>3 DEF Payload
    <2>5. Applied(payload, ids).value = value /\ Applied(payload, ids).slot = payload.slot
      BY <2>1, <1>2 DEF Payload
    <2>6. ASSUME NEW f \in Field
          PROVE  \/ /\ \A i \in ids : f \notin DOMAIN rows[i].values
                    /\ value[f] = payload.value[f]
                 \/ \E k \in ids :
                       /\ f \in DOMAIN rows[k].values
                       /\ value[f] = rows[k].values[f]
                       /\ \A i \in ids : f \in DOMAIN rows[i].values => i <= k
      BY <2>2
    <2>. QED BY <2>1, <2>4, <2>5, <2>6
  <1>. QED BY <1>1, <1>2

-----------------------------------------------------------------------------
(* Rows *)

\* The records keep their order and what they hold.
RowsKept ==
    /\ rows' \in Seq(Rows) /\ Len(rows') = Len(rows)
    /\ \A i \in RowIds : rows'[i].values = rows[i].values

NewRow == [values |-> fill.values, status |-> "Submitted", shared |-> FALSE]

\* No record is submitted anew, or taken from the owner but by the share that fails.
StatusKept ==
    \A i \in RowIds :
        /\ rows'[i].status = "Submitted" => rows[i].status = "Submitted"
        /\ rows[i].shared => rows'[i].shared \/ (i = fill.row /\ fill.pc = "share")

NoneMerged == \A i \in RowIds : rows'[i].status = "Merged" => rows[i].status = "Merged"

LEMMA RowsInSeq ==
    ASSUME TypeOK
    PROVE  Len(rows) \in Nat /\ rows \in [1..Len(rows) -> Rows]
  BY LenProperties DEF TypeOK

LEMMA MarkedRows ==
    ASSUME TypeOK, NEW ids, NEW status \in Status, rows' = Marked(ids, status)
    PROVE  /\ RowsKept
           /\ \A i \in RowIds :
                 /\ rows'[i].shared = rows[i].shared
                 /\ rows'[i].status = rows[i].status \/ (i \in ids /\ rows'[i].status = status)
  <1>1. Len(rows) \in Nat /\ rows \in [1..Len(rows) -> Rows]
    BY RowsInSeq
  <1>2. \A i \in 1..Len(rows) :
           /\ rows'[i] \in Rows /\ rows'[i].values = rows[i].values
           /\ rows'[i].shared = rows[i].shared
           /\ rows'[i].status = rows[i].status \/ (i \in ids /\ rows'[i].status = status)
    <2>. SUFFICES ASSUME NEW i \in 1..Len(rows)
                  PROVE  /\ rows'[i] \in Rows /\ rows'[i].values = rows[i].values
                         /\ rows'[i].shared = rows[i].shared
                         /\ rows'[i].status = rows[i].status \/ (i \in ids /\ rows'[i].status = status)
      OBVIOUS
    <2>1. rows[i] \in Rows
      BY <1>1
    <2>2. rows'[i] = rows[i] \/ (i \in ids /\ rows'[i] = [rows[i] EXCEPT !.status = status])
      BY <2>1 DEF Marked, RowIds, Rows
    <2>. QED BY <2>1, <2>2 DEF Rows
  <1>3. rows' = [i \in 1..Len(rows) |-> rows'[i]]
    BY DEF Marked, RowIds
  <1>4. rows' \in [1..Len(rows) -> Rows]
    BY <1>2, <1>3
  <1>5. rows' \in Seq(Rows) /\ Len(rows') = Len(rows)
    BY <1>1, <1>4, SeqDef, LenProperties
  <1>. QED BY <1>2, <1>5 DEF RowsKept, RowIds

LEMMA SharedRows ==
    ASSUME TypeOK, NEW k, NEW b \in BOOLEAN, rows' = [rows EXCEPT ![k].shared = b]
    PROVE  /\ RowsKept
           /\ \A i \in RowIds :
                 /\ i # k => rows'[i].shared = rows[i].shared
                 /\ i = k => rows'[i].shared = b
                 /\ rows'[i].status = rows[i].status
  <1>1. Len(rows) \in Nat /\ rows \in [1..Len(rows) -> Rows]
    BY RowsInSeq
  <1>2. \A i \in 1..Len(rows) :
           /\ rows'[i] \in Rows /\ rows'[i].values = rows[i].values
           /\ i # k => rows'[i].shared = rows[i].shared
           /\ i = k => rows'[i].shared = b
           /\ rows'[i].status = rows[i].status
    BY <1>1 DEF Rows
  <1>3. rows' \in [1..Len(rows) -> Rows]
    BY <1>1, <1>2
  <1>4. rows' \in Seq(Rows) /\ Len(rows') = Len(rows)
    BY <1>1, <1>3, SeqDef, LenProperties
  <1>. QED BY <1>2, <1>4 DEF RowsKept, RowIds

LEMMA AppendedRows ==
    ASSUME TypeOK, rows' = Append(rows, NewRow)
    PROVE  /\ rows' \in Seq(Rows) /\ Len(rows') = Len(rows) + 1
           /\ \A i \in RowIds : rows'[i] = rows[i]
           /\ rows'[Len(rows) + 1] = NewRow
  <1>1. NewRow \in Rows
    BY DEF NewRow, Rows, TypeOK, Fills, Status
  <1>. QED BY <1>1, AppendProperties DEF TypeOK, RowIds

\* More rows make the types larger.
LEMMA TypesGrow ==
    ASSUME TypeOK, Len(rows') \in Nat, Len(rows) <= Len(rows')
    PROVE  /\ RowIds \subseteq RowIds'
           /\ Fills \subseteq Fills' /\ Pages \subseteq Pages'
           /\ Opens \subseteq Opens' /\ Saves \subseteq Saves'
           /\ (RowIds \X Field) \subseteq (RowIds \X Field)'
  <1>1. Len(rows) \in Nat
    BY RowsInSeq
  <1>2. RowIds \subseteq RowIds' /\ 0..Len(rows) \subseteq 0..Len(rows')
    BY <1>1 DEF RowIds
  <1>3. \A x \in SUBSET RowIds : x \in SUBSET RowIds'
    BY <1>2
  <1>4. Fills \subseteq Fills'
    BY <1>2, <1>3 DEF Fills
  <1>5. Pages \subseteq Pages'
    BY <1>3 DEF Pages
  <1>6. Opens \subseteq Opens'
    BY <1>3 DEF Opens
  <1>7. Saves \subseteq Saves'
    BY <1>3 DEF Saves
  <1>. QED BY <1>2, <1>4, <1>5, <1>6, <1>7

-----------------------------------------------------------------------------
(* Types.  They rest on where a submission is, and on a merge having raised the *)
(* version that it read.                                                        *)

Sends == {"sent", "list", "supersede", "create"}
Created == {"share", "undo", "commit"}

StageInv ==
    /\ fill.pc \in Sends => Len(rows) < MaxFills
    /\ fill.pc \in Created => fill.row \in RowIds
    /\ \A p \in Page : open[p].pc = "mark" => open[p].item.version < stored.version

TypeInv == TypeOK /\ StageInv

LEMMA RestTypes ==
    /\ Blank \in Payload /\ Saved \in Item
    /\ NoOpen \in Opens /\ NoSave \in Saves /\ Closed \in Pages
    /\ NoSave.pending = {} /\ NoSave.acks = {} /\ NoFill.pc = "idle" /\ NoOpen.pc = "idle"
  <1>1. Blank \in Payload /\ Saved \in Item
    BY ContributionsAssumption DEF Blank, Payload, Saved, Item
  <1>2. NoOpen \in Opens
    BY <1>1 DEF NoOpen, Opens
  <1>3. NoSave \in Saves
    BY <1>1, ContributionsAssumption DEF NoSave, Saves, Expected
  <1>4. Closed \in Pages
    BY <1>1 DEF Closed, Pages, Expected
  <1>. QED BY <1>1, <1>2, <1>3, <1>4 DEF NoSave, NoFill, NoOpen

LEMMA NoFillType ==
    ASSUME Len(rows) \in Nat
    PROVE  NoFill \in Fills /\ DOMAIN NoFill.base = DOMAIN NoFill.values
  <1>. DEFINE none == [f \in {} |-> 0]
  <1>1. none \in [{} -> 1..MaxWrites] /\ none \in [{} -> 0..MaxWrites]
    OBVIOUS
  <1>2. none \in Values /\ none \in UNION {[F -> 0..MaxWrites] : F \in SUBSET Field}
    BY <1>1 DEF Values
  <1>3. 0 \in 0..Len(rows)
    OBVIOUS
  <1>4. NoFill = [pc |-> "idle", values |-> none, base |-> none, live |-> FALSE, previous |-> {}, row |-> 0]
    BY DEF NoFill
  <1>. HIDE DEF none
  <1>. QED BY <1>2, <1>3, <1>4 DEF Fills

LEMMA InitType == Init => TypeInv
  <1>. SUFFICES ASSUME Init PROVE TypeInv
    OBVIOUS
  <1>1. rows = <<>> /\ Len(rows) = 0 /\ rows \in Seq(Rows)
    BY EmptySeq DEF Init
  <1>2. fill \in Fills /\ DOMAIN fill.base = DOMAIN fill.values /\ fill.pc = "idle"
    BY <1>1, NoFillType, RestTypes DEF Init
  <1>3. page \in [Page -> Pages] /\ open \in [Page -> Opens] /\ save \in [Page -> Saves]
    BY RestTypes DEF Init
  <1>4. \A p \in Page : save[p].pending = {} /\ open[p].pc = "idle"
    BY RestTypes DEF Init
  <1>5. stored \in Item /\ live \in Payload /\ dirty \in BOOLEAN
    BY RestTypes DEF Init
  <1>6. version \in [Field -> 0..MaxWrites] /\ missed \subseteq RowIds \X Field
    BY ContributionsAssumption DEF Init
  <1>7. writes \in 0..MaxWrites /\ faults \in 0..MaxFaults /\ Len(rows) <= MaxFills
    BY <1>1, ContributionsAssumption DEF Init
  <1>8. StageInv
    BY <1>2, <1>4 DEF StageInv, Sends, Created
  <1>. QED BY <1>1, <1>2, <1>3, <1>4, <1>5, <1>6, <1>7, <1>8 DEF TypeOK, TypeInv

CanvasType ==
    /\ stored \in Item /\ live \in Payload /\ dirty \in BOOLEAN
    /\ version \in [Field -> 0..MaxWrites]
RowsType == rows \in Seq(Rows) /\ Len(rows) <= MaxFills
FillType == fill \in Fills /\ DOMAIN fill.base = DOMAIN fill.values
PageType == page \in [Page -> Pages]
OpenType == open \in [Page -> Opens]
SaveType == save \in [Page -> Saves] /\ \A p \in Page : save[p].pending \subseteq save[p].acks
CountType == writes \in 0..MaxWrites /\ faults \in 0..MaxFaults
MissedType == missed \subseteq RowIds \X Field

LEMMA TypeParts ==
    /\ TypeOK <=> /\ CanvasType /\ RowsType /\ FillType /\ PageType /\ OpenType /\ SaveType
                  /\ CountType /\ MissedType
    /\ TypeOK' <=> /\ CanvasType' /\ RowsType' /\ FillType' /\ PageType' /\ OpenType' /\ SaveType'
                   /\ CountType' /\ MissedType'
  BY DEF TypeOK, CanvasType, RowsType, FillType, PageType, OpenType, SaveType, CountType, MissedType

\* What a step leaves alone keeps its type, though there may be more rows.
LEMMA TypeKept ==
    ASSUME TypeOK, Len(rows') \in Nat, Len(rows) <= Len(rows')
    PROVE  /\ UNCHANGED canvasVars => CanvasType'
           /\ UNCHANGED fill => FillType'
           /\ UNCHANGED page => PageType'
           /\ UNCHANGED open => OpenType'
           /\ UNCHANGED save => SaveType'
           /\ UNCHANGED <<writes, faults>> => CountType'
           /\ UNCHANGED <<writes>> /\ Fault => CountType'
           /\ UNCHANGED missed => MissedType'
           /\ fill' = NoFill => FillType'
  <1>. USE TypesGrow DEF TypeOK
  <1>1. UNCHANGED canvasVars => CanvasType'
    BY DEF CanvasType, canvasVars
  <1>2. UNCHANGED fill => FillType'
    BY DEF FillType
  <1>3. UNCHANGED page => PageType'
    BY DEF PageType
  <1>4. UNCHANGED open => OpenType'
    BY DEF OpenType
  <1>5. UNCHANGED save => SaveType'
    BY DEF SaveType
  <1>6. UNCHANGED <<writes, faults>> => CountType'
    BY DEF CountType
  <1>7. UNCHANGED <<writes>> /\ Fault => CountType'
    BY ContributionsAssumption DEF CountType, Fault
  <1>8. UNCHANGED missed => MissedType'
    BY DEF MissedType
  <1>9. fill' = NoFill => FillType'
    <2>1. (NoFill \in Fills /\ DOMAIN NoFill.base = DOMAIN NoFill.values)
      BY NoFillType, RowsInSeq
    <2>. QED BY <2>1 DEF FillType
  <1>. QED BY <1>1, <1>2, <1>3, <1>4, <1>5, <1>6, <1>7, <1>8, <1>9

\* A step that leaves the records alone, or keeps what they hold.
LEMMA RowsKeptType ==
    ASSUME TypeOK, UNCHANGED rows \/ RowsKept
    PROVE  RowsType' /\ Len(rows') = Len(rows) /\ Len(rows') \in Nat /\ Len(rows) <= Len(rows')
  <1>1. Len(rows) \in Nat
    BY RowsInSeq
  <1>. QED BY <1>1 DEF TypeOK, RowsType, RowsKept

\* Misses notes pairs of a record and a field.
LEMMA MissesType ==
    ASSUME TypeOK, UNCHANGED rows, NEW lost, lost \subseteq RowIds \X Field, Misses(lost)
    PROVE  MissedType'
  <1>1. \A P : Lacks(P)' \subseteq RowIds' \X Field
    BY DEF Lacks
  <1>2. \A p \in Page : Blind(p)' \subseteq RowIds' \X Field
    BY <1>1 DEF Blind
  <1>3. RowIds' = RowIds
    BY DEF RowIds
  <1>. QED BY <1>2, <1>3 DEF TypeOK, MissedType, Misses

LEMMA LacksType == \A P : Lacks(P) \subseteq RowIds \X Field
  BY DEF Lacks

LEMMA StepType ==
    ASSUME TypeOK, Len(rows') \in Nat, Len(rows) <= Len(rows'),
           NEW pc \in Sends \cup Created, Step(pc)
    PROVE  FillType' /\ fill'.pc = pc /\ fill'.row = fill.row
  <1>1. fill' \in Fills /\ fill'.pc = pc /\ DOMAIN fill'.base = DOMAIN fill'.values /\ fill'.row = fill.row
    BY DEF Step, TypeOK, Fills, Sends, Created
  <1>. QED BY <1>1, TypesGrow DEF FillType

LEMMA SendFillType ==
    ASSUME TypeInv, NEW F \in SUBSET Field, NEW isLive \in BOOLEAN, SendFill(F, isLive)
    PROVE  /\ TypeInv'
           /\ fill'.pc = "sent" /\ DOMAIN fill'.values = F /\ DOMAIN fill'.base = F
           /\ \A f \in F : fill'.values[f] = writes + 1 /\ fill'.base[f] = version[f]
  <1>. DEFINE values == [f \in F |-> writes + 1]
              base == [f \in F |-> version[f]]
  <1>1. UNCHANGED <<canvasVars, rows, page, open, save, faults, missed>> /\ writes' = writes + 1
    BY DEF SendFill
  <1>2. RowsType' /\ Len(rows') = Len(rows) /\ Len(rows) \in Nat /\ Len(rows') \in Nat /\ Len(rows) <= Len(rows')
    BY <1>1, RowsKeptType, RowsInSeq DEF TypeInv
  <1>3. writes + 1 \in 1..MaxWrites
    BY ContributionsAssumption DEF SendFill, TypeInv, TypeOK
  <1>4. values \in Values /\ DOMAIN values = F
    <2>1. values \in [F -> 1..MaxWrites]
      BY <1>3
    <2>. HIDE DEF values
    <2>. QED BY <2>1 DEF Values
  <1>5. base \in UNION {[G -> 0..MaxWrites] : G \in SUBSET Field} /\ DOMAIN base = F
    <2>1. base \in [F -> 0..MaxWrites]
      BY DEF TypeInv, TypeOK
    <2>. HIDE DEF base
    <2>. QED BY <2>1
  <1>6. fill' = [pc |-> "sent", values |-> values, base |-> base, live |-> isLive, previous |-> {}, row |-> 0]
    BY DEF SendFill, NoFill
  <1>7. /\ fill' \in Fills /\ fill'.pc = "sent" /\ fill'.values = values /\ fill'.base = base
    <2>1. 0 \in 0..Len(rows)
      BY <1>2
    <2>. HIDE DEF values, base
    <2>. QED BY <1>4, <1>5, <1>6, <2>1 DEF Fills
  <1>8. FillType'
    BY <1>2, <1>4, <1>5, <1>7, TypesGrow DEF FillType, TypeInv
  <1>9. CountType'
    BY <1>1, <1>3, ContributionsAssumption DEF CountType, TypeInv, TypeOK
  <1>10. TypeOK'
    BY <1>1, <1>2, <1>8, <1>9, TypeKept, TypeParts DEF TypeInv
  <1>11. StageInv'
    BY <1>1, <1>2, <1>7 DEF StageInv, TypeInv, SendFill, Sends, Created, canvasVars
  <1>. QED BY <1>4, <1>5, <1>7, <1>10, <1>11 DEF TypeInv

\* The canvas, the tabs and their requests.
tabs == <<canvasVars, page, open, save>>

\* A step of the contributor leaves the stages of the tabs alone.
LEMMA ContributeStage ==
    ASSUME StageInv, UNCHANGED <<stored, open>>,
           fill'.pc \in Sends => Len(rows') < MaxFills,
           fill'.pc \in Created => fill'.row \in RowIds'
    PROVE  StageInv'
  BY DEF StageInv

LEMMA MoveType ==
    ASSUME TypeInv, RowsKept \/ UNCHANGED rows, UNCHANGED <<tabs, writes, missed>>,
           UNCHANGED faults \/ Fault,
           NEW pc \in Sends \cup Created, Step(pc),
           pc \in Sends => fill.pc \in Sends,
           pc \in Created => fill.pc \in Created
    PROVE  TypeInv'
  <1>1. RowsType' /\ Len(rows') = Len(rows) /\ Len(rows') \in Nat /\ Len(rows) <= Len(rows')
    BY RowsKeptType DEF TypeInv
  <1>2. FillType' /\ fill'.pc = pc /\ fill'.row = fill.row
    BY <1>1, StepType DEF TypeInv
  <1>3. TypeOK'
    BY <1>1, <1>2, TypeKept, TypeParts DEF TypeInv, tabs
  <1>4. StageInv'
    BY <1>1, <1>2 DEF StageInv, TypeInv, tabs, canvasVars, Sends, Created, RowIds
  <1>. QED BY <1>3, <1>4 DEF TypeInv

LEMMA EndType ==
    ASSUME TypeInv, RowsKept \/ UNCHANGED rows, UNCHANGED <<tabs, writes, missed>>,
           UNCHANGED faults \/ Fault, Fails
    PROVE  TypeInv'
  <1>1. RowsType' /\ Len(rows') = Len(rows) /\ Len(rows') \in Nat /\ Len(rows) <= Len(rows')
    BY RowsKeptType DEF TypeInv
  <1>2. TypeOK'
    BY <1>1, TypeKept, TypeParts DEF TypeInv, tabs, Fails
  <1>3. StageInv'
    BY RestTypes DEF StageInv, TypeInv, tabs, canvasVars, Sends, Created, Fails
  <1>. QED BY <1>2, <1>3 DEF TypeInv

LEMMA ListPreviousType == TypeInv /\ ListPrevious => TypeInv'
  <1>. SUFFICES ASSUME TypeInv, ListPrevious PROVE TypeInv'
    OBVIOUS
  <1>1. UNCHANGED <<tabs, rows, writes, faults, missed>>
    BY DEF ListPrevious, tabs, counters
  <1>2. RowsType' /\ Len(rows') = Len(rows) /\ Len(rows') \in Nat /\ Len(rows) <= Len(rows')
    BY <1>1, RowsKeptType DEF TypeInv
  <1>3. Previous \in SUBSET RowIds
    BY DEF Previous
  <1>4. /\ fill' \in Fills /\ DOMAIN fill'.base = DOMAIN fill'.values
        /\ fill'.pc \in {"create", "supersede"} /\ fill.pc = "list"
    BY <1>3 DEF ListPrevious, TypeInv, TypeOK, Fills
  <1>5. FillType'
    BY <1>2, <1>4, TypesGrow DEF FillType, TypeInv
  <1>6. TypeOK'
    BY <1>1, <1>2, <1>5, TypeKept, TypeParts DEF TypeInv, tabs
  <1>7. StageInv'
    BY <1>1, <1>2, <1>4 DEF StageInv, TypeInv, tabs, canvasVars, Sends, Created, RowIds
  <1>. QED BY <1>6, <1>7 DEF TypeInv

LEMMA AppendType ==
    ASSUME TypeInv, fill.pc = "create", rows' = Append(rows, NewRow), UNCHANGED <<tabs, writes, missed>>,
           \/ fill' = [fill EXCEPT !.row = Len(rows) + 1, !.pc = "share"] /\ UNCHANGED faults
           \/ fill' = NoFill /\ Fault
    PROVE  TypeInv'
  <1>1. Len(rows') = Len(rows) + 1 /\ rows' \in Seq(Rows)
    BY AppendedRows DEF TypeInv
  <1>2. Len(rows) \in Nat /\ Len(rows') \in Nat /\ Len(rows) <= Len(rows')
    BY <1>1, RowsInSeq DEF TypeInv
  <1>3. RowsType'
    BY <1>1, <1>2, ContributionsAssumption DEF RowsType, TypeInv, StageInv, Sends
  <1>4. FillType' /\ (fill'.pc = "share" => fill'.row = Len(rows')) /\ fill'.pc \in {"idle", "share"}
    <2>1. CASE fill' = [fill EXCEPT !.row = Len(rows) + 1, !.pc = "share"]
      <3>1. fill \in Fills'
        BY <1>2, TypesGrow DEF TypeInv, TypeOK
      <3>2. Len(rows) + 1 \in (0..Len(rows))'
        BY <1>1, <1>2
      <3>3. fill' \in Fills' /\ DOMAIN fill'.base = DOMAIN fill'.values /\ fill'.pc = "share"
            /\ fill'.row = Len(rows')
        BY <1>1, <2>1, <3>1, <3>2 DEF Fills, TypeInv, TypeOK
      <3>. QED BY <3>3 DEF FillType
    <2>2. CASE fill' = NoFill
      BY <1>2, <2>2, TypeKept, RestTypes DEF TypeInv
    <2>. QED BY <2>1, <2>2
  <1>5. CountType'
    BY <1>2, TypeKept DEF TypeInv
  <1>6. TypeOK'
    BY <1>2, <1>3, <1>4, <1>5, TypeKept, TypeParts DEF TypeInv, tabs
  <1>7. StageInv'
    BY <1>1, <1>2, <1>4 DEF StageInv, TypeInv, tabs, canvasVars, Sends, Created, RowIds
  <1>. QED BY <1>6, <1>7 DEF TypeInv

LEMMA CommitType == TypeInv /\ CommitLive => TypeInv'
  <1>. SUFFICES ASSUME TypeInv, CommitLive PROVE TypeInv'
    OBVIOUS
  <1>1. UNCHANGED <<stored, rows, open, save, writes, faults, missed>> /\ fill' = NoFill
    BY DEF CommitLive, counters, Fails
  <1>2. RowsType' /\ Len(rows') = Len(rows) /\ Len(rows') \in Nat /\ Len(rows) <= Len(rows')
    BY <1>1, RowsKeptType DEF TypeInv
  <1>3. fill.row \in RowIds /\ fill.values \in Values
    BY DEF CommitLive, TypeInv, StageInv, Created, TypeOK, Fills
  <1>4. \A P \in Payload : [P EXCEPT !.value = Write(@, fill.values)] \in Payload
    <2>. SUFFICES ASSUME NEW P \in Payload PROVE [P EXCEPT !.value = Write(P.value, fill.values)] \in Payload
      OBVIOUS
    <2>1. P.value \in [Field -> 0..MaxWrites]
      BY DEF Payload
    <2>2. Write(P.value, fill.values) \in [Field -> 0..MaxWrites]
      BY <1>3, <2>1, WriteType
    <2>. QED BY <2>2 DEF Payload
  <1>5. CanvasType' /\ page' \in [Page -> Pages]
    <2>1. CASE LeasesHold
      <3>1. Write(version, fill.values) \in [Field -> 0..MaxWrites]
        BY <1>3, WriteType DEF TypeInv, TypeOK
      <3>2. CanvasType'
        BY <1>1, <1>4, <2>1, <3>1 DEF CommitLive, TypeInv, TypeOK, CanvasType
      <3>3. \A q \in Page : [page[q] EXCEPT !.view.value = Write(@, fill.values),
                                            !.acks = @ \cup {fill.row}] \in Pages
        <4>. SUFFICES ASSUME NEW q \in Page
                      PROVE  [page[q] EXCEPT !.view.value = Write(@, fill.values),
                                             !.acks = @ \cup {fill.row}] \in Pages
          OBVIOUS
        <4>1. page[q] \in Pages /\ page[q].view \in Payload
          BY DEF TypeInv, TypeOK, Pages
        <4>2. [page[q].view EXCEPT !.value = Write(@, fill.values)] \in Payload
          BY <1>4, <4>1
        <4>. QED BY <1>3, <4>1, <4>2 DEF Pages
      <3>4. page' = [q \in Page |->
                   IF page[q].at # "connected" THEN page[q]
                   ELSE [page[q] EXCEPT !.view.value = Write(@, fill.values),
                                        !.acks = @ \cup {fill.row}]]
        BY <2>1 DEF CommitLive
      <3>. QED BY <3>2, <3>3, <3>4 DEF TypeInv, TypeOK
    <2>2. CASE ~LeasesHold
      BY <1>1, <2>2 DEF CommitLive, TypeInv, TypeOK, CanvasType
    <2>. QED BY <2>1, <2>2
  <1>6. PageType'
    BY <1>2, <1>5, TypesGrow DEF PageType, TypeInv
  <1>7. TypeOK'
    BY <1>1, <1>2, <1>5, <1>6, TypeKept, TypeParts DEF TypeInv
  <1>8. StageInv'
    BY <1>1, RestTypes DEF StageInv, TypeInv, Sends, Created
  <1>. QED BY <1>7, <1>8 DEF TypeInv

\* What each step of the contributor does: it moves on or ends, with the records
\* kept, or appends one, or commits live.
Moves ==
    \E pc \in Sends \cup Created :
        /\ Step(pc)
        /\ pc \in Sends => fill.pc \in Sends
        /\ pc \in Created => fill.pc \in Created
        /\ pc # "share"
        /\ pc = "undo" => fill.pc = "share"
        /\ pc = "commit" => rows'[fill.row].shared

LEMMA ContributeMoves ==
    ASSUME TypeInv, Contribute
    PROVE  \/ \E F \in SUBSET Field, isLive \in BOOLEAN : SendFill(F, isLive)
           \/ ListPrevious \/ CommitLive
           \/ /\ UNCHANGED <<tabs, writes, missed>> /\ (UNCHANGED faults \/ Fault)
              /\ RowsKept \/ UNCHANGED rows
              /\ StatusKept /\ NoneMerged
              /\ Fails \/ Moves
           \/ /\ fill.pc = "create" /\ rows' = Append(rows, NewRow) /\ UNCHANGED <<tabs, writes, missed>>
              /\ \/ fill' = [fill EXCEPT !.row = Len(rows) + 1, !.pc = "share"] /\ UNCHANGED faults
                 \/ fill' = NoFill /\ Fault
  <1>. USE DEF tabs, canvasVars, counters
  <1>0. UNCHANGED rows => StatusKept /\ NoneMerged
    BY DEF StatusKept, NoneMerged
  <1>1. CASE \E F \in SUBSET Field, isLive \in BOOLEAN : SendFill(F, isLive)
    BY <1>1
  <1>2. CASE AcceptFill
    <2>1. Step("list") /\ fill.pc = "sent"
      BY <1>2 DEF AcceptFill
    <2>2. UNCHANGED <<tabs, rows, writes, faults, missed>>
      BY <1>2 DEF AcceptFill
    <2>3. Moves
      BY <2>1 DEF Moves, Sends, Created
    <2>. QED BY <1>0, <2>2, <2>3
  <1>3. CASE RefuseFill
    BY <1>0, <1>3 DEF RefuseFill
  <1>4. CASE ListPrevious
    BY <1>4
  <1>5. ASSUME NEW ids \in SUBSET fill.previous, SupersedePrevious(ids)
        PROVE  /\ UNCHANGED <<tabs, writes, missed>> /\ (UNCHANGED faults \/ Fault)
               /\ RowsKept /\ StatusKept /\ NoneMerged /\ Moves
    <2>1. rows' = Marked(ids, "Superseded")
      BY <1>5 DEF SupersedePrevious
    <2>2. RowsKept /\ StatusKept /\ NoneMerged
      BY <2>1, MarkedRows DEF Status, StatusKept, NoneMerged, TypeInv
    <2>3. UNCHANGED faults \/ Fault
      BY <1>5 DEF SupersedePrevious
    <2>4. Moves
      BY <1>5 DEF Moves, SupersedePrevious, Sends, Created
    <2>. QED BY <1>5, <2>2, <2>3, <2>4 DEF SupersedePrevious
  <1>6. CASE CreateRow
    BY <1>6 DEF CreateRow, NewRow
  <1>7. CASE ShareRow
    <2>1. rows' = [rows EXCEPT ![fill.row].shared = TRUE] /\ fill.pc = "share"
      BY <1>7 DEF ShareRow
    <2>2. RowsKept /\ StatusKept /\ NoneMerged
      BY <2>1, SharedRows DEF StatusKept, NoneMerged, TypeInv
    <2>3. rows'[fill.row].shared
      BY <2>1, SharedRows DEF TypeInv, StageInv, Created
    <2>4. Step("commit") \/ Fails
      BY <1>7 DEF ShareRow
    <2>5. Moves \/ Fails
      BY <2>1, <2>3, <2>4 DEF Moves, Sends, Created
    <2>6. UNCHANGED <<tabs, writes, faults, missed>>
      BY <1>7 DEF ShareRow
    <2>. QED BY <2>2, <2>5, <2>6
  <1>8. CASE DestroyRow
    <2>1. rows' = Marked({fill.row}, "Destroyed")
      BY <1>8 DEF DestroyRow
    <2>2. RowsKept /\ StatusKept /\ NoneMerged
      BY <2>1, MarkedRows DEF Status, StatusKept, NoneMerged, TypeInv
    <2>. QED BY <1>8, <2>2 DEF DestroyRow
  <1>9. CASE FillFails
    BY <1>0, <1>9 DEF FillFails
  <1>10. CASE CreateUnheard
    BY <1>10 DEF CreateUnheard, NewRow, Fails
  <1>11. CASE CommitLive
    BY <1>11
  <1>12. ASSUME NEW acted \in BOOLEAN, ShareFails(acted)
         PROVE  /\ UNCHANGED <<tabs, writes, missed>> /\ Fault
                /\ RowsKept /\ StatusKept /\ NoneMerged /\ Moves
    <2>1. rows' = [rows EXCEPT ![fill.row].shared = acted] /\ fill.pc = "share"
      BY <1>12 DEF ShareFails
    <2>2. RowsKept /\ StatusKept /\ NoneMerged
      BY <2>1, SharedRows, ZenonT(30) DEF StatusKept, NoneMerged, TypeInv
    <2>3. Moves
      BY <1>12, <2>1 DEF Moves, ShareFails, Sends, Created
    <2>. QED BY <1>12, <2>2, <2>3 DEF ShareFails
  <1>. QED BY <1>1, <1>2, <1>3, <1>4, <1>5, <1>6, <1>7, <1>8, <1>9, <1>10, <1>11, <1>12 DEF Contribute

LEMMA ContributeType == TypeInv /\ Contribute => TypeInv'
  BY ContributeMoves, SendFillType, ListPreviousType, CommitType, MoveType, EndType, AppendType DEF Moves

\* A step of a tab leaves the contributor's request where it is.
LEMMA TabStage ==
    ASSUME TypeInv, UNCHANGED fill, Len(rows') = Len(rows),
           \A p \in Page : open'[p].pc = "mark" => open'[p].item.version < stored'.version
    PROVE  StageInv'
  BY DEF StageInv, TypeInv, RowIds

LEMMA TabRows ==
    ASSUME TypeInv, UNCHANGED rows \/ RowsKept, UNCHANGED fill
    PROVE  /\ RowsType' /\ FillType' /\ Len(rows') = Len(rows)
           /\ Len(rows') \in Nat /\ Len(rows) <= Len(rows')
           /\ RowIds' = RowIds /\ Pages' = Pages /\ Opens' = Opens /\ Saves' = Saves
  <1>1. RowsType' /\ Len(rows') = Len(rows) /\ Len(rows') \in Nat /\ Len(rows) <= Len(rows')
    BY RowsKeptType DEF TypeInv
  <1>2. FillType'
    BY <1>1, TypeKept DEF TypeInv
  <1>. QED BY <1>1, <1>2 DEF RowIds, Pages, Opens, Saves

LEMMA OpenMoveType ==
    ASSUME TypeInv, NEW p \in Page, UNCHANGED rows \/ RowsKept, UNCHANGED <<canvasVars, fill, save, writes, missed>>,
           UNCHANGED faults \/ Fault, PageType',
           NEW o \in Opens, open' = [open EXCEPT ![p] = o], o.pc # "mark"
    PROVE  TypeInv'
  <1>1. /\ RowsType' /\ FillType' /\ Len(rows') = Len(rows) /\ Opens' = Opens
        /\ Len(rows') \in Nat /\ Len(rows) <= Len(rows')
    BY TabRows
  <1>2. OpenType'
    BY <1>1 DEF OpenType, TypeInv, TypeOK
  <1>3. TypeOK'
    BY <1>1, <1>2, TypeKept, TypeParts DEF TypeInv
  <1>4. \A q \in Page : open'[q].pc = "mark" => open'[q].item.version < stored'.version
    BY DEF TypeInv, TypeOK, StageInv, canvasVars
  <1>. QED BY <1>1, <1>3, <1>4, TabStage DEF TypeInv

LEMMA GivesType ==
    ASSUME TypeInv, NEW p \in Page, Gives(p)
    PROVE  \E o \in Opens : open' = [open EXCEPT ![p] = o] /\ o.pc = "answer" /\ o.applied = {} /\ o.item = open[p].item
  <1>. DEFINE o == [open[p] EXCEPT !.pc = "answer", !.applied = {}]
  <1>1. o \in Opens /\ o.pc = "answer" /\ o.applied = {} /\ o.item = open[p].item
    BY DEF TypeInv, TypeOK, Opens
  <1>2. open' = [open EXCEPT ![p] = o]
    BY DEF Gives, TypeInv, TypeOK
  <1>. QED BY <1>1, <1>2

LEMMA ListPendingType ==
    ASSUME TypeInv, NEW p \in Page, ListPending(p)
    PROVE  TypeInv'
  <1>. DEFINE due == IF open[p].item.payload.slot THEN Pending ELSE {}
              pc == CASE due # {} -> "merge" [] due = {} /\ Pending # {} -> "supersede" [] OTHER -> "answer"
              o == [open[p] EXCEPT !.applied = due, !.skipped = Pending \ due,
                                   !.merged = Applied(open[p].item.payload, due), !.pc = pc]
  <1>1. due \in SUBSET RowIds /\ Pending \in SUBSET RowIds
    BY DEF Pending
  <1>2. open[p] \in Opens /\ open[p].item.payload \in Payload
    BY DEF TypeInv, TypeOK, Opens, Item
  <1>3. Applied(open[p].item.payload, due) \in Payload
    BY <1>1, <1>2, AppliedField DEF TypeInv
  <1>4. pc \in {"merge", "supersede", "answer"}
    OBVIOUS
  <1>5. open' = [open EXCEPT ![p] = o] /\ UNCHANGED <<canvasVars, rows, fill, page, save, counters>>
    BY DEF ListPending
  <1>6. o \in Opens /\ o.pc = pc
    <2>. HIDE DEF due, pc
    <2>. QED BY <1>1, <1>2, <1>3, <1>4 DEF Opens
  <1>7. PageType'
    BY <1>5, TypeKept, RowsInSeq DEF TypeInv
  <1>. HIDE DEF o, pc
  <1>. QED BY <1>4, <1>5, <1>6, <1>7, OpenMoveType DEF counters

\* A stored canvas has the next version.
LEMMA PutType ==
    ASSUME TypeInv, NEW P \in Payload, stored.version < MaxVersion,
           stored' = [payload |-> P, version |-> stored.version + 1], UNCHANGED <<live, dirty, version>>
    PROVE  /\ CanvasType' /\ stored'.version = stored.version + 1 /\ stored'.payload = P
           /\ stored.version \in Nat
  <1>1. stored' \in Item
    BY ContributionsAssumption DEF TypeInv, TypeOK, Item
  <1>. QED BY <1>1 DEF TypeInv, TypeOK, CanvasType, Item

LEMMA MergeType ==
    ASSUME TypeInv, NEW p \in Page, MergePending(p) \/ MergeUnheard(p)
    PROVE  TypeInv'
  <1>1. /\ UNCHANGED <<live, dirty, version, rows, fill, page, save, writes>>
        /\ UNCHANGED faults \/ Fault
        /\ Misses(MergedOver(p))
    BY DEF MergePending, MergeUnheard
  <1>2. open[p] \in Opens /\ open[p].merged \in Payload
    BY DEF TypeInv, TypeOK, Opens
  <1>3. \/ /\ stored.version < MaxVersion /\ stored.version = open[p].item.version
           /\ stored' = [payload |-> open[p].merged, version |-> stored.version + 1]
           /\ open' = [open EXCEPT ![p].pc = "mark"] \/ Gives(p)
        \/ Gives(p) /\ UNCHANGED stored
    BY DEF MergePending, MergeUnheard
  <1>4. /\ RowsType' /\ FillType' /\ Len(rows') = Len(rows) /\ Opens' = Opens
        /\ Len(rows') \in Nat /\ Len(rows) <= Len(rows')
    BY <1>1, TabRows
  <1>5. CanvasType' /\ stored.version \in Nat /\ stored'.version \in {stored.version, stored.version + 1}
    <2>1. stored.version \in Nat
      BY DEF TypeInv, TypeOK, Item
    <2>. QED BY <1>1, <1>2, <1>3, <2>1, PutType DEF TypeInv, TypeOK, CanvasType
  <1>6. OpenType'
    <2>1. [open EXCEPT ![p].pc = "mark"] \in [Page -> Opens]
      BY DEF TypeInv, TypeOK, Opens
    <2>2. Gives(p) => open' \in [Page -> Opens]
      BY GivesType DEF TypeInv, TypeOK
    <2>. QED BY <1>3, <1>4, <2>1, <2>2 DEF OpenType
  <1>7. MissedType'
    BY <1>1, LacksType, MissesType DEF MergedOver, TypeInv
  <1>8. TypeOK'
    BY <1>1, <1>4, <1>5, <1>6, <1>7, TypeKept, TypeParts DEF TypeInv
  <1>9. ASSUME NEW q \in Page, open'[q].pc = "mark" PROVE open'[q].item.version < stored'.version
    <2>1. open[q].item.version \in Nat
      BY DEF TypeInv, TypeOK, Opens, Item
    <2>2. CASE q = p
      <3>1. ~Gives(p)
        BY <1>9, <2>2, GivesType DEF TypeInv, TypeOK
      <3>2. open' = [open EXCEPT ![p].pc = "mark"] /\ stored.version = open[p].item.version
            /\ stored'.version = stored.version + 1
        BY <1>3, <3>1
      <3>. QED BY <1>5, <2>2, <3>2 DEF TypeInv, TypeOK
    <2>3. CASE q # p
      <3>1. open'[q] = open[q]
        BY <1>3, <2>3 DEF Gives, TypeInv, TypeOK
      <3>. QED BY <1>5, <1>9, <2>1, <3>1 DEF TypeInv, StageInv
    <2>. QED BY <2>2, <2>3
  <1>. QED BY <1>1, <1>4, <1>8, <1>9, TabStage DEF TypeInv

LEMMA RequestsType ==
    ASSUME TypeInv, NEW p \in Page, Requests(p)
    PROVE  \E o \in Opens : /\ open' = [open EXCEPT ![p] = o]
                            /\ o = [NoOpen EXCEPT !.pc = "list", !.item = stored]
                            /\ o.pc = "list" /\ o.applied = {} /\ o.item = stored /\ o.merged = Blank
  <1>. DEFINE o == [NoOpen EXCEPT !.pc = "list", !.item = stored]
  <1>1. o \in Opens /\ o.pc = "list" /\ o.applied = {} /\ o.item = stored /\ o.merged = Blank
    BY RestTypes DEF TypeInv, TypeOK, Opens, NoOpen
  <1>. QED BY <1>1 DEF Requests

LEMMA OpenCanvasType ==
    ASSUME TypeInv, NEW p \in Page, OpenCanvas(p)
    PROVE  TypeInv'
  <1>. USE DEF counters
  <1>0. /\ UNCHANGED rows => /\ (UNCHANGED page => PageType')
                             /\ (UNCHANGED save => SaveType')
        /\ RowsKept => (UNCHANGED page => PageType')
    BY RowsKeptType, TypeKept DEF TypeInv
  <1>1. CASE StartOpen(p)
    BY <1>0, <1>1, RequestsType, OpenMoveType DEF StartOpen
  <1>2. CASE Reload(p)
    <2>1. /\ UNCHANGED <<canvasVars, rows, fill, writes, faults, missed>>
          /\ save' = [save EXCEPT ![p] = NoSave]
          /\ page' = [page EXCEPT ![p] = [Closed EXCEPT !.acks = page[p].acks]]
      BY <1>2 DEF Reload
    <2>2. /\ RowsType' /\ FillType' /\ Len(rows') = Len(rows) /\ Opens' = Opens /\ Pages' = Pages /\ Saves' = Saves
          /\ Len(rows') \in Nat /\ Len(rows) <= Len(rows')
      BY <2>1, TabRows
    <2>3. PICK o \in Opens : open' = [open EXCEPT ![p] = o] /\ o.pc = "list"
      BY <1>2, RequestsType DEF Reload
    <2>4. OpenType'
      BY <2>2, <2>3 DEF OpenType, TypeInv, TypeOK
    <2>5. PageType'
      <3>1. [Closed EXCEPT !.acks = page[p].acks] \in Pages
        BY RestTypes DEF Pages, TypeInv, TypeOK
      <3>. QED BY <2>1, <2>2, <3>1 DEF PageType, TypeInv, TypeOK
    <2>6. SaveType'
      BY <2>1, <2>2, RestTypes DEF SaveType, TypeInv, TypeOK
    <2>7. TypeOK'
      BY <2>1, <2>2, <2>4, <2>5, <2>6, TypeKept, TypeParts DEF TypeInv
    <2>8. \A q \in Page : open'[q].pc = "mark" => open'[q].item.version < stored'.version
      BY <2>1, <2>3 DEF TypeInv, TypeOK, StageInv, canvasVars
    <2>. QED BY <2>1, <2>2, <2>7, <2>8, TabStage DEF TypeInv
  <1>3. CASE ListPending(p)
    BY <1>3, ListPendingType
  <1>4. CASE MergePending(p) \/ MergeUnheard(p)
    BY <1>4, MergeType
  <1>5. ASSUME NEW ids \in SUBSET open[p].applied, MarkMerged(p, ids)
        PROVE  TypeInv'
    <2>. DEFINE o == [open[p] EXCEPT !.item = [payload |-> open[p].merged, version |-> open[p].item.version + 1],
                                     !.pc = "answer"]
    <2>1. open' = [open EXCEPT ![p] = o] /\ UNCHANGED <<canvasVars, fill, page, save, writes, missed>>
          /\ (UNCHANGED faults \/ Fault)
      BY <1>5 DEF MarkMerged
    <2>2. RowsKept
      BY <1>5, MarkedRows DEF MarkMerged, Status, TypeInv
    <2>3. open[p].item.version + 1 \in 1..MaxVersion
      <3>1. open[p].item.version < stored.version
        BY <1>5 DEF MarkMerged, TypeInv, StageInv
      <3>2. open[p].item.version \in 1..MaxVersion /\ stored.version \in 1..MaxVersion
        BY DEF TypeInv, TypeOK, Opens, Item
      <3>. QED BY <3>1, <3>2, ContributionsAssumption
    <2>4. o \in Opens /\ o.pc = "answer"
      BY <2>3 DEF TypeInv, TypeOK, Opens, Item
    <2>. HIDE DEF o
    <2>. QED BY <1>0, <2>1, <2>2, <2>4, OpenMoveType
  <1>6. CASE MarkSuperseded(p)
    <2>. DEFINE o == [open[p] EXCEPT !.pc = "answer"]
    <2>1. open' = [open EXCEPT ![p] = o] /\ UNCHANGED <<canvasVars, fill, page, save, counters>>
      BY <1>6 DEF MarkSuperseded, TypeInv, TypeOK
    <2>2. RowsKept
      BY <1>6, MarkedRows DEF MarkSuperseded, Status, TypeInv
    <2>3. o \in Opens /\ o.pc = "answer"
      BY DEF TypeInv, TypeOK, Opens
    <2>. HIDE DEF o
    <2>. QED BY <1>0, <2>1, <2>2, <2>3, OpenMoveType
  <1>7. CASE AnswerOpen(p)
    <2>1. /\ UNCHANGED <<canvasVars, rows, fill, save, writes, faults>> /\ Misses({})
          /\ open' = [open EXCEPT ![p] = NoOpen]
      BY <1>7 DEF AnswerOpen
    <2>2. /\ RowsType' /\ FillType' /\ Len(rows') = Len(rows) /\ Opens' = Opens /\ Pages' = Pages
          /\ Len(rows') \in Nat /\ Len(rows) <= Len(rows')
      BY <2>1, TabRows
    <2>3. PageType'
      <3>1. open[p].item.version \in Expected /\ open[p].item.payload \in Payload /\ live \in Payload
        BY DEF TypeInv, TypeOK, Opens, Item, Expected
      <3>2. PICK v \in Payload : page' = [page EXCEPT ![p] =
               [@ EXCEPT !.at = "loaded", !.expected = open[p].item.version, !.view = v]]
        BY <1>7, <3>1 DEF AnswerOpen
      <3>. QED BY <2>2, <3>1, <3>2 DEF PageType, Pages, TypeInv, TypeOK
    <2>4. OpenType'
      BY <2>1, <2>2, RestTypes DEF OpenType, TypeInv, TypeOK
    <2>5. MissedType'
      BY <2>1, MissesType DEF TypeInv
    <2>6. TypeOK'
      BY <2>1, <2>2, <2>3, <2>4, <2>5, TypeKept, TypeParts DEF TypeInv
    <2>7. \A q \in Page : open'[q].pc = "mark" => open'[q].item.version < stored'.version
      BY <2>1, RestTypes DEF TypeInv, TypeOK, StageInv, canvasVars
    <2>. QED BY <2>1, <2>2, <2>6, <2>7, TabStage DEF TypeInv
  <1>8. ASSUME NEW acted \in BOOLEAN, OpenFails(p, acted)
        PROVE  TypeInv'
    <2>1. RowsKept \/ UNCHANGED rows
      BY <1>8, MarkedRows DEF OpenFails, Status, TypeInv
    <2>2. PICK o \in Opens : open' = [open EXCEPT ![p] = o] /\ o.pc = "answer"
      BY <1>8, GivesType DEF OpenFails
    <2>3. UNCHANGED <<canvasVars, fill, page, save, writes, missed>> /\ Fault
      BY <1>8 DEF OpenFails
    <2>. QED BY <1>0, <2>1, <2>2, <2>3, OpenMoveType
  <1>. QED BY <1>1, <1>2, <1>3, <1>4, <1>5, <1>6, <1>7, <1>8 DEF OpenCanvas

LEMMA ChangedType ==
    ASSUME TypeOK, NEW P \in Payload, NEW slot \in BOOLEAN, NEW values \in Values
    PROVE  /\ Changed(P, slot, values) \in Payload
           /\ \A f \in Field : Changed(P, slot, values).value[f] =
                                   IF f \in DOMAIN values THEN values[f] ELSE P.value[f]
  <1>1. P.slot \in BOOLEAN /\ P.value \in [Field -> 0..MaxWrites]
    BY DEF Payload
  <1>2. Write(P.value, values) \in [Field -> 0..MaxWrites]
    BY <1>1, WriteType
  <1>3. \A f \in Field : Write(P.value, values)[f] = IF f \in DOMAIN values THEN values[f] ELSE P.value[f]
    BY <1>1, WriteType
  <1>. QED BY <1>1, <1>2, <1>3 DEF Changed, Payload

LEMMA EditsType ==
    ASSUME TypeInv, NEW p \in Page, NEW slot \in BOOLEAN, NEW values \in Values, Edits(p, slot, values),
           version' \in [Field -> 0..MaxWrites], writes' \in 0..MaxWrites
    PROVE  TypeInv'
  <1>1. UNCHANGED <<stored, rows, fill, open, save, faults, missed>>
    BY DEF Edits
  <1>2. /\ RowsType' /\ FillType' /\ Len(rows') = Len(rows) /\ Pages' = Pages
        /\ Len(rows') \in Nat /\ Len(rows) <= Len(rows')
    BY <1>1, TabRows
  <1>3. CanvasType'
    BY <1>1, ChangedType DEF Edits, CanvasType, TypeInv, TypeOK
  <1>4. PageType'
    <2>1. \A q \in Page : [page[q] EXCEPT !.view = Changed(@, slot, values)] \in Pages
      <3>. SUFFICES ASSUME NEW q \in Page PROVE [page[q] EXCEPT !.view = Changed(@, slot, values)] \in Pages
        OBVIOUS
      <3>1. page[q] \in Pages /\ page[q].view \in Payload
        BY DEF TypeInv, TypeOK, Pages
      <3>2. Changed(page[q].view, slot, values) \in Payload
        BY <3>1, ChangedType DEF TypeInv
      <3>. QED BY <3>1, <3>2 DEF Pages
    <2>2. page' = [q \in Page |-> IF page[q].at = "connected"
                                  THEN [page[q] EXCEPT !.view = Changed(@, slot, values)] ELSE page[q]]
      BY DEF Edits
    <2>3. page' \in [Page -> Pages]
      BY <2>1, <2>2 DEF TypeInv, TypeOK
    <2>. QED BY <1>2, <2>3 DEF PageType
  <1>5. CountType'
    BY <1>1 DEF CountType, TypeInv, TypeOK
  <1>6. TypeOK'
    BY <1>1, <1>2, <1>3, <1>4, <1>5, TypeKept, TypeParts DEF TypeInv
  <1>7. \A q \in Page : open'[q].pc = "mark" => open'[q].item.version < stored'.version
    BY <1>1 DEF TypeInv, StageInv
  <1>. QED BY <1>1, <1>2, <1>6, <1>7, TabStage DEF TypeInv

LEMMA EditValues ==
    ASSUME TypeOK, writes < MaxWrites, NEW f \in Field
    PROVE  /\ [g \in {f} |-> writes + 1] \in Values /\ DOMAIN [g \in {f} |-> writes + 1] = {f}
           /\ [g \in {f} |-> writes + 1][f] = writes + 1
  <1>1. writes + 1 \in 1..MaxWrites
    BY ContributionsAssumption DEF TypeOK
  <1>2. [g \in {f} |-> writes + 1] \in [{f} -> 1..MaxWrites]
    BY <1>1
  <1>. QED BY <1>2 DEF Values

LEMMA NoValues == [f \in {} |-> 0] \in Values /\ DOMAIN [f \in {} |-> 0] = {}
  <1>1. [f \in {} |-> 0] \in [{} -> 1..MaxWrites]
    OBVIOUS
  <1>. QED BY <1>1 DEF Values

LEMMA PageMoveType ==
    ASSUME TypeInv, UNCHANGED <<stored, dirty, version, rows, fill, open, writes, faults>>,
           live' \in Payload, page' \in [Page -> Pages], UNCHANGED missed \/ MissedType', SaveType'
    PROVE  TypeInv'
  <1>1. /\ RowsType' /\ FillType' /\ Len(rows') = Len(rows) /\ Pages' = Pages
        /\ Len(rows') \in Nat /\ Len(rows) <= Len(rows')
    BY TabRows
  <1>2. CanvasType' /\ PageType'
    BY <1>1 DEF CanvasType, PageType, TypeInv, TypeOK
  <1>3. TypeOK'
    BY <1>1, <1>2, TypeKept, TypeParts DEF TypeInv
  <1>4. \A q \in Page : open'[q].pc = "mark" => open'[q].item.version < stored'.version
    BY DEF TypeInv, StageInv
  <1>. QED BY <1>1, <1>3, <1>4, TabStage DEF TypeInv

LEMMA WorkType ==
    ASSUME TypeInv, NEW p \in Page, Work(p)
    PROVE  TypeInv'
  <1>. USE DEF counters, canvasVars
  <1>0. /\ UNCHANGED <<rows, save>> => SaveType'
        /\ live \in Payload /\ stored.payload \in Payload /\ page \in [Page -> Pages]
        /\ page[p].read \in Payload /\ Blank \in Payload
    BY RowsKeptType, TypeKept, RestTypes DEF TypeInv, TypeOK, Item, Pages
  <1>1. CASE StartSubscribe(p)
    <2>1. page' \in [Page -> Pages]
      BY <1>0, <1>1 DEF StartSubscribe, Pages
    <2>. QED BY <1>0, <1>1, <2>1, PageMoveType DEF StartSubscribe
  <1>2. CASE Subscribe(p)
    <2>1. live' \in Payload
      BY <1>0, <1>2 DEF Subscribe
    <2>2. page' = [page EXCEPT ![p] = [@ EXCEPT !.at = "connected", !.view = live', !.read = Blank]]
      BY <1>2 DEF Subscribe
    <2>3. page' \in [Page -> Pages]
      BY <1>0, <2>1, <2>2 DEF Pages
    <2>4. UNCHANGED rows /\ Misses(Lacks(live') \ Lacks(live))
      BY <1>2 DEF Subscribe
    <2>5. Lacks(live') \ Lacks(live) \subseteq RowIds \X Field
      BY LacksType
    <2>6. MissedType'
      BY <2>4, <2>5, MissesType DEF TypeInv
    <2>. QED BY <1>0, <1>2, <2>1, <2>3, <2>6, PageMoveType DEF Subscribe
  <1>3. CASE Disconnect(p)
    <2>1. page' \in [Page -> Pages]
      BY <1>0, <1>3 DEF Disconnect, Pages
    <2>. QED BY <1>0, <1>3, <2>1, PageMoveType DEF Disconnect
  <1>4. CASE Close(p)
    <2>1. page' \in [Page -> Pages]
      BY <1>0, <1>4, RestTypes DEF Close
    <2>2. /\ UNCHANGED <<rows, fill>>
          /\ save' = [save EXCEPT ![p] = IF @.pc = "conflict" THEN NoSave ELSE [@ EXCEPT !.here = FALSE]]
      BY <1>4 DEF Close
    <2>3. /\ save' \in [Page -> Saves] /\ \A q \in Page : save'[q].pending \subseteq save'[q].acks
      BY <2>2, RestTypes DEF TypeInv, TypeOK, Saves
    <2>4. Saves' = Saves
      BY <2>2, TabRows
    <2>5. SaveType'
      BY <2>3, <2>4 DEF SaveType
    <2>. QED BY <1>0, <1>4, <2>1, <2>5, PageMoveType DEF Close
  <1>5. CASE Withdraw(p)
    <2>1. UNCHANGED <<version, writes>> /\ Edits(p, FALSE, [f \in {} |-> 0])
      BY <1>5 DEF Withdraw
    <2>. QED BY <2>1, NoValues, EditsType DEF TypeInv, TypeOK
  <1>6. ASSUME NEW f \in Field, EditField(p, f)
        PROVE  TypeInv'
    <2>1. /\ writes < MaxWrites /\ writes' = writes + 1 /\ version' = [version EXCEPT ![f] = writes + 1]
          /\ Edits(p, TRUE, [g \in {f} |-> writes + 1])
      BY <1>6 DEF EditField
    <2>2. writes' \in 0..MaxWrites
      BY <2>1, ContributionsAssumption DEF TypeInv, TypeOK
    <2>3. version' \in [Field -> 0..MaxWrites]
      BY <2>1, <2>2 DEF TypeInv, TypeOK
    <2>4. [g \in {f} |-> writes + 1] \in Values
      BY <2>1, EditValues DEF TypeInv
    <2>. QED BY <2>1, <2>2, <2>3, <2>4, EditsType
  <1>. QED BY <1>1, <1>2, <1>3, <1>4, <1>5, <1>6 DEF Work

LEMMA SaveMoveType ==
    ASSUME TypeInv, NEW p \in Page, UNCHANGED rows \/ RowsKept, UNCHANGED <<fill, open, writes>>,
           UNCHANGED faults \/ Fault, CanvasType', PageType', UNCHANGED missed \/ MissedType',
           stored.version <= stored'.version,
           NEW s \in Saves, save' = [save EXCEPT ![p] = s], s.pending \subseteq s.acks
    PROVE  TypeInv'
  <1>1. /\ RowsType' /\ FillType' /\ Len(rows') = Len(rows) /\ Saves' = Saves
        /\ Len(rows') \in Nat /\ Len(rows) <= Len(rows')
    BY TabRows
  <1>2. SaveType'
    BY <1>1 DEF SaveType, TypeInv, TypeOK
  <1>3. TypeOK'
    BY <1>1, <1>2, TypeKept, TypeParts DEF TypeInv
  <1>4. \A q \in Page : open'[q].pc = "mark" => open'[q].item.version < stored'.version
    <2>1. stored.version \in Nat /\ stored'.version \in Nat
      BY DEF CanvasType, Item, TypeInv, TypeOK
    <2>2. \A q \in Page : open[q].item.version \in Nat
      BY DEF TypeInv, TypeOK, Opens, Item
    <2>. QED BY <2>1, <2>2 DEF TypeInv, StageInv
  <1>. QED BY <1>1, <1>3, <1>4, TabStage DEF TypeInv

LEMMA SaveCanvasType ==
    ASSUME TypeInv, NEW p \in Page, SaveCanvas(p)
    PROVE  TypeInv'
  <1>. USE DEF counters
  <1>. DEFINE s == save[p]
  <1>0. /\ s \in Saves /\ s.pending \subseteq s.acks /\ s.payload \in Payload
        /\ page[p] \in Pages /\ page[p].acks \subseteq RowIds
        /\ stored.version \in Nat /\ stored.version <= stored.version
        /\ save \in [Page -> Saves] /\ page \in [Page -> Pages]
    BY DEF TypeInv, TypeOK, Saves, Pages, Item
  <1>01. /\ UNCHANGED <<rows, canvasVars>> \/ (RowsKept /\ UNCHANGED canvasVars) => CanvasType'
         /\ UNCHANGED <<rows, page>> \/ (RowsKept /\ UNCHANGED page) => PageType'
    BY RowsKeptType, TypeKept DEF TypeInv
  <1>02. UNCHANGED canvasVars => stored.version <= stored'.version
    BY <1>0 DEF canvasVars
  <1>03. Pending \subseteq RowIds
    BY DEF Pending
  <1>1. CASE StartSave(p)
    <2>. DEFINE t == [NoSave EXCEPT !.payload = page[p].view, !.expected = page[p].expected,
                          !.acks = page[p].acks, !.here = TRUE,
                          !.pc = IF page[p].acks = {} THEN "store" ELSE "pending"]
    <2>1. t \in Saves /\ t.pending \subseteq t.acks
      BY <1>0, RestTypes DEF Saves, Pages, NoSave
    <2>2. save' = [save EXCEPT ![p] = t] /\ UNCHANGED <<canvasVars, rows, fill, page, open, counters>>
      BY <1>1 DEF StartSave
    <2>. HIDE DEF t
    <2>. QED BY <1>0, <1>01, <1>02, <2>1, <2>2, SaveMoveType
  <1>2. CASE ReadPending(p)
    <2>. DEFINE t == [s EXCEPT !.pending = Pending \cap s.acks, !.pc = "store"]
    <2>1. t \in Saves /\ t.pending \subseteq t.acks
      BY <1>0, <1>03 DEF Saves
    <2>2. save' = [save EXCEPT ![p] = t] /\ UNCHANGED <<canvasVars, rows, fill, page, open, counters>>
      BY <1>0, <1>2 DEF ReadPending
    <2>. HIDE DEF t
    <2>. QED BY <1>0, <1>01, <1>02, <2>1, <2>2, SaveMoveType
  <1>3. CASE PendingUnread(p)
    <2>. DEFINE t == [s EXCEPT !.pc = "store"]
    <2>1. t \in Saves /\ t.pending \subseteq t.acks
      BY <1>0 DEF Saves
    <2>2. save' = [save EXCEPT ![p] = t] /\ UNCHANGED <<canvasVars, rows, fill, page, open, writes, missed>> /\ Fault
      BY <1>0, <1>3 DEF PendingUnread
    <2>. HIDE DEF t
    <2>. QED BY <1>0, <1>01, <1>02, <2>1, <2>2, SaveMoveType
  <1>31. SavedOver(p) \subseteq RowIds \X Field
    BY LacksType DEF SavedOver
  <1>32. Puts(p) /\ UNCHANGED <<live, dirty, version>> => CanvasType' /\ stored.version < stored'.version
         /\ stored.version + 1 \in 1..MaxVersion
    BY <1>0, PutType, ContributionsAssumption DEF Puts
  <1>4. CASE StoreSave(p)
    <2>. DEFINE t == [s EXCEPT !.version = stored.version + 1,
                               !.pc = IF s.pending = {} THEN "broadcast" ELSE "mark"]
    <2>0. Puts(p) /\ UNCHANGED <<live, dirty, version, rows, fill, page, open, writes, faults>>
      BY <1>4 DEF StoreSave
    <2>1. t \in Saves /\ t.pending \subseteq t.acks
      BY <1>0, <1>32, <2>0 DEF Saves
    <2>2. save' = [save EXCEPT ![p] = t]
      BY <1>0, <1>4 DEF StoreSave
    <2>3. MissedType'
      BY <1>4, <1>31, MissesType DEF StoreSave, TypeInv
    <2>4. CanvasType' /\ stored.version <= stored'.version
      <3>1. CanvasType' /\ stored.version < stored'.version
        BY <1>32, <2>0
      <3>. QED BY <1>0, <3>1 DEF CanvasType, Item
    <2>. HIDE DEF t
    <2>. QED BY <1>0, <1>01, <2>0, <2>1, <2>2, <2>3, <2>4, SaveMoveType
  <1>5. ASSUME NEW acted \in BOOLEAN, SaveFails(p, acted)
        PROVE  TypeInv'
    <2>0. /\ IF acted THEN Puts(p) ELSE UNCHANGED stored
          /\ Fault /\ save' = [save EXCEPT ![p] = NoSave]
          /\ UNCHANGED <<live, dirty, version, rows, fill, page, open, writes>>
          /\ Misses(IF acted THEN SavedOver(p) ELSE {})
      BY <1>5 DEF SaveFails
    <2>1. MissedType'
      BY <1>31, <2>0, MissesType DEF TypeInv
    <2>2. CanvasType' /\ stored.version <= stored'.version
      <3>1. CASE acted
        <4>1. CanvasType' /\ stored.version < stored'.version
          BY <1>32, <2>0, <3>1
        <4>. QED BY <1>0, <4>1 DEF CanvasType, Item
      <3>2. CASE ~acted
        BY <1>01, <1>02, <2>0, <3>2 DEF canvasVars
      <3>. QED BY <3>1, <3>2
    <2>. QED BY <1>01, <2>0, <2>1, <2>2, RestTypes, SaveMoveType
  <1>6. CASE RefuseSave(p)
    <2>. DEFINE t == IF s.here THEN [s EXCEPT !.pc = "conflict"] ELSE NoSave
    <2>1. t \in Saves /\ t.pending \subseteq t.acks
      <3>1. [s EXCEPT !.pc = "conflict"] \in Saves /\ [s EXCEPT !.pc = "conflict"].pending = s.pending
            /\ [s EXCEPT !.pc = "conflict"].acks = s.acks
        BY <1>0 DEF Saves
      <3>. QED BY <1>0, <3>1, RestTypes
    <2>2. save' = [save EXCEPT ![p] = t] /\ UNCHANGED <<canvasVars, rows, fill, page, open, counters>>
      BY <1>0, <1>6 DEF RefuseSave
    <2>. HIDE DEF t
    <2>. QED BY <1>0, <1>01, <1>02, <2>1, <2>2, SaveMoveType
  <1>7. CASE SaveAnyway(p)
    <2>. DEFINE t == [s EXCEPT !.expected = None, !.pending = {},
                               !.pc = IF s.acks = {} THEN "store" ELSE "pending"]
    <2>1. t \in Saves /\ t.pending \subseteq t.acks
      BY <1>0 DEF Saves, Expected
    <2>2. save' = [save EXCEPT ![p] = t] /\ UNCHANGED <<canvasVars, rows, fill, page, open, counters>>
      BY <1>0, <1>7 DEF SaveAnyway
    <2>. HIDE DEF t
    <2>. QED BY <1>0, <1>01, <1>02, <2>1, <2>2, SaveMoveType
  <1>8. CASE CancelSave(p)
    BY <1>01, <1>02, <1>8, RestTypes, SaveMoveType DEF CancelSave
  <1>9. CASE BroadcastCanvasSaved(p)
    <2>0. /\ UNCHANGED <<stored, version, rows, fill, open, writes, faults>>
          /\ live' = s.payload /\ dirty' = FALSE /\ save' = [save EXCEPT ![p] = NoSave]
          /\ Misses(Lacks(live') \ Lacks(live))
      BY <1>9 DEF BroadcastCanvasSaved
    <2>1. CanvasType' /\ stored.version <= stored'.version
      BY <1>0, <2>0 DEF CanvasType, TypeInv, TypeOK
    <2>2. MissedType'
      <3>1. Lacks(live') \ Lacks(live) \subseteq RowIds \X Field
        BY LacksType
      <3>. QED BY <2>0, <3>1, MissesType DEF TypeInv
    <2>3. page' \in [Page -> Pages]
      <3>. DEFINE told(q) == page[q].at = "connected" \/ (q = p /\ s.here)
                  new(q) == [page[q] EXCEPT !.expected = IF told(q) THEN s.version ELSE @,
                                            !.acks = IF q = p /\ s.here THEN @ \ s.done ELSE @]
      <3>1. page' = [q \in Page |-> new(q)]
        BY <1>9 DEF BroadcastCanvasSaved
      <3>2. s.version \in Expected
        BY <1>0 DEF Saves, Expected
      <3>3. ASSUME NEW q \in Page PROVE new(q) \in Pages
        BY <1>0, <3>2 DEF Pages
      <3>. HIDE DEF new
      <3>. QED BY <3>1, <3>3
    <2>4. PageType'
      BY <2>0, <2>3, TabRows DEF PageType
    <2>. QED BY <2>0, <2>1, <2>2, <2>4, RestTypes, SaveMoveType
  <1>10. ASSUME NEW ids \in SUBSET s.pending, MarkSaved(p, ids)
         PROVE  TypeInv'
    <2>. DEFINE done == IF ids = s.pending /\ \A i \in ids : Exists(i) THEN ids ELSE {}
                t == [s EXCEPT !.pc = "broadcast", !.done = done]
    <2>0. done \in SUBSET RowIds
      BY <1>0 DEF Saves
    <2>1. t \in Saves /\ t.pending \subseteq t.acks
      <3>. HIDE DEF done
      <3>. QED BY <1>0, <2>0 DEF Saves
    <2>2. save' = [save EXCEPT ![p] = t] /\ UNCHANGED <<canvasVars, fill, page, open, writes, missed>>
          /\ (UNCHANGED faults \/ Fault)
      BY <1>0, <1>10 DEF MarkSaved
    <2>3. RowsKept
      BY <1>10, MarkedRows DEF MarkSaved, Status, TypeInv
    <2>. HIDE DEF t
    <2>. QED BY <1>0, <1>01, <1>02, <2>1, <2>2, <2>3, SaveMoveType
  <1>11. (\E ids \in SUBSET s.pending : MarkSaved(p, ids)) => TypeInv'
    BY <1>10
  <1>12. (\E acted \in BOOLEAN : SaveFails(p, acted)) => TypeInv'
    BY <1>5
  <1>. QED BY <1>1, <1>2, <1>3, <1>4, <1>6, <1>7, <1>8, <1>9, <1>11, <1>12 DEF SaveCanvas

LEMMA NextType == TypeInv /\ [Next]_vars => TypeInv'
  <1>. SUFFICES ASSUME TypeInv, [Next]_vars PROVE TypeInv'
    OBVIOUS
  <1>1. CASE Contribute
    BY <1>1, ContributeType
  <1>2. ASSUME NEW p \in Page, OpenCanvas(p) \/ Work(p) \/ SaveCanvas(p)
        PROVE  TypeInv'
    BY <1>2, OpenCanvasType, WorkType, SaveCanvasType
  <1>3. CASE UNCHANGED vars
    <2>1. UNCHANGED <<rows, canvasVars, fill, page, open, save, writes, faults, missed>>
      BY <1>3 DEF vars, counters
    <2>2. TypeOK'
      BY <2>1, RowsKeptType, TypeKept, TypeParts DEF TypeInv
    <2>3. StageInv'
      BY <2>1 DEF StageInv, TypeInv, canvasVars, RowIds
    <2>. QED BY <2>2, <2>3 DEF TypeInv
  <1>. QED BY <1>1, <1>2, <1>3 DEF Next

\* A request, a tab, an opening and a save have in every state the form that the
\* code gives them, and a stored canvas never runs past the last version.
THEOREM TypeCorrect == Spec => []TypeOK
  <1>1. TypeInv => TypeOK
    BY DEF TypeInv
  <1>. QED BY <1>1, InitType, NextType, PTL DEF Spec

-----------------------------------------------------------------------------
(* Entries.  The rows come in the order in which their values were entered; a   *)
(* submission under way was entered after all of them, and no payload has it    *)
(* before its row is there.                                                     *)

EntriesInv ==
    /\ \A i, j \in RowIds : i < j =>
           \A f \in DOMAIN rows[i].values, g \in DOMAIN rows[j].values :
               rows[i].values[f] < rows[j].values[g]
    /\ \A i \in RowIds : \A f \in DOMAIN rows[i].values : rows[i].values[f] <= writes
    /\ \A f \in Field : version[f] <= writes

FillInv ==
    /\ fill.pc # "idle" => \A f \in DOMAIN fill.values :
           fill.values[f] <= writes /\ version[f] # fill.values[f] /\ fill.base[f] < fill.values[f]
    /\ fill.pc \in Sends => \A f \in DOMAIN fill.values, i \in RowIds :
           \A g \in DOMAIN rows[i].values : rows[i].values[g] < fill.values[f]
    /\ fill.pc \in Created => fill.row = Len(rows) /\ rows[fill.row].values = fill.values
    /\ fill.pc \in {"share", "undo"} => \A p \in Page : fill.row \notin page[p].acks
    /\ fill.pc = "commit" => rows[fill.row].shared

\* A payload has no value from the future, nor the submission under way.
Early(P) ==
    \A f \in Field :
        /\ P.value[f] <= writes
        /\ (fill.pc \in Sends /\ f \in DOMAIN fill.values /\ version[f] < fill.values[f]) =>
               P.value[f] < fill.values[f]

EarlyInv ==
    /\ Early(stored.payload) /\ Early(live)
    /\ \A p \in Page :
           /\ Early(page[p].view) /\ Early(page[p].read)
           /\ Early(open[p].item.payload) /\ Early(open[p].merged)
           /\ Early(save[p].payload)

\* What any step does to the entries.
EntriesKept ==
    /\ missed \subseteq missed' /\ writes <= writes'
    /\ \A i \in RowIds : rows'[i].values = rows[i].values
    /\ \A f \in Field : version[f] <= version'[f]
    /\ \/ RowIds' = RowIds
       \/ /\ fill.pc = "create" /\ fill'.pc \notin Sends /\ UNCHANGED <<version, tabs>>
          /\ RowIds' = RowIds \cup {Len(rows) + 1} /\ Len(rows) + 1 \notin RowIds
          /\ rows'[Len(rows) + 1] = NewRow /\ Len(rows') = Len(rows) + 1
    /\ fill'.pc \in Sends =>
           \/ fill.pc \in Sends /\ fill'.values = fill.values
           \/ \A f \in DOMAIN fill'.values : writes < fill'.values[f]

LEMMA MissesMore == ASSUME NEW lost, Misses(lost) PROVE missed \subseteq missed' /\ lost \subseteq missed'
  BY DEF Misses

\* What a step of a tab does to them.
LEMMA TabMoves ==
    ASSUME TypeOK, NEW p \in Page, OpenCanvas(p) \/ Work(p) \/ SaveCanvas(p)
    PROVE  /\ UNCHANGED fill /\ (RowsKept \/ UNCHANGED rows) /\ StatusKept /\ missed \subseteq missed'
           /\ UNCHANGED <<version, writes>> \/ \E f \in Field : EditField(p, f)
  <1>. USE DEF counters, canvasVars
  <1>0. /\ UNCHANGED rows => StatusKept
        /\ \A ids, status : status \in {"Merged", "Superseded"} /\ rows' = Marked(ids, status) => RowsKept /\ StatusKept
    BY MarkedRows DEF StatusKept, Status
  <1>1. CASE OpenCanvas(p)
    <2>1. CASE StartOpen(p) \/ Reload(p) \/ ListPending(p)
      BY <1>0, <2>1 DEF StartOpen, Reload, ListPending
    <2>2. CASE MergePending(p) \/ MergeUnheard(p) \/ AnswerOpen(p)
      BY <1>0, <2>2, MissesMore DEF MergePending, MergeUnheard, AnswerOpen
    <2>3. ASSUME NEW ids, MarkMerged(p, ids)
          PROVE  UNCHANGED <<fill, version, writes, missed>> /\ RowsKept /\ StatusKept
      BY <1>0, <2>3 DEF MarkMerged
    <2>4. CASE MarkSuperseded(p)
      BY <1>0, <2>4 DEF MarkSuperseded
    <2>5. ASSUME NEW acted \in BOOLEAN, OpenFails(p, acted)
          PROVE  UNCHANGED <<fill, version, writes, missed>> /\ (RowsKept \/ UNCHANGED rows) /\ StatusKept
      BY <1>0, <2>5 DEF OpenFails
    <2>. QED BY <1>1, <2>1, <2>2, <2>3, <2>4, <2>5 DEF OpenCanvas
  <1>2. CASE Work(p)
    <2>1. CASE StartSubscribe(p) \/ Disconnect(p) \/ Close(p)
      BY <1>0, <2>1 DEF StartSubscribe, Disconnect, Close
    <2>2. CASE Subscribe(p)
      BY <1>0, <2>2, MissesMore DEF Subscribe
    <2>3. CASE Withdraw(p)
      BY <1>0, <2>3 DEF Withdraw, Edits
    <2>4. CASE \E f \in Field : EditField(p, f)
      BY <1>0, <2>4 DEF EditField, Edits
    <2>. QED BY <1>2, <2>1, <2>2, <2>3, <2>4 DEF Work
  <1>3. CASE SaveCanvas(p)
    <2>1. CASE StartSave(p) \/ ReadPending(p) \/ PendingUnread(p) \/ RefuseSave(p) \/ SaveAnyway(p) \/ CancelSave(p)
      BY <1>0, <2>1 DEF StartSave, ReadPending, PendingUnread, RefuseSave, SaveAnyway, CancelSave
    <2>2. CASE StoreSave(p)
      BY <1>0, <2>2, MissesMore DEF StoreSave
    <2>3. CASE BroadcastCanvasSaved(p)
      BY <1>0, <2>3, MissesMore DEF BroadcastCanvasSaved
    <2>4. ASSUME NEW acted \in BOOLEAN, SaveFails(p, acted)
          PROVE  UNCHANGED <<fill, rows, version, writes>> /\ StatusKept /\ missed \subseteq missed'
      BY <1>0, <2>4, MissesMore DEF SaveFails
    <2>5. ASSUME NEW ids, MarkSaved(p, ids)
          PROVE  UNCHANGED <<fill, version, writes, missed>> /\ RowsKept /\ StatusKept
      BY <1>0, <2>5 DEF MarkSaved
    <2>. QED BY <1>3, <2>1, <2>2, <2>3, <2>4, <2>5 DEF SaveCanvas
  <1>. QED BY <1>1, <1>2, <1>3

\* What is written is a number.
LEMMA Numbers ==
    ASSUME TypeOK
    PROVE  /\ writes \in Nat /\ Len(rows) \in Nat /\ stored.version \in Nat
           /\ \A f \in Field : version[f] \in Nat
           /\ \A i \in RowIds : \A f \in DOMAIN rows[i].values : f \in Field /\ rows[i].values[f] \in Nat
           /\ fill.values \in Values
           /\ \A f \in DOMAIN fill.values : f \in Field /\ fill.values[f] \in Nat /\ fill.base[f] \in Nat
           /\ \A P \in Payload, f \in Field : P.value[f] \in Nat
  <1>1. writes \in Nat /\ \A f \in Field : version[f] \in Nat
    BY DEF TypeOK
  <1>2. \A i \in RowIds : \A f \in DOMAIN rows[i].values : f \in Field /\ rows[i].values[f] \in Nat
    BY RowType
  <1>3. fill.values \in Values /\ DOMAIN fill.base = DOMAIN fill.values
    BY DEF TypeOK, Fills
  <1>4. \A f \in DOMAIN fill.values : f \in Field /\ fill.values[f] \in Nat
    BY <1>3 DEF Values
  <1>5. fill.base \in UNION {[F -> 0..MaxWrites] : F \in SUBSET Field}
    BY DEF TypeOK, Fills
  <1>6. \A f \in DOMAIN fill.base : fill.base[f] \in Nat
    BY <1>5
  <1>7. \A P \in Payload, f \in Field : P.value[f] \in Nat
    BY DEF Payload
  <1>. QED BY <1>1, <1>2, <1>3, <1>4, <1>6, <1>7, RowsInSeq DEF TypeOK, Item

LEMMA NoRowsChange == UNCHANGED rows => RowIds' = RowIds /\ \A i \in RowIds : rows'[i].values = rows[i].values
  BY DEF RowIds

LEMMA RowsKeptSame ==
    ASSUME TypeOK, RowsKept \/ UNCHANGED rows
    PROVE  /\ RowIds' = RowIds /\ Len(rows') = Len(rows)
           /\ \A i \in RowIds : rows'[i].values = rows[i].values
  BY DEF RowsKept, RowIds

LEMMA CommitMoves ==
    ASSUME TypeInv, FillInv, CommitLive
    PROVE  /\ UNCHANGED <<stored, rows, open, save, writes, faults, missed>> /\ fill' = NoFill /\ fill.pc = "commit"
           /\ ~LeasesHold => UNCHANGED <<canvasVars, page>>
           /\ LeasesHold =>
                 /\ dirty' = TRUE
                 /\ \A f \in Field : version'[f] = IF f \in DOMAIN fill.values THEN fill.values[f] ELSE version[f]
                 /\ \A f \in DOMAIN fill.values : version[f] < fill.values[f]
  <1>1. UNCHANGED <<stored, rows, open, save, writes, faults, missed>> /\ fill' = NoFill /\ fill.pc = "commit"
    BY DEF CommitLive, counters, Fails
  <1>2. ~LeasesHold => UNCHANGED <<canvasVars, page>>
    BY <1>1 DEF CommitLive, canvasVars
  <1>3. ASSUME LeasesHold
        PROVE  /\ dirty' = TRUE
               /\ \A f \in Field : version'[f] = IF f \in DOMAIN fill.values THEN fill.values[f] ELSE version[f]
               /\ \A f \in DOMAIN fill.values : version[f] < fill.values[f]
    <2>1. fill.values \in Values /\ version \in [Field -> 0..MaxWrites] /\ DOMAIN fill.base = DOMAIN fill.values
      BY DEF TypeInv, TypeOK, Fills
    <2>2. version' = Write(version, fill.values) /\ dirty' = TRUE
      BY <1>3 DEF CommitLive
    <2>3. \A f \in Field : version'[f] = IF f \in DOMAIN fill.values THEN fill.values[f] ELSE version[f]
      BY <2>1, <2>2, WriteType
    <2>4. \A f \in DOMAIN fill.values : version[f] < fill.values[f]
      BY <1>1, <1>3, <2>1 DEF LeasesHold, FillInv
    <2>. QED BY <2>2, <2>3, <2>4
  <1>. QED BY <1>1, <1>2, <1>3

LEMMA StepKeeps ==
    ASSUME TypeInv, EntriesInv, FillInv, [Next]_vars
    PROVE  EntriesKept
  <1>. USE DEF TypeInv
  <1>1. ASSUME NEW F \in SUBSET Field, NEW isLive \in BOOLEAN, SendFill(F, isLive)
        PROVE  EntriesKept
    <2>1. \A f \in DOMAIN fill'.values : writes < fill'.values[f]
      BY <1>1, SendFillType, Numbers, SMTT(30)
    <2>. QED BY <1>1, <2>1, NoRowsChange, Numbers DEF SendFill, EntriesKept, canvasVars
  <1>2. CASE ListPrevious
    BY <1>2, NoRowsChange, Numbers DEF ListPrevious, EntriesKept, canvasVars, counters, TypeOK, Fills, Sends
  <1>3. CASE CommitLive
    <2>1. fill'.pc \notin Sends
      BY <1>3, CommitMoves, RestTypes DEF Sends
    <2>2. \A f \in Field : version[f] <= version'[f]
      <3>1. \A f \in Field : version[f] \in Nat
        BY Numbers
      <3>2. CASE ~LeasesHold
        BY <1>3, <3>1, <3>2, CommitMoves DEF canvasVars
      <3>3. CASE LeasesHold
        <4>1. /\ \A f \in Field : version'[f] = IF f \in DOMAIN fill.values THEN fill.values[f] ELSE version[f]
              /\ \A f \in DOMAIN fill.values : version[f] < fill.values[f] /\ fill.values[f] \in Nat
          BY <1>3, <3>3, CommitMoves, Numbers
        <4>. QED BY <3>1, <4>1
      <3>. QED BY <3>2, <3>3
    <2>. QED BY <1>3, <2>1, <2>2, CommitMoves, NoRowsChange, Numbers DEF EntriesKept
  <1>4. ASSUME UNCHANGED <<tabs, writes, missed>>, RowsKept \/ UNCHANGED rows,
               Fails \/ Moves
        PROVE  EntriesKept
    <2>1. fill'.pc \in Sends => fill.pc \in Sends /\ fill'.values = fill.values
      BY <1>4, RestTypes DEF Fails, Moves, Step, Sends, Created, TypeOK, Fills
    <2>. QED BY <1>4, <2>1, RowsKeptSame, Numbers DEF EntriesKept, tabs, canvasVars
  <1>5. ASSUME fill.pc = "create", rows' = Append(rows, NewRow), UNCHANGED <<tabs, writes, missed>>,
               fill' = [fill EXCEPT !.row = Len(rows) + 1, !.pc = "share"] \/ fill' = NoFill
        PROVE  EntriesKept
    <2>1. /\ Len(rows') = Len(rows) + 1 /\ rows'[Len(rows) + 1] = NewRow
          /\ \A i \in RowIds : rows'[i] = rows[i]
      BY <1>5, AppendedRows
    <2>2. Len(rows) \in Nat
      BY Numbers
    <2>3. RowIds' = RowIds \cup {Len(rows) + 1} /\ Len(rows) + 1 \notin RowIds
      BY <2>1, <2>2 DEF RowIds
    <2>4. fill'.pc \notin Sends
      BY <1>5, RestTypes DEF Sends, TypeOK, Fills
    <2>5. UNCHANGED <<version, tabs>>
      BY <1>5 DEF tabs, canvasVars
    <2>6. missed \subseteq missed' /\ writes <= writes' /\ \A f \in Field : version[f] <= version'[f]
      BY <1>5, <2>5, Numbers
    <2>7. \A i \in RowIds : rows'[i].values = rows[i].values
      BY <2>1
    <2>. QED BY <1>5, <2>1, <2>3, <2>4, <2>5, <2>6, <2>7 DEF EntriesKept
  <1>6. CASE Contribute
    BY <1>1, <1>2, <1>3, <1>4, <1>5, <1>6, ContributeMoves
  <1>7. ASSUME NEW p \in Page, OpenCanvas(p) \/ Work(p) \/ SaveCanvas(p)
        PROVE  EntriesKept
    <2>1. UNCHANGED fill /\ (RowsKept \/ UNCHANGED rows) /\ missed \subseteq missed'
      BY <1>7, TabMoves
    <2>2. writes <= writes' /\ \A f \in Field : version[f] <= version'[f]
      <3>1. CASE UNCHANGED <<version, writes>>
        BY <3>1, Numbers
      <3>2. ASSUME NEW f \in Field, EditField(p, f)
            PROVE  writes <= writes' /\ \A g \in Field : version[g] <= version'[g]
        <4>1. writes' = writes + 1 /\ version' = [version EXCEPT ![f] = writes + 1]
          BY <3>2 DEF EditField
        <4>2. writes \in Nat /\ \A g \in Field : version[g] \in Nat /\ version[g] <= writes
          BY Numbers DEF EntriesInv
        <4>. QED BY <4>1, <4>2 DEF TypeOK
      <3>. QED BY <1>7, <3>1, <3>2, TabMoves
    <2>. QED BY <2>1, <2>2, RowsKeptSame DEF EntriesKept
  <1>8. CASE UNCHANGED vars
    BY <1>8, NoRowsChange, Numbers DEF vars, canvasVars, counters, EntriesKept
  <1>. QED BY <1>6, <1>7, <1>8 DEF Next

\* A tab's step adds nothing to what tabs acknowledge.
LEMMA TabAcks ==
    ASSUME TypeOK, NEW p \in Page, OpenCanvas(p) \/ Work(p) \/ SaveCanvas(p), NEW q \in Page
    PROVE  page'[q].acks \subseteq page[q].acks
  <1>. USE DEF TypeOK, Pages
  <1>1. CASE UNCHANGED page
    BY <1>1
  <1>2. CASE Reload(p)
    BY <1>2 DEF Reload, Closed
  <1>3. CASE AnswerOpen(p)
    BY <1>3 DEF AnswerOpen
  <1>4. CASE StartSubscribe(p) \/ Subscribe(p) \/ Disconnect(p) \/ Close(p)
    <2>1. CASE StartSubscribe(p)
      BY <2>1 DEF StartSubscribe
    <2>2. CASE Subscribe(p)
      BY <2>2 DEF Subscribe
    <2>3. CASE Disconnect(p)
      BY <2>3 DEF Disconnect
    <2>4. CASE Close(p)
      BY <2>4 DEF Close, Closed
    <2>. QED BY <1>4, <2>1, <2>2, <2>3, <2>4
  <1>5. CASE Withdraw(p) \/ \E f \in Field : EditField(p, f)
    <2>1. PICK slot, values : Edits(p, slot, values)
      BY <1>5 DEF Withdraw, EditField
    <2>. QED BY <2>1 DEF Edits
  <1>6. CASE BroadcastCanvasSaved(p)
    BY <1>6 DEF BroadcastCanvasSaved
  <1>7. CASE \/ StartOpen(p) \/ ListPending(p) \/ MergePending(p) \/ MergeUnheard(p) \/ MarkSuperseded(p)
             \/ \E ids \in SUBSET open[p].applied : MarkMerged(p, ids)
             \/ \E acted \in BOOLEAN : OpenFails(p, acted)
    BY <1>1, <1>7 DEF StartOpen, ListPending, MergePending, MergeUnheard, MarkSuperseded, MarkMerged, OpenFails
  <1>8. CASE \/ StartSave(p) \/ ReadPending(p) \/ PendingUnread(p) \/ StoreSave(p) \/ RefuseSave(p)
             \/ SaveAnyway(p) \/ CancelSave(p)
             \/ \E acted \in BOOLEAN : SaveFails(p, acted)
             \/ \E ids \in SUBSET save[p].pending : MarkSaved(p, ids)
    BY <1>1, <1>8 DEF StartSave, ReadPending, PendingUnread, StoreSave, RefuseSave, SaveAnyway, CancelSave,
                      SaveFails, MarkSaved
  <1>. QED BY <1>2, <1>3, <1>4, <1>5, <1>6, <1>7, <1>8 DEF OpenCanvas, Work, SaveCanvas

\* The versions do not run ahead of the entries.
LEMMA VersionStep ==
    ASSUME TypeInv, EntriesInv, FillInv, [Next]_vars, NEW f \in Field
    PROVE  /\ version'[f] = version[f] \/ version'[f] = writes' \/ (CommitLive /\ version'[f] <= writes')
           /\ version'[f] # version[f] => writes < version'[f] \/ CommitLive
           /\ version'[f] <= writes'
  <1>. USE DEF TypeInv, canvasVars
  <1>0. version[f] <= writes /\ version[f] \in Nat /\ writes \in Nat
    BY Numbers DEF EntriesInv
  <1>1. CASE UNCHANGED <<version, writes>>
    BY <1>0, <1>1
  <1>2. ASSUME NEW F \in SUBSET Field, NEW isLive \in BOOLEAN, SendFill(F, isLive)
        PROVE  UNCHANGED version /\ writes' = writes + 1
    BY <1>2 DEF SendFill
  <1>3. CASE CommitLive
    <2>1. CASE ~LeasesHold
      BY <1>0, <1>3, <2>1, CommitMoves
    <2>2. CASE LeasesHold
      <3>1. fill.pc # "idle" /\ writes' = writes
        BY <1>3, CommitMoves
      <3>2. \A g \in DOMAIN fill.values : fill.values[g] <= writes
        BY <3>1 DEF FillInv
      <3>. QED BY <1>0, <1>3, <2>2, <3>1, <3>2, CommitMoves
    <2>. QED BY <2>1, <2>2
  <1>4. CASE Contribute
    <2>1. CASE UNCHANGED <<tabs, writes>>
      BY <1>1, <2>1 DEF tabs
    <2>2. CASE ListPrevious
      BY <1>1, <2>2 DEF ListPrevious, counters
    <2>3. CASE \E F \in SUBSET Field, isLive \in BOOLEAN : SendFill(F, isLive)
      BY <1>0, <1>2, <2>3
    <2>. QED BY <1>3, <1>4, <2>1, <2>2, <2>3, ContributeMoves
  <1>5. ASSUME NEW p \in Page, OpenCanvas(p) \/ Work(p) \/ SaveCanvas(p),
               NEW g \in Field, EditField(p, g)
        PROVE  version' = [version EXCEPT ![g] = writes + 1] /\ writes' = writes + 1
    BY <1>5 DEF EditField
  <1>6. CASE \E p \in Page : OpenCanvas(p) \/ Work(p) \/ SaveCanvas(p)
    <2>1. CASE UNCHANGED <<version, writes>>
      BY <1>1, <2>1
    <2>2. \/ \E g \in Field : version' = [version EXCEPT ![g] = writes + 1] /\ writes' = writes + 1
          \/ UNCHANGED <<version, writes>>
      BY <1>5, <1>6, TabMoves
    <2>. QED BY <1>0, <2>1, <2>2 DEF TypeOK
  <1>7. CASE UNCHANGED vars
    BY <1>1, <1>7 DEF vars, counters
  <1>. QED BY <1>4, <1>6, <1>7 DEF Next

LEMMA EntriesStep == TypeInv /\ EntriesInv /\ FillInv /\ [Next]_vars => EntriesInv'
  <1>. SUFFICES ASSUME TypeInv, EntriesInv, FillInv, [Next]_vars PROVE EntriesInv'
    OBVIOUS
  <1>. USE DEF TypeInv
  <1>1. EntriesKept
    BY StepKeeps
  <1>2. \A f \in Field : version'[f] <= writes'
    BY VersionStep
  <1>3. TypeOK'
    BY NextType
  <1>4. writes \in Nat /\ writes' \in Nat /\ writes <= writes'
    BY <1>1, <1>3 DEF EntriesKept, TypeOK
  <1>5. CASE RowIds' = RowIds
    <2>1. ASSUME NEW i \in RowIds, NEW f \in DOMAIN rows[i].values
          PROVE  rows[i].values[f] \in Nat /\ rows[i].values[f] <= writes
      BY Numbers DEF EntriesInv
    <2>2. \A i \in RowIds : rows'[i].values = rows[i].values
      BY <1>1 DEF EntriesKept
    <2>3. \A i \in RowIds' : \A f \in DOMAIN rows'[i].values : rows'[i].values[f] <= writes'
      BY <1>4, <1>5, <2>1, <2>2
    <2>4. \A i, j \in RowIds' : i < j =>
             \A f \in DOMAIN rows'[i].values, g \in DOMAIN rows'[j].values :
                 rows'[i].values[f] < rows'[j].values[g]
      BY <1>5, <2>2 DEF EntriesInv
    <2>. QED BY <1>2, <2>3, <2>4 DEF EntriesInv
  <1>6. CASE RowIds' # RowIds
    <2>. DEFINE n == Len(rows) + 1
    <2>1. /\ fill.pc = "create" /\ RowIds' = RowIds \cup {n} /\ n \notin RowIds /\ rows'[n] = NewRow
      BY <1>1, <1>6 DEF EntriesKept
    <2>2. rows'[n].values = fill.values /\ \A i \in RowIds : rows'[i].values = rows[i].values
      BY <1>1, <2>1 DEF EntriesKept, NewRow
    <2>3. ASSUME NEW f \in DOMAIN fill.values
          PROVE  /\ fill.values[f] <= writes /\ fill.values[f] \in Nat
                 /\ \A i \in RowIds : \A g \in DOMAIN rows[i].values : rows[i].values[g] < fill.values[f]
      BY <2>1, Numbers DEF FillInv, Sends
    <2>4. \A i \in RowIds : i < n
      BY Numbers DEF RowIds
    <2>5. \A i \in RowIds : \A f \in DOMAIN rows[i].values : rows[i].values[f] \in Nat /\ rows[i].values[f] <= writes
      BY Numbers DEF EntriesInv
    <2>6. \A i \in RowIds' : \A f \in DOMAIN rows'[i].values : rows'[i].values[f] <= writes'
      BY <1>4, <2>1, <2>2, <2>3, <2>5
    <2>7. ASSUME NEW i \in RowIds', NEW j \in RowIds', i < j,
                 NEW f \in DOMAIN rows'[i].values, NEW g \in DOMAIN rows'[j].values
          PROVE  rows'[i].values[f] < rows'[j].values[g]
      <3>1. i \in RowIds
        BY <2>1, <2>4, <2>7 DEF RowIds
      <3>2. CASE j = n
        BY <2>2, <2>3, <3>1, <3>2
      <3>3. CASE j \in RowIds
        BY <2>2, <2>7, <3>1, <3>3 DEF EntriesInv
      <3>. QED BY <2>1, <3>2, <3>3
    <2>. QED BY <1>2, <2>6, <2>7 DEF EntriesInv
  <1>. QED BY <1>5, <1>6

\* What of the submission under way no other step than its own disturbs.
LEMMA FillKept ==
    ASSUME TypeInv, EntriesInv, FillInv, [Next]_vars, fill'.values = fill.values, fill'.base = fill.base,
           fill.pc # "idle", ~CommitLive, NEW f \in DOMAIN fill.values
    PROVE  fill.values[f] <= writes' /\ version'[f] # fill.values[f] /\ fill.base[f] < fill.values[f]
  <1>. USE DEF TypeInv
  <1>1. fill.values[f] <= writes /\ version[f] # fill.values[f] /\ fill.base[f] < fill.values[f]
    BY DEF FillInv
  <1>2. f \in Field /\ fill.values[f] \in Nat /\ writes \in Nat
    BY Numbers
  <1>3. writes <= writes' /\ writes' \in Nat /\ version'[f] \in Nat
    BY <1>2, StepKeeps, NextType DEF EntriesKept, TypeOK
  <1>4. version'[f] = version[f] \/ writes < version'[f]
    BY <1>2, VersionStep
  <1>. QED BY <1>1, <1>2, <1>3, <1>4

LEMMA FillStep == TypeInv /\ EntriesInv /\ FillInv /\ [Next]_vars => FillInv'
  <1>. SUFFICES ASSUME TypeInv, EntriesInv, FillInv, [Next]_vars PROVE FillInv'
    OBVIOUS
  <1>. USE DEF TypeInv
  <1>0. EntriesKept /\ TypeOK'
    BY StepKeeps, NextType
  <1>1. CASE fill' = NoFill
    BY <1>1, RestTypes DEF FillInv, Sends, Created
  <1>2. ASSUME NEW F \in SUBSET Field, NEW isLive \in BOOLEAN, SendFill(F, isLive)
        PROVE  FillInv'
    <2>1. /\ fill'.pc = "sent" /\ DOMAIN fill'.values = F
          /\ \A f \in F : fill'.values[f] = writes + 1 /\ fill'.base[f] = version[f]
      BY <1>2, SendFillType
    <2>2. UNCHANGED <<version, rows>> /\ writes' = writes + 1
      BY <1>2 DEF SendFill, canvasVars
    <2>3. \A f \in Field : version[f] \in Nat /\ version[f] <= writes
      BY Numbers DEF EntriesInv
    <2>4. \A i \in RowIds : \A g \in DOMAIN rows[i].values : rows[i].values[g] \in Nat /\ rows[i].values[g] <= writes
      BY Numbers DEF EntriesInv
    <2>5. writes \in Nat /\ RowIds' = RowIds
      BY <2>2, Numbers DEF RowIds
    <2>6. \A f \in DOMAIN fill'.values :
             fill'.values[f] <= writes' /\ version'[f] # fill'.values[f] /\ fill'.base[f] < fill'.values[f]
      BY <2>1, <2>2, <2>3, <2>5
    <2>7. \A f \in DOMAIN fill'.values, i \in RowIds' :
             \A g \in DOMAIN rows'[i].values : rows'[i].values[g] < fill'.values[f]
      BY <2>1, <2>2, <2>4, <2>5
    <2>. QED BY <2>1, <2>6, <2>7 DEF FillInv, Created
  <1>3. ASSUME ~CommitLive, fill'.values = fill.values, fill'.base = fill.base, fill.pc # "idle", fill'.pc # "idle",
               RowsKept \/ UNCHANGED rows, StatusKept,
               fill'.pc \in Sends => fill.pc \in Sends,
               fill'.pc \in Created => fill.pc \in Created /\ fill'.row = fill.row,
               fill'.pc \in {"share", "undo"} =>
                   fill.pc \in {"share", "undo"} /\ \A p \in Page : page'[p].acks \subseteq page[p].acks,
               fill'.pc = "commit" => fill.pc = "commit" \/ rows'[fill.row].shared
        PROVE  FillInv'
    <2>1. \A f \in DOMAIN fill'.values :
             fill'.values[f] <= writes' /\ version'[f] # fill'.values[f] /\ fill'.base[f] < fill'.values[f]
      BY <1>3, FillKept
    <2>2. RowIds' = RowIds /\ Len(rows') = Len(rows) /\ \A i \in RowIds : rows'[i].values = rows[i].values
      BY <1>3, RowsKeptSame
    <2>3. fill'.pc \in Sends => \A f \in DOMAIN fill'.values, i \in RowIds' :
             \A g \in DOMAIN rows'[i].values : rows'[i].values[g] < fill'.values[f]
      BY <1>3, <2>2 DEF FillInv
    <2>4. fill'.pc \in Created => fill'.row \in RowIds /\ fill'.row = Len(rows') /\ rows'[fill'.row].values = fill'.values
      BY <1>3, <2>2 DEF FillInv, StageInv
    <2>5. fill'.pc \in {"share", "undo"} => \A p \in Page : fill'.row \notin page'[p].acks
      BY <1>3 DEF FillInv, Created
    <2>6. fill'.pc = "commit" => rows'[fill'.row].shared
      <3>1. CASE fill.pc = "commit" /\ fill'.pc = "commit"
        BY <1>3, <3>1 DEF FillInv, StatusKept, StageInv, Created
      <3>. QED BY <1>3, <3>1 DEF Created
    <2>. QED BY <2>1, <2>3, <2>4, <2>5, <2>6 DEF FillInv
  <1>4. CASE ListPrevious
    <2>1. /\ fill.pc = "list" /\ fill'.pc \in {"create", "supersede"} /\ UNCHANGED rows
          /\ fill'.values = fill.values /\ fill'.base = fill.base
      BY <1>4 DEF ListPrevious, TypeOK, Fills
    <2>2. StatusKept /\ ~CommitLive
      BY <2>1 DEF StatusKept, CommitLive
    <2>. QED BY <1>3, <2>1, <2>2 DEF Sends, Created
  <1>5. ASSUME UNCHANGED tabs, RowsKept \/ UNCHANGED rows, StatusKept, Moves
        PROVE  FillInv'
    <2>1. PICK pc \in Sends \cup Created :
             /\ Step(pc) /\ (pc \in Sends => fill.pc \in Sends) /\ (pc \in Created => fill.pc \in Created)
             /\ pc # "share" /\ (pc = "undo" => fill.pc = "share") /\ (pc = "commit" => rows'[fill.row].shared)
      BY <1>5 DEF Moves
    <2>2. fill'.pc = pc /\ fill'.values = fill.values /\ fill'.base = fill.base /\ fill'.row = fill.row
      BY <2>1 DEF Step, TypeOK, Fills
    <2>3. ~CommitLive
      BY <2>1, <2>2, RestTypes DEF CommitLive, Fails, Sends, Created
    <2>4. UNCHANGED page
      BY <1>5 DEF tabs
    <2>. QED BY <1>3, <1>5, <2>1, <2>2, <2>3, <2>4 DEF Sends, Created
  <1>6. ASSUME fill.pc = "create", rows' = Append(rows, NewRow), UNCHANGED tabs,
               fill' = [fill EXCEPT !.row = Len(rows) + 1, !.pc = "share"]
        PROVE  FillInv'
    <2>1. Len(rows') = Len(rows) + 1 /\ rows'[Len(rows) + 1] = NewRow
      BY <1>6, AppendedRows
    <2>2. /\ fill'.pc = "share" /\ fill'.values = fill.values /\ fill'.base = fill.base /\ fill'.row = Len(rows) + 1
      BY <1>6 DEF TypeOK, Fills
    <2>3. ~CommitLive
      BY <1>6 DEF CommitLive
    <2>4. \A f \in DOMAIN fill'.values :
             fill'.values[f] <= writes' /\ version'[f] # fill'.values[f] /\ fill'.base[f] < fill'.values[f]
      BY <1>6, <2>2, <2>3, FillKept
    <2>5. \A p \in Page : Len(rows) + 1 \notin page'[p].acks
      BY <1>6, Numbers DEF tabs, TypeOK, Pages, RowIds
    <2>. QED BY <2>1, <2>2, <2>4, <2>5 DEF FillInv, NewRow, Sends, Created
  <1>7. CASE Contribute
    <2>1. CASE CommitLive
      BY <1>1, <2>1, CommitMoves
    <2>2. CASE Fails
      BY <1>1, <2>2 DEF Fails
    <2>. QED BY <1>1, <1>2, <1>4, <1>5, <1>6, <1>7, <2>1, <2>2, ContributeMoves
  <1>8. ASSUME UNCHANGED fill, RowsKept \/ UNCHANGED rows, StatusKept,
               \A p \in Page : page'[p].acks \subseteq page[p].acks
        PROVE  FillInv'
    <2>1. CASE fill.pc = "idle"
      BY <1>8, <2>1 DEF FillInv, Sends, Created
    <2>2. CASE fill.pc # "idle"
      <3>1. ~CommitLive
        BY <1>8, <2>2, RestTypes DEF CommitLive, Fails
      <3>. QED BY <1>3, <1>8, <2>2, <3>1 DEF Sends, Created
    <2>. QED BY <2>1, <2>2
  <1>9. CASE \E p \in Page : OpenCanvas(p) \/ Work(p) \/ SaveCanvas(p)
    BY <1>8, <1>9, TabMoves, TabAcks
  <1>10. CASE UNCHANGED vars
    BY <1>8, <1>10 DEF vars, StatusKept
  <1>. QED BY <1>7, <1>9, <1>10 DEF Next

LEMMA LacksAt ==
    /\ \A P, x : x \in Lacks(P) <=> x \in RowIds \X Field /\ Behind(P, x[1], x[2])
    /\ \A P, x : (x \in Lacks(P))' <=> (x \in RowIds' \X Field /\ Behind(P, x[1], x[2])')
  BY DEF Lacks

\* What is not ahead of the entries stays so.
EarlyStays == \A P \in Payload : Early(P) => Early(P)'

LEMMA EarlyKept ==
    ASSUME TypeOK, TypeOK', EntriesKept, NEW P \in Payload, Early(P)
    PROVE  Early(P)'
  <1>. SUFFICES ASSUME NEW f \in Field
                PROVE  /\ P.value[f] <= writes'
                       /\ (fill'.pc \in Sends /\ f \in DOMAIN fill'.values /\ version'[f] < fill'.values[f]) =>
                              P.value[f] < fill'.values[f]
    BY DEF Early, Sends
  <1>1. /\ P.value[f] \in Nat /\ writes \in Nat /\ version[f] \in Nat
    BY Numbers
  <1>2. /\ writes' \in Nat /\ version'[f] \in Nat
    BY DEF TypeOK
  <1>3. fill'.values \in Values
    BY DEF TypeOK, Fills
  <1>4. \A g \in DOMAIN fill'.values : fill'.values[g] \in Nat
    BY <1>3 DEF Values
  <1>5. writes <= writes' /\ version[f] <= version'[f] /\ P.value[f] <= writes
    BY DEF EntriesKept, Early
  <1>6. ASSUME fill'.pc \in Sends, f \in DOMAIN fill'.values, version'[f] < fill'.values[f]
        PROVE  P.value[f] < fill'.values[f]
    <2>1. CASE fill.pc \in Sends /\ fill'.values = fill.values
      BY <1>1, <1>2, <1>4, <1>5, <1>6, <2>1 DEF Early
    <2>2. CASE \A g \in DOMAIN fill'.values : writes < fill'.values[g]
      BY <1>1, <1>2, <1>4, <1>5, <1>6, <2>2
    <2>. QED BY <1>6, <2>1, <2>2 DEF EntriesKept
  <1>. QED BY <1>1, <1>2, <1>5, <1>6

\* All payloads that a state has.
LEMMA Payloads ==
    ASSUME TypeOK
    PROVE  /\ stored.payload \in Payload /\ live \in Payload
           /\ \A p \in Page :
                  /\ page[p].view \in Payload /\ page[p].read \in Payload
                  /\ open[p].item.payload \in Payload /\ open[p].merged \in Payload
                  /\ save[p].payload \in Payload
  BY DEF TypeOK, Item, Pages, Opens, Saves

LEMMA EarlyBlank == TypeOK => Blank \in Payload /\ Early(Blank)
  <1>. SUFFICES ASSUME TypeOK PROVE Early(Blank)
    BY RestTypes
  <1>. SUFFICES ASSUME NEW f \in Field
                PROVE  /\ Blank.value[f] <= writes
                       /\ (f \in DOMAIN fill.values /\ version[f] < fill.values[f]) =>
                              Blank.value[f] < fill.values[f]
    BY DEF Early
  <1>1. Blank.value[f] = 0
    BY DEF Blank
  <1>2. writes \in Nat /\ version[f] \in Nat
    BY Numbers
  <1>3. f \in DOMAIN fill.values => fill.values[f] \in Nat
    BY Numbers
  <1>. QED BY <1>1, <1>2, <1>3

LEMMA EarlyApplied ==
    ASSUME TypeOK, EntriesInv, FillInv, NEW P \in Payload, Early(P), NEW ids \in SUBSET RowIds
    PROVE  Early(Applied(P, ids))
  <1>. SUFFICES ASSUME NEW f \in Field
                PROVE  /\ Applied(P, ids).value[f] <= writes
                       /\ (fill.pc \in Sends /\ f \in DOMAIN fill.values /\ version[f] < fill.values[f]) =>
                              Applied(P, ids).value[f] < fill.values[f]
    BY DEF Early
  <1>1. CASE Applied(P, ids).value[f] = P.value[f]
    BY <1>1 DEF Early
  <1>2. ASSUME NEW k \in ids, f \in DOMAIN rows[k].values, Applied(P, ids).value[f] = rows[k].values[f]
        PROVE  /\ Applied(P, ids).value[f] <= writes
               /\ (fill.pc \in Sends /\ f \in DOMAIN fill.values /\ version[f] < fill.values[f]) =>
                      Applied(P, ids).value[f] < fill.values[f]
    BY <1>2 DEF EntriesInv, FillInv
  <1>. QED BY <1>1, <1>2, AppliedField

LEMMA Successor == \A n \in Nat : n + 1 <= n + 1 /\ \A m \in Nat : m <= n => m <= n + 1
  OBVIOUS

LEMMA EarlyEdit ==
    ASSUME TypeInv, TypeOK', EntriesInv, FillInv, NEW f \in Field,
           UNCHANGED fill, writes' = writes + 1, version' = [version EXCEPT ![f] = writes + 1],
           NEW values \in Values, DOMAIN values = {f}, values[f] = writes + 1,
           NEW P \in Payload, Early(P), NEW Q, Q = Changed(P, TRUE, values)
    PROVE  Early(Q)'
  <1>1. \A g \in Field : Q.value[g] = IF g \in DOMAIN values THEN values[g] ELSE P.value[g]
    BY ChangedType, Zenon DEF TypeInv
  <1>2. writes \in Nat /\ \A g \in Field : version[g] \in Nat /\ P.value[g] \in Nat /\ P.value[g] <= writes
    BY Numbers DEF TypeInv, Early
  <1>3. fill.pc \in Sends => \A g \in DOMAIN fill.values : fill.values[g] \in Nat /\ fill.values[g] <= writes
    BY Numbers DEF FillInv, TypeInv, Sends
  <1>4. \A g \in Field : version'[g] = IF g = f THEN writes + 1 ELSE version[g]
    BY DEF TypeInv, TypeOK
  <1>5. ASSUME NEW g \in Field PROVE Q.value[g] <= writes'
    <2>1. writes + 1 <= writes + 1 /\ \A n \in Nat : n <= writes => n <= writes + 1
      BY <1>2, Successor, Zenon
    <2>2. Q.value[g] = writes + 1 \/ Q.value[g] = P.value[g]
      BY <1>1
    <2>. QED BY <1>2, <2>1, <2>2, Zenon
  <1>6. ASSUME NEW g \in Field, fill'.pc \in Sends, g \in DOMAIN fill'.values, version'[g] < fill'.values[g]
        PROVE  Q.value[g] < fill'.values[g]
    <2>1. g # f
      BY <1>2, <1>3, <1>4, <1>6
    <2>. QED BY <1>1, <1>4, <1>6, <2>1 DEF Early
  <1>. QED BY <1>5, <1>6 DEF Early, Sends

-----------------------------------------------------------------------------
(* What the steps of a tab do, in terms of the fields of its records.           *)

Fixed == UNCHANGED <<canvasVars, rows, missed>>
SamePages(p) == \A q \in Page \ {p} : page'[q] = page[q]
SameOpens(p) == \A q \in Page \ {p} : open'[q] = open[q]
SameSaves(p) == \A q \in Page \ {p} : save'[q] = save[q]

LEMMA RequestsDoes ==
    ASSUME TypeInv, NEW p \in Page, Requests(p)
    PROVE  /\ SameOpens(p)
           /\ open'[p].pc = "list" /\ open'[p].applied = {} /\ open'[p].item = stored /\ open'[p].merged = Blank
  <1>1. PICK o \in Opens : /\ open' = [open EXCEPT ![p] = o]
                           /\ o.pc = "list" /\ o.applied = {} /\ o.item = stored /\ o.merged = Blank
    BY RequestsType
  <1>. QED BY <1>1 DEF SameOpens, TypeInv, TypeOK

LEMMA GivesDoes ==
    ASSUME TypeInv, NEW p \in Page, Gives(p)
    PROVE  /\ SameOpens(p)
           /\ open'[p].pc = "answer" /\ open'[p].applied = {}
           /\ open'[p].item = open[p].item /\ open'[p].merged = open[p].merged
  BY DEF Gives, SameOpens, TypeInv, TypeOK, Opens

LEMMA StartOpenDoes ==
    ASSUME TypeInv, NEW p \in Page, StartOpen(p)
    PROVE  /\ Fixed /\ UNCHANGED <<page, save>> /\ SameOpens(p) /\ page[p].at = "closed"
           /\ open'[p].pc = "list" /\ open'[p].applied = {} /\ open'[p].item = stored /\ open'[p].merged = Blank
  BY RequestsDoes DEF StartOpen, Fixed, counters

LEMMA ReloadDoes ==
    ASSUME TypeInv, NEW p \in Page, Reload(p)
    PROVE  /\ Fixed /\ SamePages(p) /\ SameOpens(p) /\ SameSaves(p)
           /\ open'[p].pc = "list" /\ open'[p].applied = {} /\ open'[p].item = stored /\ open'[p].merged = Blank
           /\ save'[p] = NoSave
           /\ page'[p].at = "closed" /\ page'[p].expected = None /\ page'[p].acks = page[p].acks
           /\ page'[p].view = Blank /\ page'[p].read = Blank
  BY RequestsDoes DEF Reload, Fixed, counters, SamePages, SameSaves, Closed, TypeInv, TypeOK

LEMMA ListPendingDoes ==
    ASSUME TypeInv, NEW p \in Page, ListPending(p)
    PROVE  /\ Fixed /\ UNCHANGED <<page, save>> /\ SameOpens(p)
           /\ open[p].pc = "list" /\ open'[p].pc \in {"merge", "supersede", "answer"}
           /\ open'[p].item = open[p].item
           /\ open'[p].applied = IF open[p].item.payload.slot THEN Pending ELSE {}
           /\ open'[p].merged = Applied(open[p].item.payload, open'[p].applied)
           /\ open'[p].pc = "merge" <=> open'[p].applied # {}
  <1>. DEFINE due == IF open[p].item.payload.slot THEN Pending ELSE {}
              rest == Pending \ due
              m == Applied(open[p].item.payload, due)
              pc == CASE due # {} -> "merge" [] due = {} /\ Pending # {} -> "supersede" [] OTHER -> "answer"
  <1>1. open' = [open EXCEPT ![p] = [@ EXCEPT !.applied = due, !.skipped = rest, !.merged = m, !.pc = pc]]
    BY DEF ListPending
  <1>2. pc \in {"merge", "supersede", "answer"} /\ (pc = "merge" <=> due # {})
    OBVIOUS
  <1>3. Fixed /\ UNCHANGED <<page, save>> /\ open[p].pc = "list"
    BY DEF ListPending, Fixed, counters
  <1>4. open \in [Page -> Opens]
    BY DEF TypeInv, TypeOK
  <1>. HIDE DEF due, rest, m, pc
  <1>5. /\ SameOpens(p) /\ open'[p].item = open[p].item /\ open'[p].applied = due /\ open'[p].merged = m
        /\ open'[p].pc = pc
    BY <1>1, <1>4 DEF SameOpens, Opens
  <1>6. m = Applied(open[p].item.payload, due)
    BY DEF m
  <1>. QED BY <1>2, <1>3, <1>5, <1>6 DEF due

\* The saved canvas becomes the payload P.
Stores(P) == stored'.payload = P /\ stored'.version = stored.version + 1

LEMMA MergeDoes ==
    ASSUME TypeInv, NEW p \in Page, MergePending(p) \/ MergeUnheard(p)
    PROVE  /\ UNCHANGED <<live, dirty, version, rows, page, save>> /\ SameOpens(p)
           /\ Misses(MergedOver(p)) /\ open[p].pc = "merge"
           /\ open'[p].item = open[p].item /\ open'[p].merged = open[p].merged
           /\ open'[p].pc \in {"mark", "answer"}
           /\ open'[p].pc = "answer" => open'[p].applied = {}
           /\ open'[p].pc = "mark" => open'[p].applied = open[p].applied /\ stored' # stored
           /\ \/ UNCHANGED stored
              \/ stored.version = open[p].item.version /\ Stores(open[p].merged)
  <1>1. ASSUME stored' = [payload |-> open[p].merged, version |-> stored.version + 1] PROVE Stores(open[p].merged)
    BY <1>1 DEF Stores
  <1>2. ASSUME open' = [open EXCEPT ![p].pc = "mark"]
        PROVE  /\ SameOpens(p) /\ open'[p].pc = "mark" /\ open'[p].applied = open[p].applied
               /\ open'[p].item = open[p].item /\ open'[p].merged = open[p].merged
    BY <1>2 DEF SameOpens, TypeInv, TypeOK, Opens
  <1>3. Stores(open[p].merged) => stored' # stored
    BY Numbers DEF Stores, TypeInv
  <1>4. CASE MergeUnheard(p)
    BY <1>1, <1>4, GivesDoes DEF MergeUnheard
  <1>5. CASE MergePending(p) /\ stored.version = open[p].item.version
    BY <1>1, <1>2, <1>3, <1>5 DEF MergePending
  <1>6. CASE MergePending(p) /\ stored.version # open[p].item.version
    BY <1>6, GivesDoes DEF MergePending
  <1>. QED BY <1>4, <1>5, <1>6

LEMMA MarkMergedDoes ==
    ASSUME TypeInv, NEW p \in Page, NEW ids \in SUBSET open[p].applied, MarkMerged(p, ids)
    PROVE  /\ UNCHANGED <<canvasVars, page, save, missed>> /\ SameOpens(p)
           /\ open[p].pc = "mark" /\ open'[p].pc = "answer"
           /\ rows' = Marked(ids, "Merged")
           /\ open'[p].item.payload = open[p].merged /\ open'[p].item.version = open[p].item.version + 1
           /\ open'[p].merged = open[p].merged /\ open'[p].applied = open[p].applied
  BY DEF MarkMerged, SameOpens, TypeInv, TypeOK, Opens, Item

LEMMA MarkSupersededDoes ==
    ASSUME TypeInv, NEW p \in Page, MarkSuperseded(p)
    PROVE  /\ UNCHANGED <<canvasVars, page, save, missed>> /\ SameOpens(p)
           /\ open[p].pc = "supersede" /\ open'[p].pc = "answer"
           /\ rows' = Marked(open[p].skipped, "Superseded")
           /\ open'[p].item = open[p].item
           /\ open'[p].merged = open[p].merged /\ open'[p].applied = open[p].applied
  BY DEF MarkSuperseded, SameOpens, TypeInv, TypeOK, Opens, counters

LEMMA OpenFailsDoes ==
    ASSUME TypeInv, NEW p \in Page, NEW acted \in BOOLEAN, OpenFails(p, acted)
    PROVE  /\ UNCHANGED <<canvasVars, page, save, missed>> /\ SameOpens(p)
           /\ open[p].pc \in {"list", "merge", "mark", "supersede"}
           /\ rows' = rows \/ (open[p].pc = "mark" /\ rows' = Marked(open[p].applied, "Merged"))
           /\ open'[p].pc = "answer" /\ open'[p].applied = {}
           /\ open'[p].item = open[p].item /\ open'[p].merged = open[p].merged
  BY GivesDoes DEF OpenFails

LEMMA AnswerOpenDoes ==
    ASSUME TypeInv, NEW p \in Page, AnswerOpen(p)
    PROVE  /\ UNCHANGED <<canvasVars, rows, save>> /\ SamePages(p) /\ SameOpens(p) /\ Misses({})
           /\ open[p].pc = "answer" /\ open'[p] = NoOpen
           /\ page'[p].at = "loaded" /\ page'[p].expected = open[p].item.version
           /\ page'[p].acks = page[p].acks /\ page'[p].read = page[p].read
           /\ \/ dirty /\ open[p].applied = {} /\ page'[p].view = live
              \/ ~(dirty /\ open[p].applied = {}) /\ page'[p].view = open[p].item.payload
  BY DEF AnswerOpen, SamePages, SameOpens, TypeInv, TypeOK, Pages

LEMMA StartSubscribeDoes ==
    ASSUME TypeInv, NEW p \in Page, StartSubscribe(p)
    PROVE  /\ Fixed /\ UNCHANGED <<open, save>> /\ SamePages(p)
           /\ page[p].at = "loaded" /\ page'[p].at = "joining"
           /\ page'[p].read = stored.payload /\ page'[p].view = page[p].view
           /\ page'[p].expected = page[p].expected /\ page'[p].acks = page[p].acks
  BY DEF StartSubscribe, Fixed, SamePages, TypeInv, TypeOK, Pages, counters

LEMMA SubscribeDoes ==
    ASSUME TypeInv, NEW p \in Page, Subscribe(p)
    PROVE  /\ UNCHANGED <<stored, dirty, version, rows, open, save>> /\ SamePages(p)
           /\ live' = IF dirty THEN live ELSE page[p].read
           /\ page[p].at = "joining" /\ page'[p].at = "connected"
           /\ page'[p].read = Blank /\ page'[p].view = live'
           /\ page'[p].expected = page[p].expected /\ page'[p].acks = page[p].acks
           /\ Misses(Lacks(live') \ Lacks(live))
  <1>. DEFINE L == live'
  <1>1. page' = [page EXCEPT ![p] = [@ EXCEPT !.at = "connected", !.view = L, !.read = Blank]]
    BY DEF Subscribe
  <1>2. /\ UNCHANGED <<stored, dirty, version, rows, open, save>> /\ page[p].at = "joining"
        /\ live' = IF dirty THEN live ELSE page[p].read
        /\ Misses(Lacks(live') \ Lacks(live))
    BY DEF Subscribe
  <1>3. page \in [Page -> Pages] /\ L = live'
    BY DEF TypeInv, TypeOK
  <1>. HIDE DEF L
  <1>4. /\ SamePages(p) /\ page'[p].at = "connected" /\ page'[p].read = Blank /\ page'[p].view = L
        /\ page'[p].expected = page[p].expected /\ page'[p].acks = page[p].acks
    BY <1>1, <1>3 DEF SamePages, Pages
  <1>. QED BY <1>2, <1>3, <1>4

LEMMA DisconnectDoes ==
    ASSUME TypeInv, NEW p \in Page, Disconnect(p)
    PROVE  /\ Fixed /\ UNCHANGED <<open, save>> /\ SamePages(p)
           /\ page[p].at = "connected" /\ page'[p].at = "loaded"
           /\ page'[p].read = page[p].read /\ page'[p].view = page[p].view
           /\ page'[p].expected = page[p].expected /\ page'[p].acks = page[p].acks
  BY DEF Disconnect, Fixed, SamePages, TypeInv, TypeOK, Pages, counters

LEMMA CloseDoes ==
    ASSUME TypeInv, NEW p \in Page, Close(p)
    PROVE  /\ Fixed /\ UNCHANGED open /\ SamePages(p) /\ SameSaves(p)
           /\ page[p].at \in {"loaded", "connected"} /\ page'[p] = Closed
           /\ \/ save'[p] = NoSave
              \/ /\ save'[p].here = FALSE /\ save'[p].pc = save[p].pc /\ save[p].pc # "conflict"
                 /\ save'[p].payload = save[p].payload /\ save'[p].expected = save[p].expected
                 /\ save'[p].acks = save[p].acks /\ save'[p].pending = save[p].pending
                 /\ save'[p].done = save[p].done /\ save'[p].version = save[p].version
  BY DEF Close, Fixed, SamePages, SameSaves, TypeInv, TypeOK, Pages, Saves, counters

LEMMA EditsDoes ==
    ASSUME TypeInv, NEW p \in Page, NEW slot \in BOOLEAN, NEW values \in Values, Edits(p, slot, values)
    PROVE  /\ UNCHANGED <<stored, rows, open, save, missed>> /\ dirty' = TRUE
           /\ live' = Changed(live, slot, values)
           /\ \A q \in Page :
                 /\ page[q].at # "connected" => page'[q] = page[q]
                 /\ page'[q].at = page[q].at /\ page'[q].expected = page[q].expected
                 /\ page'[q].acks = page[q].acks /\ page'[q].read = page[q].read
                 /\ page[q].at = "connected" => page'[q].view = Changed(page[q].view, slot, values)
  <1>1. /\ UNCHANGED <<stored, rows, open, save, missed>> /\ dirty' = TRUE
        /\ live' = Changed(live, slot, values)
    BY DEF Edits
  <1>2. ASSUME NEW q \in Page
        PROVE    /\ page[q].at # "connected" => page'[q] = page[q]
                 /\ page'[q].at = page[q].at /\ page'[q].expected = page[q].expected
                 /\ page'[q].acks = page[q].acks /\ page'[q].read = page[q].read
                 /\ page[q].at = "connected" => page'[q].view = Changed(page[q].view, slot, values)
    <2>. DEFINE view == Changed(page[q].view, slot, values)
    <2>1. page'[q] = IF page[q].at = "connected" THEN [page[q] EXCEPT !.view = view] ELSE page[q]
      BY DEF Edits
    <2>2. page[q] \in Pages /\ view = Changed(page[q].view, slot, values)
      BY DEF TypeInv, TypeOK
    <2>. HIDE DEF view
    <2>3. page[q].at = "connected" => page'[q].view = view
      BY <2>1, <2>2 DEF Pages
    <2>. QED BY <2>1, <2>2, <2>3 DEF Pages
  <1>. QED BY <1>1, <1>2

LEMMA CommitDoes ==
    ASSUME TypeInv, FillInv, CommitLive, LeasesHold
    PROVE  /\ UNCHANGED <<stored, rows, open, save, missed>> /\ dirty' = TRUE
           /\ live'.value = Write(live.value, fill.values)
           /\ \A q \in Page :
                 /\ page[q].at # "connected" => page'[q] = page[q]
                 /\ page'[q].at = page[q].at /\ page'[q].expected = page[q].expected
                 /\ page'[q].read = page[q].read
                 /\ page'[q].acks \subseteq page[q].acks \cup {fill.row}
                 /\ page[q].at = "connected" => page'[q].view.value = Write(page[q].view.value, fill.values)
  <1>1. UNCHANGED <<stored, rows, open, save, missed>> /\ dirty' = TRUE
    BY CommitMoves
  <1>2. live'.value = Write(live.value, fill.values)
    <2>. DEFINE v == Write(live.value, fill.values)
    <2>1. live' = [live EXCEPT !.value = v] /\ live \in Payload
      BY DEF CommitLive, TypeInv, TypeOK
    <2>. HIDE DEF v
    <2>2. live'.value = v
      BY <2>1 DEF Payload
    <2>. QED BY <2>2 DEF v
  <1>3. ASSUME NEW q \in Page
        PROVE    /\ page[q].at # "connected" => page'[q] = page[q]
                 /\ page'[q].at = page[q].at /\ page'[q].expected = page[q].expected
                 /\ page'[q].read = page[q].read
                 /\ page'[q].acks \subseteq page[q].acks \cup {fill.row}
                 /\ page[q].at = "connected" => page'[q].view.value = Write(page[q].view.value, fill.values)
    <2>. DEFINE v == Write(page[q].view.value, fill.values)
                acks == page[q].acks \cup {fill.row}
                view == [page[q].view EXCEPT !.value = v]
    <2>1. page[q] \in Pages /\ v = Write(page[q].view.value, fill.values)
      BY DEF TypeInv, TypeOK
    <2>2. CASE page[q].at # "connected"
      BY <2>2 DEF CommitLive
    <2>3. CASE page[q].at = "connected"
      <3>1. page'[q] = [page[q] EXCEPT !.view = view, !.acks = acks]
        BY <2>3 DEF CommitLive
      <3>2. view.value = v
        BY <2>1 DEF Pages, Payload
      <3>. HIDE DEF v, acks, view
      <3>3. /\ page'[q].at = page[q].at /\ page'[q].expected = page[q].expected
            /\ page'[q].read = page[q].read /\ page'[q].acks = acks /\ page'[q].view = view
        BY <2>1, <3>1 DEF Pages
      <3>. QED BY <2>1, <2>3, <3>2, <3>3 DEF acks
    <2>. QED BY <2>2, <2>3
  <1>. QED BY <1>1, <1>2, <1>3

LEMMA StartSaveDoes ==
    ASSUME TypeInv, NEW p \in Page, StartSave(p)
    PROVE  /\ Fixed /\ UNCHANGED <<page, open>> /\ SameSaves(p)
           /\ page[p].at # "closed" /\ save[p].pc = "idle" /\ save'[p].pc \in {"store", "pending"}
           /\ save'[p].payload = page[p].view /\ save'[p].expected = page[p].expected
           /\ save'[p].acks = page[p].acks /\ save'[p].pending = {} /\ save'[p].version = 1
  BY DEF StartSave, Fixed, SameSaves, TypeInv, TypeOK, NoSave, counters

LEMMA ReadPendingDoes ==
    ASSUME TypeInv, NEW p \in Page, ReadPending(p) \/ PendingUnread(p)
    PROVE  /\ Fixed /\ UNCHANGED <<page, open>> /\ SameSaves(p)
           /\ save[p].pc = "pending" /\ save'[p].pc = "store"
           /\ save'[p].pending = save[p].pending \/ save'[p].pending = Pending \cap save[p].acks
           /\ save'[p].payload = save[p].payload /\ save'[p].expected = save[p].expected
           /\ save'[p].acks = save[p].acks /\ save'[p].version = save[p].version
           /\ save'[p].here = save[p].here
  BY DEF ReadPending, PendingUnread, Fixed, SameSaves, TypeInv, TypeOK, Saves, counters

\* What a save stores, it stores with no version named or with the one it was told.
LEMMA StoreSaveDoes ==
    ASSUME TypeInv, NEW p \in Page, StoreSave(p)
    PROVE  /\ UNCHANGED <<live, dirty, version, rows, page, open>> /\ SameSaves(p)
           /\ Stores(save[p].payload) /\ save[p].expected \in {None, stored.version} /\ Misses(SavedOver(p))
           /\ save[p].pc = "store" /\ save'[p].pc \in {"mark", "broadcast"}
           /\ save'[p].payload = save[p].payload /\ save'[p].expected = save[p].expected
           /\ save'[p].acks = save[p].acks /\ save'[p].pending = save[p].pending
           /\ save'[p].version = stored'.version /\ save'[p].here = save[p].here
  <1>1. /\ UNCHANGED <<live, dirty, version, rows, page, open>> /\ Misses(SavedOver(p))
        /\ save[p].expected \in {None, stored.version} /\ save[p].pc = "store"
    BY DEF StoreSave, Puts, IsCurrent
  <1>2. Stores(save[p].payload)
    BY DEF StoreSave, Puts, Stores
  <1>3. /\ SameSaves(p) /\ save'[p].pc \in {"mark", "broadcast"}
        /\ save'[p].payload = save[p].payload /\ save'[p].expected = save[p].expected
        /\ save'[p].acks = save[p].acks /\ save'[p].pending = save[p].pending
        /\ save'[p].version = stored.version + 1 /\ save'[p].here = save[p].here
    BY DEF StoreSave, SameSaves, TypeInv, TypeOK, Saves
  <1>. QED BY <1>1, <1>2, <1>3 DEF Stores

LEMMA SaveFailsDoes ==
    ASSUME TypeInv, NEW p \in Page, NEW acted \in BOOLEAN, SaveFails(p, acted)
    PROVE  /\ UNCHANGED <<live, dirty, version, rows, page, open>> /\ SameSaves(p)
           /\ save[p].pc = "store" /\ save'[p] = NoSave
           /\ \/ UNCHANGED stored /\ Misses({})
              \/ /\ Stores(save[p].payload) /\ save[p].expected \in {None, stored.version}
                 /\ Misses(SavedOver(p))
  <1>1. /\ UNCHANGED <<live, dirty, version, rows, page, open>> /\ SameSaves(p)
        /\ save[p].pc = "store" /\ save'[p] = NoSave
    BY DEF SaveFails, SameSaves, TypeInv, TypeOK
  <1>2. CASE acted
    BY <1>1, <1>2 DEF SaveFails, Puts, IsCurrent, Stores
  <1>3. CASE ~acted
    BY <1>1, <1>3 DEF SaveFails
  <1>. QED BY <1>2, <1>3

LEMMA RefuseSaveDoes ==
    ASSUME TypeInv, NEW p \in Page, RefuseSave(p)
    PROVE  /\ Fixed /\ UNCHANGED <<page, open>> /\ SameSaves(p) /\ save[p].pc = "store"
           /\ \/ save'[p] = NoSave
              \/ /\ save'[p].pc = "conflict" /\ save[p].here /\ save'[p].here
                 /\ save'[p].payload = save[p].payload /\ save'[p].expected = save[p].expected
                 /\ save'[p].acks = save[p].acks /\ save'[p].version = save[p].version
  BY DEF RefuseSave, Fixed, SameSaves, TypeInv, TypeOK, Saves, counters

LEMMA SaveAnywayDoes ==
    ASSUME TypeInv, NEW p \in Page, SaveAnyway(p)
    PROVE  /\ Fixed /\ UNCHANGED <<page, open>> /\ SameSaves(p) /\ save[p].pc = "conflict"
           /\ save'[p].pc \in {"store", "pending"} /\ save'[p].pending = {}
           /\ save'[p].payload = save[p].payload /\ save'[p].expected = None
           /\ save'[p].acks = save[p].acks /\ save'[p].version = save[p].version
           /\ save'[p].here = save[p].here
  BY DEF SaveAnyway, Fixed, SameSaves, TypeInv, TypeOK, Saves, counters

LEMMA CancelSaveDoes ==
    ASSUME TypeInv, NEW p \in Page, CancelSave(p)
    PROVE  Fixed /\ UNCHANGED <<page, open>> /\ SameSaves(p) /\ save'[p] = NoSave
  BY DEF CancelSave, Fixed, SameSaves, TypeInv, TypeOK, counters

LEMMA MarkSavedDoes ==
    ASSUME TypeInv, NEW p \in Page, NEW ids \in SUBSET save[p].pending, MarkSaved(p, ids)
    PROVE  /\ UNCHANGED <<canvasVars, page, open, missed>> /\ SameSaves(p)
           /\ rows' = Marked(ids, "Merged")
           /\ save[p].pc = "mark" /\ save'[p].pc = "broadcast"
           /\ save'[p].payload = save[p].payload /\ save'[p].expected = save[p].expected
           /\ save'[p].acks = save[p].acks /\ save'[p].pending = save[p].pending
           /\ save'[p].version = save[p].version /\ save'[p].here = save[p].here
  <1>. DEFINE done == IF ids = save[p].pending /\ \A i \in ids : Exists(i) THEN ids ELSE {}
  <1>1. save' = [save EXCEPT ![p].pc = "broadcast", ![p].done = done]
    BY DEF MarkSaved
  <1>2. UNCHANGED <<canvasVars, page, open, missed>> /\ rows' = Marked(ids, "Merged") /\ save[p].pc = "mark"
    BY DEF MarkSaved
  <1>. HIDE DEF done
  <1>. QED BY <1>1, <1>2 DEF SameSaves, TypeInv, TypeOK, Saves

LEMMA BroadcastDoes ==
    ASSUME TypeInv, NEW p \in Page, BroadcastCanvasSaved(p)
    PROVE  /\ UNCHANGED <<stored, version, rows, open>> /\ SameSaves(p)
           /\ live' = save[p].payload /\ dirty' = FALSE /\ Misses(Lacks(live') \ Lacks(live))
           /\ save[p].pc = "broadcast" /\ save'[p] = NoSave
           /\ \A q \in Page :
                 /\ page'[q].at = page[q].at /\ page'[q].view = page[q].view /\ page'[q].read = page[q].read
                 /\ page'[q].acks \subseteq page[q].acks
                 /\ \/ page'[q].expected = page[q].expected
                    \/ /\ page'[q].expected = save[p].version
                       /\ page[q].at = "connected" \/ (q = p /\ save[p].here)
  <1>1. /\ UNCHANGED <<stored, version, rows, open>> /\ SameSaves(p)
        /\ live' = save[p].payload /\ dirty' = FALSE /\ Misses(Lacks(live') \ Lacks(live))
        /\ save[p].pc = "broadcast" /\ save'[p] = NoSave
    BY DEF BroadcastCanvasSaved, SameSaves, TypeInv, TypeOK
  <1>2. ASSUME NEW q \in Page
        PROVE    /\ page'[q].at = page[q].at /\ page'[q].view = page[q].view /\ page'[q].read = page[q].read
                 /\ page'[q].acks \subseteq page[q].acks
                 /\ \/ page'[q].expected = page[q].expected
                    \/ /\ page'[q].expected = save[p].version
                       /\ page[q].at = "connected" \/ (q = p /\ save[p].here)
    <2>. DEFINE told == page[q].at = "connected" \/ (q = p /\ save[p].here)
                expected == IF told THEN save[p].version ELSE page[q].expected
                acks == IF q = p /\ save[p].here THEN page[q].acks \ save[p].done ELSE page[q].acks
    <2>1. page'[q] = [page[q] EXCEPT !.expected = expected, !.acks = acks]
      BY DEF BroadcastCanvasSaved
    <2>2. acks \subseteq page[q].acks /\ page[q] \in Pages
      BY DEF TypeInv, TypeOK
    <2>3. expected = page[q].expected \/ (expected = save[p].version /\ told)
      OBVIOUS
    <2>. HIDE DEF expected, acks
    <2>4. /\ page'[q].at = page[q].at /\ page'[q].view = page[q].view /\ page'[q].read = page[q].read
          /\ page'[q].expected = expected /\ page'[q].acks = acks
      BY <2>1, <2>2 DEF Pages
    <2>. QED BY <2>2, <2>3, <2>4
  <1>. QED BY <1>1, <1>2

-----------------------------------------------------------------------------
(* No payload runs ahead of the entries: a step copies one, or writes it with   *)
(* the entries that it makes.                                                   *)

LEMMA EarlyInit == Init => EarlyInv
  <1>. SUFFICES ASSUME Init PROVE EarlyInv
    OBVIOUS
  <1>1. Early(Blank)
    BY EarlyBlank, InitType DEF TypeInv
  <1>2. stored.payload = Blank /\ live = Blank
    BY DEF Init, Saved
  <1>3. \A p \in Page : /\ page[p].view = Blank /\ page[p].read = Blank /\ save[p].payload = Blank
                        /\ open[p].item.payload = Blank /\ open[p].merged = Blank
    BY DEF Init, Closed, NoSave, NoOpen, Saved
  <1>. QED BY <1>1, <1>2, <1>3 DEF EarlyInv

\* The payloads of a tab and of its requests.
Has(p, P) ==
    P \in {page[p].view, page[p].read, open[p].item.payload, open[p].merged, save[p].payload}
EarlyTab(p) == \A P : Has(p, P) => Early(P)

LEMMA EarlyParts ==
    /\ EarlyInv <=> Early(stored.payload) /\ Early(live) /\ \A p \in Page : EarlyTab(p)
    /\ EarlyInv' <=> Early(stored.payload)' /\ Early(live)' /\ \A p \in Page : EarlyTab(p)'
  BY DEF EarlyInv, EarlyTab, Has

\* A step that copies payloads.
LEMMA EarlyCopies ==
    ASSUME TypeOK, TypeOK', EarlyInv, EarlyStays,
           NEW p \in Page, SamePages(p) \/ UNCHANGED page, SameOpens(p) \/ UNCHANGED open, SameSaves(p) \/ UNCHANGED save,
           NEW Ps, \A P \in Ps : P \in Payload /\ (Has(p, P) \/ P = stored.payload \/ P = live \/ P = Blank \/ Early(P)),
           stored'.payload \in Ps \cup {stored.payload}, live' \in Ps \cup {live},
           \A P : Has(p, P)' => P \in Ps
    PROVE  EarlyInv'
  <1>1. \A P \in Payload : Early(P) => Early(P)'
    BY DEF EarlyStays
  <1>2. Early(stored.payload) /\ Early(live) /\ Early(Blank) /\ \A q \in Page : EarlyTab(q)
    BY EarlyParts, EarlyBlank
  <1>3. stored.payload \in Payload /\ live \in Payload /\ \A q \in Page : \A P : Has(q, P) => P \in Payload
    BY Payloads DEF Has
  <1>4. \A P \in Ps : Early(P)'
    BY <1>1, <1>2 DEF EarlyTab
  <1>5. Early(stored.payload)' /\ Early(live)'
    BY <1>1, <1>2, <1>3, <1>4
  <1>6. EarlyTab(p)'
    BY <1>4 DEF EarlyTab
  <1>7. ASSUME NEW q \in Page, q # p PROVE EarlyTab(q)'
    <2>1. \A P : Has(q, P)' <=> Has(q, P)
      BY <1>7 DEF Has, SamePages, SameOpens, SameSaves
    <2>. QED BY <1>1, <1>2, <1>3, <2>1 DEF EarlyTab
  <1>. QED BY <1>5, <1>6, <1>7, EarlyParts

LEMMA EarlyEdits ==
    ASSUME TypeInv, TypeOK', EarlyInv, EarlyStays, NEW p \in Page, NEW slot \in BOOLEAN, NEW values \in Values,
           Edits(p, slot, values),
           \A P \in Payload : Early(P) => \A Q : Q = Changed(P, slot, values) => Early(Q)'
    PROVE  EarlyInv'
  <1>1. /\ UNCHANGED <<stored, open, save>>
        /\ live' = Changed(live, slot, values)
        /\ \A q \in Page :
              /\ page[q].at # "connected" => page'[q] = page[q]
              /\ page'[q].read = page[q].read
              /\ page[q].at = "connected" => page'[q].view = Changed(page[q].view, slot, values)
    <2>1. UNCHANGED <<stored, rows, open, save, missed>> /\ live' = Changed(live, slot, values)
      BY EditsDoes
    <2>2. ASSUME NEW q \in Page
          PROVE  /\ page[q].at # "connected" => page'[q] = page[q]
                 /\ page'[q].read = page[q].read
                 /\ page[q].at = "connected" => page'[q].view = Changed(page[q].view, slot, values)
      BY EditsDoes
    <2>. QED BY <2>1, <2>2
  <1>2. Early(stored.payload) /\ Early(live) /\ \A q \in Page : EarlyTab(q)
    BY EarlyParts
  <1>3. stored.payload \in Payload /\ live \in Payload /\ \A q \in Page : \A P : Has(q, P) => P \in Payload
    BY Payloads DEF Has, TypeInv
  <1>4. \A P \in Payload : Early(P) => Early(P)'
    BY DEF EarlyStays
  <1>5. Early(stored.payload)' /\ Early(live)'
    BY <1>1, <1>2, <1>3, <1>4
  <1>6. ASSUME NEW q \in Page PROVE EarlyTab(q)'
    <2>1. page[q].view \in Payload /\ Early(page[q].view)
      BY <1>2, <1>3 DEF Has, EarlyTab
    <2>2. \A P : Has(q, P)' => Has(q, P) \/ P = Changed(page[q].view, slot, values)
      BY <1>1 DEF Has
    <2>. QED BY <1>2, <1>3, <1>4, <2>1, <2>2 DEF EarlyTab
  <1>. QED BY <1>5, <1>6, EarlyParts

LEMMA EarlyStep ==
    ASSUME TypeInv, EntriesInv, FillInv, EarlyInv, [Next]_vars
    PROVE  EarlyInv'
  <1>. USE DEF TypeInv
  <1>1. EarlyStays /\ TypeOK'
    BY StepKeeps, NextType, EarlyKept DEF EarlyStays
  <1>2. \A P \in Payload : Early(P) => Early(P)'
    BY <1>1 DEF EarlyStays
  <1>3. stored.payload \in Payload /\ live \in Payload /\ \A q \in Page : \A P : Has(q, P) => P \in Payload
    BY Payloads DEF Has
  <1>4. Early(stored.payload) /\ Early(live) /\ \A q \in Page : EarlyTab(q)
    BY EarlyParts
  <1>5. ASSUME UNCHANGED tabs PROVE EarlyInv'
    <2>1. \A q \in Page : \A P : Has(q, P)' <=> Has(q, P)
      BY <1>5 DEF tabs, Has
    <2>2. stored' = stored /\ live' = live
      BY <1>5 DEF tabs, canvasVars
    <2>. QED BY <1>2, <1>3, <1>4, <2>1, <2>2, EarlyParts DEF EarlyTab
  <1>6. CASE CommitLive /\ LeasesHold
    <2>1. /\ UNCHANGED <<stored, open, save, writes>> /\ fill' = NoFill /\ fill.pc = "commit"
          /\ live'.value = Write(live.value, fill.values)
          /\ \A q \in Page :
                /\ page[q].at # "connected" => page'[q] = page[q]
                /\ page'[q].read = page[q].read
                /\ page[q].at = "connected" => page'[q].view.value = Write(page[q].view.value, fill.values)
      BY <1>6, CommitDoes, CommitMoves
    <2>2. ASSUME NEW P \in Payload, Early(P), NEW Q, Q.value = Write(P.value, fill.values)
          PROVE  Early(Q)'
      <3>. SUFFICES ASSUME NEW f \in Field PROVE Q.value[f] <= writes
        BY <2>1, RestTypes DEF Early, Sends
      <3>1. fill.values \in Values /\ P.value \in [Field -> 0..MaxWrites]
        BY DEF TypeOK, Fills, Payload
      <3>2. Q.value[f] = P.value[f] \/ (Q.value[f] = fill.values[f] /\ f \in DOMAIN fill.values)
        BY <2>2, <3>1, WriteType
      <3>3. \A g \in DOMAIN fill.values : fill.values[g] <= writes
        BY <2>1 DEF FillInv
      <3>. QED BY <2>2, <3>2, <3>3 DEF Early
    <2>3. Early(stored.payload)' /\ Early(live)'
      BY <1>2, <1>3, <1>4, <2>1, <2>2
    <2>4. ASSUME NEW q \in Page PROVE EarlyTab(q)'
      <3>1. page[q].view \in Payload /\ Early(page[q].view)
        BY <1>3, <1>4 DEF Has, EarlyTab
      <3>2. \A P : Has(q, P)' => Has(q, P) \/ P.value = Write(page[q].view.value, fill.values)
        BY <2>1 DEF Has
      <3>. QED BY <1>2, <1>3, <1>4, <2>2, <3>1, <3>2 DEF EarlyTab
    <2>. QED BY <2>3, <2>4, EarlyParts
  <1>7. CASE Contribute
    <2>1. UNCHANGED tabs \/ (CommitLive /\ LeasesHold)
      <3>1. \A F, isLive : SendFill(F, isLive) => UNCHANGED tabs
        BY DEF SendFill, tabs
      <3>2. ListPrevious => UNCHANGED tabs
        BY DEF ListPrevious, tabs
      <3>3. CommitLive /\ ~LeasesHold => UNCHANGED tabs
        BY CommitMoves DEF tabs
      <3>. QED BY <1>7, <3>1, <3>2, <3>3, ContributeMoves
    <2>. QED BY <1>5, <1>6, <2>1
  <1>8. CASE UNCHANGED vars
    BY <1>5, <1>8 DEF vars, tabs
  <1>9. ASSUME NEW p \in Page, OpenCanvas(p) \/ Work(p) \/ SaveCanvas(p)
        PROVE  EarlyInv'
    <2>. DEFINE Own == {page[p].view, page[p].read, open[p].item.payload, open[p].merged, save[p].payload,
                        stored.payload, live, Blank}
    <2>1. \A P \in Own : P \in Payload /\ (Has(p, P) \/ P = stored.payload \/ P = live \/ P = Blank)
      BY <1>3, RestTypes DEF Has
    <2>2. ASSUME SamePages(p) \/ UNCHANGED page, SameOpens(p) \/ UNCHANGED open, SameSaves(p) \/ UNCHANGED save,
                 stored'.payload \in Own, live' \in Own, \A P : Has(p, P)' => P \in Own
          PROVE  EarlyInv'
      <3>. HIDE DEF Own
      <3>. QED BY <1>1, <2>1, <2>2, EarlyCopies
    <2>3. CASE StartOpen(p)
      BY <2>2, <2>3, StartOpenDoes DEF Fixed, canvasVars, Has
    <2>4. CASE Reload(p)
      BY <2>2, <2>4, ReloadDoes DEF Fixed, canvasVars, Has, NoSave
    <2>5. CASE ListPending(p)
      <3>1. /\ Fixed /\ UNCHANGED <<page, save>> /\ SameOpens(p) /\ open'[p].item = open[p].item
            /\ open'[p].applied \in SUBSET RowIds
            /\ open'[p].merged = Applied(open[p].item.payload, open'[p].applied)
        BY <2>5, ListPendingDoes DEF Pending
      <3>2. PICK ids \in SUBSET RowIds : open'[p].merged = Applied(open[p].item.payload, ids)
        BY <3>1
      <3>3. open[p].item.payload \in Payload /\ Early(open[p].item.payload)
        BY <1>3, <1>4 DEF Has, EarlyTab
      <3>. DEFINE Q == Applied(open[p].item.payload, ids)
                  Both == Own \cup {Q}
      <3>4. Q \in Payload /\ Early(Q)
        BY <3>3, AppliedField, EarlyApplied
      <3>5. open'[p].merged = Q
        BY <3>2
      <3>. HIDE DEF Q
      <3>6. \A P : Has(p, P)' => P \in Both
        BY <3>1, <3>5 DEF Has
      <3>7. stored'.payload \in Both /\ live' \in Both
        BY <3>1 DEF Fixed, canvasVars
      <3>8. \A P \in Both : P \in Payload /\ (Has(p, P) \/ P = stored.payload \/ P = live \/ P = Blank \/ Early(P))
        BY <2>1, <3>4
      <3>. HIDE DEF Both
      <3>. QED BY <1>1, <3>1, <3>6, <3>7, <3>8, EarlyCopies
    <2>6. CASE MergePending(p) \/ MergeUnheard(p)
      BY <2>2, <2>6, MergeDoes DEF Has, Stores
    <2>7. CASE \E ids \in SUBSET open[p].applied : MarkMerged(p, ids)
      BY <2>2, <2>7, MarkMergedDoes DEF Has, canvasVars
    <2>8. CASE MarkSuperseded(p)
      BY <2>2, <2>8, MarkSupersededDoes DEF Has, canvasVars
    <2>9. CASE AnswerOpen(p)
      BY <2>2, <2>9, AnswerOpenDoes DEF Has, canvasVars, NoOpen, Saved
    <2>10. CASE \E acted \in BOOLEAN : OpenFails(p, acted)
      BY <2>2, <2>10, OpenFailsDoes DEF Has, canvasVars
    <2>11. CASE StartSubscribe(p)
      BY <2>2, <2>11, StartSubscribeDoes DEF Has, Fixed, canvasVars
    <2>12. CASE Subscribe(p)
      BY <2>2, <2>12, SubscribeDoes DEF Has
    <2>13. CASE Disconnect(p)
      BY <2>2, <2>13, DisconnectDoes DEF Has, Fixed, canvasVars
    <2>14. CASE Close(p)
      <3>1. Fixed /\ UNCHANGED open /\ SamePages(p) /\ SameSaves(p) /\ page'[p] = Closed
        BY <2>14, CloseDoes
      <3>2. save'[p].payload \in {Blank, save[p].payload}
        <4>1. NoSave.payload = Blank
          BY DEF NoSave
        <4>. QED BY <2>14, <4>1, CloseDoes
      <3>3. page'[p].view = Blank /\ page'[p].read = Blank
        BY <3>1 DEF Closed
      <3>. QED BY <2>2, <3>1, <3>2, <3>3 DEF Has, Fixed, canvasVars
    <2>15. CASE Withdraw(p)
      <3>. DEFINE none == [f \in {} |-> 0]
      <3>1. none \in Values /\ DOMAIN none = {} /\ Edits(p, FALSE, none) /\ UNCHANGED <<version, writes, fill>>
        BY <2>15, NoValues DEF Withdraw, Edits
      <3>. HIDE DEF none
      <3>2. ASSUME NEW P \in Payload, Early(P), NEW Q, Q = Changed(P, FALSE, none)
            PROVE  Early(Q)'
        <4>1. \A g \in Field : Q.value[g] = P.value[g]
          BY <3>1, <3>2, ChangedType
        <4>. QED BY <3>1, <3>2, <4>1 DEF Early
      <3>. QED BY <1>1, <3>1, <3>2, EarlyEdits
    <2>16. ASSUME NEW f \in Field, EditField(p, f)
           PROVE  EarlyInv'
      <3>. DEFINE values == [g \in {f} |-> writes + 1]
      <3>1. values \in Values /\ DOMAIN values = {f} /\ values[f] = writes + 1
        BY <2>16, EditValues DEF EditField
      <3>2. /\ Edits(p, TRUE, values) /\ UNCHANGED fill /\ writes' = writes + 1
            /\ version' = [version EXCEPT ![f] = writes + 1]
        BY <2>16 DEF EditField, Edits
      <3>. HIDE DEF values
      <3>3. \A P \in Payload : Early(P) => \A Q : Q = Changed(P, TRUE, values) => Early(Q)'
        BY <1>1, <3>1, <3>2, EarlyEdit
      <3>. QED BY <1>1, <3>1, <3>2, <3>3, EarlyEdits
    <2>17. CASE StartSave(p)
      BY <2>2, <2>17, StartSaveDoes DEF Has, Fixed, canvasVars
    <2>18. CASE ReadPending(p) \/ PendingUnread(p)
      BY <2>2, <2>18, ReadPendingDoes DEF Has, Fixed, canvasVars
    <2>19. CASE StoreSave(p)
      BY <2>2, <2>19, StoreSaveDoes DEF Has, Stores
    <2>20. CASE RefuseSave(p)
      BY <2>2, <2>20, RefuseSaveDoes DEF Has, Fixed, canvasVars, NoSave
    <2>21. CASE SaveAnyway(p) \/ CancelSave(p)
      BY <2>2, <2>21, SaveAnywayDoes, CancelSaveDoes DEF Has, Fixed, canvasVars, NoSave
    <2>22. CASE \E acted \in BOOLEAN : SaveFails(p, acted)
      BY <2>2, <2>22, SaveFailsDoes DEF Has, Stores, NoSave
    <2>23. CASE \E ids \in SUBSET save[p].pending : MarkSaved(p, ids)
      BY <2>2, <2>23, MarkSavedDoes DEF Has, canvasVars
    <2>24. CASE BroadcastCanvasSaved(p)
      \* every tab keeps what it shows, and the one that saved keeps no payload
      <3>1. /\ UNCHANGED <<stored, open>> /\ SameSaves(p) /\ live' = save[p].payload /\ save'[p] = NoSave
            /\ \A q \in Page : page'[q].view = page[q].view /\ page'[q].read = page[q].read
        BY <2>24, BroadcastDoes
      <3>2. \A q \in Page : \A P : Has(q, P)' => Has(q, P) \/ P = Blank
        BY <3>1 DEF Has, SameSaves, NoSave
      <3>3. Early(Blank) /\ Blank \in Payload
        BY EarlyBlank
      <3>4. \A q \in Page : EarlyTab(q)'
        BY <1>2, <1>3, <1>4, <3>2, <3>3 DEF EarlyTab
      <3>5. Early(stored.payload)' /\ Early(live)'
        BY <1>2, <1>3, <1>4, <3>1 DEF EarlyTab, Has
      <3>. QED BY <3>4, <3>5, EarlyParts
    <2>. HIDE DEF Own
    <2>25. OpenCanvas(p) => EarlyInv'
      BY <2>3, <2>4, <2>5, <2>6, <2>7, <2>8, <2>9, <2>10 DEF OpenCanvas
    <2>26. Work(p) => EarlyInv'
      BY <2>11, <2>12, <2>13, <2>14, <2>15, <2>16 DEF Work
    <2>27. SaveCanvas(p) => EarlyInv'
      BY <2>17, <2>18, <2>19, <2>20, <2>21, <2>22, <2>23, <2>24 DEF SaveCanvas
    <2>. QED BY <1>9, <2>25, <2>26, <2>27
  <1>. QED BY <1>7, <1>8, <1>9 DEF Next

-----------------------------------------------------------------------------
(* Versions.  Nobody has been told of a version that is not there yet, so a new *)
(* one is nobody's.                                                             *)

VersionsInv ==
    \A p \in Page :
        /\ page[p].expected \in {None} \cup 1..stored.version
        /\ save[p].expected \in {None} \cup 1..stored.version
        /\ save[p].version \in 1..stored.version
        /\ open[p].item.version \in 1..stored.version

\* The saved canvas stays, or becomes some payload with the next version.
Raises == UNCHANGED stored \/ \E P \in Payload : Stores(P)

\* Where a tab takes its versions from.
Told(p, q) ==
    /\ page'[q].expected \in {page[q].expected, None, open[q].item.version, save[p].version}
    /\ save'[q].expected \in {save[q].expected, page[q].expected, None}
    /\ save'[q].version \in {save[q].version, 1, stored'.version}
    /\ \/ open'[q].item.version \in {open[q].item.version, stored.version, 1}
       \/ open[q].pc = "mark" /\ open'[q].item.version = open[q].item.version + 1

LEMMA Blanks ==
    /\ NoSave.pc = "idle" /\ NoSave.payload = Blank /\ NoSave.expected = None /\ NoSave.version = 1
    /\ NoSave.pending = {} /\ NoSave.acks = {}
    /\ NoOpen.pc = "idle" /\ NoOpen.item.version = 1 /\ NoOpen.applied = {}
    /\ Closed.at = "closed" /\ Closed.expected = None /\ Closed.acks = {} /\ Closed.view = Blank
  BY DEF NoSave, NoOpen, Closed, Saved

LEMMA ToldStep ==
    ASSUME TypeInv, NEW p \in Page, OpenCanvas(p) \/ Work(p) \/ SaveCanvas(p)
    PROVE  Raises /\ \A q \in Page : Told(p, q)
  <1>. USE DEF SamePages, SameOpens, SameSaves, Told, Raises
  <1>0. /\ open[p].merged \in Payload /\ save[p].payload \in Payload
        /\ \A q \in Page : page'[q].expected = page'[q].expected
    BY Payloads DEF TypeInv
  <1>1. CASE StartOpen(p)
    BY <1>1, StartOpenDoes DEF Fixed, canvasVars
  <1>2. CASE Reload(p)
    BY <1>2, ReloadDoes, Blanks DEF Fixed, canvasVars
  <1>3. CASE ListPending(p)
    BY <1>3, ListPendingDoes DEF Fixed, canvasVars
  <1>4. CASE MergePending(p) \/ MergeUnheard(p)
    BY <1>0, <1>4, MergeDoes
  <1>5. CASE \E ids \in SUBSET open[p].applied : MarkMerged(p, ids)
    BY <1>5, MarkMergedDoes DEF canvasVars
  <1>6. CASE MarkSuperseded(p)
    BY <1>6, MarkSupersededDoes DEF canvasVars
  <1>7. CASE AnswerOpen(p)
    BY <1>7, AnswerOpenDoes, Blanks DEF canvasVars
  <1>8. CASE \E acted \in BOOLEAN : OpenFails(p, acted)
    BY <1>8, OpenFailsDoes DEF canvasVars
  <1>9. CASE StartSubscribe(p)
    BY <1>9, StartSubscribeDoes DEF Fixed, canvasVars
  <1>10. CASE Subscribe(p)
    BY <1>10, SubscribeDoes
  <1>11. CASE Disconnect(p)
    BY <1>11, DisconnectDoes DEF Fixed, canvasVars
  <1>12. CASE Close(p)
    BY <1>12, CloseDoes, Blanks DEF Fixed, canvasVars
  <1>13. ASSUME NEW slot \in BOOLEAN, NEW values \in Values, Edits(p, slot, values)
         PROVE  Raises /\ \A q \in Page : Told(p, q)
    BY <1>13, EditsDoes
  <1>14. CASE Withdraw(p)
    BY <1>13, <1>14, NoValues DEF Withdraw
  <1>15. CASE \E f \in Field : EditField(p, f)
    <2>1. PICK f \in Field : EditField(p, f)
      BY <1>15
    <2>2. [g \in {f} |-> writes + 1] \in Values
      BY <2>1, EditValues DEF EditField, TypeInv
    <2>. QED BY <1>13, <2>1, <2>2 DEF EditField
  <1>16. CASE StartSave(p)
    BY <1>16, StartSaveDoes DEF Fixed, canvasVars
  <1>17. CASE ReadPending(p) \/ PendingUnread(p)
    BY <1>17, ReadPendingDoes DEF Fixed, canvasVars
  <1>18. CASE StoreSave(p)
    BY <1>0, <1>18, StoreSaveDoes
  <1>19. CASE RefuseSave(p)
    BY <1>19, RefuseSaveDoes, Blanks DEF Fixed, canvasVars
  <1>20. CASE SaveAnyway(p) \/ CancelSave(p)
    BY <1>20, SaveAnywayDoes, CancelSaveDoes, Blanks DEF Fixed, canvasVars
  <1>21. CASE \E acted \in BOOLEAN : SaveFails(p, acted)
    BY <1>0, <1>21, SaveFailsDoes, Blanks
  <1>22. CASE \E ids \in SUBSET save[p].pending : MarkSaved(p, ids)
    BY <1>22, MarkSavedDoes DEF canvasVars
  <1>23. CASE BroadcastCanvasSaved(p)
    <2>1. UNCHANGED <<stored, open>> /\ SameSaves(p) /\ save'[p] = NoSave
      BY <1>23, BroadcastDoes
    <2>2. \A q \in Page : page'[q].expected \in {page[q].expected, save[p].version}
      BY <1>23, BroadcastDoes
    <2>. QED BY <2>1, <2>2, Blanks
  <1>24. OpenCanvas(p) => Raises /\ \A q \in Page : Told(p, q)
    BY <1>1, <1>2, <1>3, <1>4, <1>5, <1>6, <1>7, <1>8 DEF OpenCanvas
  <1>25. Work(p) => Raises /\ \A q \in Page : Told(p, q)
    BY <1>9, <1>10, <1>11, <1>12, <1>14, <1>15 DEF Work
  <1>26. SaveCanvas(p) => Raises /\ \A q \in Page : Told(p, q)
    BY <1>16, <1>17, <1>18, <1>19, <1>20, <1>21, <1>22, <1>23 DEF SaveCanvas
  <1>. QED BY <1>24, <1>25, <1>26

LEMMA VersionsStep ==
    ASSUME TypeInv, FillInv, VersionsInv, [Next]_vars
    PROVE  VersionsInv' /\ Raises
  <1>0. stored.version \in Nat
    BY Numbers DEF TypeInv
  <1>1. ASSUME UNCHANGED stored, UNCHANGED <<open, save>>, \A q \in Page : page'[q].expected = page[q].expected
        PROVE  VersionsInv' /\ Raises
    BY <1>1 DEF VersionsInv, Raises
  <1>2. CASE Contribute
    <2>1. CASE CommitLive
      <3>1. CASE LeasesHold
        BY <1>1, <2>1, <3>1, CommitDoes
      <3>2. CASE ~LeasesHold
        BY <1>1, <2>1, <3>2, CommitMoves
      <3>. QED BY <3>1, <3>2
    <2>2. CASE UNCHANGED tabs
      BY <1>1, <2>2 DEF tabs, canvasVars
    <2>3. CASE (\E F \in SUBSET Field, isLive \in BOOLEAN : SendFill(F, isLive)) \/ ListPrevious
      BY <2>2, <2>3 DEF SendFill, ListPrevious, tabs
    <2>. QED BY <1>2, <2>1, <2>2, <2>3, ContributeMoves
  <1>3. CASE UNCHANGED vars
    BY <1>1, <1>3 DEF vars, canvasVars
  <1>4. ASSUME NEW p \in Page, OpenCanvas(p) \/ Work(p) \/ SaveCanvas(p)
        PROVE  VersionsInv' /\ Raises
    <2>1. Raises /\ \A q \in Page : Told(p, q)
      BY <1>4, ToldStep
    <2>2. stored'.version = stored.version \/ stored'.version = stored.version + 1
      BY <2>1 DEF Raises, Stores
    <2>3. stored.version \in 1..stored.version
      BY <1>0 DEF TypeInv, TypeOK, Item
    <2>4. 1..stored.version \subseteq 1..stored'.version /\ stored'.version \in 1..stored'.version /\ 1 \in 1..stored'.version
      BY <1>0, <2>2, <2>3
    <2>5. ASSUME NEW q \in Page, open[q].pc = "mark"
          PROVE  open[q].item.version + 1 \in 1..stored.version
      BY <1>0, <2>5 DEF VersionsInv, TypeInv, StageInv
    <2>6. ASSUME NEW q \in Page
          PROVE  /\ page'[q].expected \in {None} \cup 1..stored'.version
                 /\ save'[q].expected \in {None} \cup 1..stored'.version
                 /\ save'[q].version \in 1..stored'.version
                 /\ open'[q].item.version \in 1..stored'.version
      <3>. DEFINE old == 1..stored.version
                  new == 1..stored'.version
      <3>1. /\ page[q].expected \in {None} \cup old /\ save[q].expected \in {None} \cup old
            /\ save[q].version \in old /\ open[q].item.version \in old /\ save[p].version \in old
            /\ open[q].pc = "mark" => open[q].item.version + 1 \in old
        BY <2>5 DEF VersionsInv
      <3>2. old \subseteq new /\ stored.version \in old /\ stored'.version \in new /\ 1 \in new
        BY <2>3, <2>4
      <3>3. Told(p, q)
        BY <2>1
      <3>. HIDE DEF old, new
      <3>4. /\ page'[q].expected \in {None} \cup new /\ save'[q].expected \in {None} \cup new
            /\ save'[q].version \in new /\ open'[q].item.version \in new
        BY <3>1, <3>2, <3>3 DEF Told
      <3>. QED BY <3>4 DEF new
    <2>. QED BY <2>1, <2>6 DEF VersionsInv
  <1>. QED BY <1>2, <1>3, <1>4 DEF Next

-----------------------------------------------------------------------------
(* An owner who opens the canvas merges over the canvas that was read, and what *)
(* is merged holds every contribution that the merge then marks.                *)

\* The payload P has the values of the records ids, or later ones.
Holds(P, ids) == \A i \in ids : \A f \in DOMAIN rows[i].values : rows[i].values[f] <= P.value[f]

OpenOk(p) ==
    /\ (open[p].pc # "idle" /\ open[p].item.version = stored.version) => open[p].item.payload = stored.payload
    /\ open[p].pc # "idle" => page[p].at = "closed"
    /\ open[p].pc \in {"list", "supersede"} => open[p].applied = {}
    /\ open[p].pc \in {"merge", "mark"} =>
           /\ open[p].merged = Applied(open[p].item.payload, open[p].applied)
           /\ Holds(open[p].merged, open[p].applied)
    /\ (open[p].pc = "mark" /\ open[p].item.version + 1 = stored.version) => open[p].merged = stored.payload
    /\ open[p].pc = "answer" => Holds(open[p].item.payload, open[p].applied)

OpenInv == \A p \in Page : OpenOk(p)

LEMMA HoldsKept ==
    ASSUME EntriesKept, NEW P, NEW ids \in SUBSET RowIds, Holds(P, ids)
    PROVE  Holds(P, ids)'
  BY DEF Holds, EntriesKept

LEMMA HoldsNone == \A P : Holds(P, {}) /\ Holds(P, {})'
  BY DEF Holds

LEMMA AppliedKept ==
    ASSUME TypeOK, EntriesKept, NEW P, NEW ids \in SUBSET RowIds, NEW Q, Q = Applied(P, ids)
    PROVE  (Q = Applied(P, ids))'
  <1>. DEFINE Over(f) == {i \in ids : f \in DOMAIN rows[i].values}
              Next1(f) == {i \in ids : f \in DOMAIN rows'[i].values}
              old == [f \in Field |-> IF Over(f) = {} THEN P.value[f] ELSE rows[Latest(Over(f))].values[f]]
              new == [f \in Field |-> IF Next1(f) = {} THEN P.value[f] ELSE rows'[Latest(Next1(f))].values[f]]
  <1>1. \A i \in RowIds : rows'[i].values = rows[i].values
    BY DEF EntriesKept
  <1>2. old = new
    <2>. SUFFICES ASSUME NEW f \in Field PROVE old[f] = new[f]
      OBVIOUS
    <2>1. Over(f) = Next1(f)
      BY <1>1
    <2>2. CASE Over(f) = {}
      BY <2>1, <2>2
    <2>3. CASE Over(f) # {}
      <3>1. Over(f) \in SUBSET (1..Len(rows))
        BY DEF RowIds
      <3>2. Latest(Over(f)) \in RowIds
        BY <2>3, <3>1, LatestIsLast, RowsInSeq
      <3>. QED BY <1>1, <2>1, <2>3, <3>2
    <2>. QED BY <2>2, <2>3
  <1>. QED BY <1>2 DEF Applied

\* Another's step leaves the requests of a tab as they are: a version that it makes
\* is none that they read.
LEMMA OpenKept ==
    ASSUME TypeInv, EntriesKept, VersionsInv, Raises, NEW q \in Page, OpenOk(q), open'[q] = open[q],
           page'[q].at = page[q].at
    PROVE  OpenOk(q)'
  <1>0. open[q].applied \in SUBSET RowIds /\ open[q].item.version \in Nat /\ stored.version \in Nat
    BY DEF TypeInv, TypeOK, Opens, Item
  <1>1. open[q].item.version <= stored.version /\ (open[q].pc = "mark" => open[q].item.version < stored.version)
    BY <1>0 DEF VersionsInv, TypeInv, StageInv
  <1>2. stored' = stored \/ stored'.version = stored.version + 1
    BY DEF Raises, Stores
  <1>3. open'[q].pc # "idle" /\ open'[q].item.version = stored'.version => open'[q].item.payload = stored'.payload
    BY <1>0, <1>1, <1>2 DEF OpenOk
  <1>4. open'[q].pc = "mark" /\ open'[q].item.version + 1 = stored'.version => open'[q].merged = stored'.payload
    BY <1>0, <1>1, <1>2 DEF OpenOk
  <1>5. PICK P, Q, ids : P = open[q].item.payload /\ Q = open[q].merged /\ ids = open[q].applied
    OBVIOUS
  <1>6. ids \in SUBSET RowIds
    BY <1>0, <1>5
  <1>7. open[q].pc \in {"merge", "mark"} => (Q = Applied(P, ids))' /\ Holds(Q, ids)'
    BY <1>5, <1>6, AppliedKept, HoldsKept DEF OpenOk, TypeInv
  <1>8. open[q].pc = "answer" => Holds(P, ids)'
    BY <1>5, <1>6, HoldsKept DEF OpenOk
  <1>9. open[q].pc # "idle" => page[q].at = "closed"
    BY DEF OpenOk
  <1>10. open[q].pc \in {"list", "supersede"} => ids = {}
    BY <1>5 DEF OpenOk
  <1>. QED BY <1>3, <1>4, <1>5, <1>7, <1>8, <1>9, <1>10 DEF OpenOk

LEMMA OpenIdle == \A q \in Page : open'[q].pc = "idle" => OpenOk(q)'
  BY DEF OpenOk

\* What the records give a request that is still there is the latest of their values.
LEMMA AppliedHolds ==
    ASSUME TypeOK, EntriesInv, NEW P \in Payload, P.slot, NEW ids \in SUBSET RowIds
    PROVE  Holds(Applied(P, ids), ids)
  <1>. SUFFICES ASSUME NEW i \in ids, NEW f \in DOMAIN rows[i].values
                PROVE  rows[i].values[f] <= Applied(P, ids).value[f]
    BY DEF Holds
  <1>1. f \in Field /\ rows[i].values[f] \in Nat
    BY Numbers
  <1>2. PICK k \in ids : /\ f \in DOMAIN rows[k].values
                         /\ Applied(P, ids).value[f] = rows[k].values[f]
                         /\ \A j \in ids : f \in DOMAIN rows[j].values => j <= k
    BY <1>1, AppliedField
  <1>3. i = k \/ i < k
    BY <1>2, RowsInSeq DEF RowIds
  <1>4. rows[k].values[f] \in Nat
    BY <1>2, Numbers
  <1>5. i < k => rows[i].values[f] < rows[k].values[f]
    BY <1>2 DEF EntriesInv
  <1>. QED BY <1>1, <1>2, <1>3, <1>4, <1>5

\* A merge stores over the version that was read, or nothing.
LEMMA MergeOpen ==
    ASSUME TypeInv, EntriesInv, EntriesKept, VersionsInv, OpenInv, NEW p \in Page,
           MergePending(p) \/ MergeUnheard(p)
    PROVE  OpenOk(p)'
  <1>1. /\ UNCHANGED page /\ open[p].pc = "merge" /\ open'[p].pc \in {"mark", "answer"}
        /\ open'[p].item = open[p].item /\ open'[p].merged = open[p].merged
        /\ open'[p].pc = "answer" => open'[p].applied = {}
        /\ open'[p].pc = "mark" => open'[p].applied = open[p].applied /\ stored' # stored
        /\ \/ UNCHANGED stored
           \/ stored.version = open[p].item.version /\ Stores(open[p].merged)
    BY MergeDoes
  <1>2. OpenOk(p) /\ page[p].at = "closed"
    BY <1>1 DEF OpenInv, OpenOk
  <1>3. open[p].item.version \in Nat /\ stored.version \in Nat /\ open[p].applied \in SUBSET RowIds
    BY DEF TypeInv, TypeOK, Opens, Item
  <1>4. PICK P, Q, ids : P = open[p].item.payload /\ Q = open[p].merged /\ ids = open[p].applied
    OBVIOUS
  <1>5. (Q = Applied(P, ids))' /\ Holds(Q, ids)'
    BY <1>1, <1>2, <1>3, <1>4, AppliedKept, HoldsKept DEF OpenOk, TypeInv
  <1>6. open'[p].item.version = stored'.version => open'[p].item.payload = stored'.payload
    BY <1>1, <1>2, <1>3 DEF OpenOk, Stores
  <1>7. open'[p].pc = "mark" => open'[p].merged = stored'.payload
    BY <1>1 DEF Stores
  <1>. QED BY <1>1, <1>2, <1>4, <1>5, <1>6, <1>7, HoldsNone DEF OpenOk

LEMMA ListOpen ==
    ASSUME TypeInv, EntriesInv, EntriesKept, OpenInv, NEW p \in Page, ListPending(p)
    PROVE  OpenOk(p)'
  <1>1. /\ UNCHANGED <<stored, page>> /\ open[p].pc = "list" /\ open'[p].pc \in {"merge", "supersede", "answer"}
        /\ open'[p].item = open[p].item
        /\ open'[p].applied = IF open[p].item.payload.slot THEN Pending ELSE {}
        /\ open'[p].merged = Applied(open[p].item.payload, open'[p].applied)
        /\ open'[p].pc = "merge" <=> open'[p].applied # {}
    BY ListPendingDoes DEF Fixed, canvasVars
  <1>2. OpenOk(p) /\ page[p].at = "closed"
    BY <1>1 DEF OpenInv, OpenOk
  <1>3. PICK P, Q, ids : P = open[p].item.payload /\ Q = open'[p].merged /\ ids = open'[p].applied
    OBVIOUS
  <1>4. ids \in SUBSET RowIds /\ Q = Applied(P, ids) /\ P \in Payload /\ (ids # {} => P.slot)
    BY <1>1, <1>3, Payloads DEF Pending, TypeInv
  <1>5. (Q = Applied(P, ids))'
    BY <1>4, AppliedKept DEF TypeInv
  <1>6. Holds(Q, ids)'
    <2>1. CASE ids = {}
      BY <2>1, HoldsNone
    <2>2. CASE ids # {}
      BY <1>4, <2>2, AppliedHolds, HoldsKept DEF TypeInv
    <2>. QED BY <2>1, <2>2
  <1>. QED BY <1>1, <1>2, <1>3, <1>5, <1>6, HoldsNone DEF OpenOk

LEMMA OpenStep ==
    ASSUME TypeInv, EntriesInv, FillInv, VersionsInv, OpenInv, [Next]_vars
    PROVE  OpenInv'
  <1>1. EntriesKept /\ Raises
    BY StepKeeps, VersionsStep
  <1>2. ASSUME NEW q \in Page, open'[q] = open[q], page'[q].at = page[q].at
        PROVE  OpenOk(q)'
    BY <1>1, <1>2, OpenKept DEF OpenInv
  <1>3. CASE Contribute
    <2>1. CASE CommitLive
      <3>1. CASE LeasesHold
        BY <1>2, <2>1, <3>1, CommitDoes DEF OpenInv
      <3>2. CASE ~LeasesHold
        BY <1>2, <2>1, <3>2, CommitMoves DEF OpenInv
      <3>. QED BY <3>1, <3>2
    <2>2. CASE UNCHANGED tabs
      BY <1>2, <2>2 DEF tabs, OpenInv
    <2>3. CASE (\E F \in SUBSET Field, isLive \in BOOLEAN : SendFill(F, isLive)) \/ ListPrevious
      BY <2>2, <2>3 DEF SendFill, ListPrevious, tabs
    <2>. QED BY <1>3, <2>1, <2>2, <2>3, ContributeMoves
  <1>4. CASE UNCHANGED vars
    BY <1>2, <1>4 DEF vars, OpenInv
  <1>5. ASSUME NEW p \in Page, OpenCanvas(p) \/ Work(p) \/ SaveCanvas(p)
        PROVE  OpenInv'
    <2>0. OpenOk(p)
      BY DEF OpenInv
    <2>1. ASSUME UNCHANGED open, \A q \in Page : page'[q].at = page[q].at \/ (q = p /\ page[p].at # "closed")
          PROVE  OpenInv'
      <3>1. page[p].at # "closed" => open'[p].pc = "idle"
        BY <2>0, <2>1 DEF OpenOk
      <3>. QED BY <1>2, <2>1, <3>1, OpenIdle DEF OpenInv
    <2>2. ASSUME UNCHANGED page \/ SamePages(p), SameOpens(p), OpenOk(p)'
          PROVE  OpenInv'
      BY <1>2, <2>2 DEF OpenInv, SamePages, SameOpens
    <2>3. CASE StartOpen(p)
      BY <2>2, <2>3, StartOpenDoes, HoldsNone DEF Fixed, canvasVars, OpenOk
    <2>4. CASE Reload(p)
      BY <2>2, <2>4, ReloadDoes, HoldsNone DEF Fixed, canvasVars, OpenOk
    <2>5. CASE ListPending(p)
      BY <1>1, <2>2, <2>5, ListOpen, ListPendingDoes
    <2>6. CASE MergePending(p) \/ MergeUnheard(p)
      BY <1>1, <2>2, <2>6, MergeOpen, MergeDoes
    <2>7. ASSUME NEW ids \in SUBSET open[p].applied, MarkMerged(p, ids)
          PROVE  OpenInv'
      <3>1. /\ UNCHANGED <<canvasVars, page>> /\ SameOpens(p)
            /\ open[p].pc = "mark" /\ open'[p].pc = "answer"
            /\ open'[p].item.payload = open[p].merged /\ open'[p].item.version = open[p].item.version + 1
            /\ open'[p].applied = open[p].applied
        BY <2>7, MarkMergedDoes
      <3>2. PICK Q, ps : Q = open[p].merged /\ ps = open[p].applied
        OBVIOUS
      <3>3. Holds(Q, ps)'
        BY <1>1, <2>0, <3>1, <3>2, HoldsKept DEF OpenOk, TypeInv, TypeOK, Opens
      <3>4. OpenOk(p)'
        BY <2>0, <3>1, <3>2, <3>3 DEF OpenOk, canvasVars
      <3>. QED BY <2>2, <3>1, <3>4
    <2>8. CASE MarkSuperseded(p)
      BY <2>0, <2>2, <2>8, MarkSupersededDoes, HoldsNone DEF canvasVars, OpenOk
    <2>9. CASE AnswerOpen(p)
      BY <2>2, <2>9, AnswerOpenDoes, Blanks, OpenIdle
    <2>10. CASE \E acted \in BOOLEAN : OpenFails(p, acted)
      BY <2>0, <2>2, <2>10, OpenFailsDoes, HoldsNone DEF canvasVars, OpenOk
    <2>11. CASE StartSubscribe(p)
      BY <2>1, <2>11, StartSubscribeDoes DEF SamePages
    <2>12. CASE Subscribe(p)
      BY <2>1, <2>12, SubscribeDoes DEF SamePages
    <2>13. CASE Disconnect(p) \/ Close(p)
      BY <2>1, <2>13, DisconnectDoes, CloseDoes, ZenonT(30) DEF SamePages
    <2>14. ASSUME NEW slot \in BOOLEAN, NEW values \in Values, Edits(p, slot, values)
           PROVE  OpenInv'
      BY <2>1, <2>14, EditsDoes
    <2>15. CASE Withdraw(p)
      BY <2>14, <2>15, NoValues DEF Withdraw
    <2>16. CASE \E f \in Field : EditField(p, f)
      <3>1. PICK f \in Field : EditField(p, f)
        BY <2>16
      <3>2. [g \in {f} |-> writes + 1] \in Values
        BY <3>1, EditValues DEF EditField, TypeInv
      <3>. QED BY <2>14, <3>1, <3>2 DEF EditField
    <2>17. CASE StartSave(p) \/ ReadPending(p) \/ PendingUnread(p) \/ RefuseSave(p) \/ SaveAnyway(p) \/ CancelSave(p)
      BY <2>1, <2>17, StartSaveDoes, ReadPendingDoes, RefuseSaveDoes, SaveAnywayDoes, CancelSaveDoes
    <2>18. CASE StoreSave(p)
      BY <2>1, <2>18, StoreSaveDoes
    <2>19. CASE \E acted \in BOOLEAN : SaveFails(p, acted)
      BY <2>1, <2>19, SaveFailsDoes
    <2>20. CASE \E ids \in SUBSET save[p].pending : MarkSaved(p, ids)
      BY <2>1, <2>20, MarkSavedDoes
    <2>21. CASE BroadcastCanvasSaved(p)
      BY <2>1, <2>21, BroadcastDoes
    <2>22. OpenCanvas(p) => OpenInv'
      BY <2>3, <2>4, <2>5, <2>6, <2>7, <2>8, <2>9, <2>10 DEF OpenCanvas
    <2>23. Work(p) => OpenInv'
      BY <2>11, <2>12, <2>13, <2>15, <2>16 DEF Work
    <2>24. SaveCanvas(p) => OpenInv'
      BY <2>17, <2>18, <2>19, <2>20, <2>21 DEF SaveCanvas
    <2>. QED BY <1>5, <2>22, <2>23, <2>24
  <1>. QED BY <1>3, <1>4, <1>5 DEF Next

\* A step of the owner's that is no merge leaves the saved canvas or the merges alone.
LEMMA OtherMoves ==
    ASSUME TypeInv, NEW p \in Page, OpenCanvas(p) \/ Work(p) \/ SaveCanvas(p), ~MergePending(p), ~MergeUnheard(p)
    PROVE  UNCHANGED stored \/ UNCHANGED open
  <1>. USE DEF Fixed, canvasVars
  <1>1. CASE OpenCanvas(p)
    <2>1. CASE StartOpen(p) \/ Reload(p) \/ ListPending(p)
      BY <2>1, StartOpenDoes, ReloadDoes, ListPendingDoes
    <2>2. CASE \E ids \in SUBSET open[p].applied : MarkMerged(p, ids)
      BY <2>2, MarkMergedDoes
    <2>3. CASE MarkSuperseded(p) \/ AnswerOpen(p)
      BY <2>3, MarkSupersededDoes, AnswerOpenDoes
    <2>4. CASE \E acted \in BOOLEAN : OpenFails(p, acted)
      BY <2>4, OpenFailsDoes
    <2>. QED BY <1>1, <2>1, <2>2, <2>3, <2>4 DEF OpenCanvas
  <1>2. CASE Work(p)
    <2>1. CASE StartSubscribe(p) \/ Subscribe(p) \/ Disconnect(p) \/ Close(p)
      BY <2>1, StartSubscribeDoes, SubscribeDoes, DisconnectDoes, CloseDoes
    <2>2. CASE Withdraw(p) \/ \E f \in Field : EditField(p, f)
      BY <2>2 DEF Withdraw, EditField, Edits
    <2>. QED BY <1>2, <2>1, <2>2 DEF Work
  <1>3. CASE SaveCanvas(p)
    <2>1. CASE StartSave(p) \/ ReadPending(p) \/ PendingUnread(p) \/ RefuseSave(p) \/ SaveAnyway(p) \/ CancelSave(p)
      BY <2>1, StartSaveDoes, ReadPendingDoes, RefuseSaveDoes, SaveAnywayDoes, CancelSaveDoes
    <2>2. CASE StoreSave(p) \/ BroadcastCanvasSaved(p)
      BY <2>2, StoreSaveDoes, BroadcastDoes
    <2>3. CASE \E acted \in BOOLEAN : SaveFails(p, acted)
      BY <2>3, SaveFailsDoes
    <2>4. CASE \E ids \in SUBSET save[p].pending : MarkSaved(p, ids)
      BY <2>4, MarkSavedDoes
    <2>. QED BY <1>3, <2>1, <2>2, <2>3, <2>4 DEF SaveCanvas
  <1>. QED BY <1>1, <1>2, <1>3

LEMMA MergeOnBaseStep ==
    ASSUME TypeInv, OpenInv, [Next]_vars, NEW p \in Page,
           open[p].pc = "merge", open'[p].pc # "merge", stored' # stored
    PROVE  stored'.payload = Applied(stored.payload, open[p].applied)
  <1>1. ~UNCHANGED open /\ ~UNCHANGED stored
    OBVIOUS
  <1>2. ~UNCHANGED vars
    BY DEF vars
  <1>3. ~Contribute
    <2>1. CommitLive => UNCHANGED open
      BY DEF CommitLive
    <2>2. (\E F \in SUBSET Field, isLive \in BOOLEAN : SendFill(F, isLive)) \/ ListPrevious => UNCHANGED open
      BY DEF SendFill, ListPrevious
    <2>. QED BY <1>1, <2>1, <2>2, ContributeMoves DEF tabs
  <1>4. PICK q \in Page : MergePending(q) \/ MergeUnheard(q)
    BY <1>1, <1>2, <1>3, OtherMoves DEF Next
  <1>5. q = p
    BY <1>4, MergeDoes DEF SameOpens
  <1>6. stored.version = open[p].item.version /\ Stores(open[p].merged)
    BY <1>4, <1>5, MergeDoes
  <1>. QED BY <1>6 DEF OpenInv, OpenOk, Stores

-----------------------------------------------------------------------------
(* Acknowledgements.  A tab acknowledges what was shared; and once a tab has    *)
(* read the records that wait, what it acknowledges is among those it merges.   *)

Merges(p) == open[p].pc \in {"merge", "mark"} \/ (open[p].pc = "answer" /\ open[p].applied # {})

AcksOk(p) ==
    /\ \A i \in page[p].acks : rows[i].shared
    /\ Merges(p) => \A i \in page[p].acks : i \in Previous => i \in open[p].applied

AcksInv == \A p \in Page : AcksOk(p)

\* What waits after a step waited before it, but for the record that it makes.
LEMMA WaitsStep ==
    ASSUME TypeInv, [Next]_vars
    PROVE  /\ \A i \in RowIds : i \in Previous' => i \in Previous
           /\ \A i \in RowIds : rows[i].shared => rows'[i].shared \/ (i = fill.row /\ fill.pc = "share")
  <1>1. ASSUME StatusKept
        PROVE  /\ \A i \in RowIds : i \in Previous' => i \in Previous
               /\ \A i \in RowIds : rows[i].shared => rows'[i].shared \/ (i = fill.row /\ fill.pc = "share")
    BY <1>1 DEF StatusKept, Previous
  <1>2. UNCHANGED rows => StatusKept
    BY DEF StatusKept
  <1>3. CASE Contribute
    <2>1. CASE rows' = Append(rows, NewRow)
      <3>1. \A i \in RowIds : rows'[i] = rows[i]
        BY <2>1, AppendedRows DEF TypeInv
      <3>2. StatusKept
        BY <3>1 DEF StatusKept
      <3>. QED BY <1>1, <3>2
    <2>2. CASE (\E F \in SUBSET Field, isLive \in BOOLEAN : SendFill(F, isLive)) \/ ListPrevious \/ CommitLive
      BY <1>1, <1>2, <2>2 DEF SendFill, ListPrevious, CommitLive
    <2>. QED BY <1>1, <1>3, <2>1, <2>2, ContributeMoves
  <1>4. CASE UNCHANGED vars
    BY <1>1, <1>2, <1>4 DEF vars
  <1>5. CASE \E p \in Page : OpenCanvas(p) \/ Work(p) \/ SaveCanvas(p)
    BY <1>1, <1>5, TabMoves DEF TypeInv
  <1>. QED BY <1>3, <1>4, <1>5 DEF Next

LEMMA MergesMoves ==
    ASSUME TypeInv, OpenInv, NEW p \in Page, OpenCanvas(p) \/ Work(p) \/ SaveCanvas(p), ~ListPending(p),
           NEW q \in Page, Merges(q)'
    PROVE  Merges(q) /\ open'[q].applied = open[q].applied
  <1>1. ASSUME open'[q] = open[q] PROVE Merges(q) /\ open'[q].applied = open[q].applied
    BY <1>1 DEF Merges
  <1>2. UNCHANGED open \/ OpenCanvas(p)
    <2>1. CASE Work(p)
      <3>1. CASE StartSubscribe(p) \/ Subscribe(p) \/ Disconnect(p) \/ Close(p)
        BY <3>1 DEF StartSubscribe, Subscribe, Disconnect, Close
      <3>2. CASE Withdraw(p) \/ \E f \in Field : EditField(p, f)
        BY <3>2 DEF Withdraw, EditField, Edits
      <3>. QED BY <2>1, <3>1, <3>2 DEF Work
    <2>2. CASE SaveCanvas(p)
      BY <2>2 DEF SaveCanvas, StartSave, ReadPending, PendingUnread, RefuseSave, SaveAnyway, CancelSave,
                  StoreSave, BroadcastCanvasSaved, SaveFails, MarkSaved
    <2>. QED BY <2>1, <2>2
  <1>3. CASE OpenCanvas(p)
    <2>0. OpenOk(p)
      BY DEF OpenInv
    <2>1. CASE StartOpen(p)
      BY <1>1, <2>1, StartOpenDoes DEF SameOpens, Merges
    <2>2. CASE Reload(p)
      BY <1>1, <2>2, ReloadDoes DEF SameOpens, Merges
    <2>3. CASE MergePending(p) \/ MergeUnheard(p)
      BY <1>1, <2>3, MergeDoes DEF SameOpens, Merges
    <2>4. CASE \E ids \in SUBSET open[p].applied : MarkMerged(p, ids)
      BY <1>1, <2>4, MarkMergedDoes DEF SameOpens, Merges
    <2>5. CASE MarkSuperseded(p)
      BY <1>1, <2>0, <2>5, MarkSupersededDoes DEF SameOpens, Merges, OpenOk
    <2>6. CASE AnswerOpen(p)
      BY <1>1, <2>6, AnswerOpenDoes, Blanks DEF SameOpens, Merges
    <2>7. CASE \E acted \in BOOLEAN : OpenFails(p, acted)
      BY <1>1, <2>7, OpenFailsDoes DEF SameOpens, Merges
    <2>. QED BY <1>3, <2>1, <2>2, <2>3, <2>4, <2>5, <2>6, <2>7 DEF OpenCanvas
  <1>. QED BY <1>1, <1>2, <1>3

LEMMA AcksStep ==
    ASSUME TypeInv, FillInv, OpenInv, AcksInv, [Next]_vars
    PROVE  AcksInv'
  <1>1. /\ \A i \in RowIds : i \in Previous' => i \in Previous
        /\ \A i \in RowIds : rows[i].shared => rows'[i].shared \/ (i = fill.row /\ fill.pc = "share")
    BY WaitsStep
  <1>2. \A q \in Page : page[q].acks \subseteq RowIds
    BY DEF TypeInv, TypeOK, Pages
  <1>3. ASSUME NEW q \in Page, NEW i \in page[q].acks
        PROVE  rows'[i].shared
    BY <1>1, <1>2 DEF AcksInv, AcksOk, FillInv
  <1>4. ASSUME NEW q \in Page, page'[q].acks \subseteq page[q].acks,
               Merges(q)' => Merges(q) /\ open'[q].applied = open[q].applied
        PROVE  AcksOk(q)'
    BY <1>1, <1>2, <1>3, <1>4 DEF AcksInv, AcksOk
  <1>5. ASSUME UNCHANGED <<page, open>>
        PROVE  AcksInv'
    BY <1>4, <1>5 DEF AcksInv, Merges
  <1>6. CASE Contribute
    <2>1. CASE UNCHANGED tabs \/ ((\E F \in SUBSET Field, isLive \in BOOLEAN : SendFill(F, isLive)) \/ ListPrevious)
      BY <1>5, <2>1 DEF tabs, SendFill, ListPrevious
    <2>2. CASE CommitLive /\ ~LeasesHold
      BY <1>5, <2>2, CommitMoves
    <2>3. CASE CommitLive /\ LeasesHold
      <3>1. /\ UNCHANGED <<rows, open>> /\ fill.pc = "commit"
            /\ \A q \in Page : /\ page[q].at # "connected" => page'[q] = page[q]
                               /\ page'[q].acks \subseteq page[q].acks \cup {fill.row}
        BY <2>3, CommitDoes, CommitMoves
      <3>2. rows'[fill.row].shared
        BY <3>1 DEF FillInv
      <3>3. ASSUME NEW q \in Page, page[q].at = "connected"
            PROVE  AcksOk(q)'
        <4>1. ~Merges(q)'
          BY <3>1, <3>3 DEF OpenInv, OpenOk, Merges
        <4>. QED BY <1>3, <3>1, <3>2, <4>1 DEF AcksOk
      <3>4. ASSUME NEW q \in Page, page[q].at # "connected"
            PROVE  AcksOk(q)'
        BY <1>4, <3>1, <3>4 DEF Merges
      <3>. QED BY <3>3, <3>4 DEF AcksInv
    <2>. QED BY <1>6, <2>1, <2>2, <2>3, ContributeMoves
  <1>7. CASE UNCHANGED vars
    BY <1>5, <1>7 DEF vars
  <1>8. ASSUME NEW p \in Page, OpenCanvas(p) \/ Work(p) \/ SaveCanvas(p)
        PROVE  AcksInv'
    <2>1. \A q \in Page : page'[q].acks \subseteq page[q].acks
      BY <1>8, TabAcks DEF TypeInv
    <2>2. CASE ~ListPending(p)
      BY <1>4, <1>8, <2>1, <2>2, MergesMoves DEF AcksInv
    <2>3. CASE ListPending(p)
      <3>1. /\ UNCHANGED <<rows, page>> /\ SameOpens(p)
            /\ open'[p].applied = IF open[p].item.payload.slot THEN Pending ELSE {}
            /\ open'[p].pc \in {"merge", "supersede", "answer"}
            /\ open'[p].pc = "merge" <=> open'[p].applied # {}
        BY <2>3, ListPendingDoes DEF Fixed, canvasVars
      <3>2. Merges(p)' => open'[p].applied = Pending
        BY <3>1 DEF Merges
      <3>3. AcksOk(p)'
        BY <1>1, <1>2, <1>3, <3>1, <3>2 DEF AcksInv, AcksOk, Pending, Previous
      <3>4. ASSUME NEW q \in Page, q # p PROVE AcksOk(q)'
        BY <1>4, <3>1, <3>4 DEF SameOpens, Merges
      <3>. QED BY <3>3, <3>4 DEF AcksInv
    <2>. QED BY <2>2, <2>3
  <1>. QED BY <1>6, <1>7, <1>8 DEF Next

-----------------------------------------------------------------------------
(* Records that no tab speaks of.  What a submission holds for a field that the *)
(* owner has written since goes to no live canvas any more.  While no tab       *)
(* acknowledges the record and nobody is about to forget it, it waits for the   *)
(* merge of a tab that opens the canvas, and until then nothing need show it.   *)

\* The records that are marked merged, or are about to be.
Forgotten == {i \in RowIds : \/ rows[i].status = "Merged"
                             \/ \E p \in Page : open[p].pc = "mark" /\ i \in open[p].applied
                             \/ \E p \in Page : save[p].pc = "mark" /\ i \in save[p].pending}

Spoken == Forgotten \cup {i \in RowIds : \E p \in Page : i \in page[p].acks \/ i \in save[p].acks}

Quiet == {x \in RowIds \X Field :
              /\ x[1] \notin Spoken /\ x[2] \in DOMAIN rows[x[1]].values
              /\ rows[x[1]].values[x[2]] < version[x[2]]}

LEMMA QuietAt ==
    /\ \A x : x \in Quiet <=> /\ x \in RowIds \X Field /\ x[1] \notin Spoken
                              /\ x[2] \in DOMAIN rows[x[1]].values /\ rows[x[1]].values[x[2]] < version[x[2]]
    /\ \A x : x \in Quiet' <=> /\ x \in RowIds' \X Field /\ x[1] \notin Spoken'
                               /\ x[2] \in DOMAIN rows'[x[1]].values /\ rows'[x[1]].values[x[2]] < version'[x[2]]
  BY DEF Quiet

\* What a step adds to what the tabs acknowledge, and to what is about to be forgotten.
LEMMA AcksMove ==
    ASSUME TypeInv, FillInv, [Next]_vars, NEW q \in Page
    PROVE  /\ page'[q].acks \subseteq page[q].acks \/ (CommitLive /\ LeasesHold /\ page'[q].acks \subseteq page[q].acks \cup {fill.row})
           /\ save'[q].acks \subseteq save[q].acks \cup page[q].acks
  <1>. USE DEF SameSaves, Fixed
  <1>1. CASE Contribute
    <2>1. (\E F \in SUBSET Field, isLive \in BOOLEAN : SendFill(F, isLive)) \/ ListPrevious => UNCHANGED <<page, save>>
      BY DEF SendFill, ListPrevious
    <2>2. CommitLive /\ ~LeasesHold => UNCHANGED <<page, save>>
      BY CommitMoves
    <2>3. CommitLive /\ LeasesHold => UNCHANGED save /\ page'[q].acks \subseteq page[q].acks \cup {fill.row}
      BY CommitDoes
    <2>. QED BY <1>1, <2>1, <2>2, <2>3, ContributeMoves DEF tabs
  <1>2. ASSUME NEW p \in Page, OpenCanvas(p) \/ Work(p) \/ SaveCanvas(p)
        PROVE  page'[q].acks \subseteq page[q].acks /\ save'[q].acks \subseteq save[q].acks \cup page[q].acks
    <2>0. page'[q].acks \subseteq page[q].acks
      BY <1>2, TabAcks DEF TypeInv
    <2>1. CASE OpenCanvas(p)
      <3>1. CASE Reload(p)
        <4>1. save'[q] = save[q] \/ save'[q].acks = {}
          BY <3>1, ReloadDoes, Blanks
        <4>. QED BY <2>0, <4>1
      <3>2. CASE ~Reload(p)
        <4>1. UNCHANGED save
          BY <2>1, <3>2 DEF OpenCanvas, StartOpen, ListPending, MergePending, MergeUnheard, MarkMerged,
                            MarkSuperseded, AnswerOpen, OpenFails
        <4>. QED BY <2>0, <4>1
      <3>. QED BY <2>0, <3>1, <3>2
    <2>2. CASE Work(p)
      <3>1. CASE Close(p)
        <4>1. save'[q] = save[q] \/ save'[q].acks = {} \/ save'[q].acks = save[q].acks
          BY <3>1, CloseDoes, Blanks
        <4>. QED BY <2>0, <4>1
      <3>2. CASE ~Close(p)
        <4>1. UNCHANGED save
          BY <2>2, <3>2 DEF Work, StartSubscribe, Subscribe, Disconnect, Withdraw, EditField, Edits
        <4>. QED BY <2>0, <4>1
      <3>. QED BY <2>0, <3>1, <3>2
    <2>3. CASE SaveCanvas(p)
      <3>1. CASE StartSave(p) \/ CancelSave(p) \/ BroadcastCanvasSaved(p)
        <4>1. save'[q] = save[q] \/ save'[q] = NoSave \/ save'[q].acks = page[q].acks
          <5>1. CASE StartSave(p)
            BY <5>1, StartSaveDoes
          <5>2. CASE CancelSave(p)
            BY <5>2, CancelSaveDoes
          <5>3. CASE BroadcastCanvasSaved(p)
            BY <5>3, BroadcastDoes
          <5>. QED BY <3>1, <5>1, <5>2, <5>3
        <4>. QED BY <2>0, <4>1, Blanks
      <3>2. CASE ReadPending(p) \/ PendingUnread(p) \/ StoreSave(p) \/ RefuseSave(p) \/ SaveAnyway(p)
        BY <3>2, ReadPendingDoes, StoreSaveDoes, RefuseSaveDoes, SaveAnywayDoes, Blanks
      <3>3. CASE \E acted \in BOOLEAN : SaveFails(p, acted)
        BY <3>3, SaveFailsDoes, Blanks
      <3>4. CASE \E ids \in SUBSET save[p].pending : MarkSaved(p, ids)
        BY <3>4, MarkSavedDoes
      <3>. QED BY <2>0, <2>3, <3>1, <3>2, <3>3, <3>4 DEF SaveCanvas
    <2>. QED BY <1>2, <2>1, <2>2, <2>3
  <1>3. CASE UNCHANGED vars
    BY <1>3 DEF vars
  <1>. QED BY <1>1, <1>2, <1>3 DEF Next

\* A record is forgotten only when it was about to be.
MarksMerged == \A i \in RowIds' : rows'[i].status = "Merged" => i \in Forgotten
LEMMA ForgottenRows ==
    ASSUME TypeInv
    PROVE  /\ Forgotten \in SUBSET RowIds
           /\ UNCHANGED rows => MarksMerged
           /\ (RowsKept /\ NoneMerged) => MarksMerged
           /\ \A ids : (ids \subseteq Forgotten /\ rows' = Marked(ids, "Merged")) => MarksMerged
           /\ \A ids : rows' = Marked(ids, "Superseded") => MarksMerged
           /\ rows' = Append(rows, NewRow) => MarksMerged
  <1>1. UNCHANGED rows => MarksMerged
    BY DEF MarksMerged, Forgotten, RowIds
  <1>2. ASSUME RowsKept, NoneMerged PROVE MarksMerged
    <2>1. RowIds' = RowIds
      BY <1>2 DEF RowsKept, RowIds
    <2>. QED BY <1>2, <2>1 DEF NoneMerged, MarksMerged, Forgotten
  <1>3. ASSUME NEW ids, ids \subseteq Forgotten, rows' = Marked(ids, "Merged") PROVE MarksMerged
    <2>1. /\ RowsKept
          /\ \A i \in RowIds : rows'[i].status = rows[i].status \/ i \in ids
      BY <1>3, MarkedRows DEF Status, TypeInv
    <2>2. RowIds' = RowIds
      BY <2>1 DEF RowsKept, RowIds
    <2>. QED BY <1>3, <2>1, <2>2 DEF MarksMerged, Forgotten
  <1>4. ASSUME NEW ids, rows' = Marked(ids, "Superseded") PROVE MarksMerged
    <2>1. /\ RowsKept
          /\ \A i \in RowIds : rows'[i].status = rows[i].status \/ rows'[i].status = "Superseded"
      BY <1>4, MarkedRows DEF Status, TypeInv
    <2>. QED BY <1>2, <2>1 DEF NoneMerged
  <1>5. ASSUME rows' = Append(rows, NewRow) PROVE MarksMerged
    <2>1. /\ Len(rows') = Len(rows) + 1 /\ \A i \in RowIds : rows'[i] = rows[i]
          /\ rows'[Len(rows) + 1] = NewRow /\ Len(rows) \in Nat
      BY <1>5, AppendedRows, RowsInSeq DEF TypeInv
    <2>2. \A i \in RowIds' : i \in RowIds \/ i = Len(rows) + 1
      BY <2>1 DEF RowIds
    <2>3. NewRow.status # "Merged"
      BY DEF NewRow
    <2>. QED BY <2>1, <2>2, <2>3 DEF MarksMerged, Forgotten
  <1>. QED BY <1>1, <1>2, <1>3, <1>4, <1>5 DEF Forgotten

\* A merge is about to be marked only when it has stored what it merged.
LEMMA MarksMove ==
    ASSUME TypeInv, [Next]_vars, NEW q \in Page, open'[q].pc = "mark"
    PROVE  /\ open'[q].applied = open[q].applied
           /\ open[q].pc = "mark" \/ (MergePending(q) /\ Stores(open[q].merged))
  <1>. USE DEF SameOpens, Fixed
  <1>1. CASE UNCHANGED open
    BY <1>1
  <1>2. CASE Contribute
    <2>1. UNCHANGED open
      BY <1>2, ContributeMoves DEF tabs, SendFill, ListPrevious, CommitLive
    <2>. QED BY <1>1, <2>1
  <1>3. ASSUME NEW p \in Page, Work(p) \/ SaveCanvas(p) PROVE UNCHANGED open
    <2>1. CASE Work(p)
      BY <2>1 DEF Work, StartSubscribe, Subscribe, Disconnect, Close, Withdraw, EditField, Edits
    <2>2. CASE SaveCanvas(p)
      BY <2>2 DEF SaveCanvas, StartSave, ReadPending, PendingUnread, StoreSave, RefuseSave, SaveAnyway, CancelSave,
                  BroadcastCanvasSaved, SaveFails, MarkSaved
    <2>. QED BY <1>3, <2>1, <2>2
  <1>4. ASSUME NEW p \in Page, OpenCanvas(p)
        PROVE  /\ open'[q].applied = open[q].applied
               /\ open[q].pc = "mark" \/ (MergePending(q) /\ Stores(open[q].merged))
    <2>1. CASE StartOpen(p) \/ ListPending(p)
      BY <2>1, StartOpenDoes, ListPendingDoes
    <2>2. CASE Reload(p) \/ AnswerOpen(p)
      BY <2>2, ReloadDoes, AnswerOpenDoes, Blanks
    <2>3. CASE MergePending(p)
      <3>1. CASE q = p
        <4>1. open'[p].applied = open[p].applied /\ stored' # stored
          BY <2>3, <3>1, MergeDoes
        <4>2. Stores(open[p].merged)
          BY <2>3, <4>1, MergeDoes
        <4>. QED BY <2>3, <3>1, <4>1, <4>2
      <3>. QED BY <2>3, <3>1, MergeDoes
    <2>4. CASE MergeUnheard(p)
      <3>1. open'[p].pc = "answer"
        BY <2>4, GivesDoes DEF MergeUnheard
      <3>. QED BY <2>4, <3>1, MergeDoes
    <2>5. CASE \E ids \in SUBSET open[p].applied : MarkMerged(p, ids)
      BY <2>5, MarkMergedDoes
    <2>6. CASE MarkSuperseded(p)
      BY <2>6, MarkSupersededDoes
    <2>7. CASE \E acted \in BOOLEAN : OpenFails(p, acted)
      BY <2>7, OpenFailsDoes
    <2>. QED BY <1>4, <2>1, <2>2, <2>3, <2>4, <2>5, <2>6, <2>7 DEF OpenCanvas
  <1>5. CASE UNCHANGED vars
    BY <1>1, <1>5 DEF vars
  <1>. QED BY <1>1, <1>2, <1>3, <1>4, <1>5 DEF Next

\* A record is marked merged only when somebody was about to.
LEMMA MergedMove ==
    ASSUME TypeInv, [Next]_vars
    PROVE  MarksMerged
  <1>1. CASE Contribute
    <2>1. (\E F \in SUBSET Field, isLive \in BOOLEAN : SendFill(F, isLive)) \/ ListPrevious \/ CommitLive => UNCHANGED rows
      BY DEF SendFill, ListPrevious, CommitLive
    <2>. QED BY <1>1, <2>1, ContributeMoves, ForgottenRows
  <1>2. ASSUME NEW p \in Page, OpenCanvas(p) PROVE MarksMerged
    <2>0. open[p].pc = "mark" => open[p].applied \subseteq Forgotten
      BY DEF Forgotten, TypeInv, TypeOK, Opens
    <2>1. CASE \E ids \in SUBSET open[p].applied : MarkMerged(p, ids)
      BY <2>0, <2>1, MarkMergedDoes, ForgottenRows
    <2>2. CASE MarkSuperseded(p)
      BY <2>2, MarkSupersededDoes, ForgottenRows
    <2>3. CASE \E acted \in BOOLEAN : OpenFails(p, acted)
      BY <2>0, <2>3, OpenFailsDoes, ForgottenRows
    <2>4. CASE StartOpen(p) \/ Reload(p) \/ ListPending(p) \/ MergePending(p) \/ MergeUnheard(p) \/ AnswerOpen(p)
      <3>1. UNCHANGED rows
        BY <2>4 DEF StartOpen, Reload, ListPending, MergePending, MergeUnheard, AnswerOpen
      <3>. QED BY <3>1, ForgottenRows
    <2>. QED BY <1>2, <2>1, <2>2, <2>3, <2>4 DEF OpenCanvas
  <1>3. ASSUME NEW p \in Page, Work(p) PROVE UNCHANGED rows
    BY <1>3 DEF Work, StartSubscribe, Subscribe, Disconnect, Close, Withdraw, EditField, Edits
  <1>4. ASSUME NEW p \in Page, SaveCanvas(p) PROVE MarksMerged
    <2>1. CASE \E ids \in SUBSET save[p].pending : MarkSaved(p, ids)
      <3>1. save[p].pc = "mark" => save[p].pending \subseteq Forgotten
        BY DEF Forgotten, TypeInv, TypeOK, Saves
      <3>. QED BY <2>1, <3>1, MarkSavedDoes, ForgottenRows
    <2>2. CASE ~\E ids \in SUBSET save[p].pending : MarkSaved(p, ids)
      <3>1. UNCHANGED rows
        BY <1>4, <2>2 DEF SaveCanvas, StartSave, ReadPending, PendingUnread, StoreSave, RefuseSave, SaveAnyway,
                          CancelSave, BroadcastCanvasSaved, SaveFails
      <3>. QED BY <3>1, ForgottenRows
    <2>. QED BY <2>1, <2>2
  <1>5. CASE UNCHANGED vars
    BY <1>5, ForgottenRows DEF vars
  <1>. QED BY <1>1, <1>2, <1>3, <1>4, <1>5, ForgottenRows DEF Next

\* A record comes to be spoken of by its live commit, or by the merge that stores it.
LEMMA SpokenMoves ==
    ASSUME TypeInv, FillInv, [Next]_vars, NEW i \in RowIds, i \in Spoken'
    PROVE  \/ i \in Spoken
           \/ CommitLive /\ LeasesHold /\ i = fill.row
           \/ \E p \in Page : MergePending(p) /\ Stores(open[p].merged) /\ i \in open[p].applied
  <1>1. CASE i \in RowIds' /\ rows'[i].status = "Merged"
    BY <1>1, MergedMove DEF MarksMerged, Spoken
  <1>2. ASSUME NEW q \in Page, open'[q].pc = "mark", i \in open'[q].applied
        PROVE  \/ i \in Spoken
               \/ \E p \in Page : MergePending(p) /\ Stores(open[p].merged) /\ i \in open[p].applied
    BY <1>2, MarksMove DEF Spoken, Forgotten
  <1>3. ASSUME NEW q \in Page, i \in save'[q].acks
        PROVE  i \in Spoken
    BY <1>3, AcksMove DEF Spoken
  <1>4. ASSUME NEW q \in Page, i \in page'[q].acks
        PROVE  i \in Spoken \/ (CommitLive /\ LeasesHold /\ i = fill.row)
    BY <1>4, AcksMove DEF Spoken
  <1>5. ASSUME NEW q \in Page, save'[q].pc = "mark", i \in save'[q].pending
        PROVE  i \in Spoken
    <2>1. i \in save'[q].acks
      BY <1>5, NextType DEF TypeInv, TypeOK
    <2>. QED BY <1>3, <2>1
  <1>. QED BY <1>1, <1>2, <1>3, <1>4, <1>5 DEF Spoken, Forgotten

\* What is quiet stays so, until it is merged: the leases on its field are gone.
LEMMA QuietMoves ==
    ASSUME TypeInv, EntriesInv, FillInv, [Next]_vars, NEW x \in Quiet
    PROVE  x \in Quiet' \/ \E p \in Page : MergePending(p) /\ Stores(open[p].merged) /\ x[1] \in open[p].applied
  <1>1. EntriesKept /\ TypeOK'
    BY StepKeeps, NextType DEF TypeInv
  <1>2. PICK i \in RowIds, f \in Field : x[1] = i /\ x[2] = f /\ x = <<i, f>>
    BY QuietAt
  <1>3. i \notin Spoken /\ f \in DOMAIN rows[i].values /\ rows[i].values[f] < version[f]
    BY <1>2, QuietAt
  <1>4. i \in RowIds' /\ rows'[i].values = rows[i].values /\ version[f] <= version'[f]
    BY <1>1, <1>2 DEF EntriesKept
  <1>5. version[f] \in Nat /\ version'[f] \in Nat /\ rows[i].values[f] \in Nat
    BY <1>1, <1>3, Numbers DEF TypeInv, TypeOK
  <1>6. ~(CommitLive /\ LeasesHold /\ i = fill.row)
    <2>. SUFFICES ASSUME CommitLive, LeasesHold, i = fill.row PROVE FALSE
      OBVIOUS
    <2>1. fill.pc = "commit" /\ rows[i].values = fill.values
      BY CommitMoves DEF FillInv, Created
    <2>2. version[f] = fill.base[f] /\ fill.base[f] < fill.values[f]
      BY <1>3, <2>1 DEF LeasesHold, FillInv, TypeInv, TypeOK
    <2>. QED BY <1>3, <1>5, <2>1, <2>2
  <1>7. i \in Spoken' => \E p \in Page : MergePending(p) /\ Stores(open[p].merged) /\ i \in open[p].applied
    BY <1>3, <1>6, SpokenMoves
  <1>8. i \notin Spoken' => x \in Quiet'
    BY <1>2, <1>3, <1>4, <1>5, QuietAt
  <1>. QED BY <1>2, <1>7, <1>8

\* Nobody speaks of a new record.
LEMMA NewUnspoken ==
    ASSUME TypeInv, UNCHANGED tabs, Len(rows) + 1 \notin RowIds, rows'[Len(rows) + 1] = NewRow
    PROVE  Len(rows) + 1 \notin Spoken'
  <1>1. \A q \in Page : /\ page'[q].acks \subseteq RowIds /\ save'[q].acks \subseteq RowIds
                        /\ save'[q].pending \subseteq RowIds /\ open'[q].applied \subseteq RowIds
    BY DEF tabs, TypeInv, TypeOK, Pages, Saves, Opens
  <1>2. rows'[Len(rows) + 1].status # "Merged"
    BY DEF NewRow
  <1>. QED BY <1>1, <1>2 DEF Spoken, Forgotten

QuietKept == \A x \in Quiet : x \in Quiet'

\* What a step does to what payloads lack: a payload comes to lack only a new row,
\* which all payloads lack, or a quiet
\* one, and what is quiet stays so until it is merged.
Steady ==
    /\ missed \subseteq missed'
    /\ \A P \in Payload : \A x \in Lacks(P)' : x[1] \in RowIds => x \in Lacks(P)
    /\ \A P, Q \in Payload : \A x \in Lacks(P)' : x \in Lacks(Q) => x \in Lacks(Q)'
    /\ \A P, Q \in Payload : Early(Q) => \A x \in Lacks(P)' : x[1] \notin RowIds => x \in Lacks(Q)' \/ x \in Quiet'
    /\ stored' = stored => QuietKept
    /\ QuietKept \/ \E p \in Page : MergePending(p)
    /\ \A x \in Quiet : x \in Quiet' \/ x \notin Lacks(stored.payload)'

LEMMA StepSteady ==
    ASSUME TypeInv, EntriesInv, FillInv, OpenInv, [Next]_vars
    PROVE  Steady
  <1>. USE DEF TypeInv
  <1>1. EntriesKept /\ TypeOK'
    BY StepKeeps, NextType
  <1>2. missed \subseteq missed'
    BY <1>1 DEF EntriesKept
  <1>4. \A i \in RowIds : rows'[i].values = rows[i].values
    BY <1>1 DEF EntriesKept
  <1>5. \A f \in Field : version[f] <= version'[f] /\ version[f] \in Nat /\ version'[f] \in Nat
    BY <1>1, Numbers DEF EntriesKept, TypeOK
  <1>6. ASSUME NEW P \in Payload, NEW x \in Lacks(P)', x[1] \in RowIds
        PROVE  x \in Lacks(P)
    <2>1. x \in RowIds \X Field /\ Behind(P, x[1], x[2])'
      BY <1>6, LacksAt
    <2>2. /\ x[2] \in DOMAIN rows[x[1]].values
          /\ P.value[x[2]] < rows[x[1]].values[x[2]]
      BY <1>4, <2>1 DEF Behind
    <2>3. rows[x[1]].values[x[2]] \in Nat
      BY <2>1, <2>2, Numbers
    <2>4. Behind(P, x[1], x[2])
      BY <1>5, <2>1, <2>2, <2>3 DEF Behind
    <2>. QED BY <2>1, <2>4, LacksAt
  <1>7. ASSUME NEW P \in Payload, NEW Q \in Payload, NEW x \in Lacks(P)', x \in Lacks(Q)
        PROVE  x \in Lacks(Q)'
    <2>1. x \in RowIds \X Field /\ x \in RowIds' \X Field /\ Behind(P, x[1], x[2])' /\ Behind(Q, x[1], x[2])
      BY <1>7, LacksAt
    <2>2. Behind(Q, x[1], x[2])'
      BY <1>4, <2>1 DEF Behind
    <2>. QED BY <2>1, <2>2, LacksAt
  <1>8. ASSUME NEW P \in Payload, NEW Q \in Payload, Early(Q), NEW x \in Lacks(P)', x[1] \notin RowIds
        PROVE  x \in Lacks(Q)' \/ x \in Quiet'
    <2>1. x \in RowIds' \X Field /\ Behind(P, x[1], x[2])'
      BY LacksAt
    <2>2. /\ fill.pc = "create" /\ UNCHANGED version /\ rows'[x[1]] = NewRow
      BY <1>1, <1>8, <2>1 DEF EntriesKept
    <2>3. rows'[x[1]].values = fill.values
      BY <2>2 DEF NewRow
    <2>4. x[2] \in DOMAIN fill.values /\ x[2] \in Field
      BY <2>1, <2>2, <2>3 DEF Behind
    <2>5. version[x[2]] # fill.values[x[2]] /\ version[x[2]] \in Nat /\ fill.values[x[2]] \in Nat
      BY <2>2, <2>4, Numbers DEF FillInv
    <2>6. CASE version[x[2]] < fill.values[x[2]]
      <3>1. Q.value[x[2]] < fill.values[x[2]]
        BY <1>8, <2>2, <2>4, <2>6 DEF Early, Sends
      <3>2. Behind(Q, x[1], x[2])'
        BY <2>1, <2>3, <3>1 DEF Behind
      <3>. QED BY <2>1, <3>2, LacksAt
    <2>7. CASE fill.values[x[2]] < version[x[2]]
      <3>1. x[1] \notin Spoken'
        <4>1. x[1] \in RowIds' /\ RowIds' # RowIds
          BY <1>8, <2>1
        <4>2. /\ x[1] = Len(rows) + 1 /\ UNCHANGED tabs /\ Len(rows) + 1 \notin RowIds
              /\ rows'[Len(rows) + 1] = NewRow
          BY <1>1, <1>8, <4>1 DEF EntriesKept
        <4>. QED BY <4>2, NewUnspoken
      <3>. QED BY <2>1, <2>2, <2>3, <2>4, <2>7, <3>1, QuietAt
    <2>. QED BY <2>5, <2>6, <2>7
  <1>9. \A x \in Quiet : x \in Quiet' \/ \E p \in Page : MergePending(p) /\ Stores(open[p].merged) /\ x[1] \in open[p].applied
    BY QuietMoves
  <1>10. stored' = stored => QuietKept
    <2>1. \A p \in Page : Stores(open[p].merged) => stored' # stored
      BY Numbers DEF Stores
    <2>. QED BY <1>9, <2>1 DEF QuietKept
  <1>11. QuietKept \/ \E p \in Page : MergePending(p)
    BY <1>9 DEF QuietKept
  <1>12. ASSUME NEW x \in Quiet, x \notin Quiet' PROVE x \notin Lacks(stored.payload)'
    <2>1. PICK p \in Page : MergePending(p) /\ Stores(open[p].merged) /\ x[1] \in open[p].applied
      BY <1>9, <1>12
    <2>2. Holds(open[p].merged, open[p].applied) /\ UNCHANGED rows
      BY <2>1, MergeDoes DEF OpenInv, OpenOk
    <2>3. PICK i \in RowIds, f \in Field : x[1] = i /\ x[2] = f
      BY QuietAt, <1>12
    <2>4. f \in DOMAIN rows[i].values
      BY <1>12, <2>3, QuietAt
    <2>5. rows[i].values[f] <= open[p].merged.value[f]
      BY <2>1, <2>2, <2>3, <2>4 DEF Holds
    <2>6. open[p].merged.value[f] \in Nat /\ rows[i].values[f] \in Nat
      BY <2>4, Numbers, Payloads
    <2>7. stored'.payload = open[p].merged
      BY <2>1 DEF Stores
    <2>8. ~Behind(stored.payload, x[1], x[2])'
      BY <2>2, <2>3, <2>5, <2>6, <2>7 DEF Behind
    <2>. QED BY <2>8, LacksAt
  <1>. QED BY <1>2, <1>6, <1>7, <1>8, <1>10, <1>11, <1>12 DEF Steady

-----------------------------------------------------------------------------
(* What payloads show.  P lacks nothing that Q has, or nothing of the records   *)
(* ids, but for what is noted as missed or need not show.                       *)

Shows(P, Q) == \A x \in Lacks(P) : x \in Lacks(Q) \/ x \in missed \/ x \in Quiet
ShowsAll(P, ids) == \A x \in Lacks(P) : x[1] \in ids => x \in missed \/ x \in Quiet
ShowsBut(P, ids, Q) == \A x \in Lacks(P) : x[1] \in ids => x \in Lacks(Q) \/ x \in missed \/ x \in Quiet

LEMMA ShowsLogic ==
    /\ \A P : Shows(P, P)
    /\ \A P, Q, R : Shows(P, Q) /\ Shows(Q, R) => Shows(P, R)
    /\ \A P, Q, ids : Shows(P, Q) /\ ShowsAll(Q, ids) => ShowsAll(P, ids)
    /\ \A P, ids, all : ShowsAll(P, all) /\ ids \subseteq all => ShowsAll(P, ids)
    /\ \A P, Q, R, ids, all : Shows(P, Q) /\ ShowsBut(Q, all, R) /\ ids \subseteq all => ShowsBut(P, ids, R)
    /\ \A P, Q, ids : ShowsBut(P, ids, Q) /\ ShowsAll(Q, ids) => ShowsAll(P, ids)
    /\ \A P, Q, ids : ShowsAll(P, ids) => ShowsBut(P, ids, Q)
    /\ \A P, ids : ShowsBut(P, ids, P) /\ ShowsAll(P, {})
  BY DEF Shows, ShowsAll, ShowsBut

\* A payload that holds records shows them.
LEMMA HoldsShows ==
    ASSUME TypeInv, NEW V \in Payload, NEW I, Holds(V, I)
    PROVE  ShowsAll(V, I) /\ \A x \in Lacks(V) : x[1] \notin I
  <1>. SUFFICES ASSUME NEW x \in Lacks(V) PROVE x[1] \notin I
    BY DEF ShowsAll
  <1>1. x \in RowIds \X Field /\ Behind(V, x[1], x[2])
    BY LacksAt
  <1>2. PICK i \in RowIds, f \in Field : x[1] = i /\ x[2] = f
    BY <1>1
  <1>3. f \in DOMAIN rows[i].values /\ V.value[f] < rows[i].values[f]
    BY <1>1, <1>2 DEF Behind
  <1>4. V.value[f] \in Nat /\ rows[i].values[f] \in Nat
    BY <1>3, Numbers DEF TypeInv
  <1>5. i \in I => rows[i].values[f] <= V.value[f]
    BY <1>3 DEF Holds
  <1>. QED BY <1>2, <1>3, <1>4, <1>5

LEMMA HoldsShown ==
    ASSUME TypeInv, UNCHANGED rows, NEW V \in Payload, NEW I, Holds(V, I)
    PROVE  ShowsAll(V, I)'
  <1>1. \A x \in Lacks(V) : x[1] \notin I
    BY HoldsShows
  <1>2. \A x \in Lacks(V)' : x \in Lacks(V)
    BY LacksAt, NoRowsChange DEF Behind
  <1>. QED BY <1>1, <1>2 DEF ShowsAll

LEMMA ShowsLogicNext ==
    /\ \A P : Shows(P, P)'
    /\ \A P, Q, R : Shows(P, Q)' /\ Shows(Q, R)' => Shows(P, R)'
    /\ \A P, Q, ids : Shows(P, Q)' /\ ShowsAll(Q, ids)' => ShowsAll(P, ids)'
    /\ \A P, ids, all : ShowsAll(P, all)' /\ ids \subseteq all => ShowsAll(P, ids)'
    /\ \A P, Q, R, ids, all : Shows(P, Q)' /\ ShowsBut(Q, all, R)' /\ ids \subseteq all => ShowsBut(P, ids, R)'
    /\ \A P, Q, ids : ShowsBut(P, ids, Q)' /\ ShowsAll(Q, ids)' => ShowsAll(P, ids)'
    /\ \A P, Q, ids : ShowsAll(P, ids)' => ShowsBut(P, ids, Q)'
    /\ \A P, ids : ShowsBut(P, ids, P)' /\ ShowsAll(P, {})'
  BY DEF Shows, ShowsAll, ShowsBut

\* What a payload shows, it goes on to show.
LEMMA ShowsKept ==
    ASSUME Steady, NEW P \in Payload, NEW Q \in Payload
    PROVE  /\ Shows(P, Q) /\ Early(Q) /\ (QuietKept \/ UNCHANGED stored) => Shows(P, Q)'
           /\ \A ids \in SUBSET Spoken : ShowsAll(P, ids) => ShowsAll(P, ids)'
           /\ \A ids \in SUBSET Spoken : ShowsBut(P, ids, Q) => ShowsBut(P, ids, Q)'
  <1>0. Spoken \subseteq RowIds /\ \A x \in Quiet : x[1] \notin Spoken
    BY QuietAt DEF Spoken, Forgotten
  <1>1. ASSUME Shows(P, Q), Early(Q), QuietKept, NEW x \in Lacks(P)'
        PROVE  (x \in Lacks(Q) \/ x \in missed \/ x \in Quiet)'
    <2>1. CASE x[1] \in RowIds
      <3>1. x \in Lacks(P)
        BY <2>1, <1>1 DEF Steady
      <3>2. x \in Lacks(Q) \/ x \in missed \/ x \in Quiet
        BY <1>1, <3>1 DEF Shows
      <3>. QED BY <1>1, <3>2 DEF Steady, QuietKept
    <2>2. CASE x[1] \notin RowIds
      BY <1>1, <2>2 DEF Steady
    <2>. QED BY <2>1, <2>2
  <1>2. ASSUME NEW ids \in SUBSET Spoken, ShowsAll(P, ids), NEW x \in Lacks(P)', x[1] \in ids
        PROVE  x \in missed'
    <2>1. x \in Lacks(P)
      BY <1>0, <1>2 DEF Steady
    <2>. QED BY <1>0, <1>2, <2>1 DEF Steady, ShowsAll
  <1>3. ASSUME NEW ids \in SUBSET Spoken, ShowsBut(P, ids, Q), NEW x \in Lacks(P)', x[1] \in ids
        PROVE  (x \in Lacks(Q) \/ x \in missed)'
    <2>1. x \in Lacks(P)
      BY <1>0, <1>3 DEF Steady
    <2>2. x \in Lacks(Q) \/ x \in missed
      BY <1>0, <1>3, <2>1 DEF ShowsBut
    <2>. QED BY <1>3, <2>2 DEF Steady
  <1>4. Shows(P, Q) /\ Early(Q) /\ QuietKept => Shows(P, Q)'
    BY <1>1 DEF Shows
  <1>5. \A ids \in SUBSET Spoken : ShowsAll(P, ids) => ShowsAll(P, ids)'
    BY <1>2 DEF ShowsAll
  <1>6. \A ids \in SUBSET Spoken : ShowsBut(P, ids, Q) => ShowsBut(P, ids, Q)'
    BY <1>3 DEF ShowsBut
  <1>7. UNCHANGED stored => QuietKept
    BY DEF Steady
  <1>. QED BY <1>4, <1>5, <1>6, <1>7

\* What a step notes as missed, and a tab that has the current version lacks.
LEMMA MissesShows ==
    ASSUME Steady, UNCHANGED rows, NEW P \in Payload, NEW Q \in Payload, NEW lost, Misses(lost),
           Lacks(P) \ Lacks(Q) \subseteq lost
    PROVE  Shows(P, Q)'
  <1>1. lost \subseteq missed' /\ RowIds' = RowIds
    BY MissesMore, NoRowsChange
  <1>. SUFFICES ASSUME NEW x \in Lacks(P)' PROVE (x \in Lacks(Q) \/ x \in missed)'
    BY DEF Shows
  <1>2. x[1] \in RowIds
    BY <1>1, LacksAt
  <1>3. x \in Lacks(P)
    BY <1>2 DEF Steady
  <1>. QED BY <1>1, <1>3 DEF Steady

LEMMA MissesAll ==
    ASSUME Steady, UNCHANGED rows, NEW P \in Payload, NEW lost, Misses(lost), Lacks(P) \subseteq lost
    PROVE  \A x \in Lacks(P)' : x \in missed'
  <1>1. lost \subseteq missed' /\ RowIds' = RowIds
    BY MissesMore, NoRowsChange
  <1>. SUFFICES ASSUME NEW x \in Lacks(P)' PROVE x \in missed'
    OBVIOUS
  <1>2. x[1] \in RowIds
    BY <1>1, LacksAt
  <1>3. x \in Lacks(P)
    BY <1>2 DEF Steady
  <1>. QED BY <1>1, <1>3

LEMMA MissesBlind ==
    ASSUME NEW lost, Misses(lost), NEW q \in Page, page'[q].expected = stored'.version
    PROVE  Shows(page[q].view, stored.payload)'
  <1>1. Blind(q)' \subseteq missed'
    BY DEF Misses
  <1>2. Blind(q)' = (Lacks(page[q].view) \ Lacks(stored.payload))'
    BY DEF Blind
  <1>3. (Lacks(page[q].view) \ Lacks(stored.payload))' = Lacks(page[q].view)' \ Lacks(stored.payload)'
    OBVIOUS
  <1>. QED BY <1>1, <1>2, <1>3 DEF Shows

-----------------------------------------------------------------------------
(* What the tabs, the live canvas and the saved one show.  A tab that is told   *)
(* of the current version shows all that the saved canvas has, and all that it  *)
(* acknowledges and that waits; so does the payload of its save.                *)

BaseInv == TypeInv /\ EntriesInv /\ FillInv /\ EarlyInv /\ VersionsInv /\ OpenInv /\ AcksInv

\* The acknowledgements of a tab that wait.
Waits(p) == page[p].acks \cap Previous

PageOk(p) ==
    /\ ShowsAll(live, page[p].acks)
    /\ ~dirty => ShowsAll(stored.payload, page[p].acks)
    /\ page[p].at = "connected" => ShowsAll(page[p].view, page[p].acks)
    /\ page[p].expected = stored.version => Shows(page[p].view, stored.payload)
    /\ (page[p].at # "closed" /\ page[p].expected = stored.version) => ShowsAll(page[p].view, Waits(p))

SaveOk(p) ==
    /\ save[p].pc \in {"idle", "pending"} => save[p].pending = {}
    /\ (save[p].pc \in {"pending", "store"} /\ save[p].expected = stored.version) =>
           Shows(save[p].payload, stored.payload)
    /\ save[p].pc \in {"mark", "broadcast"} => Shows(stored.payload, save[p].payload)
    /\ (save[p].pc = "pending" /\ save[p].expected = stored.version) =>
           ShowsAll(save[p].payload, save[p].acks \cap Previous)
    /\ (save[p].pc = "store" /\ save[p].expected = stored.version) =>
           ShowsAll(save[p].payload, save[p].pending)

\* A save whose tab is there to hear of it: the tab shows what it acknowledges but
\* for what its payload lacks too, unless it was told of another version since.
HereOk(p) ==
    (save[p].pc # "idle" /\ save[p].here) =>
        /\ page[p].at # "closed"
        /\ save[p].pc \in {"mark", "broadcast"} => ShowsAll(page[p].view, Waits(p))
        /\ save[p].pc \in {"pending", "store", "conflict"} =>
             /\ ShowsBut(page[p].view, Waits(p), save[p].payload)
             /\ ShowsAll(page[p].view, Waits(p)) \/ save[p].expected \in {None, page[p].expected}

ShownInv ==
    /\ \A p \in Page : PageOk(p) /\ SaveOk(p) /\ HereOk(p)
    /\ ShowsAll(stored.payload, Forgotten)

\* What a step starts from.
LEMMA SpokenRows ==
    ASSUME TypeInv
    PROVE  /\ Spoken \in SUBSET RowIds /\ Forgotten \in SUBSET Spoken
           /\ \A p \in Page :
                  /\ page[p].acks \in SUBSET Spoken /\ Waits(p) \in SUBSET Spoken
                  /\ save[p].acks \in SUBSET Spoken /\ save[p].pending \in SUBSET Spoken
                  /\ (save[p].acks \cap Previous) \in SUBSET Spoken
  <1>1. \A p \in Page : page[p].acks \in SUBSET RowIds /\ save[p].acks \in SUBSET RowIds
                        /\ save[p].pending \subseteq save[p].acks
    BY DEF TypeInv, TypeOK, Pages, Saves
  <1>. QED BY <1>1 DEF Spoken, Forgotten, Waits

LEMMA Start ==
    ASSUME BaseInv, [Next]_vars
    PROVE  /\ Steady /\ Raises /\ TypeInv' /\ VersionsInv' /\ OpenInv' /\ AcksInv'
           /\ \A i \in RowIds : i \in Previous' => i \in Previous
           /\ Spoken \subseteq RowIds
  BY StepSteady, VersionsStep, NextType, OpenStep, AcksStep, WaitsStep, SpokenRows DEF BaseInv

LEMMA Ours ==
    ASSUME BaseInv
    PROVE  /\ stored.payload \in Payload /\ Early(stored.payload) /\ live \in Payload /\ Early(live)
           /\ \A p \in Page :
                  /\ page[p].view \in Payload /\ Early(page[p].view)
                  /\ page[p].read \in Payload /\ Early(page[p].read)
                  /\ open[p].item.payload \in Payload /\ Early(open[p].item.payload)
                  /\ open[p].merged \in Payload /\ Early(open[p].merged)
                  /\ save[p].payload \in Payload /\ Early(save[p].payload)
                  /\ page[p].acks \in SUBSET RowIds /\ save[p].acks \in SUBSET RowIds
                  /\ save[p].pending \in SUBSET RowIds /\ open[p].applied \in SUBSET RowIds
                  /\ Waits(p) \in SUBSET RowIds
                  /\ page[p].acks \in SUBSET Spoken /\ Waits(p) \in SUBSET Spoken
                  /\ save[p].acks \in SUBSET Spoken /\ save[p].pending \in SUBSET Spoken
                  /\ (save[p].acks \cap Previous) \in SUBSET Spoken
  <1>1. \A p \in Page : /\ page[p].acks \in SUBSET RowIds /\ save[p].acks \in SUBSET RowIds
                        /\ save[p].pending \in SUBSET RowIds /\ open[p].applied \in SUBSET RowIds
    BY DEF BaseInv, TypeInv, TypeOK, Pages, Saves, Opens
  <1>2. \A p \in Page : Waits(p) \in SUBSET RowIds
    BY <1>1 DEF Waits
  <1>. QED BY <1>1, <1>2, Payloads, SpokenRows DEF BaseInv, TypeInv, EarlyInv

LEMMA StoredMoves ==
    ASSUME TypeInv, [Next]_vars
    PROVE  \/ UNCHANGED stored
           \/ \E p \in Page : \/ MergePending(p) \/ MergeUnheard(p) \/ StoreSave(p)
                              \/ \E acted \in BOOLEAN : SaveFails(p, acted)
  <1>. USE DEF canvasVars
  <1>1. CASE Contribute
    <2>1. (\E F \in SUBSET Field, isLive \in BOOLEAN : SendFill(F, isLive)) \/ ListPrevious \/ CommitLive => UNCHANGED stored
      BY DEF SendFill, ListPrevious, CommitLive
    <2>. QED BY <1>1, <2>1, ContributeMoves DEF tabs
  <1>2. ASSUME NEW p \in Page, OpenCanvas(p) PROVE UNCHANGED stored \/ MergePending(p) \/ MergeUnheard(p)
    BY <1>2 DEF OpenCanvas, StartOpen, Reload, ListPending, MarkMerged, MarkSuperseded, AnswerOpen, OpenFails
  <1>3. ASSUME NEW p \in Page, Work(p) PROVE UNCHANGED stored
    BY <1>3 DEF Work, StartSubscribe, Subscribe, Disconnect, Close, Withdraw, EditField, Edits
  <1>4. ASSUME NEW p \in Page, SaveCanvas(p)
        PROVE UNCHANGED stored \/ StoreSave(p) \/ \E acted \in BOOLEAN : SaveFails(p, acted)
    BY <1>4 DEF SaveCanvas, StartSave, ReadPending, PendingUnread, RefuseSave, SaveAnyway, CancelSave,
                BroadcastCanvasSaved, MarkSaved
  <1>5. CASE UNCHANGED vars
    BY <1>5 DEF vars
  <1>. QED BY <1>1, <1>2, <1>3, <1>4, <1>5 DEF Next

LEMMA SaveEnds ==
    ASSUME TypeInv, NEW p \in Page, StoreSave(p) \/ \E acted \in BOOLEAN : SaveFails(p, acted)
    PROVE  save'[p] # save[p]
  <1>1. save[p].pc = "store" /\ save'[p].pc # "store"
    BY StoreSaveDoes, SaveFailsDoes, Blanks
  <1>. QED BY <1>1

\* The canvas that is stored shows what the one before it showed.
LEMMA ShowsOver ==
    ASSUME Steady, NEW S \in Payload, NEW P \in Payload, S = stored.payload, Early(P), Shows(S, P),
           Shows(stored.payload, S)'
    PROVE  Shows(stored.payload, P)'
  <1>. SUFFICES ASSUME NEW x \in Lacks(stored.payload)', x \notin Quiet'
                PROVE  x \in Lacks(P)' \/ x \in missed'
    BY DEF Shows
  <1>1. x \in Lacks(S)' \/ x \in missed'
    BY DEF Shows
  <1>2. CASE x \in Lacks(S)' /\ x[1] \in RowIds
    <2>1. x \in Lacks(S) /\ x \notin Quiet
      BY <1>2 DEF Steady
    <2>2. x \in Lacks(P) \/ x \in missed
      BY <2>1 DEF Shows
    <2>. QED BY <1>2, <2>2 DEF Steady
  <1>3. CASE x \in Lacks(S)' /\ x[1] \notin RowIds
    BY <1>3 DEF Steady
  <1>. QED BY <1>1, <1>2, <1>3

\* What a save puts in the place of the saved canvas lacks nothing that was there.
LEMMA SaveShows ==
    ASSUME BaseInv, ShownInv, [Next]_vars, NEW p \in Page, UNCHANGED rows, save[p].pc = "store",
           save'[p] # save[p], save[p].expected \in {None, stored.version}, Misses(SavedOver(p)),
           NEW P, P = save[p].payload
    PROVE  /\ \A S : S = stored.payload => Shows(P, S)'
           /\ \A ids : ids = save[p].pending => ShowsAll(P, ids)'
           /\ \A ids : save[p].expected = None => ShowsAll(P, ids)'
  <1>1. Steady /\ P \in Payload /\ stored.payload \in Payload /\ Early(stored.payload)
        /\ save[p].pending \in SUBSET Spoken
    BY Start, Ours
  <1>2. CASE save[p].expected = None
    <2>1. Lacks(P) \subseteq SavedOver(p)
      BY <1>2 DEF SavedOver
    <2>2. \A x \in Lacks(P)' : x \in missed'
      BY <1>1, <2>1, MissesAll
    <2>. QED BY <2>2 DEF Shows, ShowsAll
  <1>3. CASE save[p].expected # None
    <2>1. Shows(P, stored.payload) /\ ShowsAll(P, save[p].pending)
      BY <1>3 DEF ShownInv, SaveOk
    <2>2. \A q \in Page : MergePending(q) => UNCHANGED save
      BY DEF MergePending
    <2>3. QuietKept
      BY <1>1, <2>2 DEF Steady
    <2>. QED BY <1>1, <1>3, <2>1, <2>3, ShowsKept
  <1>. QED BY <1>2, <1>3

LEMMA StoredShows ==
    ASSUME BaseInv, ShownInv, [Next]_vars, NEW S, S = stored.payload
    PROVE  Shows(stored.payload, S)'
  <1>1. Steady /\ S \in Payload
    BY Start, Ours
  <1>2. CASE UNCHANGED stored
    BY <1>2, ShowsLogicNext
  <1>3. ASSUME NEW p \in Page, MergePending(p) \/ MergeUnheard(p), stored' # stored
        PROVE  Shows(stored.payload, S)'
    <2>1. UNCHANGED rows /\ Misses(MergedOver(p)) /\ stored.version = open[p].item.version /\ Stores(open[p].merged)
      BY <1>3, MergeDoes DEF BaseInv
    <2>2. MergedOver(p) = Lacks(open[p].merged) \ Lacks(S)
      BY <2>1 DEF MergedOver
    <2>3. PICK M : M = open[p].merged
      OBVIOUS
    <2>4. Shows(M, S)'
      BY <1>1, <2>1, <2>2, <2>3, Ours, MissesShows
    <2>. QED BY <2>1, <2>3, <2>4 DEF Stores
  <1>4. ASSUME NEW p \in Page, StoreSave(p) \/ \E acted \in BOOLEAN : SaveFails(p, acted), stored' # stored
        PROVE  Shows(stored.payload, S)'
    <2>1. /\ UNCHANGED rows /\ save[p].pc = "store" /\ save[p].expected \in {None, stored.version}
          /\ Misses(SavedOver(p)) /\ Stores(save[p].payload)
      BY <1>4, StoreSaveDoes, SaveFailsDoes DEF BaseInv
    <2>2. PICK P : P = save[p].payload
      OBVIOUS
    <2>4. save'[p] # save[p]
      BY <1>4, SaveEnds DEF BaseInv
    <2>3. Shows(P, S)'
      BY <2>1, <2>2, <2>4, SaveShows
    <2>. QED BY <2>1, <2>2, <2>3 DEF Stores
  <1>. QED BY <1>2, <1>3, <1>4, StoredMoves DEF BaseInv

\* A payload that a submission is written on shows it, and what it showed before.
LEMMA CommitShows ==
    ASSUME BaseInv, CommitLive, LeasesHold, NEW P \in Payload, NEW Q, Q.value = Write(P.value, fill.values)
    PROVE  Shows(Q, P)' /\ \A x \in Lacks(Q)' : x[1] # fill.row
  <1>. USE DEF BaseInv, TypeInv
  <1>1. UNCHANGED rows /\ fill.pc = "commit"
    BY CommitMoves
  <1>2. fill.row = Len(rows) /\ rows[fill.row].values = fill.values /\ Len(rows) \in Nat
    BY <1>1, RowsInSeq DEF FillInv, Created
  <1>3. fill.values \in Values /\ P.value \in [Field -> 0..MaxWrites]
    BY DEF TypeOK, Fills, Payload
  <1>4. ASSUME NEW x \in Lacks(Q)'
        PROVE  x \in Lacks(P)' /\ x[1] # fill.row
    <2>1. x \in RowIds \X Field /\ x \in RowIds' \X Field /\ Behind(Q, x[1], x[2])'
      BY <1>1, LacksAt, NoRowsChange
    <2>2. PICK i \in RowIds, f \in Field : x[1] = i /\ x[2] = f
      BY <2>1
    <2>3. f \in DOMAIN rows[i].values /\ Q.value[f] < rows[i].values[f]
      BY <1>1, <2>1, <2>2 DEF Behind
    <2>4. rows[i].values[f] \in Nat
      BY <2>3, Numbers
    <2>5. f \notin DOMAIN fill.values
      <3>. SUFFICES ASSUME f \in DOMAIN fill.values PROVE FALSE
        OBVIOUS
      <3>1. Q.value[f] = fill.values[f] /\ fill.values[f] \in Nat
        BY <1>3, WriteType, Numbers
      <3>2. i # fill.row
        BY <1>2, <2>3, <2>4, <3>1
      <3>3. fill.row \in RowIds /\ i < fill.row
        BY <1>2, <3>2 DEF RowIds
      <3>4. rows[i].values[f] < fill.values[f]
        BY <1>2, <2>3, <3>3 DEF EntriesInv
      <3>. QED BY <2>3, <2>4, <3>1, <3>4
    <2>6. i # fill.row
      BY <1>2, <2>3, <2>5
    <2>7. Q.value[f] = P.value[f]
      BY <1>3, <2>5, WriteType
    <2>8. Behind(P, x[1], x[2])'
      BY <2>1, <2>2, <2>7 DEF Behind
    <2>. QED BY <2>1, <2>2, <2>6, <2>8, LacksAt
  <1>. QED BY <1>4 DEF Shows

\* An owner's entry is later than every contribution.
LEMMA EditShows ==
    ASSUME BaseInv, UNCHANGED rows, NEW slot \in BOOLEAN, NEW values \in Values,
           \A f \in DOMAIN values : values[f] = writes + 1,
           NEW P \in Payload, NEW Q, Q = Changed(P, slot, values)
    PROVE  Shows(Q, P)'
  <1>. USE DEF BaseInv, TypeInv
  <1>1. ASSUME NEW x \in Lacks(Q)'
        PROVE  x \in Lacks(P)'
    <2>1. x \in RowIds \X Field /\ x \in RowIds' \X Field /\ Behind(Q, x[1], x[2])'
      BY LacksAt, NoRowsChange
    <2>2. PICK i \in RowIds, f \in Field : x[1] = i /\ x[2] = f
      BY <2>1
    <2>3. f \in DOMAIN rows[i].values /\ Q.value[f] < rows[i].values[f]
      BY <2>1, <2>2 DEF Behind
    <2>4. rows[i].values[f] \in Nat /\ writes \in Nat /\ rows[i].values[f] <= writes
      BY <2>3, Numbers DEF EntriesInv
    <2>5. Q.value[f] = IF f \in DOMAIN values THEN values[f] ELSE P.value[f]
      BY ChangedType
    <2>6. f \notin DOMAIN values
      BY <2>3, <2>4, <2>5
    <2>7. Behind(P, x[1], x[2])'
      BY <2>1, <2>2, <2>5, <2>6 DEF Behind
    <2>. QED BY <2>1, <2>7, LacksAt
  <1>. QED BY <1>1 DEF Shows

LEMMA LiveMoves ==
    ASSUME TypeInv, FillInv, [Next]_vars
    PROVE  \/ UNCHANGED live
           \/ CommitLive /\ LeasesHold
           \/ \E p \in Page : Subscribe(p) \/ BroadcastCanvasSaved(p) \/ Withdraw(p) \/ \E f \in Field : EditField(p, f)
  <1>. USE DEF canvasVars
  <1>1. CASE Contribute
    <2>1. (\E F \in SUBSET Field, isLive \in BOOLEAN : SendFill(F, isLive)) \/ ListPrevious => UNCHANGED live
      BY DEF SendFill, ListPrevious
    <2>2. CommitLive => UNCHANGED live \/ LeasesHold
      BY CommitMoves
    <2>. QED BY <1>1, <2>1, <2>2, ContributeMoves DEF tabs
  <1>2. ASSUME NEW p \in Page, OpenCanvas(p) PROVE UNCHANGED live
    BY <1>2 DEF OpenCanvas, StartOpen, Reload, ListPending, MarkMerged, MarkSuperseded, AnswerOpen, OpenFails,
                MergePending, MergeUnheard
  <1>3. ASSUME NEW p \in Page, Work(p)
        PROVE  UNCHANGED live \/ Subscribe(p) \/ Withdraw(p) \/ \E f \in Field : EditField(p, f)
    BY <1>3 DEF Work, StartSubscribe, Disconnect, Close
  <1>4. ASSUME NEW p \in Page, SaveCanvas(p)
        PROVE UNCHANGED live \/ BroadcastCanvasSaved(p)
    BY <1>4 DEF SaveCanvas, StartSave, ReadPending, PendingUnread, RefuseSave, SaveAnyway, CancelSave,
                StoreSave, SaveFails, MarkSaved
  <1>5. CASE UNCHANGED vars
    BY <1>5 DEF vars
  <1>. QED BY <1>1, <1>2, <1>3, <1>4, <1>5 DEF Next

\* An owner's entry, or the withdrawal.
LEMMA EditMoves ==
    ASSUME TypeInv, NEW p \in Page, Withdraw(p) \/ \E f \in Field : EditField(p, f)
    PROVE  \E slot \in BOOLEAN, values \in Values :
               Edits(p, slot, values) /\ \A f \in DOMAIN values : values[f] = writes + 1
  <1>1. CASE Withdraw(p)
    BY <1>1, NoValues DEF Withdraw
  <1>2. CASE \E f \in Field : EditField(p, f)
    <2>1. PICK f \in Field : EditField(p, f)
      BY <1>2
    <2>. DEFINE values == [g \in {f} |-> writes + 1]
    <2>2. values \in Values /\ DOMAIN values = {f} /\ values[f] = writes + 1
      BY <2>1, EditValues DEF EditField, TypeInv
    <2>3. Edits(p, TRUE, values)
      BY <2>1 DEF EditField
    <2>. HIDE DEF values
    <2>. QED BY <2>2, <2>3
  <1>. QED BY <1>1, <1>2

LEMMA LiveShows ==
    ASSUME BaseInv, [Next]_vars, NEW L, L = live
    PROVE  Shows(live, L)'
  <1>. USE DEF BaseInv
  <1>1. Steady /\ L \in Payload
    BY Start, Ours
  <1>2. CASE UNCHANGED live
    BY <1>2, ShowsLogicNext
  <1>3. CASE CommitLive /\ LeasesHold
    BY <1>1, <1>3, CommitDoes, CommitShows
  <1>4. ASSUME NEW p \in Page, Subscribe(p) \/ BroadcastCanvasSaved(p)
        PROVE  Shows(live, L)'
    <2>1. UNCHANGED rows /\ Misses(Lacks(live') \ Lacks(live)) /\ live' \in {live, page[p].read, save[p].payload}
      BY <1>4, SubscribeDoes, BroadcastDoes
    <2>2. PICK P : P = live'
      OBVIOUS
    <2>3. P \in Payload
      BY <2>1, <2>2, Ours
    <2>4. Misses(Lacks(P) \ Lacks(L))
      BY <2>1, <2>2
    <2>5. Shows(P, L)'
      BY <1>1, <2>1, <2>3, <2>4, MissesShows
    <2>. QED BY <2>2, <2>5
  <1>5. ASSUME NEW p \in Page, Withdraw(p) \/ \E f \in Field : EditField(p, f)
        PROVE  Shows(live, L)'
    <2>1. PICK slot \in BOOLEAN, values \in Values :
              Edits(p, slot, values) /\ \A f \in DOMAIN values : values[f] = writes + 1
      BY <1>5, EditMoves
    <2>2. UNCHANGED rows /\ live' = Changed(L, slot, values)
      BY <2>1, EditsDoes
    <2>. QED BY <1>1, <2>1, <2>2, EditShows
  <1>. QED BY <1>2, <1>3, <1>4, <1>5, LiveMoves

\* A tab whose canvas shows no less than before, and that heard of no version.
LEMMA PageMoves ==
    ASSUME BaseInv, ShownInv, [Next]_vars, NEW q \in Page, dirty => dirty',
           page'[q].acks \subseteq page[q].acks, page'[q].expected = page[q].expected,
           page'[q].at = "connected" => page[q].at = "connected",
           page'[q].at # "closed" => page[q].at # "closed",
           \A V : V = page[q].view => Shows(page[q].view, V)'
    PROVE  PageOk(q)'
  <1>. PICK L, S, V, A, W : L = live /\ S = stored.payload /\ V = page[q].view /\ A = page[q].acks /\ W = Waits(q)
    OBVIOUS
  <1>1. /\ Steady /\ Raises /\ L \in Payload /\ S \in Payload /\ V \in Payload /\ Early(S)
        /\ A \in SUBSET Spoken /\ W \in SUBSET Spoken
    BY Start, Ours
  <1>2. Shows(live, L)' /\ Shows(stored.payload, S)' /\ Shows(page[q].view, V)'
    BY LiveShows, StoredShows
  <1>3. page'[q].acks \subseteq A /\ Waits(q)' \subseteq W
    BY Start, <1>1 DEF Waits
  <1>4. PageOk(q)
    BY DEF ShownInv
  <1>5. ShowsAll(live, page[q].acks)'
    <2>1. ShowsAll(L, A)'
      BY <1>1, <1>4, ShowsKept DEF PageOk
    <2>. QED BY <1>2, <1>3, <2>1, ShowsLogicNext
  <1>6. ~dirty' => ShowsAll(stored.payload, page[q].acks)'
    <2>1. ~dirty' => ShowsAll(S, A)'
      BY <1>1, <1>4, ShowsKept DEF PageOk
    <2>. QED BY <1>2, <1>3, <2>1, ShowsLogicNext
  <1>7. page'[q].at = "connected" => ShowsAll(page[q].view, page[q].acks)'
    <2>1. page'[q].at = "connected" => ShowsAll(V, A)'
      BY <1>1, <1>4, ShowsKept DEF PageOk
    <2>. QED BY <1>2, <1>3, <2>1, ShowsLogicNext
  <1>8. page'[q].expected = stored'.version => page[q].expected = stored.version /\ stored' = stored
    <2>1. page[q].expected \in {None} \cup 1..stored.version /\ stored.version \in Nat
      BY Numbers DEF BaseInv, VersionsInv, TypeInv
    <2>2. stored.version + 1 # None
      BY <2>1, ContributionsAssumption
    <2>. QED BY <1>1, <2>1, <2>2 DEF Raises, Stores
  <1>9. page'[q].expected = stored'.version => Shows(page[q].view, stored.payload)'
    <2>1. page'[q].expected = stored'.version => Shows(V, S)'
      BY <1>1, <1>4, <1>8, ShowsKept DEF PageOk
    <2>. QED BY <1>2, <1>8, <2>1, ShowsLogicNext
  <1>10. (page'[q].at # "closed" /\ page'[q].expected = stored'.version) => ShowsAll(page[q].view, Waits(q))'
    <2>1. (page'[q].at # "closed" /\ page'[q].expected = stored'.version) => ShowsAll(V, W)'
      BY <1>1, <1>4, <1>8, ShowsKept DEF PageOk
    <2>. QED BY <1>2, <1>3, <2>1, ShowsLogicNext
  <1>. QED BY <1>5, <1>6, <1>7, <1>9, <1>10 DEF PageOk

\* A save that goes on as it was.
LEMMA SaveMoves ==
    ASSUME BaseInv, ShownInv, [Next]_vars, NEW q \in Page, save'[q].pc = save[q].pc,
           save'[q].payload = save[q].payload, save'[q].expected = save[q].expected,
           save'[q].acks = save[q].acks, save'[q].pending = save[q].pending
    PROVE  SaveOk(q)'
  <1>. PICK S, P, A, N, W :
          S = stored.payload /\ P = save[q].payload /\ A = save[q].acks /\ N = save[q].pending /\ W = A \cap Previous
    OBVIOUS
  <1>1. /\ Steady /\ Raises /\ S \in Payload /\ P \in Payload /\ Early(S) /\ Early(P)
        /\ A \in SUBSET Spoken /\ N \in SUBSET Spoken /\ W \in SUBSET Spoken
    BY Start, Ours
  <1>2. Shows(stored.payload, S)'
    BY StoredShows
  <1>3. A \cap Previous' \subseteq W
    BY Start, <1>1
  <1>4. SaveOk(q)
    BY DEF ShownInv
  <1>5. save'[q].expected = stored'.version => save[q].expected = stored.version /\ stored' = stored
    <2>1. save[q].expected \in {None} \cup 1..stored.version /\ stored.version \in Nat
      BY Numbers DEF BaseInv, VersionsInv, TypeInv
    <2>2. stored.version + 1 # None
      BY <2>1, ContributionsAssumption
    <2>. QED BY <1>1, <2>1, <2>2 DEF Raises, Stores
  <1>6. (save'[q].pc \in {"pending", "store"} /\ save'[q].expected = stored'.version) =>
            Shows(save[q].payload, stored.payload)'
    <2>1. (save'[q].pc \in {"pending", "store"} /\ save'[q].expected = stored'.version) => Shows(P, S)'
      BY <1>1, <1>4, <1>5, ShowsKept DEF SaveOk
    <2>. QED BY <1>5, <2>1
  <1>7. save'[q].pc \in {"mark", "broadcast"} => Shows(stored.payload, save[q].payload)'
    <2>1. save'[q].pc \in {"mark", "broadcast"} => Shows(S, P)
      BY <1>4 DEF SaveOk
    <2>. QED BY <1>1, <1>2, <2>1, ShowsOver
  <1>8. (save'[q].pc = "pending" /\ save'[q].expected = stored'.version) =>
            ShowsAll(save[q].payload, save[q].acks \cap Previous)'
    <2>1. (save'[q].pc = "pending" /\ save'[q].expected = stored'.version) => ShowsAll(P, W)'
      BY <1>1, <1>4, <1>5, ShowsKept DEF SaveOk
    <2>. QED BY <1>3, <2>1, ShowsLogicNext
  <1>9. (save'[q].pc = "store" /\ save'[q].expected = stored'.version) =>
            ShowsAll(save[q].payload, save[q].pending)'
    <2>1. (save'[q].pc = "store" /\ save'[q].expected = stored'.version) => ShowsAll(P, N)'
      BY <1>1, <1>4, <1>5, ShowsKept DEF SaveOk
    <2>. QED BY <2>1
  <1>. QED BY <1>4, <1>6, <1>7, <1>8, <1>9 DEF SaveOk

\* A save and its tab that go on as they were.
LEMMA HereMoves ==
    ASSUME BaseInv, ShownInv, [Next]_vars, NEW q \in Page,
           save'[q].pc \in {"mark", "broadcast"} => save[q].pc \in {"mark", "broadcast"},
           save'[q].pc \in {"pending", "store", "conflict"} => save[q].pc \in {"pending", "store", "conflict"},
           save'[q].payload = save[q].payload, save'[q].expected \in {save[q].expected, None},
           save'[q].here => save[q].here,
           page[q].at # "closed" => page'[q].at # "closed",
           page'[q].acks \subseteq page[q].acks, page'[q].expected = page[q].expected,
           \A V : V = page[q].view => Shows(page[q].view, V)'
    PROVE  HereOk(q)'
  <1>. SUFFICES ASSUME save'[q].pc # "idle", save'[q].here
                PROVE  /\ page'[q].at # "closed"
                       /\ save'[q].pc \in {"mark", "broadcast"} => ShowsAll(page[q].view, Waits(q))'
                       /\ save'[q].pc \in {"pending", "store", "conflict"} =>
                            /\ ShowsBut(page[q].view, Waits(q), save[q].payload)'
                            /\ \/ ShowsAll(page[q].view, Waits(q))'
                               \/ save'[q].expected \in {None, page'[q].expected}
    BY DEF HereOk
  <1>. PICK V, P, W : V = page[q].view /\ P = save[q].payload /\ W = Waits(q)
    OBVIOUS
  <1>1. Steady /\ V \in Payload /\ P \in Payload /\ W \in SUBSET Spoken /\ page[q].acks \in SUBSET Spoken
    BY Start, Ours
  <1>2. Waits(q)' \subseteq W
    BY Start, <1>1 DEF Waits
  <1>3. HereOk(q) /\ save[q].pc # "idle"
    <2>1. save'[q].pc \in {"pending", "store", "conflict", "mark", "broadcast"}
      BY Start DEF TypeInv, TypeOK, Saves
    <2>. QED BY <2>1 DEF ShownInv
  <1>4. ShowsAll(V, W) => ShowsAll(page[q].view, Waits(q))'
    <2>1. ShowsAll(V, W) => ShowsAll(V, W)'
      BY <1>1, ShowsKept
    <2>. QED BY <1>2, <2>1, ShowsLogicNext
  <1>5. ShowsBut(V, W, P) => ShowsBut(page[q].view, Waits(q), save[q].payload)'
    <2>1. ShowsBut(V, W, P) => ShowsBut(V, W, P)'
      BY <1>1, ShowsKept
    <2>2. Shows(page[q].view, V)' /\ P = save'[q].payload
      OBVIOUS
    <2>. QED BY <1>2, <2>1, <2>2, ShowsLogicNext
  <1>. QED BY <1>3, <1>4, <1>5 DEF HereOk

TabOk(q) == PageOk(q) /\ SaveOk(q) /\ HereOk(q)

LEMMA SaveIdle == \A q \in Page : save'[q] = NoSave => SaveOk(q)' /\ HereOk(q)'
  BY Blanks DEF SaveOk, HereOk

LEMMA NoTold ==
    ASSUME BaseInv, [Next]_vars
    PROVE  stored'.version # None /\ stored.version # None /\ stored'.version \in Nat
  <1>1. stored'.version \in Nat /\ stored.version \in Nat
    BY Start DEF TypeInv, TypeOK, Item, BaseInv
  <1>. QED BY <1>1, ContributionsAssumption

\* A tab that the step does not concern.
LEMMA Bystander ==
    ASSUME BaseInv, ShownInv, [Next]_vars, NEW q \in Page, dirty => dirty', page'[q] = page[q]
    PROVE  PageOk(q)' /\ (save'[q] = save[q] => SaveOk(q)' /\ HereOk(q)')
  <1>1. \A V : V = page[q].view => Shows(page[q].view, V)'
    BY ShowsLogicNext
  <1>2. PageOk(q)'
    BY <1>1, PageMoves
  <1>3. ASSUME save'[q] = save[q] PROVE SaveOk(q)' /\ HereOk(q)'
    <2>1. SaveOk(q)'
      BY <1>3, SaveMoves
    <2>2. HereOk(q)'
      BY <1>1, <1>3, HereMoves
    <2>. QED BY <2>1, <2>2
  <1>. QED BY <1>2, <1>3

\* A tab that leaves its canvas.
LEMMA PageLeaves ==
    ASSUME BaseInv, ShownInv, [Next]_vars, NEW q \in Page, dirty => dirty',
           page'[q].acks \subseteq page[q].acks, page'[q].expected = None, page'[q].at = "closed"
    PROVE  PageOk(q)'
  <1>. PICK L, S, A : L = live /\ S = stored.payload /\ A = page[q].acks
    OBVIOUS
  <1>1. Steady /\ L \in Payload /\ S \in Payload /\ A \in SUBSET Spoken
    BY Start, Ours
  <1>2. Shows(live, L)' /\ Shows(stored.payload, S)'
    BY LiveShows, StoredShows
  <1>3. ShowsAll(L, A) /\ (~dirty => ShowsAll(S, A))
    BY DEF ShownInv, PageOk
  <1>4. ShowsAll(L, A)' /\ (~dirty' => ShowsAll(S, A)')
    BY <1>1, <1>3, ShowsKept
  <1>5. ShowsAll(live, page[q].acks)' /\ (~dirty' => ShowsAll(stored.payload, page[q].acks)')
    BY <1>2, <1>4, ShowsLogicNext
  <1>. QED BY <1>5, NoTold DEF PageOk

LEMMA ShownAlone ==
    ASSUME BaseInv, ShownInv, [Next]_vars, UNCHANGED <<dirty, page, save>>
    PROVE  \A q \in Page : TabOk(q)'
  BY Bystander DEF TabOk

LEMMA ShownCommit ==
    ASSUME BaseInv, ShownInv, [Next]_vars, CommitLive, LeasesHold
    PROVE  \A q \in Page : TabOk(q)'
  <1>. SUFFICES ASSUME NEW q \in Page PROVE TabOk(q)'
    OBVIOUS
  <1>1. /\ UNCHANGED <<stored, rows, open, save, missed>> /\ dirty' = TRUE
        /\ live'.value = Write(live.value, fill.values)
        /\ page[q].at # "connected" => page'[q] = page[q]
        /\ page'[q].at = page[q].at /\ page'[q].expected = page[q].expected
        /\ page'[q].acks \subseteq page[q].acks \cup {fill.row}
        /\ page[q].at = "connected" => page'[q].view.value = Write(page[q].view.value, fill.values)
    BY CommitDoes DEF BaseInv
  <1>2. CASE page[q].at # "connected"
    BY <1>1, <1>2, Bystander DEF TabOk
  <1>3. CASE page[q].at = "connected"
    <2>. PICK L, V, S, A, U, M :
            /\ L = live /\ V = page[q].view /\ S = stored.payload /\ A = page[q].acks
            /\ U = page'[q].view /\ M = live'
      OBVIOUS
    <2>1. /\ Steady /\ L \in Payload /\ V \in Payload /\ S \in Payload /\ Early(S) /\ A \in SUBSET Spoken
      BY Start, Ours
    <2>2. /\ Shows(M, L)' /\ \A x \in Lacks(M)' : x[1] # fill.row
          /\ Shows(U, V)' /\ \A x \in Lacks(U)' : x[1] # fill.row
      BY <1>1, <1>3, <2>1, CommitShows
    <2>3. PageOk(q)
      BY DEF ShownInv
    <2>4. ShowsAll(L, A)' /\ ShowsAll(V, A)'
      BY <1>3, <2>1, <2>3, ShowsKept DEF PageOk
    <2>5. ShowsAll(M, A)' /\ ShowsAll(U, A)'
      BY <2>2, <2>4, ShowsLogicNext
    <2>6. ShowsAll(live, page[q].acks)' /\ ShowsAll(page[q].view, page[q].acks)'
      BY <1>1, <2>2, <2>5 DEF ShowsAll
    <2>7. page'[q].expected = stored'.version => Shows(page[q].view, stored.payload)'
      <3>1. page[q].expected = stored.version => Shows(V, S)'
        BY <1>1, <2>1, <2>3, ShowsKept DEF PageOk
      <3>. QED BY <1>1, <2>2, <3>1, ShowsLogicNext
    <2>8. ShowsAll(page[q].view, Waits(q))'
      BY <2>6, ShowsLogicNext DEF Waits
    <2>9. PageOk(q)'
      BY <1>1, <2>6, <2>7, <2>8 DEF PageOk
    <2>10. HereOk(q)'
      BY <1>1, <1>3, <2>8, ShowsLogicNext DEF HereOk
    <2>11. SaveOk(q)'
      BY <1>1, SaveMoves
    <2>. QED BY <2>9, <2>10, <2>11 DEF TabOk
  <1>. QED BY <1>2, <1>3

LEMMA ShownEdits ==
    ASSUME BaseInv, ShownInv, [Next]_vars, NEW p \in Page, Withdraw(p) \/ \E f \in Field : EditField(p, f)
    PROVE  \A q \in Page : TabOk(q)'
  <1>. SUFFICES ASSUME NEW q \in Page PROVE TabOk(q)'
    OBVIOUS
  <1>1. PICK slot \in BOOLEAN, values \in Values :
            Edits(p, slot, values) /\ \A f \in DOMAIN values : values[f] = writes + 1
    BY EditMoves DEF BaseInv
  <1>2. /\ UNCHANGED <<rows, save>> /\ dirty' = TRUE
        /\ page[q].at # "connected" => page'[q] = page[q]
        /\ page'[q].at = page[q].at /\ page'[q].expected = page[q].expected
        /\ page'[q].acks = page[q].acks
        /\ page[q].at = "connected" => page'[q].view = Changed(page[q].view, slot, values)
    BY <1>1, EditsDoes DEF BaseInv
  <1>3. ASSUME NEW V, V = page[q].view PROVE Shows(page[q].view, V)'
    <2>1. CASE page[q].at = "connected"
      BY <1>1, <1>2, <1>3, <2>1, Ours, EditShows
    <2>2. CASE page[q].at # "connected"
      BY <1>2, <1>3, <2>2, ShowsLogicNext
    <2>. QED BY <2>1, <2>2
  <1>4. PageOk(q)'
    BY <1>2, <1>3, PageMoves
  <1>5. SaveOk(q)'
    BY <1>2, SaveMoves
  <1>6. HereOk(q)'
    BY <1>2, <1>3, HereMoves
  <1>. QED BY <1>4, <1>5, <1>6 DEF TabOk

\* Leaving the stream, or the canvas.
LEMMA ShownLeaves ==
    ASSUME BaseInv, ShownInv, [Next]_vars, NEW p \in Page,
           StartSubscribe(p) \/ Disconnect(p) \/ Close(p) \/ Reload(p)
    PROVE  \A q \in Page : TabOk(q)'
  <1>. USE DEF BaseInv
  <1>1. ASSUME NEW q \in Page, q # p
        PROVE  TabOk(q)'
    <2>1. UNCHANGED <<canvasVars, rows>> /\ SamePages(p) /\ (UNCHANGED save \/ SameSaves(p))
      BY StartSubscribeDoes, DisconnectDoes, CloseDoes, ReloadDoes DEF Fixed
    <2>. QED BY <1>1, <2>1, Bystander DEF TabOk, SamePages, SameSaves, canvasVars
  <1>2. CASE StartSubscribe(p) \/ Disconnect(p)
    <2>1. /\ UNCHANGED <<canvasVars, save>>
          /\ page[p].at # "closed" /\ page'[p].at # "closed" /\ page'[p].at # "connected"
          /\ page'[p].view = page[p].view
          /\ page'[p].expected = page[p].expected /\ page'[p].acks = page[p].acks
      BY <1>2, StartSubscribeDoes, DisconnectDoes DEF Fixed
    <2>2. \A V : V = page[p].view => Shows(page[p].view, V)'
      BY <2>1, ShowsLogicNext
    <2>3. PageOk(p)'
      BY <2>1, <2>2, PageMoves DEF canvasVars
    <2>4. SaveOk(p)'
      BY <2>1, SaveMoves
    <2>5. HereOk(p)'
      BY <2>1, <2>2, HereMoves
    <2>. QED BY <1>1, <2>3, <2>4, <2>5 DEF TabOk
  <1>3. CASE Close(p)
    <2>1. /\ UNCHANGED canvasVars /\ page'[p].acks \subseteq page[p].acks
          /\ page'[p].expected = None /\ page'[p].at = "closed"
      BY <1>3, CloseDoes, Blanks DEF Fixed
    <2>2. PageOk(p)'
      BY <2>1, PageLeaves DEF canvasVars
    <2>3. SaveOk(p)' /\ HereOk(p)'
      <3>1. CASE save'[p] = NoSave
        BY <3>1, SaveIdle
      <3>2. CASE save'[p] # NoSave
        <4>1. /\ save'[p].here = FALSE /\ save'[p].pc = save[p].pc
              /\ save'[p].payload = save[p].payload /\ save'[p].expected = save[p].expected
              /\ save'[p].acks = save[p].acks /\ save'[p].pending = save[p].pending
          BY <1>3, <3>2, CloseDoes
        <4>2. SaveOk(p)'
          BY <4>1, SaveMoves
        <4>. QED BY <4>1, <4>2 DEF HereOk
      <3>. QED BY <3>1, <3>2
    <2>. QED BY <1>1, <2>2, <2>3 DEF TabOk
  <1>4. CASE Reload(p)
    <2>1. /\ UNCHANGED canvasVars /\ page'[p].acks = page[p].acks
          /\ page'[p].expected = None /\ page'[p].at = "closed" /\ save'[p] = NoSave
      BY <1>4, ReloadDoes DEF Fixed
    <2>2. PageOk(p)'
      BY <2>1, PageLeaves DEF canvasVars
    <2>. QED BY <1>1, <2>1, <2>2, SaveIdle DEF TabOk
  <1>. QED BY <1>2, <1>3, <1>4

\* The answer to a tab that opens the canvas shows what the tab acknowledges: the live
\* canvas does, the saved one without live work does, and a merge has applied it.
LEMMA ShownAnswer ==
    ASSUME BaseInv, ShownInv, [Next]_vars, NEW p \in Page, AnswerOpen(p)
    PROVE  \A q \in Page : TabOk(q)'
  <1>. USE DEF BaseInv
  <1>1. /\ UNCHANGED <<canvasVars, rows, save>> /\ SamePages(p) /\ Misses({})
        /\ open[p].pc = "answer"
        /\ page'[p].at = "loaded" /\ page'[p].expected = open[p].item.version
        /\ page'[p].acks = page[p].acks
        /\ \/ dirty /\ open[p].applied = {} /\ page'[p].view = live
           \/ ~(dirty /\ open[p].applied = {}) /\ page'[p].view = open[p].item.payload
    BY AnswerOpenDoes
  <1>2. ASSUME NEW q \in Page, q # p PROVE TabOk(q)'
    BY <1>1, <1>2, Bystander DEF TabOk, SamePages, canvasVars
  <1>. PICK L, S, A, W, V, I :
          /\ L = live /\ S = stored.payload /\ A = page[p].acks /\ W = Waits(p) /\ V = page'[p].view
          /\ I = open[p].applied
    OBVIOUS
  <1>3. /\ Steady /\ L \in Payload /\ S \in Payload /\ Early(S) /\ A \in SUBSET Spoken /\ W \in SUBSET Spoken
        /\ V \in Payload /\ I \in SUBSET RowIds
    <2>1. V \in {live, open[p].item.payload}
      BY <1>1
    <2>. QED BY <2>1, Start, Ours
  <1>4. PageOk(p) /\ OpenOk(p) /\ AcksOk(p) /\ HereOk(p) /\ SaveOk(p)
    BY DEF ShownInv, OpenInv, AcksInv
  <1>5. ShowsAll(live, page[p].acks)' /\ (~dirty' => ShowsAll(stored.payload, page[p].acks)')
    <2>1. ShowsAll(L, A)' /\ (~dirty => ShowsAll(S, A)')
      BY <1>3, <1>4, ShowsKept DEF PageOk
    <2>. QED BY <1>1, <2>1 DEF canvasVars
  <1>6. page'[p].expected = stored'.version => Shows(page[p].view, stored.payload)'
    BY <1>1, MissesBlind
  <1>7. ASSUME page'[p].expected = stored'.version
        PROVE  ShowsAll(page[p].view, Waits(p))'
    <2>1. ShowsAll(V, W)
      <3>1. W \subseteq A
        BY DEF Waits
      <3>2. CASE V = L
        BY <1>4, <3>1, <3>2, ShowsLogic DEF PageOk
      <3>3. CASE ~(dirty /\ I = {}) /\ V = open[p].item.payload
        <4>1. V = S
          BY <1>1, <1>4, <1>7, <3>3 DEF OpenOk, canvasVars
        <4>2. CASE ~dirty
          BY <1>4, <3>1, <4>1, <4>2, ShowsLogic DEF PageOk
        <4>3. CASE I # {}
          <5>1. W \subseteq I
            BY <1>1, <1>4, <4>3 DEF AcksOk, Merges, Waits
          <5>2. Holds(V, I)
            BY <1>1, <1>4, <3>3 DEF OpenOk
          <5>. QED BY <1>3, <5>1, <5>2, HoldsShows, ShowsLogic
        <4>. QED BY <3>3, <4>2, <4>3
      <3>. QED BY <1>1, <3>2, <3>3
    <2>2. ShowsAll(V, W)'
      BY <1>3, <2>1, ShowsKept
    <2>3. Waits(p)' \subseteq W
      BY <1>1, <1>3, Start DEF Waits
    <2>. QED BY <2>2, <2>3, ShowsLogicNext
  <1>8. PageOk(p)'
    BY <1>1, <1>5, <1>6, <1>7 DEF PageOk
  <1>9. SaveOk(p)'
    BY <1>1, SaveMoves
  <1>10. HereOk(p)'
    BY <1>1, <1>4 DEF HereOk, OpenOk
  <1>. QED BY <1>2, <1>8, <1>9, <1>10 DEF TabOk

\* A tab that joins shows the live canvas.
LEMMA ShownJoins ==
    ASSUME BaseInv, ShownInv, [Next]_vars, NEW p \in Page, Subscribe(p)
    PROVE  \A q \in Page : TabOk(q)'
  <1>. USE DEF BaseInv
  <1>1. /\ UNCHANGED <<stored, dirty, rows, save>> /\ SamePages(p)
        /\ page'[p].at = "connected" /\ page[p].at = "joining" /\ page'[p].view = live'
        /\ page'[p].expected = page[p].expected /\ page'[p].acks = page[p].acks
        /\ Misses(Lacks(live') \ Lacks(live))
    BY SubscribeDoes
  <1>2. ASSUME NEW q \in Page, q # p PROVE TabOk(q)'
    BY <1>1, <1>2, Bystander DEF TabOk, SamePages
  <1>. PICK L, S, A : L = live /\ S = stored.payload /\ A = page[p].acks
    OBVIOUS
  <1>3. Steady /\ L \in Payload /\ S \in Payload /\ A \in SUBSET Spoken
    BY Start, Ours
  <1>4. PageOk(p)
    BY DEF ShownInv
  <1>5. ShowsAll(live, page[p].acks)' /\ (~dirty' => ShowsAll(stored.payload, page[p].acks)')
    <2>1. ShowsAll(L, A)' /\ (~dirty => ShowsAll(S, A)') /\ Shows(live, L)'
      BY <1>3, <1>4, ShowsKept, LiveShows DEF PageOk
    <2>. QED BY <1>1, <2>1, ShowsLogicNext
  <1>6. ShowsAll(page[p].view, page[p].acks)'
    BY <1>1, <1>5
  <1>7. ShowsAll(page[p].view, Waits(p))'
    BY <1>6, ShowsLogicNext DEF Waits
  <1>8. page'[p].expected = stored'.version => Shows(page[p].view, stored.payload)'
    BY <1>1, MissesBlind
  <1>9. PageOk(p)'
    BY <1>5, <1>6, <1>7, <1>8 DEF PageOk
  <1>10. SaveOk(p)'
    BY <1>1, SaveMoves
  <1>11. HereOk(p)'
    BY <1>1, <1>7, ShowsLogicNext DEF HereOk
  <1>. QED BY <1>2, <1>9, <1>10, <1>11 DEF TabOk

\* A save takes what its tab shows and acknowledges, of one moment.
LEMMA ShownStartSave ==
    ASSUME BaseInv, ShownInv, [Next]_vars, NEW p \in Page, StartSave(p)
    PROVE  \A q \in Page : TabOk(q)'
  <1>. USE DEF BaseInv
  <1>1. /\ UNCHANGED <<canvasVars, page>> /\ SameSaves(p)
        /\ page[p].at # "closed" /\ save[p].pc = "idle" /\ save'[p].pc \in {"store", "pending"}
        /\ save'[p].payload = page[p].view /\ save'[p].expected = page[p].expected
        /\ save'[p].acks = page[p].acks /\ save'[p].pending = {}
    BY StartSaveDoes DEF Fixed
  <1>2. ASSUME NEW q \in Page PROVE PageOk(q)' /\ (q # p => TabOk(q)')
    BY <1>1, Bystander DEF TabOk, SameSaves, canvasVars
  <1>. PICK V : V = page[p].view
    OBVIOUS
  <1>3. PageOk(p)'
    BY <1>2
  <1>4. SaveOk(p)'
    <2>1. save'[p].expected = stored'.version =>
              Shows(save[p].payload, stored.payload)' /\ ShowsAll(save[p].payload, Waits(p))'
      BY <1>1, <1>3 DEF PageOk
    <2>2. ShowsAll(V, {})'
      BY ShowsLogicNext
    <2>3. Waits(p)' = save'[p].acks \cap Previous'
      BY <1>1 DEF Waits
    <2>. QED BY <1>1, <2>1, <2>2, <2>3 DEF SaveOk
  <1>5. HereOk(p)'
    <2>1. \A ids : ShowsBut(V, ids, V)'
      BY ShowsLogicNext
    <2>2. ShowsBut(page[p].view, Waits(p), save[p].payload)'
      BY <1>1, <2>1
    <2>. QED BY <1>1, <2>2 DEF HereOk
  <1>. QED BY <1>2, <1>4, <1>5 DEF TabOk

LEMMA ShownReadPending ==
    ASSUME BaseInv, ShownInv, [Next]_vars, NEW p \in Page,
           ReadPending(p) \/ PendingUnread(p) \/ RefuseSave(p) \/ SaveAnyway(p) \/ CancelSave(p)
    PROVE  \A q \in Page : TabOk(q)'
  <1>. USE DEF BaseInv
  <1>1. UNCHANGED <<canvasVars, rows, page>> /\ SameSaves(p)
    BY ReadPendingDoes, RefuseSaveDoes, SaveAnywayDoes, CancelSaveDoes DEF Fixed
  <1>2. ASSUME NEW q \in Page PROVE PageOk(q)' /\ (q # p => TabOk(q)')
    BY <1>1, Bystander DEF TabOk, SameSaves, canvasVars
  <1>3. ASSUME save'[p].pc \in {"pending", "store", "conflict"}, save[p].pc \in {"pending", "store", "conflict"},
               save'[p].payload = save[p].payload, save'[p].expected \in {save[p].expected, None},
               save'[p].here => save[p].here
        PROVE  HereOk(p)'
    <2>1. \A V : V = page[p].view => Shows(page[p].view, V)'
      BY <1>1, ShowsLogicNext
    <2>. QED BY <1>1, <1>3, <2>1, HereMoves
  <1>4. CASE ReadPending(p) \/ PendingUnread(p)
    <2>1. /\ save[p].pc = "pending" /\ save'[p].pc = "store"
          /\ save'[p].pending = save[p].pending \/ save'[p].pending = Pending \cap save[p].acks
          /\ save'[p].payload = save[p].payload /\ save'[p].expected = save[p].expected
          /\ save'[p].here = save[p].here
      BY <1>4, ReadPendingDoes
    <2>2. HereOk(p)'
      BY <1>3, <2>1
    <2>. PICK P, S, W, N : /\ P = save[p].payload /\ S = stored.payload /\ W = save[p].acks \cap Previous
                           /\ N = save'[p].pending
      OBVIOUS
    <2>3. Steady /\ P \in Payload /\ S \in Payload /\ Early(S) /\ W \in SUBSET Spoken /\ save[p].acks \in SUBSET Spoken
      BY Start, Ours
    <2>4. SaveOk(p)
      BY DEF ShownInv
    <2>5. N \subseteq W
      BY <2>1, <2>4 DEF SaveOk, Pending, Previous
    <2>6. save[p].expected = stored.version => Shows(P, S)' /\ ShowsAll(P, W)'
      BY <1>1, <2>1, <2>3, <2>4, ShowsKept DEF SaveOk, canvasVars
    <2>7. save[p].expected = stored.version => ShowsAll(P, N)'
      BY <2>5, <2>6, ShowsLogicNext
    <2>8. SaveOk(p)'
      BY <1>1, <2>1, <2>6, <2>7 DEF SaveOk, canvasVars
    <2>. QED BY <1>2, <2>2, <2>8 DEF TabOk
  <1>5. CASE RefuseSave(p)
    <2>1. CASE save'[p] = NoSave
      BY <1>2, <2>1, SaveIdle DEF TabOk
    <2>2. CASE save'[p] # NoSave
      <3>1. /\ save[p].pc = "store" /\ save'[p].pc = "conflict" /\ save[p].here /\ save'[p].here
            /\ save'[p].payload = save[p].payload /\ save'[p].expected = save[p].expected
        BY <1>5, <2>2, RefuseSaveDoes
      <3>2. HereOk(p)'
        BY <1>3, <3>1
      <3>3. SaveOk(p)'
        BY <3>1 DEF SaveOk
      <3>. QED BY <1>2, <3>2, <3>3 DEF TabOk
    <2>. QED BY <2>1, <2>2
  <1>6. CASE SaveAnyway(p)
    <2>1. /\ save[p].pc = "conflict" /\ save'[p].pc \in {"store", "pending"} /\ save'[p].pending = {}
          /\ save'[p].payload = save[p].payload /\ save'[p].expected = None
          /\ save'[p].here = save[p].here
      BY <1>6, SaveAnywayDoes
    <2>2. HereOk(p)'
      BY <1>3, <2>1
    <2>3. SaveOk(p)'
      BY <2>1, NoTold DEF SaveOk
    <2>. QED BY <1>2, <2>2, <2>3 DEF TabOk
  <1>7. CASE CancelSave(p)
    BY <1>2, <1>7, CancelSaveDoes, SaveIdle DEF TabOk
  <1>. QED BY <1>4, <1>5, <1>6, <1>7

\* Once a save is stored, its tab shows what it acknowledges: it did already, or what it
\* does not show the save, which names no version, notes as missed.
LEMMA ShownStore ==
    ASSUME BaseInv, ShownInv, [Next]_vars, NEW p \in Page,
           StoreSave(p) \/ \E acted \in BOOLEAN : SaveFails(p, acted)
    PROVE  \A q \in Page : TabOk(q)'
  <1>. USE DEF BaseInv
  <1>1. UNCHANGED <<live, dirty, rows, page>> /\ SameSaves(p) /\ save[p].pc = "store"
    BY StoreSaveDoes, SaveFailsDoes
  <1>2. ASSUME NEW q \in Page PROVE PageOk(q)' /\ (q # p => TabOk(q)')
    BY <1>1, Bystander DEF TabOk, SameSaves
  <1>3. CASE \E acted \in BOOLEAN : SaveFails(p, acted)
    BY <1>2, <1>3, SaveFailsDoes, SaveIdle DEF TabOk
  <1>4. CASE StoreSave(p)
    <2>1. /\ Stores(save[p].payload) /\ save[p].expected \in {None, stored.version} /\ Misses(SavedOver(p))
          /\ save'[p].pc \in {"mark", "broadcast"}
          /\ save'[p].payload = save[p].payload /\ save'[p].here = save[p].here
      BY <1>4, StoreSaveDoes
    <2>. PICK P, V, W : P = save[p].payload /\ V = page[p].view /\ W = Waits(p)
      OBVIOUS
    <2>2. SaveOk(p)'
      <3>1. Shows(P, P)'
        BY ShowsLogicNext
      <3>. QED BY <2>1, <3>1 DEF SaveOk, Stores
    <2>3. ASSUME save'[p].here PROVE ShowsAll(page[p].view, Waits(p))'
      <3>1. /\ Steady /\ P \in Payload /\ V \in Payload /\ W \in SUBSET Spoken
        BY Start, Ours
      <3>2. /\ page[p].at # "closed" /\ ShowsBut(V, W, P)
            /\ ShowsAll(V, W) \/ save[p].expected \in {None, page[p].expected}
        BY <1>1, <2>1, <2>3 DEF ShownInv, HereOk
      <3>3. ShowsAll(V, W)'
        <4>1. CASE save[p].expected = None
          <5>1. ShowsAll(P, W)'
            BY <1>1, <2>1, <4>1, SaveShows
          <5>2. ShowsBut(V, W, P)'
            BY <3>1, <3>2, ShowsKept
          <5>. QED BY <5>1, <5>2, ShowsLogicNext
        <4>2. CASE save[p].expected # None
          <5>1. ShowsAll(V, W)
            BY <2>1, <3>2, <4>2 DEF ShownInv, PageOk
          <5>. QED BY <3>1, <5>1, ShowsKept
        <4>. QED BY <4>1, <4>2
      <3>4. Waits(p)' \subseteq W
        BY <1>1, Start, Ours DEF Waits
      <3>. QED BY <1>1, <3>3, <3>4, ShowsLogicNext
    <2>4. HereOk(p)'
      <3>1. save'[p].here => page'[p].at # "closed"
        BY <1>1, <2>1 DEF ShownInv, HereOk
      <3>. QED BY <2>1, <2>3, <3>1 DEF HereOk
    <2>. QED BY <1>2, <2>2, <2>4 DEF TabOk
  <1>. QED BY <1>3, <1>4

LEMMA ShownMarks ==
    ASSUME BaseInv, ShownInv, [Next]_vars, NEW p \in Page, NEW ids \in SUBSET save[p].pending, MarkSaved(p, ids)
    PROVE  \A q \in Page : TabOk(q)'
  <1>. USE DEF BaseInv
  <1>1. /\ UNCHANGED <<canvasVars, page>> /\ SameSaves(p)
        /\ save[p].pc = "mark" /\ save'[p].pc = "broadcast"
        /\ save'[p].payload = save[p].payload /\ save'[p].expected = save[p].expected
        /\ save'[p].here = save[p].here
    BY MarkSavedDoes
  <1>2. ASSUME NEW q \in Page PROVE PageOk(q)' /\ (q # p => TabOk(q)')
    BY <1>1, Bystander DEF TabOk, SameSaves, canvasVars
  <1>3. \A V : V = page[p].view => Shows(page[p].view, V)'
    BY <1>1, ShowsLogicNext
  <1>4. HereOk(p)'
    BY <1>1, <1>3, HereMoves
  <1>. PICK P, S : P = save[p].payload /\ S = stored.payload
    OBVIOUS
  <1>5. Shows(S, P)'
    BY <1>1, Start, Ours, ShowsKept DEF ShownInv, SaveOk, canvasVars
  <1>6. SaveOk(p)'
    BY <1>1, <1>5 DEF SaveOk, canvasVars
  <1>. QED BY <1>2, <1>4, <1>6 DEF TabOk

\* The payload that was saved becomes the live canvas, and its version that of the tabs.
LEMMA ShownBroadcast ==
    ASSUME BaseInv, ShownInv, [Next]_vars, NEW p \in Page, BroadcastCanvasSaved(p)
    PROVE  \A q \in Page : TabOk(q)'
  <1>. USE DEF BaseInv
  <1>. SUFFICES ASSUME NEW q \in Page PROVE TabOk(q)'
    OBVIOUS
  <1>1. /\ UNCHANGED <<stored, rows>> /\ SameSaves(p)
        /\ live' = save[p].payload /\ Misses(Lacks(live') \ Lacks(live))
        /\ save[p].pc = "broadcast" /\ save'[p] = NoSave
        /\ page'[q].at = page[q].at /\ page'[q].view = page[q].view
        /\ page'[q].acks \subseteq page[q].acks
        /\ \/ page'[q].expected = page[q].expected
           \/ page[q].at = "connected" \/ (q = p /\ save[p].here)
    BY BroadcastDoes
  <1>. PICK L, S, P, V, A, W : /\ L = live /\ S = stored.payload /\ P = save[p].payload /\ V = page[q].view
                               /\ A = page[q].acks /\ W = Waits(q)
    OBVIOUS
  <1>2. /\ Steady /\ L \in Payload /\ S \in Payload /\ Early(P) /\ P \in Payload /\ V \in Payload
        /\ A \in SUBSET Spoken /\ W \in SUBSET Spoken
    BY Start, Ours
  <1>3. PageOk(q) /\ HereOk(q) /\ SaveOk(p) /\ HereOk(p)
    BY DEF ShownInv
  <1>4. Waits(q)' \subseteq W
    BY <1>1, <1>2, Start DEF Waits
  <1>5. ShowsAll(live, page[q].acks)'
    <2>1. ShowsAll(L, A)' /\ Shows(live, L)'
      BY <1>2, <1>3, ShowsKept, LiveShows DEF PageOk
    <2>. QED BY <1>1, <2>1, ShowsLogicNext
  <1>6. ShowsAll(stored.payload, page[q].acks)'
    <2>1. Shows(S, P)'
      BY <1>1, <1>2, <1>3, ShowsKept DEF SaveOk
    <2>. QED BY <1>1, <1>5, <2>1, ShowsLogicNext
  <1>7. page[q].at = "connected" => ShowsAll(page[q].view, page[q].acks)'
    <2>1. page[q].at = "connected" => ShowsAll(V, A)'
      BY <1>2, <1>3, ShowsKept DEF PageOk
    <2>. QED BY <1>1, <2>1, ShowsLogicNext
  <1>8. page'[q].expected = stored'.version => Shows(page[q].view, stored.payload)'
    BY <1>1, MissesBlind
  <1>9. page[q].at = "connected" => ShowsAll(page[q].view, Waits(q))'
    BY <1>7, ShowsLogicNext DEF Waits
  <1>10. ShowsAll(V, W) => ShowsAll(page[q].view, Waits(q))'
    <2>1. ShowsAll(V, W) => ShowsAll(V, W)'
      BY <1>2, ShowsKept
    <2>. QED BY <1>1, <1>4, <2>1, ShowsLogicNext
  <1>11. (page'[q].at # "closed" /\ page'[q].expected = stored'.version) => ShowsAll(page[q].view, Waits(q))'
    <2>1. CASE page[q].at = "connected"
      BY <1>9, <2>1
    <2>2. CASE q = p /\ save[p].here
      BY <1>1, <1>3, <1>10, <2>2 DEF HereOk
    <2>3. CASE page'[q].expected = page[q].expected
      BY <1>1, <1>3, <1>10, <2>3 DEF PageOk
    <2>. QED BY <1>1, <2>1, <2>2, <2>3
  <1>12. PageOk(q)'
    BY <1>1, <1>5, <1>6, <1>7, <1>8, <1>11 DEF PageOk
  <1>13. SaveOk(q)' /\ HereOk(q)'
    <2>1. CASE q = p
      BY <1>1, <2>1, SaveIdle
    <2>2. CASE q # p
      <3>1. save'[q] = save[q]
        BY <1>1, <2>2 DEF SameSaves
      <3>2. SaveOk(q)'
        BY <3>1, SaveMoves
      <3>3. CASE page'[q].expected = page[q].expected
        <4>1. \A U : U = page[q].view => Shows(page[q].view, U)'
          BY <1>1, ShowsLogicNext
        <4>2. HereOk(q)'
          BY <1>1, <3>1, <3>3, <4>1, HereMoves
        <4>. QED BY <3>2, <4>2
      <3>4. CASE page[q].at = "connected"
        BY <1>1, <1>9, <3>2, <3>4, ShowsLogicNext DEF HereOk
      <3>. QED BY <1>1, <2>2, <3>3, <3>4
    <2>. QED BY <2>1, <2>2
  <1>. QED BY <1>12, <1>13 DEF TabOk

\* Every step leaves each tab, and what it saves, showing what they should.
LEMMA TabsStep ==
    ASSUME BaseInv, ShownInv, [Next]_vars
    PROVE  \A q \in Page : TabOk(q)'
  <1>. USE DEF canvasVars, Fixed
  <1>1. CASE Contribute
    <2>1. CASE CommitLive /\ LeasesHold
      BY <2>1, ShownCommit
    <2>2. CASE ~(CommitLive /\ LeasesHold)
      <3>1. (\E F \in SUBSET Field, isLive \in BOOLEAN : SendFill(F, isLive)) \/ ListPrevious
                => UNCHANGED <<dirty, page, save>>
        BY DEF SendFill, ListPrevious
      <3>2. CommitLive => UNCHANGED <<dirty, page, save>>
        BY <2>2, CommitMoves DEF BaseInv
      <3>3. UNCHANGED <<dirty, page, save>>
        BY <1>1, <3>1, <3>2, ContributeMoves DEF tabs, BaseInv
      <3>. QED BY <3>3, ShownAlone
    <2>. QED BY <2>1, <2>2
  <1>2. ASSUME NEW p \in Page, OpenCanvas(p) PROVE \A q \in Page : TabOk(q)'
    <2>1. CASE StartOpen(p) \/ ListPending(p)
      BY <2>1, StartOpenDoes, ListPendingDoes, ShownAlone DEF BaseInv
    <2>2. CASE MergePending(p) \/ MergeUnheard(p)
      BY <2>2, MergeDoes, ShownAlone DEF BaseInv
    <2>3. ASSUME NEW ids \in SUBSET open[p].applied, MarkMerged(p, ids) PROVE UNCHANGED <<dirty, page, save>>
      BY <2>3, MarkMergedDoes DEF BaseInv
    <2>4. CASE MarkSuperseded(p)
      BY <2>4, MarkSupersededDoes, ShownAlone DEF BaseInv
    <2>5. ASSUME NEW acted \in BOOLEAN, OpenFails(p, acted) PROVE UNCHANGED <<dirty, page, save>>
      BY <2>5, OpenFailsDoes DEF BaseInv
    <2>. QED BY <1>2, <2>1, <2>2, <2>3, <2>4, <2>5, ShownAlone, ShownLeaves, ShownAnswer DEF OpenCanvas
  <1>3. ASSUME NEW p \in Page, Work(p) PROVE \A q \in Page : TabOk(q)'
    BY <1>3, ShownLeaves, ShownJoins, ShownEdits DEF Work
  <1>4. ASSUME NEW p \in Page, SaveCanvas(p) PROVE \A q \in Page : TabOk(q)'
    BY <1>4, ShownStartSave, ShownReadPending, ShownStore, ShownMarks, ShownBroadcast DEF SaveCanvas
  <1>5. CASE UNCHANGED vars
    BY <1>5, ShownAlone DEF vars
  <1>. QED BY <1>1, <1>2, <1>3, <1>4, <1>5 DEF Next

\* A record is forgotten only when it was about to be, and about to be only when the
\* canvas that was just stored shows it.
MarksOpen(q) ==
    open'[q].pc = "mark" =>
        \/ open[q].pc = "mark" /\ open'[q].applied \subseteq open[q].applied
        \/ \A ids : ids = open'[q].applied => ShowsAll(stored.payload, ids)'
MarksSave(q) ==
    save'[q].pc = "mark" =>
        \/ save[q].pc = "mark" /\ save'[q].pending \subseteq save[q].pending
        \/ \A ids : ids = save'[q].pending => ShowsAll(stored.payload, ids)'

LEMMA ForgottenMoves ==
    ASSUME BaseInv, ShownInv, [Next]_vars
    PROVE  MarksMerged /\ \A q \in Page : MarksOpen(q) /\ MarksSave(q)
  <1>. USE DEF BaseInv, canvasVars, Fixed, SameOpens, SameSaves
  <1>0. /\ \A q \in Page : open'[q] = open[q] \/ open'[q].pc # "mark" => MarksOpen(q)
        /\ \A q \in Page : save'[q] = save[q] \/ save'[q].pc # "mark" => MarksSave(q)
        /\ UNCHANGED rows => MarksMerged
        /\ \A p \in Page : \A ids : open[p].pc = "mark" /\ ids \subseteq open[p].applied
               /\ rows' = Marked(ids, "Merged") => MarksMerged
        /\ \A p \in Page : \A ids : save[p].pc = "mark" /\ ids \subseteq save[p].pending
               /\ rows' = Marked(ids, "Merged") => MarksMerged
    <2>1. \A p \in Page : open[p].pc = "mark" => open[p].applied \subseteq Forgotten
      BY Ours DEF Forgotten
    <2>2. \A p \in Page : save[p].pc = "mark" => save[p].pending \subseteq Forgotten
      BY Ours DEF Forgotten
    <2>3. \A ids : (ids \subseteq Forgotten /\ rows' = Marked(ids, "Merged")) => MarksMerged
      BY ForgottenRows
    <2>4. ASSUME NEW p \in Page, NEW ids, open[p].pc = "mark", ids \subseteq open[p].applied,
                 rows' = Marked(ids, "Merged")
          PROVE  MarksMerged
      BY <2>1, <2>3, <2>4
    <2>5. ASSUME NEW p \in Page, NEW ids, save[p].pc = "mark", ids \subseteq save[p].pending,
                 rows' = Marked(ids, "Merged")
          PROVE  MarksMerged
      BY <2>2, <2>3, <2>5
    <2>. QED BY <2>4, <2>5, ForgottenRows DEF MarksOpen, MarksSave
  <1>1. CASE Contribute
    <2>1. (\E F \in SUBSET Field, isLive \in BOOLEAN : SendFill(F, isLive)) \/ ListPrevious
              => UNCHANGED <<rows, open, save>>
      BY DEF SendFill, ListPrevious
    <2>2. CommitLive => UNCHANGED <<rows, open, save>>
      BY CommitMoves
    <2>3. UNCHANGED <<open, save>>
      BY <1>1, <2>1, <2>2, ContributeMoves DEF tabs
    <2>4. MarksMerged
      BY <1>1, <2>1, <2>2, ContributeMoves, ForgottenRows
    <2>. QED BY <1>0, <2>3, <2>4
  <1>2. ASSUME NEW p \in Page, OpenCanvas(p) PROVE MarksMerged /\ \A q \in Page : MarksOpen(q) /\ MarksSave(q)
    <2>1. CASE StartOpen(p) \/ ListPending(p)
      BY <1>0, <2>1, StartOpenDoes, ListPendingDoes
    <2>2. CASE Reload(p)
      BY <1>0, <2>2, ReloadDoes, Blanks
    <2>3. CASE MergePending(p) \/ MergeUnheard(p)
      <3>1. /\ UNCHANGED <<rows, save>> /\ \A q \in Page \ {p} : open'[q] = open[q]
            /\ open[p].pc = "merge"
            /\ open'[p].pc = "mark" => open'[p].applied = open[p].applied /\ Stores(open[p].merged)
        BY <2>3, MergeDoes
      <3>. PICK M, I : M = open[p].merged /\ I = open[p].applied
        OBVIOUS
      <3>2. Holds(M, I) /\ M \in Payload /\ I \in SUBSET RowIds /\ Steady
        BY <3>1, Ours, Start DEF OpenInv, OpenOk
      <3>5. ShowsAll(M, I)'
        BY <3>1, <3>2, HoldsShown
      <3>4. MarksOpen(p)
        BY <3>1, <3>5 DEF MarksOpen, Stores
      <3>. QED BY <1>0, <3>1, <3>4
    <2>4. ASSUME NEW ids \in SUBSET open[p].applied, MarkMerged(p, ids)
          PROVE  MarksMerged /\ \A q \in Page : MarksOpen(q) /\ MarksSave(q)
      <3>1. /\ UNCHANGED save /\ \A q \in Page \ {p} : open'[q] = open[q]
            /\ open'[p].pc # "mark" /\ open[p].pc = "mark" /\ rows' = Marked(ids, "Merged")
        BY <2>4, MarkMergedDoes
      <3>. QED BY <1>0, <3>1
    <2>5. CASE MarkSuperseded(p)
      <3>1. /\ UNCHANGED save /\ \A q \in Page \ {p} : open'[q] = open[q]
            /\ open'[p].pc # "mark" /\ rows' = Marked(open[p].skipped, "Superseded")
        BY <2>5, MarkSupersededDoes
      <3>. QED BY <1>0, <3>1, ForgottenRows
    <2>6. CASE AnswerOpen(p)
      BY <1>0, <2>6, AnswerOpenDoes, Blanks
    <2>7. ASSUME NEW acted \in BOOLEAN, OpenFails(p, acted)
          PROVE  MarksMerged /\ \A q \in Page : MarksOpen(q) /\ MarksSave(q)
      <3>1. /\ UNCHANGED save /\ \A q \in Page \ {p} : open'[q] = open[q]
            /\ open'[p].pc # "mark"
            /\ rows' = rows \/ (open[p].pc = "mark" /\ rows' = Marked(open[p].applied, "Merged"))
        BY <2>7, OpenFailsDoes
      <3>2. MarksMerged
        BY <1>0, <3>1
      <3>. QED BY <1>0, <3>1, <3>2
    <2>. QED BY <1>2, <2>1, <2>2, <2>3, <2>4, <2>5, <2>6, <2>7 DEF OpenCanvas
  <1>3. ASSUME NEW p \in Page, Work(p) PROVE MarksMerged /\ \A q \in Page : MarksOpen(q) /\ MarksSave(q)
    <2>1. CASE StartSubscribe(p) \/ Subscribe(p) \/ Disconnect(p)
      BY <1>0, <2>1, StartSubscribeDoes, SubscribeDoes, DisconnectDoes
    <2>2. CASE Close(p)
      <3>1. /\ UNCHANGED <<rows, open>> /\ \A q \in Page \ {p} : save'[q] = save[q]
            /\ save'[p] = NoSave \/ (save'[p].pc = save[p].pc /\ save'[p].pending = save[p].pending)
        BY <2>2, CloseDoes
      <3>2. MarksSave(p)
        BY <1>0, <3>1, Blanks DEF MarksSave
      <3>. QED BY <1>0, <3>1, <3>2
    <2>3. CASE Withdraw(p) \/ \E f \in Field : EditField(p, f)
      <3>1. UNCHANGED <<rows, open, save>>
        BY <2>3 DEF Withdraw, EditField, Edits
      <3>. QED BY <1>0, <3>1
    <2>. QED BY <1>3, <2>1, <2>2, <2>3 DEF Work
  <1>4. ASSUME NEW p \in Page, SaveCanvas(p) PROVE MarksMerged /\ \A q \in Page : MarksOpen(q) /\ MarksSave(q)
    <2>1. CASE StartSave(p) \/ ReadPending(p) \/ PendingUnread(p) \/ RefuseSave(p) \/ SaveAnyway(p) \/ CancelSave(p)
      <3>1. /\ UNCHANGED <<rows, open>> /\ \A q \in Page \ {p} : save'[q] = save[q]
        BY <2>1, StartSaveDoes, ReadPendingDoes, RefuseSaveDoes, SaveAnywayDoes, CancelSaveDoes
      <3>2. save'[p].pc # "mark"
        BY <2>1, Blanks, StartSaveDoes, ReadPendingDoes, RefuseSaveDoes, SaveAnywayDoes, CancelSaveDoes
      <3>. QED BY <1>0, <3>1, <3>2
    <2>2. CASE StoreSave(p)
      <3>1. /\ UNCHANGED <<rows, open>> /\ \A q \in Page \ {p} : save'[q] = save[q]
            /\ save[p].pc = "store" /\ save[p].expected \in {None, stored.version}
            /\ Misses(SavedOver(p)) /\ Stores(save[p].payload) /\ save'[p].pending = save[p].pending
        BY <2>2, StoreSaveDoes
      <3>. PICK P : P = save[p].payload
        OBVIOUS
      <3>4. save'[p] # save[p]
        BY <2>2, SaveEnds
      <3>2. \A ids : ids = save[p].pending => ShowsAll(P, ids)'
        BY <3>1, <3>4, SaveShows
      <3>3. MarksSave(p)
        BY <3>1, <3>2 DEF MarksSave, Stores
      <3>. QED BY <1>0, <3>1, <3>3
    <2>3. CASE \E acted \in BOOLEAN : SaveFails(p, acted)
      BY <1>0, <2>3, SaveFailsDoes, Blanks
    <2>4. ASSUME NEW ids \in SUBSET save[p].pending, MarkSaved(p, ids)
          PROVE  MarksMerged /\ \A q \in Page : MarksOpen(q) /\ MarksSave(q)
      <3>1. /\ UNCHANGED open /\ \A q \in Page \ {p} : save'[q] = save[q]
            /\ save[p].pc = "mark" /\ save'[p].pc # "mark" /\ rows' = Marked(ids, "Merged")
        BY <2>4, MarkSavedDoes
      <3>. QED BY <1>0, <3>1
    <2>5. CASE BroadcastCanvasSaved(p)
      <3>1. /\ UNCHANGED <<rows, open>> /\ \A q \in Page \ {p} : save'[q] = save[q]
            /\ save'[p].pc # "mark"
        BY <2>5, BroadcastDoes, Blanks
      <3>. QED BY <1>0, <3>1
    <2>. QED BY <1>4, <2>1, <2>2, <2>3, <2>4, <2>5 DEF SaveCanvas
  <1>5. CASE UNCHANGED vars
    BY <1>0, <1>5 DEF vars
  <1>. QED BY <1>1, <1>2, <1>3, <1>4, <1>5 DEF Next

\* What is forgotten is on the saved canvas.
LEMMA ForgottenStep ==
    ASSUME BaseInv, ShownInv, [Next]_vars
    PROVE  ShowsAll(stored.payload, Forgotten)'
  <1>. PICK S, F : S = stored.payload /\ F = Forgotten
    OBVIOUS
  <1>1. Steady /\ S \in Payload /\ F \in SUBSET Spoken
    BY Start, Ours, SpokenRows DEF BaseInv
  <1>2. ShowsAll(stored.payload, F)'
    <2>1. ShowsAll(S, F)'
      BY <1>1, ShowsKept DEF ShownInv
    <2>2. Shows(stored.payload, S)'
      BY StoredShows
    <2>. QED BY <2>1, <2>2, ShowsLogicNext
  <1>3. ASSUME NEW x \in Lacks(stored.payload)', x[1] \in Forgotten'
        PROVE  x \in missed' \/ x \in Quiet'
    <2>1. CASE x[1] \in RowIds' /\ rows'[x[1]].status = "Merged"
      <3>1. x[1] \in F
        BY <2>1, ForgottenMoves DEF MarksMerged
      <3>. QED BY <1>2, <1>3, <3>1 DEF ShowsAll
    <2>2. ASSUME NEW q \in Page, open'[q].pc = "mark", x[1] \in open'[q].applied PROVE x \in missed' \/ x \in Quiet'
      <3>1. open[q].pc = "mark" => open[q].applied \subseteq F
        BY Ours DEF Forgotten
      <3>2. MarksOpen(q)
        BY ForgottenMoves
      <3>3. x[1] \in F \/ \A ids : ids = open'[q].applied => ShowsAll(stored.payload, ids)'
        BY <2>2, <3>1, <3>2 DEF MarksOpen
      <3>. QED BY <1>2, <1>3, <2>2, <3>3 DEF ShowsAll
    <2>3. ASSUME NEW q \in Page, save'[q].pc = "mark", x[1] \in save'[q].pending PROVE x \in missed' \/ x \in Quiet'
      <3>1. save[q].pc = "mark" => save[q].pending \subseteq F
        BY Ours DEF Forgotten
      <3>2. MarksSave(q)
        BY ForgottenMoves
      <3>3. x[1] \in F \/ \A ids : ids = save'[q].pending => ShowsAll(stored.payload, ids)'
        BY <2>3, <3>1, <3>2 DEF MarksSave
      <3>. QED BY <1>2, <1>3, <2>3, <3>3 DEF ShowsAll
    <2>. QED BY <1>3, <2>1, <2>2, <2>3 DEF Forgotten
  <1>. QED BY <1>3 DEF ShowsAll

-----------------------------------------------------------------------------
(* The inductive invariant, and what it shows.                                  *)

LEMMA InvInit == Init => BaseInv /\ ShownInv
  <1>. SUFFICES ASSUME Init PROVE BaseInv /\ ShownInv
    OBVIOUS
  <1>1. TypeInv /\ EarlyInv
    BY InitType, EarlyInit
  <1>2. RowIds = {} /\ Len(rows) = 0
    BY DEF Init, RowIds
  <1>3. fill.pc = "idle" /\ writes = 0 /\ stored.version = 1 /\ \A f \in Field : version[f] = 0
    BY DEF Init, NoFill, Saved
  <1>4. \A p \in Page : page[p] = Closed /\ open[p] = NoOpen /\ save[p] = NoSave
    BY DEF Init
  <1>5. EntriesInv
    BY <1>2, <1>3 DEF EntriesInv
  <1>6. FillInv
    BY <1>3 DEF FillInv, Sends, Created
  <1>7. VersionsInv
    BY <1>3, <1>4, Blanks DEF VersionsInv
  <1>8. OpenInv
    BY <1>4, Blanks DEF OpenInv, OpenOk
  <1>9. AcksInv
    BY <1>4, Blanks DEF AcksInv, AcksOk, Merges
  <1>10. \A P : Lacks(P) = {}
    BY <1>2 DEF Lacks
  <1>11. (\A P, ids : ShowsAll(P, ids)) /\ (\A P, Q : Shows(P, Q))
    BY <1>10 DEF ShowsAll, Shows
  <1>12. ASSUME NEW p \in Page PROVE PageOk(p) /\ SaveOk(p) /\ HereOk(p)
    <2>1. PageOk(p)
      BY <1>11 DEF PageOk
    <2>2. SaveOk(p) /\ HereOk(p)
      BY <1>4, <1>11, Blanks DEF SaveOk, HereOk
    <2>. QED BY <2>1, <2>2
  <1>. QED BY <1>1, <1>5, <1>6, <1>7, <1>8, <1>9, <1>11, <1>12 DEF BaseInv, ShownInv

LEMMA InvStep == BaseInv /\ ShownInv /\ [Next]_vars => BaseInv' /\ ShownInv'
  <1>. SUFFICES ASSUME BaseInv, ShownInv, [Next]_vars PROVE BaseInv' /\ ShownInv'
    OBVIOUS
  <1>1. BaseInv'
    BY Start, EntriesStep, FillStep, EarlyStep DEF BaseInv
  <1>2. ShownInv'
    BY TabsStep, ForgottenStep DEF ShownInv, TabOk
  <1>. QED BY <1>1, <1>2

\* What the merge of an opening tab stores is the saved canvas with the contributions
\* that it applies: the canvas that it read two awaits before is still the saved one,
\* or it stores nothing.
THEOREM MergeAlwaysOnBase == Spec => MergeOnBase
  <1>1. (BaseInv /\ ShownInv) /\ [Next]_vars =>
            [\A p \in Page : (open[p].pc = "merge" /\ open'[p].pc # "merge" /\ stored' # stored) =>
                                 stored'.payload = Applied(stored.payload, open[p].applied)]_vars
    BY MergeOnBaseStep DEF BaseInv
  <1>. QED BY <1>1, InvInit, InvStep, PTL DEF Spec, MergeOnBase

\* What a contribution that is marked merged holds, or a later entry, is on the saved
\* canvas, but for the fields noted as lost in `missed`: however many tabs merge and save
\* at once, and whichever of their calls fail or act unheard.
THEOREM MergedAlwaysSaved == Spec => []MergedIsSaved
  <1>1. BaseInv /\ ShownInv => MergedIsSaved
    BY LacksAt, QuietAt DEF ShownInv, ShowsAll, Spoken, Forgotten, MergedIsSaved
  <1>. QED BY <1>1, InvInit, InvStep, PTL DEF Spec

\* A tab that has the current version shows what it acknowledges and waits, or a later
\* entry, and a save that will be stored has in its payload what it is about to forget,
\* but for the fields noted as lost in `missed`.
THEOREM AcknowledgedAlwaysShown == Spec => []AcknowledgedIsShown
  <1>1. ASSUME BaseInv, ShownInv PROVE AcknowledgedIsShown
    <2>1. /\ \A x \in Quiet : x[1] \notin Spoken
          /\ \A p \in Page : page[p].acks \in SUBSET Spoken /\ save[p].pending \in SUBSET Spoken
      BY <1>1, QuietAt, Ours
    <2>. QED BY <1>1, <2>1 DEF ShownInv, PageOk, SaveOk, Waits, ShowsAll, AcknowledgedIsShown
  <1>2. BaseInv /\ ShownInv => AcknowledgedIsShown
    BY <1>1
  <1>. QED BY <1>2, InvInit, InvStep, PTL DEF Spec
=============================================================================
