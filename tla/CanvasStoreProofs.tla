------------------------- MODULE CanvasStoreProofs -------------------------
(* Safety of the canvas store for every set of requests, processes, sessions *)
(* and keys, every retention and every choice of faults.                     *)
EXTENDS CanvasStore, SequenceTheorems, FiniteSetTheorems, TLAPS

-----------------------------------------------------------------------------
(* Types.  A request that has created a document knows it, and one that has    *)
(* read the record has it; the types depend on that.                           *)

Creating == {"link", "index", "list", "prune", "unlink", "unindex",
             "persist", "publish", "attach", "unsave"}
Reading == (UpdateStage \ {"record"}) \cup RemoveStage

StageInv ==
    \A o \in Op : /\ pc[o] \in Creating => new[o] \in Doc
                  /\ pc[o] \in Reading => seen[o] \in Record

SharedType ==
    /\ record \in Record \cup {None}
    /\ lives \in Nat
    /\ bodies \in [Doc -> DataKey \cup {Plain, None}]
    /\ links \subseteq Nat \X Doc
    /\ nextDoc \in 1..(MaxDoc + 1)
    /\ keyRow \in DataKey \cup {None}
    /\ cache \in [Process \X Session -> DataKey \cup {None}]

RequestType ==
    /\ queue \in [Process -> Seq(Op)]
    /\ pc \in [Op -> Stage]
    /\ expected \in [Op -> Doc \cup {None}]
    /\ seen \in [Op -> Record \cup {None}]
    /\ new \in [Op -> Doc \cup {None}]
    /\ key \in [Op -> DataKey \cup {None}]
    /\ victims \in [Op -> SUBSET Doc]

LEMMA TypeSplit == TypeOK <=> SharedType /\ RequestType
  BY DEF TypeOK, SharedType, RequestType

LEMMA TypeSplitNext == TypeOK' <=> SharedType' /\ RequestType'
  BY DEF TypeOK, SharedType, RequestType

LEMMA NoDocIsNone == None \notin Doc /\ None \notin Record
  BY StoreAssumption DEF Doc, Record

LEMMA FinishType ==
    ASSUME RequestType, StageInv, NEW o \in Op, Finish(o)
    PROVE  RequestType' /\ StageInv'
  <1>1. queue' \in [Process -> Seq(Op)]
    <2>1. CASE HasLock(o)
      <3>1. ProcessOf[o] \in Process /\ queue[ProcessOf[o]] \in Seq(Op)
        BY StoreAssumption DEF RequestType
      <3>2. Tail(queue[ProcessOf[o]]) \in Seq(Op)
        BY <2>1, <3>1, HeadTailProperties DEF HasLock
      <3>. QED BY <2>1, <3>1, <3>2 DEF Finish, RequestType
    <2>2. CASE ~HasLock(o)
      BY <2>2 DEF Finish, RequestType
    <2>. QED BY <2>1, <2>2
  <1>2. pc' \in [Op -> Stage]
    BY DEF Finish, RequestType, Stage
  <1>3. RequestType'
    BY <1>1, <1>2 DEF Finish, RequestType
  <1>4. StageInv'
    BY DEF Finish, RequestType, StageInv, Creating, Reading, UpdateStage, RemoveStage
  <1>. QED BY <1>3, <1>4

LEMMA AdvanceType ==
    ASSUME RequestType, StageInv, NEW o \in Op, NEW stage \in Stage,
           Advance(o, stage),
           expected' \in [Op -> Doc \cup {None}],
           seen' \in [Op -> Record \cup {None}],
           new' \in [Op -> Doc \cup {None}],
           key' \in [Op -> DataKey \cup {None}],
           victims' \in [Op -> SUBSET Doc],
           \A q \in Op \ {o} : new'[q] = new[q] /\ seen'[q] = seen[q],
           stage \in Creating => new'[o] \in Doc,
           stage \in Reading => seen'[o] \in Record
    PROVE  RequestType' /\ StageInv'
  BY DEF Advance, RequestType, StageInv

LEMMA GotoType ==
    ASSUME RequestType, StageInv, NEW o \in Op, NEW stage \in Stage,
           Goto(o, stage),
           stage \in Creating => new[o] \in Doc,
           stage \in Reading => seen[o] \in Record
    PROVE  RequestType' /\ StageInv'
  <1>1. CASE stage = "idle"
    BY <1>1, FinishType DEF Goto
  <1>2. CASE stage # "idle"
    <2>1. Advance(o, stage) /\ UNCHANGED localVars
      BY <1>2 DEF Goto
    <2>2. /\ new' = new /\ seen' = seen /\ key' = key
          /\ expected' = expected /\ victims' = victims
      BY <2>1 DEF localVars
    <2>. QED BY <2>1, <2>2, AdvanceType DEF RequestType
  <1>. QED BY <1>1, <1>2

\* A call that fails leads to a stage that knows no more than the call did.
LEMMA FailedStage ==
    ASSUME NEW stage \in Stage
    PROVE  /\ Failed(stage) \in Stage
           /\ Failed(stage) \in Creating => stage \in Creating
           /\ Failed(stage) \in Reading => stage \in Reading
  BY DEF Failed, Stage, Creating, Reading, UpdateStage, SaveStage, RemoveStage

LEMMA FailedType ==
    ASSUME RequestType, StageInv, NEW o \in Op, Goto(o, Failed(pc[o]))
    PROVE  RequestType' /\ StageInv'
  <1>1. pc[o] \in Stage
    BY DEF RequestType
  <1>2. /\ Failed(pc[o]) \in Creating => new[o] \in Doc
        /\ Failed(pc[o]) \in Reading => seen[o] \in Record
    BY <1>1, FailedStage DEF StageInv
  <1>. QED BY <1>1, <1>2, FailedStage, GotoType

LEMMA AnswerType ==
    ASSUME RequestType, StageInv, NEW o \in Op, NEW stage \in Stage,
           Answer(o, stage),
           stage \in Creating => new[o] \in Doc,
           stage \in Reading => seen[o] \in Record
    PROVE  RequestType' /\ StageInv'
  BY GotoType, FailedType DEF Answer

LEMMA StoreBodyType ==
    ASSUME SharedType, NEW k \in DataKey \cup {Plain, None}, StoreBody(k),
           UNCHANGED keyVars
    PROVE  SharedType' /\ nextDoc \in Doc
  BY StoreAssumption DEF SharedType, StoreBody, keyVars, Doc

LEMMA IndexType ==
    ASSUME SharedType, NEW d \in Doc, Index(d), UNCHANGED keyVars
    PROVE  SharedType'
  BY DEF SharedType, Index, keyVars, Record

LEMMA LinkType ==
    ASSUME SharedType, NEW d \in Doc, NEW id \in Nat, Link(id, d), UNCHANGED keyVars
    PROVE  SharedType'
  BY DEF SharedType, Link, keyVars

LEMMA DestroyType ==
    ASSUME SharedType, NEW D \in SUBSET Doc, Destroy(D), UNCHANGED keyVars
    PROVE  SharedType'
  BY DEF SharedType, Destroy, keyVars

LEMMA SharedKept ==
    ASSUME SharedType, UNCHANGED <<salesforceVars, keyVars>>
    PROVE  SharedType'
  BY DEF SharedType, salesforceVars, keyVars

-----------------------------------------------------------------------------
(* The steps keep the types. *)

TypeInv == SharedType /\ RequestType /\ StageInv

USE DEF TypeInv

LEMMA InitType == Init => TypeInv
  <1>. SUFFICES ASSUME Init PROVE TypeInv
    OBVIOUS
  <1>1. 1 \in Doc
    BY StoreAssumption DEF Doc
  <1>2. SharedType
    BY <1>1, StoreAssumption DEF Init, SharedType, Record, Doc
  <1>3. RequestType /\ StageInv
    BY DEF Init, RequestType, StageInv, Stage, Creating, Reading, UpdateStage, RemoveStage
  <1>. QED BY <1>2, <1>3

LEMMA NewBody ==
    ASSUME TypeInv, NEW o \in Op, pc[o] \in Creating
    PROVE  new[o] \in Doc
  BY DEF StageInv

LEMMA SeenRecord ==
    ASSUME TypeInv, NEW o \in Op, pc[o] \in Reading
    PROVE  seen[o] \in Record
  BY DEF StageInv

LEMMA UpdateReads ==
    ASSUME TypeInv, NEW o \in Op,
           \/ RequestUpdate(o) \/ ReadRecord(o) \/ ReadDocument(o) \/ CheckVersion(o)
           \/ GetKey(o) \/ MintKey(o) \/ AdoptKey(o) \/ ListBodies(o)
    PROVE  TypeInv'
  <1>. USE DEF Stage, UpdateStage, SaveStage, RemoveStage, Creating, Reading
  <1>1. CASE RequestUpdate(o)
    <2>1. SharedType'
      BY <1>1, SharedKept DEF RequestUpdate
    <2>2. ProcessOf[o] \in Process /\ queue[ProcessOf[o]] \in Seq(Op)
      BY StoreAssumption DEF RequestType
    <2>3. Append(queue[ProcessOf[o]], o) \in Seq(Op)
      BY <2>2, AppendProperties
    <2>4. queue' \in [Process -> Seq(Op)]
      BY <1>1, <2>2, <2>3 DEF RequestUpdate, RequestType
    <2>5. record \in Record
      BY <1>1 DEF RequestUpdate, SharedType
    <2>6. expected' \in [Op -> Doc \cup {None}]
      BY <1>1, <2>5 DEF RequestUpdate, RequestType, Record
    <2>7. RequestType'
      BY <1>1, <2>4, <2>6 DEF RequestUpdate, RequestType
    <2>8. StageInv'
      BY <1>1 DEF RequestUpdate, RequestType, StageInv
    <2>. QED BY <2>1, <2>7, <2>8
  <1>2. CASE ReadRecord(o)
    <2>1. SharedType'
      BY <1>2, SharedKept DEF ReadRecord
    <2>2. CASE record = None
      BY <1>2, <2>1, <2>2, FinishType DEF ReadRecord
    <2>3. CASE record # None
      <3>1. record \in Record
        BY <2>3 DEF SharedType
      <3>2. /\ seen' = [seen EXCEPT ![o] = record]
            /\ Advance(o, "document")
            /\ UNCHANGED <<expected, new, key, victims>>
        BY <1>2, <2>3 DEF ReadRecord
      <3>3. /\ seen' \in [Op -> Record \cup {None}]
            /\ \A q \in Op \ {o} : new'[q] = new[q] /\ seen'[q] = seen[q]
            /\ seen'[o] \in Record
        BY <3>1, <3>2 DEF RequestType
      <3>. QED BY <2>1, <3>2, <3>3, AdvanceType DEF RequestType
    <2>. QED BY <2>2, <2>3
  <1>3. CASE ReadDocument(o)
    BY <1>3, SharedKept, SeenRecord, GotoType DEF ReadDocument
  <1>4. CASE CheckVersion(o)
    BY <1>4, SharedKept, SeenRecord, GotoType DEF CheckVersion
  <1>5. CASE GetKey(o)
    <2>1. Holder(o) \in Process \X Session
      BY StoreAssumption DEF Holder
    <2>2. cache[Holder(o)] \in DataKey \cup {None} /\ keyRow \in DataKey \cup {None}
      BY <2>1 DEF SharedType
    <2>3. seen[o] \in Record
      BY <1>5, SeenRecord DEF GetKey
    <2>4. SharedType'
      BY <1>5, <2>1, <2>2 DEF GetKey, SharedType, salesforceVars, FreshKeys
    <2>5. /\ key' \in [Op -> DataKey \cup {None}]
          /\ Advance(o, "create") \/ Advance(o, "mint")
          /\ UNCHANGED <<expected, seen, new, victims>>
      BY <1>5, <2>2 DEF GetKey, RequestType, FreshKeys
    <2>. QED BY <2>3, <2>4, <2>5, AdvanceType DEF RequestType
  <1>6. CASE MintKey(o)
    <2>1. SharedType'
      BY <1>6 DEF MintKey, SharedType, RequestType, salesforceVars
    <2>. QED BY <1>6, <2>1, SeenRecord, AnswerType DEF MintKey
  <1>7. CASE AdoptKey(o)
    <2>1. Holder(o) \in Process \X Session
      BY StoreAssumption DEF Holder
    <2>2. keyRow \in DataKey \cup {None} /\ key[o] \in DataKey \cup {None}
      BY DEF SharedType, RequestType
    <2>3. seen[o] \in Record
      BY <1>7, SeenRecord DEF AdoptKey
    <2>4. SharedType'
      BY <1>7, <2>1, <2>2 DEF AdoptKey, SharedType, salesforceVars
    <2>5. /\ key' \in [Op -> DataKey \cup {None}]
          /\ Advance(o, "create")
          /\ UNCHANGED <<expected, seen, new, victims>>
      BY <1>7, <2>2 DEF AdoptKey, RequestType
    <2>. QED BY <2>3, <2>4, <2>5, AdvanceType DEF RequestType
  <1>8. CASE ListBodies(o)
    <2>1. SharedType'
      BY <1>8, SharedKept DEF ListBodies
    <2>2. CASE Finish(o)
      BY <2>1, <2>2, FinishType
    <2>3. CASE ~Finish(o)
      <3>1. PICK L \in {Linked(seen[o].id), Linked(seen[o].id) \ {new[o]}} :
                 /\ victims' = [victims EXCEPT ![o] =
                        (L \ {new[o]}) \ Newest(L \ {new[o]}, Retention - 1)]
                 /\ Advance(o, "prune")
                 /\ UNCHANGED <<expected, seen, new, key>>
        BY <1>8, <2>3 DEF ListBodies
      <3>2. L \subseteq Doc
        BY DEF Linked, Docs
      <3>3. victims' \in [Op -> SUBSET Doc]
        BY <3>1, <3>2 DEF RequestType
      <3>4. new[o] \in Doc /\ seen[o] \in Record
        BY <1>8, NewBody, SeenRecord DEF ListBodies
      <3>. QED BY <2>1, <3>1, <3>3, <3>4, AdvanceType DEF RequestType
    <2>. QED BY <2>2, <2>3
  <1>. QED BY <1>1, <1>2, <1>3, <1>4, <1>5, <1>6, <1>7, <1>8

LEMMA UpdateWrites ==
    ASSUME TypeInv, NEW o \in Op,
           CreateBody(o) \/ LinkBody(o) \/ IndexBody(o) \/ UndoBody(o) \/ PruneBodies(o)
    PROVE  TypeInv'
  <1>. USE DEF Stage, UpdateStage, SaveStage, RemoveStage, Creating, Reading
  <1>1. CASE CreateBody(o)
    <2>1. SharedType' /\ nextDoc \in Doc
      BY <1>1, StoreBodyType DEF CreateBody, RequestType
    <2>2. CASE Finish(o)
      BY <2>1, <2>2, FinishType
    <2>3. CASE ~Finish(o)
      <3>1. /\ new' = [new EXCEPT ![o] = nextDoc]
            /\ Advance(o, "link")
            /\ UNCHANGED <<expected, seen, key, victims>>
        BY <1>1, <2>3 DEF CreateBody
      <3>2. new' \in [Op -> Doc \cup {None}] /\ new'[o] \in Doc /\ seen[o] \in Record
        BY <1>1, <2>1, <3>1, SeenRecord DEF RequestType, CreateBody
      <3>3. \A q \in Op \ {o} : new'[q] = new[q] /\ seen'[q] = seen[q]
        BY <3>1 DEF RequestType
      <3>. QED BY <2>1, <3>1, <3>2, <3>3, AdvanceType DEF RequestType
    <2>. QED BY <2>2, <2>3
  <1>2. CASE LinkBody(o)
    <2>1. new[o] \in Doc /\ seen[o] \in Record /\ seen[o].id \in Nat
      BY <1>2, NewBody, SeenRecord DEF LinkBody, Record
    <2>2. SharedType'
      BY <1>2, <2>1, LinkType, SharedKept DEF LinkBody
    <2>. QED BY <1>2, <2>1, <2>2, AnswerType, GotoType DEF LinkBody
  <1>3. CASE IndexBody(o)
    <2>1. new[o] \in Doc /\ seen[o] \in Record
      BY <1>3, NewBody, SeenRecord DEF IndexBody
    <2>2. SharedType'
      BY <1>3, <2>1, IndexType DEF IndexBody
    <2>. QED BY <1>3, <2>1, <2>2, AnswerType DEF IndexBody
  <1>4. CASE UndoBody(o)
    <2>1. {new[o]} \in SUBSET Doc
      BY <1>4, NewBody DEF UndoBody
    <2>. QED BY <1>4, <2>1, DestroyType, FinishType DEF UndoBody
  <1>5. CASE PruneBodies(o)
    <2>1. PICK D \in Destroyable(victims[o]) : Destroy(D)
      BY <1>5 DEF PruneBodies
    <2>2. D \in SUBSET Doc
      BY <2>1 DEF Destroyable, Docs
    <2>. QED BY <1>5, <2>1, <2>2, DestroyType, FinishType DEF PruneBodies
  <1>. QED BY <1>1, <1>2, <1>3, <1>4, <1>5

LEMMA SaveType ==
    ASSUME TypeInv, NEW o \in Op, StartSave(o) \/ SaveCall(o)
    PROVE  TypeInv'
  <1>. USE DEF Stage, UpdateStage, SaveStage, RemoveStage, Creating, Reading
  <1>1. CASE StartSave(o)
    <2>1. PICK k \in FreshKeys : StoreBody(k) /\ key' = [key EXCEPT ![o] = k]
      BY <1>1 DEF StartSave
    <2>2. k \in DataKey
      BY <2>1 DEF FreshKeys
    <2>3. SharedType' /\ nextDoc \in Doc
      BY <1>1, <2>1, <2>2, StoreBodyType DEF StartSave
    <2>4. /\ new' \in [Op -> Doc \cup {None}]
          /\ key' \in [Op -> DataKey \cup {None}]
          /\ new'[o] \in Doc
          /\ \A q \in Op \ {o} : new'[q] = new[q]
      BY <1>1, <2>1, <2>2, <2>3 DEF StartSave, RequestType
    <2>. QED BY <1>1, <2>3, <2>4, AdvanceType DEF StartSave, RequestType
  <1>2. CASE PersistKey(o)
    <2>1. Holder(o) \in Process \X Session
      BY StoreAssumption DEF Holder
    <2>2. SharedType'
      BY <1>2, <2>1 DEF PersistKey, SharedType, RequestType, salesforceVars
    <2>3. new[o] \in Doc
      BY <1>2, NewBody DEF PersistKey
    <2>. QED BY <1>2, <2>2, <2>3, GotoType DEF PersistKey
  <1>3. CASE PublishRecord(o)
    <2>1. new[o] \in Doc
      BY <1>3, NewBody DEF PublishRecord
    <2>. QED BY <1>3, <2>1, IndexType, AnswerType DEF PublishRecord
  <1>4. CASE AttachBody(o)
    <2>1. new[o] \in Doc
      BY <1>4, NewBody DEF AttachBody
    <2>2. SharedType'
      BY <1>4, <2>1, LinkType, SharedKept DEF AttachBody, SharedType, Record
    <2>. QED BY <1>4, <2>1, <2>2, AnswerType, GotoType DEF AttachBody
  <1>5. CASE UndoSave(o)
    <2>1. {new[o]} \in SUBSET Doc
      BY <1>5, NewBody DEF UndoSave
    <2>. QED BY <1>5, <2>1, DestroyType, GotoType DEF UndoSave
  <1>6. CASE UndoKey(o)
    <2>1. SharedType'
      BY <1>6 DEF UndoKey, SharedType, salesforceVars
    <2>. QED BY <1>6, <2>1, FinishType DEF UndoKey
  <1>. QED BY <1>1, <1>2, <1>3, <1>4, <1>5, <1>6 DEF SaveCall

LEMMA RemoveType ==
    ASSUME TypeInv, NEW o \in Op, StartRemove(o) \/ RemoveCall(o)
    PROVE  TypeInv'
  <1>. USE DEF Stage, UpdateStage, SaveStage, RemoveStage, Creating, Reading
  <1>1. CASE StartRemove(o)
    <2>1. SharedType' /\ record \in Record
      BY <1>1, SharedKept DEF StartRemove, SharedType
    <2>2. /\ seen' \in [Op -> Record \cup {None}]
          /\ seen'[o] \in Record
          /\ \A q \in Op \ {o} : seen'[q] = seen[q]
      BY <1>1, <2>1 DEF StartRemove, RequestType
    <2>. QED BY <1>1, <2>1, <2>2, AdvanceType DEF StartRemove, RequestType
  <1>2. CASE ListToRemove(o)
    <2>1. SharedType' /\ seen[o] \in Record
      BY <1>2, SharedKept, SeenRecord DEF ListToRemove
    <2>2. victims' \in [Op -> SUBSET Doc]
      BY <1>2, <2>1 DEF ListToRemove, RequestType, Linked, Docs, Record
    <2>. QED BY <1>2, <2>1, <2>2, AdvanceType DEF ListToRemove, RequestType
  <1>3. CASE DestroyBodies(o)
    <2>1. PICK D \in Destroyable(victims[o]) :
             /\ Destroy(D)
             /\ IF D = victims[o] THEN Answer(o, "dropKey") ELSE Finish(o)
      BY <1>3 DEF DestroyBodies
    <2>2. D \in SUBSET Doc /\ seen[o] \in Record
      BY <1>3, <2>1, SeenRecord DEF Destroyable, Docs, DestroyBodies
    <2>3. SharedType'
      BY <1>3, <2>1, <2>2, DestroyType DEF DestroyBodies
    <2>. QED BY <2>1, <2>2, <2>3, AnswerType, FinishType
  <1>4. CASE DropKey(o)
    <2>1. SharedType' /\ seen[o] \in Record
      BY <1>4, SeenRecord DEF DropKey, SharedType, salesforceVars
    <2>. QED BY <1>4, <2>1, GotoType DEF DropKey
  <1>5. CASE DropRecord(o)
    <2>1. SharedType'
      BY <1>5 DEF DropRecord, SharedType, keyVars
    <2>. QED BY <1>5, <2>1, FinishType DEF DropRecord
  <1>. QED BY <1>1, <1>2, <1>3, <1>4, <1>5 DEF RemoveCall

LEMMA AsideType == TypeInv /\ Aside => TypeInv'
  <1>1. ASSUME TypeInv, NEW h \in Process \X Session, Open(h) \/ Forget(h)
        PROVE  TypeInv'
    BY <1>1 DEF Open, Forget, SharedType, RequestType, StageInv, salesforceVars, localVars
  <1>2. ASSUME TypeInv, NEW p \in Process, Crash(p)
        PROVE  TypeInv'
    <2>1. queue' \in [Process -> Seq(Op)]
      BY <1>2, EmptySeq DEF Crash, RequestType
    <2>2. RequestType'
      BY <1>2, <2>1 DEF Crash, RequestType, Stage
    <2>3. SharedType'
      BY <1>2 DEF Crash, SharedType, salesforceVars
    <2>4. StageInv'
      BY <1>2 DEF Crash, StageInv, RequestType, Creating, Reading, UpdateStage, RemoveStage
    <2>. QED BY <2>2, <2>3, <2>4
  <1>. QED BY <1>1, <1>2 DEF Aside

LEMMA NextType == TypeInv /\ [Next]_vars => TypeInv'
  <1>. SUFFICES ASSUME TypeInv, [Next]_vars PROVE TypeInv'
    OBVIOUS
  <1>1. ASSUME NEW o \in Op, UpdateCall(o) PROVE TypeInv'
    BY <1>1, UpdateReads, UpdateWrites DEF UpdateCall
  <1>2. ASSUME NEW o \in Op, Refuse(o) PROVE TypeInv'
    BY <1>2, SharedKept, FailedType DEF Refuse
  <1>3. CASE UNCHANGED vars
    BY <1>3 DEF vars, salesforceVars, keyVars, localVars, SharedType, RequestType, StageInv
  <1>. QED BY <1>1, <1>2, <1>3, UpdateReads, SaveType, RemoveType, AsideType DEF Next

\* Every variable keeps its type: among others, the pointer of the record always
\* names a document, although requests read, create and undo in between.
THEOREM TypeCorrect == Spec => []TypeOK
  <1>1. TypeInv => TypeOK
    BY TypeSplit
  <1>. QED BY <1>1, InitType, NextType, PTL DEF Spec

-----------------------------------------------------------------------------
(* Sequences without repetitions *)

Once(s) == \A i, j \in 1..Len(s) : s[i] = s[j] => i = j

LEMMA AppendOnce ==
    ASSUME NEW S, NEW s \in Seq(S), NEW e \in S, Once(s), \A i \in 1..Len(s) : s[i] # e
    PROVE  /\ Once(Append(s, e))
           /\ \A i \in 1..Len(Append(s, e)) :
                 Append(s, e)[i] = e \/ \E j \in 1..Len(s) : Append(s, e)[i] = s[j]
  <1>. DEFINE t == Append(s, e)
  <1>1. Len(s) \in Nat
    BY LenProperties
  <1>2. /\ Len(t) = Len(s) + 1
        /\ \A i \in 1..Len(s) : t[i] = s[i]
        /\ t[Len(s) + 1] = e
    BY AppendProperties
  <1>. HIDE DEF t
  <1>3. \A i \in 1..Len(t) : i = Len(s) + 1 \/ i \in 1..Len(s)
    BY <1>1, <1>2
  <1>4. Once(t)
    BY <1>1, <1>2, <1>3 DEF Once
  <1>5. \A i \in 1..Len(t) : t[i] = e \/ \E j \in 1..Len(s) : t[i] = s[j]
    BY <1>2, <1>3
  <1>. QED BY <1>4, <1>5 DEF t

LEMMA TailOnce ==
    ASSUME NEW S, NEW s \in Seq(S), s # <<>>, Once(s)
    PROVE  /\ Tail(s) \in Seq(S)
           /\ Once(Tail(s))
           /\ \A i \in 1..Len(Tail(s)) :
                 Tail(s)[i] # Head(s) /\ \E j \in 1..Len(s) : Tail(s)[i] = s[j]
  <1>. DEFINE t == Tail(s)
  <1>1. Len(s) \in Nat \ {0} /\ Head(s) = s[1]
    BY EmptySeq
  <1>2. /\ t \in Seq(S)
        /\ Len(t) = Len(s) - 1
        /\ \A i \in 1..Len(t) : t[i] = s[i + 1]
    BY HeadTailProperties
  <1>. HIDE DEF t
  <1>3. \A i \in 1..Len(t) : i + 1 \in 1..Len(s) /\ i + 1 # 1
    BY <1>1, <1>2
  <1>4. Once(t)
    BY <1>1, <1>2, <1>3 DEF Once
  <1>5. \A i \in 1..Len(t) : t[i] # s[1] /\ \E j \in 1..Len(s) : t[i] = s[j]
    BY <1>1, <1>2, <1>3 DEF Once
  <1>. QED BY <1>1, <1>2, <1>4, <1>5 DEF t

LEMMA AppendHead ==
    ASSUME NEW S, NEW s \in Seq(S), NEW e \in S, s # <<>>
    PROVE  Append(s, e) # <<>> /\ Head(Append(s, e)) = Head(s)
  <1>1. Len(s) \in Nat \ {0}
    BY EmptySeq
  <1>2. /\ Append(s, e) \in Seq(S)
        /\ Len(Append(s, e)) = Len(s) + 1
        /\ \A i \in 1..Len(s) : Append(s, e)[i] = s[i]
    BY AppendProperties
  <1>3. Append(s, e)[1] = s[1] /\ Len(Append(s, e)) # 0
    BY <1>1, <1>2
  <1>. QED BY <1>3

-----------------------------------------------------------------------------
(* The lock.  A process's queue holds exactly its updates, each once, and only *)
(* the first of them has gone beyond waiting.                                  *)

Queues(p, o) == o \in Op /\ ProcessOf[o] = p /\ pc[o] \in UpdateStage

QueuesSound == \A p \in Process : \A i \in 1..Len(queue[p]) : Queues(p, queue[p][i])

LockInv ==
    /\ \A p \in Process : Once(queue[p])
    /\ QueuesSound
    /\ \A o \in Op : Updating(o) => HasLock(o)

\* How a call moves its request: an update that has the lock keeps it until its
\* end; nothing else becomes an update.
Moves(o, stage) ==
    /\ pc' = [pc EXCEPT ![o] = stage]
    /\ queue' = IF stage = "idle" /\ HasLock(o)
                THEN [queue EXCEPT ![ProcessOf[o]] = Tail(@)] ELSE queue
    /\ pc[o] = "record" => HasLock(o)
    /\ IF pc[o] \in UpdateStage THEN stage \in (UpdateStage \ {"record"}) \cup {"idle"}
                                ELSE stage \notin UpdateStage

LEMMA MovesLock ==
    ASSUME TypeInv, LockInv, NEW o \in Op, NEW stage \in Stage, Moves(o, stage)
    PROVE  LockInv'
  <1>. DEFINE P == ProcessOf[o]
  <1>1. P \in Process /\ queue[P] \in Seq(Op)
    BY StoreAssumption DEF RequestType
  <1>2. pc' \in [Op -> Stage] /\ \A q \in Op : pc'[q] = IF q = o THEN stage ELSE pc[q]
    BY DEF Moves, RequestType
  <1>3. CASE stage = "idle" /\ HasLock(o)
    <2>1. queue[P] # <<>> /\ Head(queue[P]) = o
      BY <1>3 DEF HasLock
    <2>2. \A p \in Process : queue'[p] = IF p = P THEN Tail(queue[P]) ELSE queue[p]
      BY <1>1, <1>3 DEF Moves, RequestType
    <2>3. /\ Once(queue'[P])
          /\ \A i \in 1..Len(queue'[P]) :
                queue'[P][i] # o /\ \E j \in 1..Len(queue[P]) : queue'[P][i] = queue[P][j]
      <3>1. Once(queue[P]) /\ queue'[P] = Tail(queue[P])
        BY <1>1, <2>2 DEF LockInv
      <3>. QED BY <1>1, <2>1, <3>1, TailOnce
    <2>4. \A p \in Process : Once(queue'[p])
      BY <2>2, <2>3 DEF LockInv
    <2>5. \A p \in Process : \A i \in 1..Len(queue'[p]) :
             Queues(p, queue'[p][i]) /\ queue'[p][i] # o
      <3>. SUFFICES ASSUME NEW p \in Process, NEW i \in 1..Len(queue'[p])
                    PROVE  Queues(p, queue'[p][i]) /\ queue'[p][i] # o
        OBVIOUS
      <3>1. CASE p = P
        BY <1>1, <2>3, <3>1 DEF LockInv, QueuesSound
      <3>2. CASE p # P
        BY <1>3, <2>1, <2>2, <3>2 DEF LockInv, QueuesSound, Queues
      <3>. QED BY <3>1, <3>2
    <2>6. QueuesSound'
      BY <1>2, <2>5 DEF QueuesSound, Queues
    <2>7. \A q \in Op : Updating(q)' => HasLock(q)'
      <3>. SUFFICES ASSUME NEW q \in Op, Updating(q)' PROVE HasLock(q)'
        OBVIOUS
      <3>1. q # o /\ Updating(q)
        BY <1>2, <1>3 DEF Updating, UpdateStage
      <3>2. HasLock(q) /\ ProcessOf[q] # P
        BY <2>1, <3>1 DEF LockInv, HasLock
      <3>. QED BY <2>2, <3>2, StoreAssumption DEF HasLock
    <2>. QED BY <2>4, <2>6, <2>7 DEF LockInv
  <1>4. CASE ~(stage = "idle" /\ HasLock(o))
    <2>1. queue' = queue
      BY <1>4 DEF Moves
    <2>2. QueuesSound'
      <3>. SUFFICES ASSUME NEW p \in Process, NEW i \in 1..Len(queue[p])
                    PROVE  Queues(p, queue[p][i])'
        BY <2>1 DEF QueuesSound
      <3>1. Queues(p, queue[p][i])
        BY DEF LockInv, QueuesSound
      <3>2. CASE queue[p][i] = o
        <4>1. pc[o] \in UpdateStage
          BY <3>1, <3>2 DEF Queues
        <4>2. HasLock(o)
          BY <4>1 DEF Moves, LockInv, Updating
        <4>3. stage \in UpdateStage
          BY <1>4, <4>1, <4>2 DEF Moves
        <4>. QED BY <1>2, <2>1, <3>1, <3>2, <4>3 DEF Queues
      <3>3. CASE queue[p][i] # o
        BY <1>2, <2>1, <3>1, <3>3 DEF Queues
      <3>. QED BY <3>2, <3>3
    <2>3. \A q \in Op : Updating(q)' => HasLock(q)'
      <3>. SUFFICES ASSUME NEW q \in Op, Updating(q)' PROVE HasLock(q)
        BY <2>1 DEF HasLock
      <3>1. CASE q # o
        BY <1>2, <3>1 DEF Updating, LockInv
      <3>2. CASE q = o
        <4>1. stage \in UpdateStage \ {"record"}
          BY <1>2, <3>2 DEF Updating
        <4>2. pc[o] \in UpdateStage
          BY <4>1 DEF Moves, UpdateStage
        <4>. QED BY <3>2, <4>2 DEF Moves, LockInv, Updating, UpdateStage
      <3>. QED BY <3>1, <3>2
    <2>. QED BY <2>1, <2>2, <2>3 DEF LockInv
  <1>. QED BY <1>3, <1>4

LEMMA AdvanceMoves ==
    ASSUME TypeInv, NEW o \in Op, NEW stage \in Stage, stage # "idle", Advance(o, stage),
           pc[o] = "record" => HasLock(o),
           IF pc[o] \in UpdateStage THEN stage \in UpdateStage \ {"record"}
                                    ELSE stage \notin UpdateStage
    PROVE  \E to \in Stage : Moves(o, to)
  <1>1. Moves(o, stage)
    BY DEF Advance, Moves
  <1>. QED BY <1>1

LEMMA FailedMoves ==
    ASSUME TypeInv, NEW stage \in Stage, stage # "idle"
    PROVE  IF stage \in UpdateStage
           THEN Failed(stage) \in (UpdateStage \ {"record"}) \cup {"idle"}
           ELSE Failed(stage) \notin UpdateStage
  BY DEF Failed, Stage, UpdateStage, SaveStage, RemoveStage

LEMMA AnswerMoves ==
    ASSUME TypeInv, NEW o \in Op, NEW stage \in Stage, pc[o] # "idle",
           pc[o] = "record" => HasLock(o),
           IF pc[o] \in UpdateStage THEN stage \in (UpdateStage \ {"record"}) \cup {"idle"}
                                    ELSE stage \notin UpdateStage,
           Answer(o, stage) \/ Goto(o, stage) \/ Goto(o, Failed(pc[o]))
    PROVE  \E to \in Stage : Moves(o, to)
  <1>1. pc[o] \in Stage /\ "idle" \in Stage
    BY DEF RequestType, Stage
  <1>2. CASE Goto(o, stage)
    BY <1>1, <1>2 DEF Goto, Finish, Advance, Moves
  <1>3. CASE Goto(o, Failed(pc[o]))
    <2>1. /\ Failed(pc[o]) \in Stage
          /\ IF pc[o] \in UpdateStage
             THEN Failed(pc[o]) \in (UpdateStage \ {"record"}) \cup {"idle"}
             ELSE Failed(pc[o]) \notin UpdateStage
      BY <1>1, FailedStage, FailedMoves
    <2>. QED BY <1>1, <1>3, <2>1 DEF Goto, Finish, Advance, Moves
  <1>. QED BY <1>2, <1>3 DEF Answer

LEMMA FinishMoves ==
    ASSUME TypeInv, NEW o \in Op, Finish(o), pc[o] = "record" => HasLock(o)
    PROVE  \E to \in Stage : Moves(o, to)
  <1>1. "idle" \in Stage /\ "idle" \notin UpdateStage
    BY DEF Stage, UpdateStage
  <1>. QED BY <1>1 DEF Finish, Moves

LEMMA UpdateMoves ==
    ASSUME TypeInv, NEW o \in Op, UpdateCall(o)
    PROVE  \E to \in Stage : Moves(o, to)
  <1>. USE DEF Stage, UpdateStage
  <1>1. CASE ReadRecord(o)
    BY <1>1, FinishMoves, AdvanceMoves DEF ReadRecord
  <1>2. CASE ReadDocument(o)
    BY <1>2, AnswerMoves DEF ReadDocument
  <1>3. CASE CheckVersion(o)
    BY <1>3, AnswerMoves DEF CheckVersion
  <1>4. CASE GetKey(o)
    BY <1>4, AdvanceMoves DEF GetKey
  <1>5. CASE MintKey(o)
    BY <1>5, AnswerMoves DEF MintKey
  <1>6. CASE AdoptKey(o)
    BY <1>6, AdvanceMoves DEF AdoptKey
  <1>7. CASE CreateBody(o)
    BY <1>7, FinishMoves, AdvanceMoves DEF CreateBody
  <1>8. CASE LinkBody(o)
    BY <1>8, AnswerMoves DEF LinkBody
  <1>9. CASE IndexBody(o)
    BY <1>9, AnswerMoves DEF IndexBody
  <1>10. CASE UndoBody(o)
    BY <1>10, FinishMoves DEF UndoBody
  <1>11. CASE ListBodies(o)
    BY <1>11, FinishMoves, AdvanceMoves DEF ListBodies
  <1>12. CASE PruneBodies(o)
    BY <1>12, FinishMoves DEF PruneBodies
  <1>. QED BY <1>1, <1>2, <1>3, <1>4, <1>5, <1>6, <1>7, <1>8, <1>9, <1>10, <1>11, <1>12
           DEF UpdateCall

LEMMA SaveMoves ==
    ASSUME TypeInv, NEW o \in Op, StartSave(o) \/ SaveCall(o)
    PROVE  \E to \in Stage : Moves(o, to)
  <1>. USE DEF Stage, SaveStage, UpdateStage
  <1>1. CASE StartSave(o)
    BY <1>1, AdvanceMoves DEF StartSave
  <1>2. CASE PersistKey(o)
    BY <1>2, AnswerMoves DEF PersistKey
  <1>3. CASE PublishRecord(o)
    BY <1>3, AnswerMoves DEF PublishRecord
  <1>4. CASE AttachBody(o)
    BY <1>4, AnswerMoves DEF AttachBody
  <1>5. CASE UndoSave(o)
    BY <1>5, AnswerMoves DEF UndoSave
  <1>6. CASE UndoKey(o)
    BY <1>6, FinishMoves DEF UndoKey
  <1>. QED BY <1>1, <1>2, <1>3, <1>4, <1>5, <1>6 DEF SaveCall

LEMMA RemoveMoves ==
    ASSUME TypeInv, NEW o \in Op, StartRemove(o) \/ RemoveCall(o)
    PROVE  \E to \in Stage : Moves(o, to)
  <1>. USE DEF Stage, RemoveStage, UpdateStage
  <1>1. CASE StartRemove(o)
    BY <1>1, AdvanceMoves DEF StartRemove
  <1>2. CASE ListToRemove(o)
    BY <1>2, AdvanceMoves DEF ListToRemove
  <1>3. CASE DestroyBodies(o)
    BY <1>3, AnswerMoves, FinishMoves DEF DestroyBodies
  <1>4. CASE DropKey(o)
    BY <1>4, AnswerMoves DEF DropKey
  <1>5. CASE DropRecord(o)
    BY <1>5, FinishMoves DEF DropRecord
  <1>. QED BY <1>1, <1>2, <1>3, <1>4, <1>5 DEF RemoveCall

LEMMA RequestLock ==
    ASSUME TypeInv, LockInv, NEW o \in Op, RequestUpdate(o)
    PROVE  LockInv'
  <1>. DEFINE P == ProcessOf[o]
  <1>1. P \in Process /\ queue[P] \in Seq(Op)
    BY StoreAssumption DEF RequestType
  <1>2. /\ \A q \in Op : pc'[q] = IF q = o THEN "record" ELSE pc[q]
        /\ \A p \in Process : queue'[p] = IF p = P THEN Append(queue[P], o) ELSE queue[p]
        /\ pc[o] = "idle"
    BY <1>1 DEF RequestUpdate, RequestType
  <1>3. \A p \in Process : \A i \in 1..Len(queue[p]) : queue[p][i] # o
    BY <1>2 DEF LockInv, QueuesSound, Queues, UpdateStage
  <1>4. /\ Once(queue'[P])
        /\ \A i \in 1..Len(queue'[P]) :
              queue'[P][i] = o \/ \E j \in 1..Len(queue[P]) : queue'[P][i] = queue[P][j]
    <2>1. Once(queue[P]) /\ queue'[P] = Append(queue[P], o)
      BY <1>1, <1>2 DEF LockInv
    <2>2. \A i \in 1..Len(queue[P]) : queue[P][i] # o
      BY <1>1, <1>3
    <2>. QED BY <1>1, <2>1, <2>2, AppendOnce
  <1>5. \A p \in Process : Once(queue'[p])
    BY <1>2, <1>4 DEF LockInv
  <1>6. \A p \in Process : \A i \in 1..Len(queue'[p]) :
           (queue'[p][i] = o /\ p = P) \/ Queues(p, queue'[p][i])
    <2>. SUFFICES ASSUME NEW p \in Process, NEW i \in 1..Len(queue'[p])
                  PROVE  (queue'[p][i] = o /\ p = P) \/ Queues(p, queue'[p][i])
      OBVIOUS
    <2>1. CASE p = P
      BY <1>1, <1>4, <2>1 DEF LockInv, QueuesSound
    <2>2. CASE p # P
      BY <1>2, <2>2 DEF LockInv, QueuesSound
    <2>. QED BY <2>1, <2>2
  <1>7. QueuesSound'
    BY <1>2, <1>6 DEF QueuesSound, Queues, UpdateStage
  <1>8. \A q \in Op : Updating(q)' => HasLock(q)'
    <2>. SUFFICES ASSUME NEW q \in Op, Updating(q)' PROVE HasLock(q)'
      OBVIOUS
    <2>1. q # o /\ HasLock(q)
      BY <1>2 DEF Updating, LockInv
    <2>2. CASE ProcessOf[q] = P
      <3>1. queue'[P] = Append(queue[P], o) /\ queue[P] # <<>> /\ Head(queue[P]) = q
        BY <1>1, <1>2, <2>1, <2>2 DEF HasLock
      <3>2. queue'[P] # <<>> /\ Head(queue'[P]) = q
        BY <1>1, <3>1, AppendHead
      <3>. QED BY <2>2, <3>2 DEF HasLock
    <2>3. CASE ProcessOf[q] # P
      BY <1>2, <2>1, <2>3, StoreAssumption DEF HasLock
    <2>. QED BY <2>2, <2>3
  <1>. QED BY <1>5, <1>7, <1>8 DEF LockInv

LEMMA AsideLock == TypeInv /\ LockInv /\ Aside => LockInv'
  <1>1. ASSUME TypeInv, LockInv, NEW h \in Process \X Session, Open(h) \/ Forget(h)
        PROVE  LockInv'
    BY <1>1 DEF Open, Forget, LockInv, QueuesSound, Updating, HasLock, Queues
  <1>2. ASSUME TypeInv, LockInv, NEW p \in Process, Crash(p)
        PROVE  LockInv'
    <2>1. /\ \A q \in Process : queue'[q] = IF q = p THEN <<>> ELSE queue[q]
          /\ \A o \in Op : pc'[o] = IF ProcessOf[o] = p THEN "idle" ELSE pc[o]
      BY <1>2 DEF Crash, RequestType
    <2>2. \A q \in Process : Once(queue'[q])
      BY <1>2, <2>1 DEF LockInv, Once
    <2>3. \A q \in Process : \A i \in 1..Len(queue'[q]) :
             q # p /\ Queues(q, queue'[q][i])
      BY <1>2, <2>1 DEF LockInv, QueuesSound
    <2>5. QueuesSound'
      BY <2>1, <2>3 DEF QueuesSound, Queues
    <2>4. \A o \in Op : Updating(o)' => HasLock(o)'
      BY <1>2, <2>1, StoreAssumption DEF LockInv, Updating, HasLock, UpdateStage
    <2>. QED BY <2>2, <2>4, <2>5 DEF LockInv
  <1>. QED BY <1>1, <1>2 DEF Aside

LEMMA RefuseMoves ==
    ASSUME TypeInv, NEW o \in Op, Refuse(o)
    PROVE  \E to \in Stage : Moves(o, to)
  <1>1. pc[o] \in Stage
    BY DEF RequestType
  <1>. QED BY <1>1, AnswerMoves DEF Refuse, Stage, UpdateStage, SaveStage, RemoveStage

LEMMA NextLock == TypeInv /\ LockInv /\ [Next]_vars => LockInv'
  <1>. SUFFICES ASSUME TypeInv, LockInv, [Next]_vars PROVE LockInv'
    OBVIOUS
  <1>1. ASSUME NEW o \in Op,
               UpdateCall(o) \/ StartSave(o) \/ SaveCall(o) \/ StartRemove(o)
                 \/ RemoveCall(o) \/ Refuse(o)
        PROVE  LockInv'
    BY <1>1, UpdateMoves, SaveMoves, RemoveMoves, RefuseMoves, MovesLock
  <1>2. CASE UNCHANGED vars
    BY <1>2 DEF vars, LockInv, QueuesSound, Updating, HasLock, Queues
  <1>. QED BY <1>1, <1>2, RequestLock, AsideLock DEF Next

LEMMA InitLock == Init => LockInv
  BY StoreAssumption DEF Init, LockInv, QueuesSound, Once, Updating, UpdateStage

\* Two updates of a canvas never run at the same time in one process, whatever
\* number of them is queued and whichever of their calls fail.
THEOREM UpdatesAlwaysSerialised == Spec => []UpdatesSerialised
  <1>1. LockInv => UpdatesSerialised
    BY DEF LockInv, UpdatesSerialised, HasLock
  <1>. QED BY <1>1, InitType, NextType, InitLock, NextLock, PTL DEF Spec

-----------------------------------------------------------------------------
(* Documents.  Every document that a request has created is its own, and the    *)
(* record never points at one that is still to be linked.                       *)

Unlinked == {"link", "unlink"}

DocInv ==
    /\ \A d \in Docs : d < nextDoc
    /\ record # None => record.body < nextDoc
    /\ \A o \in Op : new[o] \in Doc => new[o] < nextDoc
    /\ \A o1, o2 \in Op : new[o1] \in Doc /\ o1 # o2 => new[o1] # new[o2]
    /\ \A o \in Op : pc[o] \in Unlinked => record = None \/ record.body # new[o]

\* A call that creates no document leaves its request with the one it had, or
\* with none.
Keeps(o) ==
    \E stage \in Stage :
        /\ pc' = [pc EXCEPT ![o] = stage]
        /\ new' = new \/ (stage = "idle" /\ new' = [new EXCEPT ![o] = None])
        /\ stage \in Unlinked => pc[o] \in Unlinked

LEMMA StageKeeps ==
    ASSUME NEW o \in Op, NEW stage \in Stage, pc' = [pc EXCEPT ![o] = stage], new' = new,
           stage \in Unlinked => pc[o] \in Unlinked
    PROVE  Keeps(o)
  <1>. SUFFICES \E to \in Stage :
                   /\ pc' = [pc EXCEPT ![o] = to]
                   /\ new' = new \/ (to = "idle" /\ new' = [new EXCEPT ![o] = None])
                   /\ to \in Unlinked => pc[o] \in Unlinked
    BY DEF Keeps
  <1>. WITNESS stage \in Stage
  <1>. QED OBVIOUS

LEMMA FinishKeeps ==
    ASSUME NEW o \in Op, Finish(o)
    PROVE  Keeps(o) /\ pc' = [pc EXCEPT ![o] = "idle"]
  <1>1. "idle" \in Stage /\ "idle" \notin Unlinked
    BY DEF Stage, Unlinked
  <1>. QED BY <1>1 DEF Finish, Keeps

LEMMA AdvanceKeeps ==
    ASSUME NEW o \in Op, NEW stage \in Stage, Advance(o, stage), UNCHANGED new,
           stage \in Unlinked => pc[o] \in Unlinked
    PROVE  Keeps(o)
  <1>1. pc' = [pc EXCEPT ![o] = stage] /\ new' = new
    BY DEF Advance
  <1>. QED BY <1>1, StageKeeps

LEMMA GotoKeeps ==
    ASSUME NEW o \in Op, NEW stage \in Stage, Goto(o, stage),
           stage \in Unlinked => pc[o] \in Unlinked
    PROVE  Keeps(o)
  <1>1. CASE stage = "idle"
    BY <1>1, FinishKeeps DEF Goto
  <1>2. CASE stage # "idle"
    BY <1>2, AdvanceKeeps DEF Goto, localVars
  <1>. QED BY <1>1, <1>2

LEMMA FailedKeeps ==
    ASSUME TypeInv, NEW o \in Op, Goto(o, Failed(pc[o]))
    PROVE  Keeps(o)
  <1>1. ASSUME NEW stage \in Stage, Failed(stage) \in Unlinked
        PROVE  stage = "link"
    BY <1>1 DEF Failed, Stage, Unlinked, UpdateStage, SaveStage, RemoveStage
  <1>2. pc[o] \in Stage
    BY DEF RequestType
  <1>. QED BY <1>1, <1>2, FailedStage, GotoKeeps DEF Unlinked

LEMMA AnswerKeeps ==
    ASSUME TypeInv, NEW o \in Op, NEW stage \in Stage, Answer(o, stage),
           stage \in Unlinked => pc[o] \in Unlinked
    PROVE  Keeps(o)
  BY FailedKeeps, GotoKeeps DEF Answer

LEMMA KeptDocs ==
    ASSUME TypeInv, DocInv, NEW o \in Op, Keeps(o),
           record' \in {record, None}, UNCHANGED nextDoc, Docs' \subseteq Docs
    PROVE  DocInv'
  <1>1. PICK stage \in Stage :
           /\ pc' = [pc EXCEPT ![o] = stage]
           /\ new' = new \/ (stage = "idle" /\ new' = [new EXCEPT ![o] = None])
           /\ stage \in Unlinked => pc[o] \in Unlinked
    BY DEF Keeps
  <1>2. \A q \in Op : pc'[q] = IF q = o THEN stage ELSE pc[q]
    BY <1>1 DEF RequestType
  <1>3. \A q \in Op : new'[q] \in {new[q], None} /\ (new'[q] # new[q] => q = o /\ stage = "idle")
    BY <1>1 DEF RequestType
  <1>4. \A q \in Op : pc'[q] \in Unlinked => pc[q] \in Unlinked /\ new'[q] = new[q]
    BY <1>1, <1>2, <1>3 DEF Unlinked
  <1>5. \A d \in Docs' : d < nextDoc'
    BY DEF DocInv
  <1>6. \A q \in Op : new'[q] \in Doc => new[q] \in Doc /\ new'[q] = new[q]
    BY <1>3, NoDocIsNone
  <1>7. \A o1, o2 \in Op : new'[o1] \in Doc /\ o1 # o2 => new'[o1] # new'[o2]
    <2>. SUFFICES ASSUME NEW o1 \in Op, NEW o2 \in Op, new'[o1] \in Doc, o1 # o2
                  PROVE  new'[o1] # new'[o2]
      OBVIOUS
    <2>1. CASE new'[o2] \in Doc
      BY <1>6, <2>1 DEF DocInv
    <2>2. CASE new'[o2] \notin Doc
      BY <2>2
    <2>. QED BY <2>1, <2>2
  <1>8. record' # None => record'.body < nextDoc'
    BY DEF DocInv
  <1>9. \A q \in Op : pc'[q] \in Unlinked => record' = None \/ record'.body # new'[q]
    BY <1>4 DEF DocInv
  <1>. QED BY <1>5, <1>6, <1>7, <1>8, <1>9 DEF DocInv

\* The pointer moves to a document of the request's own.
LEMMA IndexDocs ==
    ASSUME TypeInv, DocInv, NEW o \in Op, Keeps(o), pc[o] \in Creating \ Unlinked,
           Index(new[o])
    PROVE  DocInv'
  <1>1. new[o] \in Doc
    BY NewBody
  <1>2. PICK stage \in Stage :
           /\ pc' = [pc EXCEPT ![o] = stage]
           /\ new' = new \/ (stage = "idle" /\ new' = [new EXCEPT ![o] = None])
           /\ stage \in Unlinked => pc[o] \in Unlinked
    BY DEF Keeps
  <1>3. record' # None /\ record'.body = new[o] /\ UNCHANGED <<bodies, nextDoc>>
    <2>1. record' \in Record
      BY <1>1 DEF Index, SharedType, Record
    <2>. QED BY <2>1, NoDocIsNone DEF Index
  <1>4. \A q \in Op : pc'[q] \in Unlinked => q # o /\ pc[q] \in Unlinked
    BY <1>2 DEF RequestType
  <1>5. \A q \in Op : new'[q] \in {new[q], None} /\ (q # o => new'[q] = new[q])
    BY <1>2 DEF RequestType
  <1>6. \A d \in Docs' : d < nextDoc'
    BY <1>3 DEF DocInv, Docs
  <1>7. \A q \in Op : new'[q] \in Doc => new[q] \in Doc /\ new'[q] = new[q]
    BY <1>5, NoDocIsNone
  <1>8. \A o1, o2 \in Op : new'[o1] \in Doc /\ o1 # o2 => new'[o1] # new'[o2]
    <2>. SUFFICES ASSUME NEW o1 \in Op, NEW o2 \in Op, new'[o1] \in Doc, o1 # o2
                  PROVE  new'[o1] # new'[o2]
      OBVIOUS
    <2>1. CASE new'[o2] \in Doc
      BY <1>7, <2>1 DEF DocInv
    <2>2. CASE new'[o2] \notin Doc
      BY <2>2
    <2>. QED BY <2>1, <2>2
  <1>9. record'.body < nextDoc'
    BY <1>1, <1>3 DEF DocInv
  <1>10. \A q \in Op : pc'[q] \in Unlinked => record'.body # new'[q]
    BY <1>1, <1>3, <1>4, <1>5 DEF DocInv
  <1>. QED BY <1>3, <1>6, <1>7, <1>8, <1>9, <1>10 DEF DocInv

\* A document is created, and known to the request or to nobody.
LEMMA CreateDocs ==
    ASSUME TypeInv, DocInv, NEW o \in Op, NEW k, StoreBody(k), nextDoc \in Doc,
           NEW stage \in Stage, pc' = [pc EXCEPT ![o] = stage],
           \/ new' = [new EXCEPT ![o] = nextDoc]
           \/ stage = "idle" /\ new' = [new EXCEPT ![o] = None]
    PROVE  DocInv'
  <1>1. nextDoc' = nextDoc + 1 /\ nextDoc \in Nat /\ record' = record
    BY DEF StoreBody, Doc
  <1>2. \A q \in Op : pc'[q] = IF q = o THEN stage ELSE pc[q]
    BY DEF RequestType
  <1>3. \A q \in Op : new'[q] = IF q # o THEN new[q]
                                ELSE IF new' = [new EXCEPT ![o] = nextDoc] THEN nextDoc ELSE None
    BY DEF RequestType
  <1>4. \A d \in Docs' : d < nextDoc'
    <2>1. \A d \in Doc : bodies'[d] = IF d = nextDoc THEN k ELSE bodies[d]
      BY DEF StoreBody, SharedType
    <2>2. \A d \in Docs' : d \in Docs \/ d = nextDoc
      BY <2>1 DEF Docs
    <2>. QED BY <1>1, <2>2 DEF DocInv, Docs, Doc
  <1>5. record' # None => record'.body < nextDoc /\ record'.body < nextDoc'
    BY <1>1 DEF DocInv, SharedType, Record, Doc
  <1>6. \A q \in Op : new'[q] \in Doc => new'[q] < nextDoc'
    BY <1>1, <1>3, NoDocIsNone DEF DocInv, Doc
  <1>7. \A o1, o2 \in Op : new'[o1] \in Doc /\ o1 # o2 => new'[o1] # new'[o2]
    <2>. SUFFICES ASSUME NEW o1 \in Op, NEW o2 \in Op, new'[o1] \in Doc, o1 # o2
                  PROVE  new'[o1] # new'[o2]
      OBVIOUS
    <2>1. CASE o1 = o
      <3>1. new'[o1] = nextDoc /\ new'[o2] = new[o2]
        BY <1>3, <2>1, NoDocIsNone
      <3>2. new[o2] \in Doc => new[o2] < nextDoc
        BY DEF DocInv
      <3>. QED BY <1>1, <3>1, <3>2 DEF Doc
    <2>2. CASE o2 = o
      <3>1. new'[o1] = new[o1] /\ new'[o2] \in {nextDoc, None}
        BY <1>3, <2>2
      <3>2. new[o1] < nextDoc
        BY <3>1 DEF DocInv
      <3>. QED BY <1>1, <3>1, <3>2, NoDocIsNone DEF Doc
    <2>3. CASE o1 # o /\ o2 # o
      BY <1>3, <2>3 DEF DocInv
    <2>. QED BY <2>1, <2>2, <2>3
  <1>8. \A q \in Op : pc'[q] \in Unlinked => record' = None \/ record'.body # new'[q]
    <2>. SUFFICES ASSUME NEW q \in Op, pc'[q] \in Unlinked, record' # None
                  PROVE  record'.body # new'[q]
      OBVIOUS
    <2>1. CASE q # o
      BY <1>1, <1>2, <1>3, <2>1 DEF DocInv
    <2>2. CASE q = o
      <3>1. new'[q] = nextDoc
        BY <1>2, <1>3, <2>2 DEF Unlinked
      <3>. QED BY <1>1, <1>5, <3>1 DEF SharedType, Record, Doc
    <2>. QED BY <2>1, <2>2
  <1>. QED BY <1>4, <1>5, <1>6, <1>7, <1>8 DEF DocInv

LEMMA UpdateDocs ==
    ASSUME TypeInv, DocInv, NEW o \in Op,
           RequestUpdate(o) \/ UpdateCall(o) \/ Refuse(o)
    PROVE  DocInv'
  <1>. USE DEF Stage, UpdateStage, Unlinked
  <1>1. CASE RequestUpdate(o)
    <2>1. Keeps(o)
      <3>1. pc' = [pc EXCEPT ![o] = "record"] /\ new' = new
        BY <1>1 DEF RequestUpdate
      <3>. QED BY <3>1, StageKeeps
    <2>. QED BY <1>1, <2>1, KeptDocs DEF RequestUpdate, salesforceVars, Docs
  <1>2. CASE ReadRecord(o) \/ ReadDocument(o) \/ CheckVersion(o) \/ GetKey(o)
               \/ MintKey(o) \/ AdoptKey(o) \/ ListBodies(o)
    <2>1. UNCHANGED salesforceVars
      BY <1>2 DEF ReadRecord, ReadDocument, CheckVersion, GetKey, MintKey, AdoptKey, ListBodies
    <2>2. ASSUME ReadRecord(o) PROVE Keeps(o)
      BY <2>2, FinishKeeps, AdvanceKeeps DEF ReadRecord
    <2>3. ASSUME ReadDocument(o) PROVE Keeps(o)
      BY <2>3, GotoKeeps DEF ReadDocument
    <2>4. ASSUME CheckVersion(o) PROVE Keeps(o)
      BY <2>4, GotoKeeps DEF CheckVersion
    <2>5. ASSUME GetKey(o) PROVE Keeps(o)
      BY <2>5, AdvanceKeeps DEF GetKey
    <2>6. ASSUME MintKey(o) PROVE Keeps(o)
      BY <2>6, AnswerKeeps DEF MintKey
    <2>7. ASSUME AdoptKey(o) PROVE Keeps(o)
      BY <2>7, AdvanceKeeps DEF AdoptKey
    <2>8. ASSUME ListBodies(o) PROVE Keeps(o)
      BY <2>8, FinishKeeps, AdvanceKeeps DEF ListBodies
    <2>9. Keeps(o)
      BY <1>2, <2>2, <2>3, <2>4, <2>5, <2>6, <2>7, <2>8
    <2>. QED BY <2>1, <2>9, KeptDocs DEF salesforceVars, Docs
  <1>3. CASE CreateBody(o)
    BY <1>3, CreateDocs, StoreBodyType DEF CreateBody, Advance, Finish, RequestType
  <1>4. CASE LinkBody(o)
    <2>1. Keeps(o)
      BY <1>4, AnswerKeeps, GotoKeeps DEF LinkBody
    <2>. QED BY <1>4, <2>1, KeptDocs DEF LinkBody, Link, salesforceVars, Docs
  <1>5. CASE IndexBody(o)
    BY <1>5, AnswerKeeps, IndexDocs DEF IndexBody, Creating
  <1>6. CASE UndoBody(o) \/ PruneBodies(o)
    <2>1. Keeps(o)
      BY <1>6, FinishKeeps DEF UndoBody, PruneBodies
    <2>2. \E D : Destroy(D)
      BY <1>6 DEF UndoBody, PruneBodies
    <2>. QED BY <2>1, <2>2, KeptDocs DEF Destroy, Docs
  <1>7. CASE Refuse(o)
    BY <1>7, FailedKeeps, KeptDocs DEF Refuse, salesforceVars, Docs
  <1>. QED BY <1>1, <1>2, <1>3, <1>4, <1>5, <1>6, <1>7 DEF UpdateCall

LEMMA SaveDocs ==
    ASSUME TypeInv, DocInv, NEW o \in Op, StartSave(o) \/ SaveCall(o)
    PROVE  DocInv'
  <1>. USE DEF Stage, SaveStage, Unlinked
  <1>1. CASE StartSave(o)
    <2>1. PICK k \in FreshKeys : StoreBody(k)
      BY <1>1 DEF StartSave
    <2>2. nextDoc \in Doc
      BY <2>1, StoreBodyType, <1>1 DEF FreshKeys, StartSave
    <2>. QED BY <1>1, <2>1, <2>2, CreateDocs DEF StartSave, Advance
  <1>2. CASE PersistKey(o)
    <2>1. Keeps(o)
      BY <1>2, GotoKeeps DEF PersistKey
    <2>. QED BY <1>2, <2>1, KeptDocs DEF PersistKey, salesforceVars, Docs
  <1>3. CASE PublishRecord(o)
    BY <1>3, AnswerKeeps, IndexDocs DEF PublishRecord, Creating
  <1>4. CASE AttachBody(o)
    <2>1. Keeps(o)
      BY <1>4, AnswerKeeps, GotoKeeps DEF AttachBody
    <2>. QED BY <1>4, <2>1, KeptDocs DEF AttachBody, Link, salesforceVars, Docs
  <1>5. CASE UndoSave(o)
    <2>1. Keeps(o)
      BY <1>5, GotoKeeps DEF UndoSave
    <2>. QED BY <1>5, <2>1, KeptDocs DEF UndoSave, Destroy, Docs
  <1>6. CASE UndoKey(o)
    BY <1>6, FinishKeeps, KeptDocs DEF UndoKey, salesforceVars, Docs
  <1>. QED BY <1>1, <1>2, <1>3, <1>4, <1>5, <1>6 DEF SaveCall

LEMMA RemoveDocs ==
    ASSUME TypeInv, DocInv, NEW o \in Op, StartRemove(o) \/ RemoveCall(o)
    PROVE  DocInv'
  <1>. USE DEF Stage, RemoveStage, Unlinked
  <1>1. CASE StartRemove(o)
    <2>1. Keeps(o)
      BY <1>1, AdvanceKeeps DEF StartRemove
    <2>. QED BY <1>1, <2>1, KeptDocs DEF StartRemove, salesforceVars, Docs
  <1>2. CASE ListToRemove(o)
    <2>1. Keeps(o)
      BY <1>2, AdvanceKeeps DEF ListToRemove
    <2>. QED BY <1>2, <2>1, KeptDocs DEF ListToRemove, salesforceVars, Docs
  <1>3. CASE DestroyBodies(o)
    <2>1. Keeps(o)
      BY <1>3, AnswerKeeps, FinishKeeps DEF DestroyBodies
    <2>2. \E D : Destroy(D)
      BY <1>3 DEF DestroyBodies
    <2>. QED BY <2>1, <2>2, KeptDocs DEF Destroy, Docs
  <1>4. CASE DropKey(o)
    <2>1. Keeps(o)
      BY <1>4, GotoKeeps DEF DropKey
    <2>. QED BY <1>4, <2>1, KeptDocs DEF DropKey, salesforceVars, Docs
  <1>5. CASE DropRecord(o)
    BY <1>5, FinishKeeps, KeptDocs DEF DropRecord, Docs
  <1>. QED BY <1>1, <1>2, <1>3, <1>4, <1>5 DEF RemoveCall

LEMMA AsideDocs == TypeInv /\ DocInv /\ Aside => DocInv'
  <1>1. ASSUME TypeInv, DocInv, NEW h \in Process \X Session, Open(h) \/ Forget(h)
        PROVE  DocInv'
    BY <1>1 DEF Open, Forget, DocInv, Docs, salesforceVars, localVars
  <1>2. ASSUME TypeInv, DocInv, NEW p \in Process, Crash(p)
        PROVE  DocInv'
    <2>1. \A o \in Op : /\ new'[o] = IF ProcessOf[o] = p THEN None ELSE new[o]
                        /\ pc'[o] = IF ProcessOf[o] = p THEN "idle" ELSE pc[o]
      BY <1>2 DEF Crash, RequestType
    <2>2. UNCHANGED <<record, bodies, nextDoc>>
      BY <1>2 DEF Crash, salesforceVars
    <2>3. \A o \in Op : new'[o] \in Doc => ProcessOf[o] # p
      BY <2>1, NoDocIsNone
    <2>4. \A o1, o2 \in Op : new'[o1] \in Doc /\ o1 # o2 => new'[o1] # new'[o2]
      BY <1>2, <2>1, <2>3, NoDocIsNone DEF DocInv
    <2>. QED BY <1>2, <2>1, <2>2, <2>3, <2>4 DEF DocInv, Docs, Unlinked
  <1>. QED BY <1>1, <1>2 DEF Aside

LEMMA NextDocs == TypeInv /\ DocInv /\ [Next]_vars => DocInv'
  <1>1. ASSUME TypeInv, DocInv, UNCHANGED vars PROVE DocInv'
    BY <1>1 DEF DocInv, Docs, vars, salesforceVars, localVars
  <1>. QED BY <1>1, UpdateDocs, SaveDocs, RemoveDocs, AsideDocs DEF Next

LEMMA InitDocs == Init => DocInv
  <1>. SUFFICES ASSUME Init PROVE DocInv
    OBVIOUS
  <1>1. \A o \in Op : new[o] = None /\ pc[o] = "idle"
    BY DEF Init
  <1>2. \A d \in Doc : bodies[d] # None => record # None /\ ~(d > 1)
    <2>1. CASE record = None /\ bodies = [d \in Doc |-> None]
      BY <2>1
    <2>2. CASE /\ record = [id |-> 1, body |-> 1]
               /\ bodies = [d \in Doc |-> IF d > 1 THEN None
                                          ELSE IF keyRow = None THEN Plain ELSE keyRow]
      BY <2>2, StoreAssumption
    <2>. QED BY <2>1, <2>2 DEF Init
  <1>3. record # None => record.body = 1 /\ nextDoc = 2
    BY DEF Init
  <1>. QED BY <1>1, <1>2, <1>3, NoDocIsNone DEF DocInv, Docs, Doc, Unlinked

\* An update that failed to link its new body destroys one that the record does
\* not point at, whoever else saves, updates or removes the canvas meanwhile.
THEOREM FailedLinksSparePointer == Spec => []FailedLinkSparesPointer
  <1>1. DocInv => FailedLinkSparesPointer
    BY DEF DocInv, Unlinked, FailedLinkSparesPointer
  <1>. QED BY <1>1, InitType, NextType, InitDocs, NextDocs, PTL DEF Spec

-----------------------------------------------------------------------------
(* Keys.  While nobody saves or removes the canvas, its row never changes once  *)
(* it is there, and every key that a cache or a request holds is the row's or   *)
(* about to be given up for it.                                                 *)

KeyInv ==
    /\ \A o \in Op : pc[o] \in UpdateStage \cup {"idle"}
    /\ \A d \in Docs : bodies[d] \in {Plain, keyRow}
    /\ \A h \in Process \X Session : cache[h] \in {None, keyRow}
    /\ \A o \in Op : pc[o] = "mint" => key[o] # None
    /\ \A o \in Op : pc[o] = "adopt" => keyRow # None
    /\ \A o \in Op : pc[o] = "create" => keyRow # None /\ key[o] = keyRow

Keyless == (UpdateStage \ {"mint", "adopt", "create"}) \cup {"idle"}

\* A call that leads to a stage in which no key matters.
Leaves(o) == /\ \E stage \in Keyless : pc' = [pc EXCEPT ![o] = stage]
             /\ \A q \in Op \ {o} : key'[q] = key[q]

LEMMA GotoLeaves ==
    ASSUME TypeInv, NEW o \in Op, NEW stage \in Keyless, Goto(o, stage)
    PROVE  Leaves(o)
  <1>1. CASE stage = "idle"
    BY <1>1 DEF Goto, Finish, RequestType, Leaves
  <1>2. CASE stage # "idle"
    BY <1>2 DEF Goto, Advance, localVars, Leaves
  <1>. QED BY <1>1, <1>2

LEMMA FailedLeaves ==
    ASSUME TypeInv, NEW o \in Op, pc[o] \in UpdateStage, Goto(o, Failed(pc[o]))
    PROVE  Leaves(o)
  <1>1. ASSUME NEW stage \in UpdateStage
        PROVE  Failed(stage) \in Keyless
    BY DEF Failed, UpdateStage, Keyless
  <1>. QED BY <1>1, GotoLeaves

LEMMA FinishLeaves ==
    ASSUME TypeInv, NEW o \in Op, Finish(o)
    PROVE  Leaves(o)
  <1>1. "idle" \in Keyless
    BY DEF Keyless
  <1>. QED BY <1>1 DEF Finish, RequestType, Leaves

LEMMA AdvanceLeaves ==
    ASSUME TypeInv, NEW o \in Op, NEW stage \in Keyless, Advance(o, stage), UNCHANGED key
    PROVE  Leaves(o)
  BY DEF Advance, Leaves

LEMMA LeavesKeys ==
    ASSUME TypeInv, KeyInv, NEW o \in Op, Leaves(o), UNCHANGED keyVars,
           \A d \in Docs' : bodies'[d] \in {Plain, keyRow}
    PROVE  KeyInv'
  <1>1. PICK stage \in Keyless : pc' = [pc EXCEPT ![o] = stage]
    BY DEF Leaves
  <1>2. \A q \in Op : pc'[q] = IF q = o THEN stage ELSE pc[q]
    BY <1>1 DEF RequestType
  <1>3. \A q \in Op : pc'[q] \in UpdateStage \cup {"idle"}
    BY <1>2 DEF KeyInv, Keyless
  <1>4. \A q \in Op : pc'[q] \in {"mint", "adopt", "create"} =>
                         pc'[q] = pc[q] /\ key'[q] = key[q]
    BY <1>2 DEF Leaves, Keyless
  <1>. QED BY <1>3, <1>4 DEF KeyInv, keyVars

LEMMA UpdateCallKeys ==
    ASSUME TypeInv, KeyInv, NEW o \in Op, UpdateCall(o) \/ Refuse(o)
    PROVE  KeyInv'
  <1>. USE DEF UpdateStage, Keyless
  <1>1. CASE ReadRecord(o) \/ ReadDocument(o) \/ CheckVersion(o) \/ ListBodies(o) \/ Refuse(o)
    <2>1. ASSUME ReadRecord(o) PROVE Leaves(o)
      BY <2>1, FinishLeaves, AdvanceLeaves DEF ReadRecord
    <2>2. ASSUME ReadDocument(o) PROVE Leaves(o)
      BY <2>2, GotoLeaves DEF ReadDocument
    <2>3. ASSUME CheckVersion(o) PROVE Leaves(o)
      BY <2>3, GotoLeaves DEF CheckVersion
    <2>4. ASSUME ListBodies(o) PROVE Leaves(o)
      BY <2>4, FinishLeaves, AdvanceLeaves DEF ListBodies
    <2>5. ASSUME Refuse(o) PROVE Leaves(o)
      BY <2>5, FailedLeaves DEF Refuse, KeyInv
    <2>6. UNCHANGED <<salesforceVars, keyVars>>
      BY <1>1 DEF ReadRecord, ReadDocument, CheckVersion, ListBodies, Refuse
    <2>. QED BY <1>1, <2>1, <2>2, <2>3, <2>4, <2>5, <2>6, LeavesKeys
             DEF KeyInv, Docs, salesforceVars, keyVars
  <1>2. CASE GetKey(o)
    <2>. DEFINE known == IF cache[Holder(o)] # None THEN cache[Holder(o)] ELSE keyRow
    <2>1. Holder(o) \in Process \X Session
      BY StoreAssumption DEF Holder
    <2>2. known \in {keyRow, None} /\ (keyRow # None => known = keyRow)
      BY <2>1 DEF KeyInv
    <2>3. UNCHANGED <<bodies, keyRow>>
      BY <1>2 DEF GetKey, salesforceVars
    <2>4. CASE known # None
      <3>1. /\ key' = [key EXCEPT ![o] = keyRow]
            /\ cache' = [cache EXCEPT ![Holder(o)] = keyRow]
            /\ Advance(o, "create")
            /\ keyRow # None
        BY <1>2, <2>2, <2>4 DEF GetKey
      <3>2. \A q \in Op : /\ pc'[q] = IF q = o THEN "create" ELSE pc[q]
                          /\ key'[q] = IF q = o THEN keyRow ELSE key[q]
        BY <3>1 DEF Advance, RequestType
      <3>3. \A h \in Process \X Session : cache'[h] \in {None, keyRow}
        BY <2>1, <3>1 DEF KeyInv, SharedType
      <3>. QED BY <2>3, <3>1, <3>2, <3>3 DEF KeyInv, Docs
    <2>5. CASE known = None
      <3>1. PICK k \in FreshKeys : key' = [key EXCEPT ![o] = k]
        BY <1>2, <2>5 DEF GetKey
      <3>2. k # None /\ Advance(o, "mint") /\ UNCHANGED cache
        BY <1>2, <2>5, StoreAssumption DEF GetKey, FreshKeys
      <3>3. \A q \in Op : /\ pc'[q] = IF q = o THEN "mint" ELSE pc[q]
                          /\ key'[q] = IF q = o THEN k ELSE key[q]
        BY <3>1, <3>2 DEF Advance, RequestType
      <3>. QED BY <2>3, <3>2, <3>3 DEF KeyInv, Docs
    <2>. QED BY <2>4, <2>5
  <1>3. CASE MintKey(o)
    <2>1. key[o] # None /\ UNCHANGED <<bodies, cache>>
      BY <1>3 DEF MintKey, KeyInv, salesforceVars
    <2>2. keyRow' # None /\ (keyRow # None => keyRow' = keyRow)
      BY <1>3, <2>1 DEF MintKey
    <2>3. \A d \in Docs' : bodies'[d] \in {Plain, keyRow'}
      BY <2>1, <2>2 DEF KeyInv, Docs
    <2>4. \A h \in Process \X Session : cache'[h] \in {None, keyRow'}
      BY <2>1, <2>2 DEF KeyInv
    <2>5. Goto(o, "adopt") \/ Goto(o, "idle")
      BY <1>3 DEF MintKey, Answer, Failed
    <2>6. PICK stage \in {"adopt", "idle"} : Goto(o, stage)
      BY <2>5
    <2>7. \A q \in Op : /\ pc'[q] = IF q = o THEN stage ELSE pc[q]
                        /\ q # o => key'[q] = key[q]
      BY <2>6 DEF Goto, Finish, Advance, localVars, RequestType
    <2>. QED BY <2>2, <2>3, <2>4, <2>7 DEF KeyInv
  <1>4. CASE AdoptKey(o)
    <2>1. Holder(o) \in Process \X Session
      BY StoreAssumption DEF Holder
    <2>2. /\ keyRow # None
          /\ key' = [key EXCEPT ![o] = keyRow]
          /\ cache' = [cache EXCEPT ![Holder(o)] = keyRow]
          /\ Advance(o, "create")
          /\ UNCHANGED <<bodies, keyRow>>
      BY <1>4 DEF AdoptKey, KeyInv, salesforceVars
    <2>3. \A q \in Op : /\ pc'[q] = IF q = o THEN "create" ELSE pc[q]
                        /\ key'[q] = IF q = o THEN keyRow ELSE key[q]
      BY <2>2 DEF Advance, RequestType
    <2>4. \A h \in Process \X Session : cache'[h] \in {None, keyRow}
      BY <2>1, <2>2 DEF KeyInv, SharedType
    <2>. QED BY <2>2, <2>3, <2>4 DEF KeyInv, Docs
  <1>5. CASE CreateBody(o)
    <2>1. Leaves(o)
      BY <1>5, FinishLeaves, AdvanceLeaves DEF CreateBody
    <2>2. bodies' = [bodies EXCEPT ![nextDoc] = keyRow]
      BY <1>5 DEF CreateBody, StoreBody, KeyInv
    <2>3. \A d \in Docs' : bodies'[d] \in {Plain, keyRow}
      BY <2>2 DEF KeyInv, Docs, SharedType
    <2>. QED BY <1>5, <2>1, <2>3, LeavesKeys DEF CreateBody
  <1>6. CASE LinkBody(o) \/ IndexBody(o)
    <2>1. ASSUME NEW stage \in Keyless, pc[o] \in UpdateStage, Answer(o, stage)
          PROVE  Leaves(o)
      BY <2>1, GotoLeaves, FailedLeaves DEF Answer
    <2>2. ASSUME LinkBody(o) PROVE Leaves(o)
      BY <2>1, <2>2, GotoLeaves DEF LinkBody
    <2>3. ASSUME IndexBody(o) PROVE Leaves(o)
      BY <2>1, <2>3 DEF IndexBody
    <2>4. UNCHANGED <<bodies, keyVars>>
      BY <1>6 DEF LinkBody, IndexBody, Link, Index, salesforceVars
    <2>. QED BY <1>6, <2>2, <2>3, <2>4, LeavesKeys DEF KeyInv, Docs
  <1>7. CASE UndoBody(o) \/ PruneBodies(o)
    <2>1. Leaves(o) /\ UNCHANGED keyVars
      BY <1>7, FinishLeaves DEF UndoBody, PruneBodies
    <2>2. PICK D : Destroy(D)
      BY <1>7 DEF UndoBody, PruneBodies
    <2>3. \A d \in Docs' : bodies'[d] \in {Plain, keyRow}
      BY <2>2 DEF Destroy, Docs, KeyInv
    <2>. QED BY <2>1, <2>3, LeavesKeys
  <1>. QED BY <1>1, <1>2, <1>3, <1>4, <1>5, <1>6, <1>7 DEF UpdateCall

LEMMA AsideKeys == TypeInv /\ KeyInv /\ Aside => KeyInv'
  <1>1. ASSUME TypeInv, KeyInv, NEW h \in Process \X Session, Open(h) \/ Forget(h)
        PROVE  KeyInv'
    <2>1. \A g \in Process \X Session : cache'[g] \in {None, keyRow}
      BY <1>1 DEF Open, Forget, KeyInv, SharedType
    <2>2. UNCHANGED <<bodies, keyRow, pc, key>>
      BY <1>1 DEF Open, Forget, salesforceVars, localVars
    <2>. QED BY <1>1, <2>1, <2>2 DEF KeyInv, Docs
  <1>2. ASSUME TypeInv, KeyInv, NEW p \in Process, Crash(p)
        PROVE  KeyInv'
    <2>1. \A o \in Op : \/ pc'[o] = "idle"
                        \/ pc'[o] = pc[o] /\ key'[o] = key[o]
      BY <1>2 DEF Crash, RequestType
    <2>2. \A h \in Process \X Session : cache'[h] \in {None, cache[h]}
      BY <1>2 DEF Crash
    <2>3. UNCHANGED <<bodies, keyRow>>
      BY <1>2 DEF Crash, salesforceVars
    <2>. QED BY <1>2, <2>1, <2>2, <2>3 DEF KeyInv, Docs
  <1>. QED BY <1>1, <1>2 DEF Aside

LEMMA UpdateNextIsNext == [UpdateNext]_vars => [Next]_vars
  BY DEF UpdateNext, Next

LEMMA UpdateNextKeys == TypeInv /\ KeyInv /\ [UpdateNext]_vars => KeyInv'
  <1>1. ASSUME TypeInv, KeyInv, NEW o \in Op, RequestUpdate(o) PROVE KeyInv'
    <2>1. \A q \in Op : pc'[q] = IF q = o THEN "record" ELSE pc[q]
      BY <1>1 DEF RequestUpdate, RequestType
    <2>2. UNCHANGED <<bodies, keyRow, cache, key>>
      BY <1>1 DEF RequestUpdate, salesforceVars, keyVars
    <2>. QED BY <1>1, <2>1, <2>2 DEF KeyInv, Docs, UpdateStage
  <1>2. ASSUME TypeInv, KeyInv, UNCHANGED vars PROVE KeyInv'
    BY <1>2 DEF KeyInv, Docs, vars, salesforceVars, keyVars, localVars
  <1>. QED BY <1>1, <1>2, UpdateCallKeys, AsideKeys DEF UpdateNext

LEMMA InitKeys == SavedInit => KeyInv
  <1>. SUFFICES ASSUME SavedInit PROVE KeyInv
    OBVIOUS
  <1>1. bodies = [d \in Doc |-> IF d > 1 THEN None
                                ELSE IF keyRow = None THEN Plain ELSE keyRow]
    BY DEF SavedInit, Init
  <1>. QED BY <1>1 DEF SavedInit, Init, KeyInv, Docs

\* Whatever processes, sessions and caches update the canvas, in any number and
\* with any faults, its bodies are encrypted with the key in its row.
THEOREM BodiesAlwaysDecryptable == UpdateSpec => []BodiesDecryptable
  <1>1. KeyInv => BodiesDecryptable
    BY DEF KeyInv, BodiesDecryptable
  <1>2. SavedInit => Init
    BY DEF SavedInit
  <1>. QED BY <1>1, <1>2, InitType, NextType, InitKeys, UpdateNextKeys, UpdateNextIsNext, PTL
           DEF UpdateSpec

-----------------------------------------------------------------------------
(* One process.  Its lock lets one update at a time read the record, compare,   *)
(* write and move the pointer, so that these calls together swap the pointer at *)
(* the moment the record is written.                                            *)

OneProcess == \A o1, o2 \in Op : ProcessOf[o1] = ProcessOf[o2]

Chosen == {"key", "mint", "adopt", "create", "link", "index"}

\* What an update knows of the record, by its stage.
UpdatePart(o) ==
    /\ Updating(o) => seen[o] \in Record /\ seen[o].id = record.id
    /\ pc[o] \in Chosen \cup {"document", "version"} => seen[o].body = record.body
    /\ pc[o] \in Chosen \cup {"version"} => record.body \in Docs
    /\ pc[o] \in Chosen => expected[o] \in {None, record.body}
    /\ pc[o] \in {"link", "index"} => new[o] \in Docs
    /\ pc[o] \in {"link", "index", "unlink"} => record.body # new[o]
    /\ pc[o] = "unindex" /\ "lost" \notin Fault => record.body # new[o]
    /\ pc[o] \in {"list", "prune"} => record.body = new[o] /\ new[o] \in Docs
    /\ pc[o] \in {"link", "index", "list"} => nextDoc = new[o] + 1
    /\ pc[o] = "prune" => new[o] \notin victims[o]

RegisterInv == record # None /\ \A o \in Op : UpdatePart(o)

LEMMA Alone ==
    ASSUME OneProcess, LockInv, NEW o \in Op, Updating(o) \/ HasLock(o)
    PROVE  \A q \in Op \ {o} : ~Updating(q)
  BY DEF OneProcess, LockInv, HasLock

\* A step of the only update that is under way.
LEMMA AloneStep ==
    ASSUME TypeInv, OneProcess, LockInv, NEW o \in Op, Updating(o) \/ HasLock(o),
           \A q \in Op \ {o} : pc'[q] = pc[q],
           record' # None, UpdatePart(o)'
    PROVE  RegisterInv'
  <1>1. ASSUME NEW q \in Op \ {o} PROVE ~Updating(q)'
    BY Alone DEF Updating
  <1>2. ASSUME NEW q \in Op \ {o} PROVE UpdatePart(q)'
    BY <1>1 DEF UpdatePart, Updating, UpdateStage, Chosen
  <1>. QED BY <1>2 DEF RegisterInv

\* An update that is answered knows nothing any more.
LEMMA FinishPart ==
    ASSUME TypeInv, NEW o \in Op, Finish(o)
    PROVE  UpdatePart(o)' /\ \A q \in Op \ {o} : pc'[q] = pc[q]
  BY DEF Finish, RequestType, UpdatePart, Updating, UpdateStage, Chosen

Known == OneProcess /\ TypeInv /\ LockInv /\ DocInv /\ KeyInv /\ RegisterInv

LEMMA AdvancePart ==
    ASSUME Known, NEW o \in Op, NEW stage \in UpdateStage, Advance(o, stage)
    PROVE  pc'[o] = stage /\ \A q \in Op \ {o} : pc'[q] = pc[q]
  BY DEF Known, Advance, RequestType

LEMMA GotoPart ==
    ASSUME Known, NEW o \in Op, NEW stage, stage # "idle", Goto(o, stage)
    PROVE  /\ pc'[o] = stage
           /\ \A q \in Op \ {o} : pc'[q] = pc[q]
           /\ UNCHANGED <<expected, seen, new, key, victims>>
  BY DEF Known, Goto, Advance, localVars, RequestType

LEMMA ReadsPart ==
    ASSUME Known, NEW o \in Op,
           ReadRecord(o) \/ ReadDocument(o) \/ CheckVersion(o)
    PROVE  UpdatePart(o)' /\ \A q \in Op \ {o} : pc'[q] = pc[q]
  <1>. USE DEF UpdatePart, Updating, UpdateStage, Chosen
  <1>1. CASE Finish(o)
    BY <1>1, FinishPart DEF Known
  <1>2. UNCHANGED salesforceVars
    BY DEF ReadRecord, ReadDocument, CheckVersion
  <1>3. CASE ReadRecord(o) /\ ~Finish(o)
    <2>1. /\ seen' = [seen EXCEPT ![o] = record]
          /\ Advance(o, "document")
          /\ record \in Record
      BY <1>3 DEF ReadRecord, Known, RegisterInv, SharedType
    <2>2. pc'[o] = "document" /\ seen'[o] = record /\ \A q \in Op \ {o} : pc'[q] = pc[q]
      BY <2>1, AdvancePart DEF Known, RequestType
    <2>. QED BY <1>2, <2>1, <2>2 DEF salesforceVars
  <1>4. CASE ReadDocument(o) /\ ~Finish(o)
    <2>1. seen[o].body = record.body /\ seen[o] \in Record /\ seen[o].id = record.id
      BY <1>4 DEF Known, RegisterInv, ReadDocument
    <2>2. /\ seen[o].body \in Docs
          /\ Goto(o, IF expected[o] = None THEN "key" ELSE "version")
      BY <1>4 DEF ReadDocument, Goto
    <2>. QED BY <1>2, <2>1, <2>2, GotoPart DEF salesforceVars, Docs
  <1>5. CASE CheckVersion(o) /\ ~Finish(o)
    <2>1. /\ seen[o].body = record.body /\ seen[o] \in Record /\ seen[o].id = record.id
          /\ record.body \in Docs
      BY <1>5 DEF Known, RegisterInv, CheckVersion
    <2>2. seen[o].body = expected[o] /\ Goto(o, "key")
      BY <1>5, <2>1 DEF CheckVersion, Goto
    <2>. QED BY <1>2, <2>1, <2>2, GotoPart DEF salesforceVars, Docs
  <1>. QED BY <1>1, <1>3, <1>4, <1>5

LEMMA KeysPart ==
    ASSUME Known, NEW o \in Op, GetKey(o) \/ MintKey(o) \/ AdoptKey(o)
    PROVE  UpdatePart(o)' /\ \A q \in Op \ {o} : pc'[q] = pc[q]
  <1>. USE DEF UpdatePart, Updating, UpdateStage, Chosen
  <1>1. CASE Finish(o)
    BY <1>1, FinishPart DEF Known
  <1>2. UNCHANGED salesforceVars
    BY DEF GetKey, MintKey, AdoptKey
  <1>3. pc[o] \in {"key", "mint", "adopt"} /\ UpdatePart(o)
    BY DEF GetKey, MintKey, AdoptKey, Known, RegisterInv
  <1>4. CASE ~Finish(o)
    <2>1. /\ pc'[o] \in {"mint", "adopt", "create"}
          /\ \A q \in Op \ {o} : pc'[q] = pc[q]
          /\ UNCHANGED <<expected, seen, new, victims>>
      <3>1. CASE GetKey(o)
        BY <3>1, AdvancePart DEF GetKey
      <3>2. CASE MintKey(o)
        <4>1. Goto(o, "adopt")
          BY <1>4, <3>2 DEF MintKey, Answer, Failed, Goto
        <4>. QED BY <4>1, GotoPart
      <3>3. CASE AdoptKey(o)
        BY <3>3, AdvancePart DEF AdoptKey
      <3>. QED BY <3>1, <3>2, <3>3
    <2>. QED BY <1>2, <1>3, <2>1 DEF salesforceVars, Docs
  <1>. QED BY <1>1, <1>4

LEMMA CreatePart ==
    ASSUME Known, NEW o \in Op, CreateBody(o)
    PROVE  UpdatePart(o)' /\ \A q \in Op \ {o} : pc'[q] = pc[q]
  <1>. USE DEF UpdatePart, Updating, UpdateStage, Chosen
  <1>1. CASE Finish(o)
    BY <1>1, FinishPart DEF Known
  <1>2. CASE ~Finish(o)
    <2>1. /\ new' = [new EXCEPT ![o] = nextDoc]
          /\ Advance(o, "link")
          /\ UNCHANGED <<expected, seen, key, victims>>
      BY <1>2 DEF CreateBody
    <2>2. pc'[o] = "link" /\ \A q \in Op \ {o} : pc'[q] = pc[q]
      BY <2>1, AdvancePart
    <2>3. pc[o] = "create" /\ UpdatePart(o) /\ key[o] # None /\ nextDoc \in Doc
      BY StoreBodyType DEF CreateBody, Known, RegisterInv, KeyInv, SharedType, RequestType
    <2>4. /\ new'[o] = nextDoc
          /\ bodies' = [bodies EXCEPT ![nextDoc] = key[o]]
          /\ nextDoc' = nextDoc + 1
          /\ record' = record
      BY <2>1 DEF CreateBody, StoreBody, Known, RequestType
    <2>5. nextDoc \in Docs' /\ Docs \subseteq Docs'
      BY <2>3, <2>4 DEF Docs, Known, SharedType
    <2>6. record.body # nextDoc
      BY <2>3 DEF Known, DocInv, RegisterInv, Doc
    <2>. QED BY <2>1, <2>2, <2>3, <2>4, <2>5, <2>6
  <1>. QED BY <1>1, <1>2

LEMMA LinkPart ==
    ASSUME Known, NEW o \in Op, LinkBody(o)
    PROVE  UpdatePart(o)' /\ \A q \in Op \ {o} : pc'[q] = pc[q]
  <1>. USE DEF UpdatePart, Updating, UpdateStage, Chosen
  <1>1. pc[o] = "link" /\ UpdatePart(o) /\ UNCHANGED <<record, bodies, nextDoc>>
    BY DEF LinkBody, Link, salesforceVars, Known, RegisterInv
  <1>2. PICK stage \in {"index", "unlink"} : Goto(o, stage)
    BY DEF LinkBody, Answer, Failed
  <1>. QED BY <1>1, <1>2, GotoPart DEF Docs

LEMMA IndexPart ==
    ASSUME Known, NEW o \in Op, IndexBody(o)
    PROVE  UpdatePart(o)' /\ \A q \in Op \ {o} : pc'[q] = pc[q]
  <1>. USE DEF UpdatePart, Updating, UpdateStage, Chosen
  <1>1. pc[o] = "index" /\ UpdatePart(o) /\ record # None
    BY DEF IndexBody, Known, RegisterInv
  <1>2. record' = [id |-> record.id, body |-> new[o]] /\ UNCHANGED <<bodies, nextDoc>>
    BY <1>1 DEF IndexBody, Index
  <1>3. PICK stage \in {"list", "unindex"} :
           Goto(o, stage) /\ (stage = "unindex" => "lost" \in Fault)
    BY <1>1 DEF IndexBody, Answer, Failed
  <1>. QED BY <1>1, <1>2, <1>3, GotoPart DEF Docs

LEMMA ListPart ==
    ASSUME Known, NEW o \in Op, ListBodies(o)
    PROVE  UpdatePart(o)' /\ \A q \in Op \ {o} : pc'[q] = pc[q]
  <1>. USE DEF UpdatePart, Updating, UpdateStage, Chosen
  <1>1. CASE Finish(o)
    BY <1>1, FinishPart DEF Known
  <1>2. CASE ~Finish(o)
    <2>1. PICK L \in {Linked(seen[o].id), Linked(seen[o].id) \ {new[o]}} :
             /\ victims' = [victims EXCEPT ![o] =
                              (L \ {new[o]}) \ Newest(L \ {new[o]}, Retention - 1)]
             /\ Advance(o, "prune")
             /\ UNCHANGED <<expected, seen, new, key>>
      BY <1>2 DEF ListBodies
    <2>2. pc'[o] = "prune" /\ \A q \in Op \ {o} : pc'[q] = pc[q]
      BY <2>1, AdvancePart
    <2>3. new'[o] \notin victims'[o]
      BY <2>1 DEF Known, RequestType
    <2>4. pc[o] = "list" /\ UpdatePart(o) /\ UNCHANGED salesforceVars
      BY DEF ListBodies, Known, RegisterInv
    <2>. QED BY <2>1, <2>2, <2>3, <2>4 DEF salesforceVars, Docs
  <1>. QED BY <1>1, <1>2

LEMMA EndPart ==
    ASSUME Known, NEW o \in Op, UndoBody(o) \/ PruneBodies(o)
    PROVE  UpdatePart(o)' /\ \A q \in Op \ {o} : pc'[q] = pc[q]
  BY FinishPart DEF Known, UndoBody, PruneBodies

LEMMA RefusePart ==
    ASSUME Known, NEW o \in Op, Refuse(o)
    PROVE  UpdatePart(o)' /\ \A q \in Op \ {o} : pc'[q] = pc[q]
  <1>. USE DEF UpdatePart, Updating, UpdateStage, Chosen
  <1>1. CASE Finish(o)
    BY <1>1, FinishPart DEF Known
  <1>2. CASE ~Finish(o)
    <2>1. Goto(o, Failed(pc[o])) /\ UNCHANGED salesforceVars /\ pc[o] \in UpdateStage
      BY DEF Refuse, Known, KeyInv
    <2>2. \/ pc[o] = "link" /\ Goto(o, "unlink")
          \/ pc[o] = "index" /\ Goto(o, "unindex")
      BY <1>2, <2>1 DEF Failed, Goto
    <2>3. UpdatePart(o)
      BY DEF Known, RegisterInv
    <2>. QED BY <2>1, <2>2, <2>3, GotoPart DEF salesforceVars, Docs
  <1>. QED BY <1>1, <1>2

LEMMA CallPart ==
    ASSUME Known, NEW o \in Op, UpdateCall(o) \/ Refuse(o)
    PROVE  /\ UpdatePart(o)' /\ \A q \in Op \ {o} : pc'[q] = pc[q]
           /\ Updating(o) \/ HasLock(o)
           /\ record' # None
  <1>1. UpdatePart(o)' /\ \A q \in Op \ {o} : pc'[q] = pc[q]
    BY ReadsPart, KeysPart, CreatePart, LinkPart, IndexPart, ListPart, EndPart, RefusePart
       DEF UpdateCall
  <1>2. Updating(o) \/ HasLock(o)
    BY DEF Updating, UpdateStage, UpdateCall, Refuse, Known, KeyInv, ReadRecord, ReadDocument,
           CheckVersion, GetKey, MintKey, AdoptKey, CreateBody, LinkBody, IndexBody, UndoBody,
           ListBodies, PruneBodies
  <1>3. record' # None
    <2>1. CASE IndexBody(o)
      <3>1. record \in Record /\ new[o] \in Doc
        BY <2>1, NewBody DEF Known, RegisterInv, SharedType, IndexBody, Creating
      <3>2. record' \in Record
        BY <2>1, <3>1 DEF IndexBody, Index, Known, RegisterInv, Record
      <3>. QED BY <3>2, NoDocIsNone
    <2>2. CASE ~IndexBody(o)
      <3>1. record' = record
        BY <2>2 DEF UpdateCall, Refuse, ReadRecord, ReadDocument, CheckVersion, GetKey, MintKey,
                    AdoptKey, CreateBody, LinkBody, UndoBody, ListBodies, PruneBodies,
                    StoreBody, Link, Destroy, salesforceVars
      <3>. QED BY <3>1 DEF Known, RegisterInv
    <2>. QED BY <2>1, <2>2
  <1>. QED BY <1>1, <1>2, <1>3

LEMMA UpdateNextRegister == Known /\ [UpdateNext]_vars => RegisterInv'
  <1>1. ASSUME Known, NEW o \in Op, UpdateCall(o) \/ Refuse(o) PROVE RegisterInv'
    BY <1>1, CallPart, AloneStep DEF Known
  <1>2. ASSUME Known, NEW o \in Op, RequestUpdate(o) PROVE RegisterInv'
    <2>1. \A q \in Op : pc'[q] = IF q = o THEN "record" ELSE pc[q]
      BY <1>2 DEF RequestUpdate, Known, RequestType
    <2>2. \A q \in Op \ {o} : expected'[q] = expected[q]
      BY <1>2 DEF RequestUpdate, Known, RequestType
    <2>3. UNCHANGED <<salesforceVars, seen, new, victims>>
      BY <1>2 DEF RequestUpdate
    <2>4. UpdatePart(o)'
      BY <2>1 DEF UpdatePart, Updating, Chosen, UpdateStage
    <2>5. ASSUME NEW q \in Op \ {o} PROVE UpdatePart(q)'
      BY <1>2, <2>1, <2>2, <2>3
         DEF Known, RegisterInv, UpdatePart, Updating, Docs, salesforceVars
    <2>. QED BY <1>2, <2>3, <2>4, <2>5 DEF Known, RegisterInv, salesforceVars
  <1>3. ASSUME Known, NEW h \in Process \X Session, Open(h) \/ Forget(h) PROVE RegisterInv'
    <2>1. UNCHANGED <<salesforceVars, pc, localVars>>
      BY <1>3 DEF Open, Forget
    <2>. QED BY <1>3, <2>1 DEF Known, RegisterInv, UpdatePart, Updating, Docs,
                              salesforceVars, localVars
  <1>4. ASSUME Known, NEW p \in Process, Crash(p) PROVE RegisterInv'
    <2>1. \A o \in Op : pc'[o] = "idle"
      BY <1>4 DEF Crash, Known, OneProcess
    <2>2. record' = record
      BY <1>4 DEF Crash, salesforceVars
    <2>. QED BY <1>4, <2>1, <2>2
             DEF Known, RegisterInv, UpdatePart, Updating, Chosen, UpdateStage
  <1>5. ASSUME Known, UNCHANGED vars PROVE RegisterInv'
    BY <1>5 DEF Known, RegisterInv, UpdatePart, Updating, Docs, vars, salesforceVars, localVars
  <1>. QED BY <1>1, <1>2, <1>3, <1>4, <1>5 DEF UpdateNext, Aside

LEMMA InitRegister == SavedInit => RegisterInv
  BY DEF SavedInit, Init, RegisterInv, UpdatePart, Updating, Chosen, UpdateStage

LEMMA UpdateNextKnown == Known /\ [UpdateNext]_vars => Known'
  <1>1. OneProcess => OneProcess'
    BY DEF OneProcess
  <1>. QED BY <1>1, UpdateNextIsNext, NextType, NextLock, NextDocs, UpdateNextKeys,
              UpdateNextRegister DEF Known

LEMMA InitKnown == OneProcess /\ SavedInit => Known
  BY InitType, InitLock, InitDocs, InitKeys, InitRegister DEF Known, SavedInit

-----------------------------------------------------------------------------
(* Each step of the updates is a step of the register, or changes nothing of it. *)

Asking == [o \in Op |-> Asked(o)]
Wanting == BeforeCreate \cup {"link", "index"}

\* A step that leaves the pointer and what everybody waits for.
LEMMA StutterRegister ==
    ASSUME Current' = Current, \A o \in Op : Asked(o)' = Asked(o)
    PROVE  [Register!Next]_<<Current, Asking>>
  BY DEF Asking

\* A step that ends the updates of some clients and leaves the pointer.
LEMMA GiveUpRegister ==
    ASSUME NEW C \in SUBSET Op, Current' = Current,
           \A o \in Op : Asked(o)' = IF o \in C THEN None ELSE Asked(o)
    PROVE  [Register!Next]_<<Current, Asking>>
  <1>1. Register!GiveUp(C)
    BY DEF Asking, Register!GiveUp
  <1>. QED BY <1>1 DEF Register!Next

\* A call moves only its own request; what its client waits for depends on where
\* it leads.
LEMMA CallAsked ==
    ASSUME Known, NEW o \in Op, UpdateCall(o) \/ Refuse(o)
    PROVE  /\ \A q \in Op \ {o} : Asked(q)' = Asked(q)
           /\ pc'[o] \notin Wanting => Asked(o)' = None
           /\ pc'[o] \in Wanting => Asked(o)' = Asked(o)
  <1>1. \A q \in Op \ {o} : pc'[q] = pc[q] /\ expected'[q] = expected[q]
    <2>1. \A q \in Op \ {o} : pc'[q] = pc[q]
      BY CallPart
    <2>2. expected' = expected \/ Finish(o)
      BY DEF UpdateCall, Refuse, ReadRecord, ReadDocument, CheckVersion, GetKey, MintKey,
             AdoptKey, CreateBody, LinkBody, IndexBody, UndoBody, ListBodies, PruneBodies,
             Answer, Goto, localVars
    <2>. QED BY <2>1, <2>2 DEF Finish, Known, RequestType
  <1>2. pc'[o] \in Wanting => pc[o] \in Wanting /\ expected'[o] = expected[o]
    <2>1. ASSUME pc'[o] \in Wanting PROVE ~Finish(o)
      BY <2>1 DEF Finish, Known, RequestType, Wanting, BeforeCreate
    <2>2. ASSUME ~Finish(o) PROVE expected'[o] = expected[o]
      BY <2>2 DEF UpdateCall, Refuse, ReadRecord, ReadDocument, CheckVersion, GetKey, MintKey,
             AdoptKey, CreateBody, LinkBody, IndexBody, UndoBody, ListBodies, PruneBodies,
             Answer, Goto, localVars
    <2>3. ASSUME pc'[o] \in Wanting, pc[o] \notin Wanting PROVE FALSE
      <3>1. ~Finish(o) /\ pc[o] \in UpdateStage \cup {"idle"}
        BY <2>1, <2>3 DEF Known, KeyInv
      <3>2. pc[o] \in {"list", "prune", "unlink", "unindex"}
        BY <2>3, <3>1 DEF Wanting, BeforeCreate, UpdateStage, UpdateCall, Refuse, ReadRecord,
           ReadDocument, CheckVersion, GetKey, MintKey, AdoptKey, CreateBody, LinkBody,
           IndexBody, UndoBody, ListBodies, PruneBodies
      <3>3. CASE Refuse(o)
        BY <3>1, <3>2, <3>3 DEF Refuse, Failed, Goto
      <3>4. CASE UpdateCall(o)
        <4>1. ListBodies(o)
          BY <3>1, <3>2, <3>4 DEF UpdateCall, ReadRecord, ReadDocument, CheckVersion, GetKey,
             MintKey, AdoptKey, CreateBody, LinkBody, IndexBody, UndoBody, PruneBodies
        <4>2. pc'[o] = "prune"
          BY <3>1, <4>1 DEF ListBodies, Advance, Known, RequestType
        <4>. QED BY <2>3, <4>2 DEF Wanting, BeforeCreate
      <3>. QED BY <3>3, <3>4
    <2>. QED BY <2>1, <2>2, <2>3
  <1>. QED BY <1>1, <1>2 DEF Asked, Wanting

\* A call that leaves the pointer ends its update or nothing.
LEMMA CallKeepsPointer ==
    ASSUME Known, NEW o \in Op, UpdateCall(o) \/ Refuse(o), Current' = Current
    PROVE  [Register!Next]_<<Current, Asking>>
  <1>1. CASE pc'[o] \in Wanting
    BY <1>1, CallAsked, StutterRegister
  <1>2. CASE pc'[o] \notin Wanting
    <2>1. \A q \in Op : Asked(q)' = IF q \in {o} THEN None ELSE Asked(q)
      BY <1>2, CallAsked
    <2>. QED BY <2>1, GiveUpRegister
  <1>. QED BY <1>1, <1>2

\* Writing the record is the moment an update takes effect.
LEMMA IndexSwaps ==
    ASSUME Known, NEW o \in Op, IndexBody(o)
    PROVE  Register!Swap(o, new[o]) /\ new[o] \in Doc
  <1>1. pc[o] = "index" /\ UpdatePart(o) /\ record # None
    BY DEF IndexBody, Known, RegisterInv
  <1>2. Current = record.body /\ expected[o] \in {None, Current} /\ Current \in Doc
    BY <1>1 DEF UpdatePart, Chosen, Current, Docs
  <1>3. Asked(o) = [expects |-> expected[o]] /\ Asked(o) # None
    BY <1>1, <1>2, StoreAssumption DEF Asked
  <1>4. record' = [id |-> record.id, body |-> new[o]] /\ bodies' = bodies
    BY <1>1 DEF IndexBody, Index
  <1>5. record' # None /\ new[o] \in Docs'
    BY <1>1, <1>4, CallPart DEF UpdateCall, UpdatePart, Docs
  <1>6. Current' = new[o]
    BY <1>4, <1>5 DEF Current
  <1>7. PICK stage \in {"list", "unindex"} : Goto(o, stage)
    BY <1>1 DEF IndexBody, Answer, Failed
  <1>8. pc'[o] \notin Wanting
    BY <1>7, GotoPart DEF Wanting, BeforeCreate
  <1>9. \A q \in Op : Asked(q)' = IF q = o THEN None ELSE Asked(q)
    BY <1>8, CallAsked DEF UpdateCall
  <1>10. Asking' = [Asking EXCEPT ![o] = None] /\ Asking[o] = Asked(o)
    BY <1>9 DEF Asking
  <1>11. Current # None
    BY <1>2, NoDocIsNone
  <1>. QED BY <1>1, <1>2, <1>3, <1>6, <1>10, <1>11 DEF Register!Swap, UpdatePart, Docs, Asking

\* The bodies that an update destroys after its end, and the one it creates, are
\* not the body the record points at; unless the answer to writing it was lost.
LEMMA CurrentKept ==
    ASSUME Known, NEW o \in Op, UpdateCall(o) \/ Refuse(o), ~IndexBody(o),
           ~(pc[o] = "unindex" /\ UndoBody(o))
    PROVE  Current' = Current
  <1>1. record # None /\ record.body \in Doc
    BY DEF Known, RegisterInv, SharedType, Record
  <1>2. record' = record
    BY DEF UpdateCall, Refuse, ReadRecord, ReadDocument, CheckVersion, GetKey, MintKey, AdoptKey,
           CreateBody, LinkBody, UndoBody, ListBodies, PruneBodies, StoreBody, Link, Destroy,
           salesforceVars
  <1>3. bodies'[record.body] = bodies[record.body]
    <2>1. CASE CreateBody(o)
      <3>1. bodies' = [bodies EXCEPT ![nextDoc] = key[o]] /\ nextDoc \in Nat
        BY <2>1 DEF CreateBody, StoreBody, Known, SharedType
      <3>2. record.body # nextDoc
        BY <1>1, <3>1 DEF Known, DocInv, Doc
      <3>. QED BY <1>1, <3>1, <3>2 DEF Known, SharedType
    <2>2. CASE UndoBody(o)
      <3>1. record.body # new[o]
        BY <2>2 DEF UndoBody, Known, RegisterInv, UpdatePart
      <3>. QED BY <1>1, <2>2, <3>1 DEF UndoBody, Destroy
    <2>3. CASE PruneBodies(o)
      <3>1. record.body \notin victims[o]
        BY <2>3 DEF PruneBodies, Known, RegisterInv, UpdatePart
      <3>2. PICK D \in Destroyable(victims[o]) : Destroy(D)
        BY <2>3 DEF PruneBodies
      <3>3. record.body \notin D
        BY <3>1, <3>2 DEF Destroyable
      <3>. QED BY <1>1, <3>2, <3>3 DEF Destroy
    <2>4. CASE ~CreateBody(o) /\ ~UndoBody(o) /\ ~PruneBodies(o)
      <3>1. bodies' = bodies
        BY <2>4 DEF UpdateCall, Refuse, ReadRecord, ReadDocument, CheckVersion, GetKey, MintKey,
               AdoptKey, LinkBody, ListBodies, Link, salesforceVars
      <3>. QED BY <3>1
    <2>. QED BY <2>1, <2>2, <2>3, <2>4
  <1>. QED BY <1>1, <1>2, <1>3 DEF Current, Docs

LEMMA UndoRegister ==
    ASSUME Known, NEW o \in Op, UndoBody(o), pc[o] = "unindex"
    PROVE  [Register!Next]_<<Current, Asking>>
  <1>1. CASE record.body # new[o]
    <2>1. record # None /\ record.body \in Doc /\ record' = record
      BY DEF Known, RegisterInv, SharedType, Record, UndoBody, Destroy
    <2>2. bodies'[record.body] = bodies[record.body]
      BY <1>1, <2>1 DEF UndoBody, Destroy
    <2>3. Current' = Current
      BY <2>1, <2>2 DEF Current, Docs
    <2>. QED BY <2>3, CallKeepsPointer DEF UpdateCall
  <1>2. CASE record.body = new[o]
    <2>1. "lost" \in Fault
      BY <1>2 DEF Known, RegisterInv, UpdatePart
    <2>2. record' = record /\ new[o] \notin Docs'
      BY DEF UndoBody, Destroy, Docs
    <2>3. Current' = None
      BY <1>2, <2>2 DEF Current
    <2>4. Asked(o) = None /\ Asked(o)' = None
      BY FinishPart DEF Asked, BeforeCreate, UndoBody, Finish, Known, RequestType
    <2>5. Asking' = Asking
      BY <2>4, CallAsked DEF UpdateCall, Asking
    <2>6. Register!Lose
      BY <2>1, <2>3, <2>5 DEF Register!Lose, Asking
    <2>. QED BY <2>6 DEF Register!Next
  <1>. QED BY <1>1, <1>2

LEMMA RequestAsks ==
    ASSUME Known, NEW o \in Op, RequestUpdate(o)
    PROVE  Register!Ask(o)
  <1>1. PICK e \in {record.body, None} : expected' = [expected EXCEPT ![o] = e]
    BY DEF RequestUpdate
  <1>2. e \in Doc \cup {None}
    BY DEF RequestUpdate, Known, SharedType, Record
  <1>3. \A q \in Op : /\ pc'[q] = IF q = o THEN "record" ELSE pc[q]
                      /\ expected'[q] = IF q = o THEN e ELSE expected[q]
    BY <1>1 DEF RequestUpdate, Known, RequestType
  <1>4. Asked(o) = None
    BY DEF RequestUpdate, Asked, BeforeCreate
  <1>5. \A q \in Op : Asked(q)' = IF q = o THEN [expects |-> e] ELSE Asked(q)
    BY <1>3 DEF Asked, BeforeCreate
  <1>6. Current' = Current
    BY DEF RequestUpdate, Current, Docs, salesforceVars
  <1>7. Asking' = [Asking EXCEPT ![o] = [expects |-> e]]
    BY <1>5 DEF Asking
  <1>. QED BY <1>2, <1>4, <1>6, <1>7 DEF Register!Ask, Asking

LEMMA RegisterStep ==
    ASSUME Known, [UpdateNext]_vars
    PROVE  [Register!Next]_<<Current, Asking>>
  <1>1. ASSUME NEW o \in Op, UpdateCall(o) \/ Refuse(o)
        PROVE  [Register!Next]_<<Current, Asking>>
    <2>1. CASE IndexBody(o)
      BY <2>1, IndexSwaps DEF Register!Next
    <2>2. CASE UndoBody(o) /\ pc[o] = "unindex"
      BY <2>2, UndoRegister
    <2>3. CASE ~IndexBody(o) /\ ~(pc[o] = "unindex" /\ UndoBody(o))
      BY <1>1, <2>3, CurrentKept, CallKeepsPointer
    <2>. QED BY <2>1, <2>2, <2>3
  <1>2. ASSUME NEW o \in Op, RequestUpdate(o)
        PROVE  [Register!Next]_<<Current, Asking>>
    BY <1>2, RequestAsks DEF Register!Next
  <1>3. ASSUME NEW h \in Process \X Session, Open(h) \/ Forget(h)
        PROVE  [Register!Next]_<<Current, Asking>>
    <2>1. UNCHANGED <<salesforceVars, pc, expected>>
      BY <1>3 DEF Open, Forget, localVars
    <2>. QED BY <2>1, StutterRegister DEF Current, Docs, Asked, salesforceVars
  <1>4. ASSUME NEW p \in Process, Crash(p)
        PROVE  [Register!Next]_<<Current, Asking>>
    <2>1. \A o \in Op : pc'[o] = "idle"
      BY <1>4 DEF Crash, Known, OneProcess
    <2>2. \A o \in Op : Asked(o)' = None
      BY <2>1 DEF Asked, BeforeCreate
    <2>3. Current' = Current
      BY <1>4 DEF Crash, Current, Docs, salesforceVars
    <2>. QED BY <2>2, <2>3, GiveUpRegister
  <1>5. CASE UNCHANGED vars
    BY <1>5, StutterRegister DEF Current, Docs, Asked, vars, salesforceVars, localVars
  <1>. QED BY <1>1, <1>2, <1>3, <1>4, <1>5 DEF UpdateNext, Aside

LEMMA RegisterStart == SavedInit => Register!Init
  <1>. SUFFICES ASSUME SavedInit PROVE Register!Init
    OBVIOUS
  <1>1. TypeInv
    BY InitType DEF SavedInit
  <1>2. record # None /\ record.body = 1 /\ 1 \in Doc
    BY StoreAssumption DEF SavedInit, Init, Doc
  <1>3. bodies[1] # None
    BY <1>2, StoreAssumption DEF SavedInit, Init
  <1>4. Current = 1
    BY <1>2, <1>3 DEF Current, Docs
  <1>5. \A o \in Op : Asked(o) = None
    BY DEF SavedInit, Init, Asked, BeforeCreate
  <1>. QED BY <1>2, <1>4, <1>5 DEF Register!Init

\* In one process the updates of a canvas, each of them a dozen calls that may be
\* refused or lose their answers, implement a register that compares and swaps.
THEOREM StoreImplementsRegister == OneProcess => (UpdateSpec => ImplementsRegister)
  <1>. SUFFICES ASSUME OneProcess PROVE UpdateSpec => ImplementsRegister
    OBVIOUS
  <1>1. SavedInit => Known
    BY InitKnown
  <1>2. SavedInit => Register!Init
    BY RegisterStart
  <1>3. Known /\ [UpdateNext]_vars => [Register!Next]_<<Current, [o \in Op |-> Asked(o)]>>
    BY RegisterStep DEF Asking
  <1>. QED BY <1>1, <1>2, <1>3, UpdateNextKnown, PTL
           DEF UpdateSpec, ImplementsRegister, Register!Spec

-----------------------------------------------------------------------------
(* Pruning *)

LEMMA NewestBesidesMaximum ==
    ASSUME NEW L \in SUBSET Doc, NEW n \in L, \A d \in L : d <= n,
           NEW R \in Nat \ {0}
    PROVE  /\ L \ ((L \ {n}) \ Newest(L \ {n}, R - 1)) = Newest(L, R)
           /\ n \in Newest(L, R)
  <1>. DEFINE Above(S, d) == {e \in S : e > d}
  <1>1. IsFiniteSet(L)
    <2>1. 1 \in Int /\ MaxDoc \in Int
      BY StoreAssumption
    <2>2. IsFiniteSet(Doc)
      BY <2>1, FS_Interval DEF Doc
    <2>. QED BY <2>2, FS_Subset
  <1>2. Above(L, n) = {}
    <2>1. L \subseteq Nat
      BY StoreAssumption DEF Doc
    <2>2. \A d \in L : ~(d > n)
      BY <2>1
    <2>. QED BY <2>2
  <1>3. n \in Newest(L, R)
    BY <1>2, FS_EmptySet DEF Newest
  <1>4. ASSUME NEW d \in L \ {n}
        PROVE  d \in Newest(L, R) <=> d \in Newest(L \ {n}, R - 1)
    <2>1. Above(L, d) = Above(L \ {n}, d) \cup {n} /\ n \notin Above(L \ {n}, d)
      BY <1>4 DEF Doc
    <2>2. IsFiniteSet(Above(L \ {n}, d))
      BY <1>1, FS_Subset
    <2>3. Cardinality(Above(L \ {n}, d)) \in Nat
      BY <2>2, FS_CardinalityType
    <2>4. Cardinality(Above(L, d)) = Cardinality(Above(L \ {n}, d)) + 1
      BY <2>1, <2>2, FS_AddElement
    <2>5. Cardinality(Above(L, d)) < R <=> Cardinality(Above(L \ {n}, d)) < R - 1
      BY <2>3, <2>4
    <2>. QED BY <1>4, <2>5 DEF Newest
  <1>5. Newest(L, R) \subseteq L
    BY DEF Newest
  <1>. QED BY <1>3, <1>4, <1>5

LEMMA OnlyListingPrunes ==
    ASSUME Known, NEW o \in Op, UpdateCall(o) \/ Refuse(o), pc'[o] = "prune"
    PROVE  ListBodies(o) /\ Advance(o, "prune")
  <1>1. ~Finish(o)
    BY DEF Finish, Known, RequestType
  <1>2. \A stage : Goto(o, stage) => stage = "prune"
    BY <1>1, GotoPart DEF Goto
  <1>3. Failed(pc[o]) # "prune"
    BY DEF Failed, Known, RequestType, Stage, UpdateStage, SaveStage, RemoveStage
  <1>4. \A stage : Advance(o, stage) => stage = "prune"
    BY DEF Advance, Known, RequestType
  <1>. QED BY <1>1, <1>2, <1>3, <1>4 DEF UpdateCall, Refuse, ReadRecord, ReadDocument,
           CheckVersion, GetKey, MintKey, AdoptKey, CreateBody, LinkBody, IndexBody, UndoBody,
           ListBodies, PruneBodies, Answer

LEMMA ListingPrunes ==
    ASSUME Known, NEW o \in Op, ListBodies(o), Advance(o, "prune")
    PROVE  LET kept == Linked(record.id) \ victims'[o]
           IN  record.body \in kept /\ kept = Newest(Linked(record.id), Retention)
  <1>1. ~Finish(o)
    BY DEF Finish, Advance, Known, RequestType
  <1>2. PICK L \in {Linked(seen[o].id), Linked(seen[o].id) \ {new[o]}} :
           /\ new[o] \in L
           /\ victims' = [victims EXCEPT ![o] =
                            (L \ {new[o]}) \ Newest(L \ {new[o]}, Retention - 1)]
    BY <1>1 DEF ListBodies
  <1>3. /\ seen[o].id = record.id
        /\ new[o] = record.body
        /\ nextDoc = new[o] + 1
    BY DEF ListBodies, Known, RegisterInv, UpdatePart, Updating, UpdateStage
  <1>4. L = Linked(record.id) /\ victims'[o] = (L \ {new[o]}) \ Newest(L \ {new[o]}, Retention - 1)
    BY <1>2, <1>3 DEF Known, RequestType
  <1>5. L \in SUBSET Doc /\ \A d \in L : d <= new[o]
    BY <1>2, <1>3, <1>4 DEF Known, DocInv, Linked, Docs, Doc
  <1>6. /\ L \ victims'[o] = Newest(L, Retention)
        /\ new[o] \in Newest(L, Retention)
    <2>1. Retention \in Nat \ {0}
      BY StoreAssumption
    <2>2. /\ L \ ((L \ {new[o]}) \ Newest(L \ {new[o]}, Retention - 1)) = Newest(L, Retention)
          /\ new[o] \in Newest(L, Retention)
      BY <1>2, <1>5, <2>1, NewestBesidesMaximum
    <2>3. victims'[o] = (L \ {new[o]}) \ Newest(L \ {new[o]}, Retention - 1)
      BY <1>4
    <2>. QED BY <2>2, <2>3
  <1>. QED BY <1>3, <1>4, <1>6

LEMMA UpdateNextPrunes == Known /\ PruneKeepsNewest /\ [UpdateNext]_vars => PruneKeepsNewest'
  <1>1. ASSUME Known, NEW o \in Op, UpdateCall(o) \/ Refuse(o)
        PROVE  PruneKeepsNewest'
    <2>1. \A q \in Op \ {o} : pc'[q] # "prune"
      BY <1>1, CallPart, Alone DEF Known, Updating, UpdateStage
    <2>2. CASE pc'[o] = "prune"
      <3>1. ListBodies(o) /\ Advance(o, "prune")
        BY <1>1, <2>2, OnlyListingPrunes
      <3>2. UNCHANGED <<record, bodies, links>>
        BY <3>1 DEF ListBodies, salesforceVars
      <3>3. LET kept == (Linked(record.id) \ victims[o])'
            IN  record'.body \in kept /\ kept = Newest(Linked(record.id), Retention)'
        BY <1>1, <3>1, <3>2, ListingPrunes DEF Linked, Docs, Newest
      <3>. QED BY <2>1, <3>3 DEF PruneKeepsNewest
    <2>3. CASE pc'[o] # "prune"
      BY <2>1, <2>3 DEF PruneKeepsNewest
    <2>. QED BY <2>2, <2>3
  <1>2. ASSUME Known, PruneKeepsNewest, UNCHANGED <<record, bodies, links, victims>>,
               \A o \in Op : pc'[o] = "prune" => pc[o] = "prune"
        PROVE  PruneKeepsNewest'
    BY <1>2 DEF PruneKeepsNewest, Linked, Docs, Newest
  <1>3. ASSUME Known, PruneKeepsNewest, NEW o \in Op, RequestUpdate(o)
        PROVE  PruneKeepsNewest'
    <2>1. \A q \in Op : pc'[q] = "prune" => pc[q] = "prune"
      BY <1>3 DEF RequestUpdate, Known, RequestType
    <2>. QED BY <1>2, <1>3, <2>1 DEF RequestUpdate, salesforceVars
  <1>4. ASSUME Known, PruneKeepsNewest, NEW h \in Process \X Session, Open(h) \/ Forget(h)
        PROVE  PruneKeepsNewest'
    BY <1>2, <1>4 DEF Open, Forget, salesforceVars, localVars
  <1>5. ASSUME Known, NEW p \in Process, Crash(p)
        PROVE  PruneKeepsNewest'
    BY <1>5 DEF Crash, Known, OneProcess, PruneKeepsNewest
  <1>6. ASSUME Known, PruneKeepsNewest, UNCHANGED vars
        PROVE  PruneKeepsNewest'
    BY <1>2, <1>6 DEF vars, salesforceVars, localVars
  <1>. QED BY <1>1, <1>3, <1>4, <1>5, <1>6 DEF UpdateNext, Aside

\* In one process pruning leaves exactly the newest bodies, the one the record
\* points at among them, although the listing it goes by may be out of date.
THEOREM PruningKeepsNewest == OneProcess => (UpdateSpec => []PruneKeepsNewest)
  <1>. SUFFICES ASSUME OneProcess PROVE UpdateSpec => []PruneKeepsNewest
    OBVIOUS
  <1>1. SavedInit => Known /\ PruneKeepsNewest
    BY InitKnown DEF SavedInit, Init, PruneKeepsNewest
  <1>. QED BY <1>1, UpdateNextKnown, UpdateNextPrunes, PTL DEF UpdateSpec
=============================================================================
