---------------------- MODULE OperationLifecycleProofs ----------------------
(***************************************************************************)
(* Proofs about OperationLifecycle, for any sets of operations, tasks,       *)
(* officers and overlapping reopen requests and for every operation type.    *)
(***************************************************************************)
EXTENDS OperationLifecycle, FiniteSetTheorems, TLAPS

-----------------------------------------------------------------------------
(* What the transition maps amount to.                                      *)

LEMMA MapsLead ==
  ASSUME NEW type \in OperationTypes, NEW from, NEW to, <<from, to>> \in TransitionMap(type)
  PROVE  HasRoute(type, to)
<1>1. CASE type = "truck_only"
  <2>1. <<from, to>> \in TruckOnlyTransitions
    BY <1>1 DEF TransitionMap
  <2> QED
    BY <2>1, <1>1 DEF HasRoute, Terminal, TransitionMap, TruckOnlyTransitions, From, OperationStatuses
<1>2. CASE type = "full_operation"
  <2>1. <<from, to>> \in FullOperationTransitions
    BY <1>2 DEF TransitionMap
  <2> QED
    BY <2>1, <1>2 DEF HasRoute, Terminal, TransitionMap, FullOperationTransitions, From,
                      OperationStatuses
<1>3. CASE type = "vessel_only"
  <2>1. <<from, to>> \in VesselOnlyTransitions
    BY <1>3 DEF TransitionMap
  <2> QED
    BY <2>1, <1>3 DEF HasRoute, Terminal, TransitionMap, VesselOnlyTransitions, From,
                      OperationStatuses
<1> QED
  BY <1>1, <1>2, <1>3 DEF OperationTypes

\* No move strands an operation: what may be entered has a way out or is an end.
LEMMA MovesLead ==
  ASSUME NEW type \in OperationTypes, NEW from, NEW to, NEW role,
         ValidateTransition(type, from, to, role)
  PROVE  HasRoute(type, to)
<1>1. CASE to = "cancelled"
  BY <1>1 DEF HasRoute, Terminal
<1>2. CASE <<from, to>> \in TransitionMap(type)
  BY <1>2, MapsLead
<1> QED
  BY <1>1, <1>2 DEF ValidateTransition, IsValidTransition

\* The statuses an operation or a revision starts in.
LEMMA StartsLead ==
  ASSUME NEW type \in OperationTypes
  PROVE  /\ \A status \in {"draft", "tasks_assigned", "active"} : HasRoute(type, status)
         /\ type # "vessel_only" => HasRoute(type, "awaiting_feedback")
         /\ type = "vessel_only" => HasRoute(type, "vessel_operations")
<1>1. CASE type = "truck_only"
  BY <1>1 DEF HasRoute, TransitionMap, TruckOnlyTransitions, From, OperationStatuses
<1>2. CASE type = "full_operation"
  BY <1>2 DEF HasRoute, TransitionMap, FullOperationTransitions, From, OperationStatuses
<1>3. CASE type = "vessel_only"
  BY <1>3 DEF HasRoute, TransitionMap, VesselOnlyTransitions, From, OperationStatuses
<1> QED
  BY <1>1, <1>2, <1>3 DEF OperationTypes

\* Out of a closed status only another closed one is reached, out of an end none.
LEMMA ClosedMoves ==
  ASSUME NEW type \in OperationTypes, NEW from \in Closed, NEW to, NEW role,
         ValidateTransition(type, from, to, role)
  PROVE  from = "completed" /\ to \in {"archived", "cancelled"}
  BY DEF ValidateTransition, IsValidTransition, TransitionMap, TruckOnlyTransitions,
         FullOperationTransitions, VesselOnlyTransitions, From, OperationTypes, Closed, Terminal

-----------------------------------------------------------------------------
(* Type correctness.                                                        *)

\* What a reopen request has settled on: a parent, and a number no first row bears.
Settled == \A q \in Requests :
  opening[q] # Idle => opening[q].parent \in Operations /\ opening[q].version \in Nat \ {0, 1}

LEMMA RowTyped ==
  ASSUME NEW status \in OperationStatuses \cup {"none", "purged"}, NEW type \in OperationTypes,
         NEW version \in Nat, NEW root \in Operations \cup {NoOperation}
  PROVE  Row(status, type, version, root) \in Op
  BY DEF Row, Op

LEMMA NoRowsTyped == NoRow \in Op /\ Purged \in Op
  BY RowTyped DEF NoRow, Purged, OperationTypes

LEMMA InitTyped == Init => TypeOK
<1> SUFFICES ASSUME Init
             PROVE  TypeOK
  OBVIOUS
<1>1. FreeTask \in Task /\ Idle \in Opening
  BY DEF FreeTask, Task, TaskTypes, Idle, Opening
<1> QED
  BY <1>1, NoRowsTyped DEF Init, TypeOK

LEMMA CreationTyped ==
  ASSUME NEW type \in OperationTypes, NEW assigned \in BOOLEAN, NEW crewed \in BOOLEAN
  PROVE  /\ CreationStatus(type, assigned, crewed) \in OperationStatuses
         /\ HasRoute(type, CreationStatus(type, assigned, crewed))
<1>1. \/ CreationStatus(type, assigned, crewed) \in {"draft", "active"}
      \/ CreationStatus(type, assigned, crewed) = "awaiting_feedback" /\ type # "vessel_only"
      \/ CreationStatus(type, assigned, crewed) = "vessel_operations" /\ type = "vessel_only"
  BY DEF CreationStatus
<1> QED
  BY <1>1, StartsLead DEF OperationStatuses

LEMMA FormTyped ==
  ASSUME NEW given \in Forms
  PROVE  \A t \in DOMAIN given : given[t] \in Task
<1>1. PICK ts \in SUBSET {t \in Tasks : task[t].status = "none"} :
        given \in [ts -> {NewTask(NoOperation, u, k) : u \in Officers, k \in TaskTypes}]
  BY DEF Forms
<1>2. ASSUME NEW t \in ts
      PROVE  given[t] \in Task
  <2>1. PICK u \in Officers, k \in TaskTypes : given[t] = NewTask(NoOperation, u, k)
    BY <1>1
  <2> QED
    BY <2>1 DEF NewTask, Task, TaskStatuses
<1> QED
  BY <1>1, <1>2

\* A new operation starts in a status that leads on.
LEMMA CreateTyped ==
  ASSUME TypeOK, NEW o \in Operations, NEW type \in Types, NEW given \in Forms,
         NEW crewed \in BOOLEAN, CreateOperation(o, type, given, crewed)
  PROVE  /\ TypeOK'
         /\ \E status \in OperationStatuses :
              /\ op' = [op EXCEPT ![o] = Row(status, type, 1, NoOperation)]
              /\ HasRoute(type, status)
<1>1. PICK commence \in BOOLEAN :
        op' = [op EXCEPT ![o] =
                 Row(CreationStatus(type, DOMAIN given # {}, commence), type, 1, NoOperation)]
  BY DEF CreateOperation
<1>2. type \in OperationTypes
  BY LifecycleAssumption
<1>3. /\ CreationStatus(type, DOMAIN given # {}, commence) \in OperationStatuses
      /\ HasRoute(type, CreationStatus(type, DOMAIN given # {}, commence))
  BY <1>2, CreationTyped
<1>4. op' \in [Operations -> Op]
  BY <1>1, <1>2, <1>3, RowTyped DEF TypeOK
<1>5. ASSUME NEW t \in Tasks
      PROVE  (IF t \in DOMAIN given THEN [given[t] EXCEPT !.on = o] ELSE task[t]) \in Task
  BY FormTyped DEF TypeOK, Task
<1>6. task' \in [Tasks -> Task] /\ opening' = opening
  BY <1>5 DEF CreateOperation
<1> QED
  BY <1>1, <1>3, <1>4, <1>6 DEF TypeOK

\* What the handlers of a row have in common: it stays in the table, with its
\* number and a way on, and closed it stays closed.
Handled(o) ==
  /\ Found(o)
  /\ UNCHANGED <<task, opening>>
  /\ \E new \in Op :
       /\ op' = [op EXCEPT ![o] = new]
       /\ new.status \notin {"none", "purged"}
       /\ new.version = op[o].version /\ new.root = op[o].root
       /\ HasRoute(op[o].type, op[o].status) => HasRoute(new.type, new.status)
       /\ op[o].status \in Closed =>
            /\ new.status \in Closed
            /\ op[o].status \in Terminal => new.status = op[o].status
            /\ new.type = op[o].type

LEMMA MoveHandled ==
  ASSUME TypeOK, NEW o \in Operations, NEW to \in OperationStatuses, NEW role, Found(o),
         ValidateTransition(op[o].type, op[o].status, to, role), MoveTo(o, to)
  PROVE  Handled(o)
<1> DEFINE new == [op[o] EXCEPT !.status = to]
<1>1. op[o] \in Op /\ op[o].type \in OperationTypes
  BY DEF TypeOK, Op
<1>2. /\ new \in Op /\ new.status = to /\ new.type = op[o].type
      /\ new.version = op[o].version /\ new.root = op[o].root
  BY <1>1 DEF Op
<1>3. op' = [op EXCEPT ![o] = new] /\ UNCHANGED <<task, opening>>
  BY DEF MoveTo
<1>4. to \notin {"none", "purged"}
  BY DEF OperationStatuses
<1>5. HasRoute(op[o].type, to)
  BY <1>1, MovesLead
<1>6. ASSUME op[o].status \in Closed
      PROVE  op[o].status = "completed" /\ to \in {"archived", "cancelled"}
  BY <1>1, <1>6, ClosedMoves
<1>7. op[o].status \in Closed =>
        to \in Closed /\ (op[o].status \in Terminal => to = op[o].status)
  BY <1>6 DEF Closed, Terminal
<1> HIDE DEF new
<1> QED
  BY <1>2, <1>3, <1>4, <1>5, <1>7 DEF Handled

LEMMA RetypeHandled ==
  ASSUME TypeOK, NEW o \in Operations, NEW type \in Types, UpdateOperation(o, type)
  PROVE  Handled(o)
<1> DEFINE new == [op[o] EXCEPT !.type = type]
<1>1. op[o] \in Op /\ type \in OperationTypes
  BY LifecycleAssumption DEF TypeOK
<1>2. /\ new \in Op /\ new.status = op[o].status /\ new.type = type
      /\ new.version = op[o].version /\ new.root = op[o].root
  BY <1>1 DEF Op
<1>3. op' = [op EXCEPT ![o] = new] /\ UNCHANGED <<task, opening>> /\ Found(o)
  BY DEF UpdateOperation
<1>4. op[o].status \notin {"none", "purged"}
  BY <1>3 DEF Found, InTable
<1>5. HasRoute(op[o].type, op[o].status) => HasRoute(type, op[o].status)
  BY <1>1, StartsLead DEF UpdateOperation
<1>6. op[o].status \in Closed => type = op[o].type
  BY DEF UpdateOperation, Closed
<1> HIDE DEF new
<1> QED
  BY <1>2, <1>3, <1>4, <1>5, <1>6 DEF Handled

LEMMA PauseHandled ==
  ASSUME TypeOK, NEW o \in Operations,
         PauseOperation(o) \/ ResumeOperation(o) \/ SoftDeleteOperation(o)
  PROVE  Handled(o)
<1>1. op[o] \in Op
  BY DEF TypeOK
<1>2. Found(o) /\ op[o].status \notin {"none", "purged"} /\ UNCHANGED <<task, opening>>
  BY DEF PauseOperation, ResumeOperation, SoftDeleteOperation, Found, InTable
<1>3. PICK new \in {[op[o] EXCEPT !.paused = TRUE], [op[o] EXCEPT !.paused = FALSE],
                    [op[o] EXCEPT !.deleted = TRUE]} : op' = [op EXCEPT ![o] = new]
  BY DEF PauseOperation, ResumeOperation, SoftDeleteOperation
<1>4. /\ new \in Op /\ new.status = op[o].status /\ new.type = op[o].type
      /\ new.version = op[o].version /\ new.root = op[o].root
  BY <1>1, <1>3 DEF Op
<1> QED
  BY <1>2, <1>3, <1>4 DEF Handled

LEMMA OperationSteps ==
  ASSUME TypeOK, OperationStep
  PROVE  \/ \E o \in Operations, type \in Types, given \in Forms, crewed \in BOOLEAN :
              CreateOperation(o, type, given, crewed)
         \/ \E o \in Operations : Handled(o)
<1>1. ASSUME NEW o \in Operations, NEW to \in OperationStatuses, NEW role \in UserRoles,
             TransitionOperation(o, to, role) \/ (to = "completed" /\ CloseOperation(o, role))
      PROVE  Handled(o)
  BY <1>1, MoveHandled DEF TransitionOperation, CloseOperation
<1>2. ASSUME NEW o \in Operations, NEW role \in UserRoles, CloseOperation(o, role)
      PROVE  Handled(o)
  <2>1. "completed" \in OperationStatuses
    BY DEF OperationStatuses
  <2> QED
    BY <1>1, <1>2, <2>1
<1> QED
  BY <1>1, <1>2, RetypeHandled, PauseHandled DEF OperationStep

LEMMA HandledTyped ==
  ASSUME TypeOK, NEW o \in Operations, Handled(o)
  PROVE  TypeOK'
  BY DEF Handled, TypeOK

\* The family of a closed operation holds that operation, so the next number
\* is not a first one.
LEMMA CountTyped ==
  ASSUME TypeOK, NEW q \in Requests, NEW o \in Operations, ReopenCount(q, o)
  PROVE  /\ TypeOK'
         /\ opening' = [opening EXCEPT ![q] = opening'[q]]
         /\ opening'[q].parent = o /\ opening'[q].version \in Nat \ {0, 1}
<1> DEFINE family == Family(Root(o))
<1>1. IsFiniteSet(family)
  BY LifecycleAssumption, FS_Subset DEF Family
<1>2. o \in family
  BY DEF ReopenCount, Found, Family
<1>3. Cardinality(family) \in Nat \ {0}
  BY <1>1, <1>2, FS_CardinalityType, FS_EmptySet
<1>4. Cardinality(family) + 1 \in Nat \ {0, 1}
  BY <1>3
<1>5. opening' = [opening EXCEPT ![q] = [parent |-> o, version |-> Cardinality(family) + 1]]
  BY DEF ReopenCount
<1> HIDE DEF family
<1>6. [parent |-> o, version |-> Cardinality(family) + 1] \in Opening
  BY <1>4 DEF Opening
<1> QED
  BY <1>4, <1>5, <1>6 DEF ReopenCount, TypeOK

LEMMA RootTyped ==
  ASSUME TypeOK, NEW o \in Operations
  PROVE  Root(o) \in Operations
  BY DEF TypeOK, Op, Root

LEMMA InsertTyped ==
  ASSUME TypeOK, Settled, NEW q \in Requests, NEW o \in Operations, ReopenInsert(q, o)
  PROVE  /\ TypeOK'
         /\ op' = [op EXCEPT ![o] = NewRevision(q, o)]
         /\ NewRevision(q, o) \in Op
<1>1. /\ opening[q].parent \in Operations /\ opening[q].version \in Nat
      /\ op[opening[q].parent].type \in OperationTypes
  BY DEF ReopenInsert, Settled, TypeOK, Op
<1>2. NewRevision(q, o) \in Op
  BY <1>1, RootTyped, RowTyped DEF NewRevision, OperationStatuses
<1>3. Idle \in Opening
  BY DEF Idle, Opening
<1> QED
  BY <1>2, <1>3 DEF ReopenInsert, TypeOK

LEMMA OtherTyped ==
  ASSUME TypeOK
  PROVE  /\ \A q \in Requests : ReopenFail(q) => TypeOK'
         /\ TaskStep => TypeOK'
         /\ \A gone \in SUBSET Operations : Purge(gone) => TypeOK'
<1>0. Idle \in Opening /\ FreeTask \in Task
  BY DEF Idle, Opening, FreeTask, Task, TaskTypes
<1>1. ASSUME NEW q \in Requests, ReopenFail(q)
      PROVE  TypeOK'
  BY <1>0, <1>1 DEF ReopenFail, TypeOK
<1>2. ASSUME TaskStep
      PROVE  TypeOK'
  <2>1. ASSUME NEW t \in Tasks, NEW o \in Operations, NEW u \in Officers, NEW type \in TaskTypes,
               CreateTask(t, o, u, type)
        PROVE  TypeOK'
    <3>1. NewTask(o, u, type) \in Task
      BY DEF NewTask, Task, TaskStatuses
    <3> QED
      BY <2>1, <3>1 DEF CreateTask, TypeOK
  <2>2. ASSUME NEW t \in Tasks, NEW to \in TaskStatuses, UpdateTask(t, to)
        PROVE  TypeOK'
    BY <2>2 DEF UpdateTask, TypeOK, Task
  <2>3. ASSUME NEW t \in Tasks, CancelTask(t)
        PROVE  TypeOK'
    BY <2>3 DEF CancelTask, TypeOK, Task, TaskStatuses
  <2> QED
    BY <1>2, <2>1, <2>2, <2>3 DEF TaskStep
<1>3. ASSUME NEW gone \in SUBSET Operations, Purge(gone)
      PROVE  TypeOK'
  BY <1>0, <1>3, NoRowsTyped DEF Purge, TypeOK
<1> QED
  BY <1>1, <1>2, <1>3

LEMMA StepTyped == TypeOK /\ Settled /\ [Next]_vars => TypeOK'
<1> SUFFICES ASSUME TypeOK, Settled, [Next]_vars
             PROVE  TypeOK'
  OBVIOUS
<1>1. CASE UNCHANGED vars
  BY <1>1 DEF TypeOK, vars
<1>2. CASE OperationStep
  BY <1>2, OperationSteps, CreateTyped, HandledTyped
<1>3. CASE ReopenStep
  BY <1>3, CountTyped, InsertTyped, OtherTyped DEF ReopenStep
<1> QED
  BY <1>1, <1>2, <1>3, OtherTyped DEF Next

LEMMA StepSettled == TypeOK /\ Settled /\ [Next]_vars => Settled'
<1> SUFFICES ASSUME TypeOK, Settled, [Next]_vars
             PROVE  Settled'
  OBVIOUS
<1>1. CASE opening' = opening
  BY <1>1 DEF Settled
<1>2. ASSUME NEW q \in Requests, opening' = [opening EXCEPT ![q] = Idle]
      PROVE  Settled'
  BY <1>2 DEF Settled, TypeOK
<1>3. ASSUME NEW q \in Requests, NEW o \in Operations, ReopenCount(q, o)
      PROVE  Settled'
  BY <1>3, CountTyped DEF Settled, TypeOK
<1>4. OperationStep => opening' = opening
  BY OperationSteps DEF CreateOperation, Handled
<1>5. TaskStep => opening' = opening
  BY DEF TaskStep, CreateTask, UpdateTask, CancelTask
<1> QED
  BY <1>1, <1>2, <1>3, <1>4, <1>5 DEF Next, vars, ReopenStep, ReopenInsert, ReopenFail, Purge

-----------------------------------------------------------------------------
(* Revisions.                                                               *)

Numbered(o) ==
  /\ op[o].version = 1 <=> op[o].root = NoOperation
  /\ op[o].root # NoOperation => InTable(op[o].root) /\ op[op[o].root].root = NoOperation
  /\ \A other \in Operations \ {o} :
       InTable(other) /\ Root(other) = Root(o) => op[other].version # op[o].version

LEMMA NumberedRows == RevisionsNumbered <=> \A o \in Operations : InTable(o) => Numbered(o)
  BY DEF RevisionsNumbered, Numbered

LEMMA HandledNumbered ==
  ASSUME TypeOK, RevisionsNumbered, NEW o \in Operations, Handled(o)
  PROVE  RevisionsNumbered'
<1>1. \A x \in Operations : /\ InTable(x)' <=> InTable(x)
                            /\ op'[x].version = op[x].version /\ op'[x].root = op[x].root
  BY DEF Handled, Found, InTable, TypeOK
<1>2. \A x \in Operations : Root(x)' = Root(x)
  BY <1>1 DEF Root
<1> QED
  BY <1>1, <1>2 DEF RevisionsNumbered, TypeOK, Op

LEMMA CreateNumbered ==
  ASSUME TypeOK, RevisionsNumbered, NEW o \in Operations, NEW type \in Types, NEW given \in Forms,
         NEW crewed \in BOOLEAN, CreateOperation(o, type, given, crewed)
  PROVE  RevisionsNumbered'
<1>1. /\ op'[o].version = 1 /\ op'[o].root = NoOperation
      /\ \A x \in Operations \ {o} : op'[x] = op[x]
  BY CreateTyped DEF TypeOK, Row
<1>2. ~InTable(o)
  BY DEF CreateOperation, InTable
<1>3. \A x \in Operations \ {o} : InTable(x) => Root(x) # o
  BY <1>2 DEF RevisionsNumbered, Root
<1>4. Root(o)' = o /\ \A x \in Operations \ {o} : Root(x)' = Root(x) /\ (InTable(x)' <=> InTable(x))
  BY <1>1 DEF Root, InTable
<1>5. \A x \in Operations \ {o} : InTable(x) /\ op[x].root # NoOperation => op[x].root \in Operations \ {o}
  BY <1>2 DEF RevisionsNumbered, TypeOK, Op
<1>6. ASSUME NEW x \in Operations \ {o}, InTable(x)'
      PROVE  Numbered(x)'
  <2>1. op'[x].version = 1 <=> op'[x].root = NoOperation
    BY <1>1, <1>4, <1>6 DEF RevisionsNumbered
  <2>2. op'[x].root # NoOperation => InTable(op[x].root)' /\ op'[op'[x].root].root = NoOperation
    BY <1>1, <1>4, <1>5, <1>6 DEF RevisionsNumbered
  <2>3. \A other \in Operations \ {x} :
          InTable(other)' /\ Root(other)' = Root(x)' => op'[other].version # op'[x].version
    BY <1>1, <1>3, <1>4, <1>6 DEF RevisionsNumbered
  <2> QED
    BY <1>1, <2>1, <2>2, <2>3 DEF Numbered, InTable
<1>7. Numbered(o)'
  BY <1>1, <1>3, <1>4 DEF Numbered
<1> QED
  BY <1>6, <1>7, NumberedRows DEF RevisionsNumbered, Numbered

LEMMA InsertNumbered ==
  ASSUME TypeOK, Settled, RevisionsNumbered, NEW q \in Requests, NEW o \in Operations,
         ReopenInsert(q, o)
  PROVE  RevisionsNumbered'
<1>0. PICK root \in Operations : root = Root(opening[q].parent)
  BY RootTyped DEF ReopenInsert, Settled
<1>1. /\ op'[o].version = opening[q].version /\ op'[o].root = root
      /\ \A x \in Operations \ {o} : op'[x] = op[x]
  <2>1. op' = [op EXCEPT ![o] = NewRevision(q, o)]
    BY InsertTyped
  <2> QED
    BY <1>0, <2>1 DEF TypeOK, NewRevision, Row
<1>2. ~InTable(o) /\ InTable(root)
  BY <1>0 DEF ReopenInsert, InTable
<1>3. opening[q].parent \in Operations /\ opening[q].version \in Nat \ {0, 1} /\ InTable(opening[q].parent)
  BY DEF ReopenInsert, Settled
<1>4. root \in Operations \ {o} /\ root # NoOperation /\ op[root].root = NoOperation
  BY <1>0, <1>2, <1>3, RootTyped, LifecycleAssumption DEF RevisionsNumbered, Root
<1>5. Root(o)' = root /\ \A x \in Operations \ {o} : Root(x)' = Root(x) /\ (InTable(x)' <=> InTable(x))
  BY <1>1, <1>4 DEF Root, InTable
<1>6. \A x \in Operations \ {o} : InTable(x) /\ op[x].root # NoOperation => op[x].root \in Operations \ {o}
  BY <1>2 DEF RevisionsNumbered, TypeOK, Op
<1>7. \A x \in Operations : InTable(x) /\ Root(x) = root => op[x].version # opening[q].version
  BY <1>0 DEF ReopenInsert, Named
<1>8. ASSUME NEW x \in Operations \ {o}, InTable(x)'
      PROVE  Numbered(x)'
  <2>1. op'[x].version = 1 <=> op'[x].root = NoOperation
    BY <1>1, <1>5, <1>8 DEF RevisionsNumbered
  <2>2. op'[x].root # NoOperation => InTable(op[x].root)' /\ op'[op'[x].root].root = NoOperation
    BY <1>1, <1>5, <1>6, <1>8 DEF RevisionsNumbered
  <2>3. \A other \in Operations \ {x} :
          InTable(other)' /\ Root(other)' = Root(x)' => op'[other].version # op'[x].version
    BY <1>1, <1>5, <1>7, <1>8 DEF RevisionsNumbered
  <2> QED
    BY <1>1, <2>1, <2>2, <2>3 DEF Numbered, InTable
<1>9. Numbered(o)'
  <2>1. op'[o].version # 1 /\ op'[o].root # NoOperation
    BY <1>1, <1>3, <1>4
  <2>2. InTable(root)' /\ op'[root].root = NoOperation
    BY <1>1, <1>2, <1>4, <1>5
  <2>3. \A other \in Operations \ {o} :
          InTable(other)' /\ Root(other)' = Root(o)' => op'[other].version # op'[o].version
    BY <1>1, <1>5, <1>7
  <2> QED
    BY <1>1, <2>1, <2>2, <2>3 DEF Numbered, InTable
<1> QED
  BY <1>8, <1>9 DEF RevisionsNumbered, Numbered

LEMMA PurgeNumbered ==
  ASSUME TypeOK, RevisionsNumbered, NEW gone \in SUBSET Operations, Purge(gone)
  PROVE  RevisionsNumbered'
<1>1. /\ \A x \in gone : ~InTable(x)'
      /\ \A x \in Operations \ gone : op'[x] = op[x]
  BY DEF Purge, Purged, Row, InTable
<1>2. \A x \in Operations \ gone : Root(x)' = Root(x) /\ (InTable(x)' <=> InTable(x))
  BY <1>1 DEF Root, InTable
<1>3. \A x \in Operations \ gone : InTable(x) /\ op[x].root # NoOperation =>
        op[x].root \in Operations \ gone
  BY DEF Purge, TypeOK, Op
<1>4. ASSUME NEW x \in Operations, InTable(x)'
      PROVE  Numbered(x)'
  <2>0. x \in Operations \ gone /\ InTable(x)
    BY <1>1, <1>2, <1>4
  <2>1. op'[x].version = 1 <=> op'[x].root = NoOperation
    BY <1>1, <2>0 DEF RevisionsNumbered
  <2>2. op'[x].root # NoOperation => InTable(op[x].root)' /\ op'[op'[x].root].root = NoOperation
    BY <1>1, <1>2, <1>3, <2>0 DEF RevisionsNumbered
  <2>3. \A other \in Operations \ {x} :
          InTable(other)' /\ Root(other)' = Root(x)' => op'[other].version # op'[x].version
    BY <1>1, <1>2, <2>0 DEF RevisionsNumbered
  <2> QED
    BY <1>1, <2>0, <2>1, <2>2, <2>3 DEF Numbered, InTable
<1> QED
  BY <1>4 DEF RevisionsNumbered, Numbered

LEMMA StepNumbered == TypeOK /\ Settled /\ RevisionsNumbered /\ [Next]_vars => RevisionsNumbered'
<1> SUFFICES ASSUME TypeOK, Settled, RevisionsNumbered, [Next]_vars
             PROVE  RevisionsNumbered'
  OBVIOUS
<1>1. CASE op' = op
  BY <1>1 DEF RevisionsNumbered, InTable, Root
<1>2. CASE OperationStep
  BY <1>2, OperationSteps, CreateNumbered, HandledNumbered
<1>3. TaskStep => op' = op
  BY DEF TaskStep, CreateTask, UpdateTask, CancelTask
<1> QED
  BY <1>1, <1>2, <1>3, InsertNumbered, PurgeNumbered
     DEF Next, vars, ReopenStep, ReopenCount, ReopenFail

-----------------------------------------------------------------------------
(* Ways on, and closed rows.                                                *)

LEMMA StepLeads == TypeOK /\ Settled /\ NeverStranded /\ [Next]_vars => NeverStranded'
<1> SUFFICES ASSUME TypeOK, Settled, NeverStranded, [Next]_vars
             PROVE  NeverStranded'
  OBVIOUS
<1>1. CASE op' = op
  BY <1>1 DEF NeverStranded, InTable
<1>2. ASSUME NEW o \in Operations, NEW new, op' = [op EXCEPT ![o] = new],
             HasRoute(new.type, new.status)
      PROVE  NeverStranded'
  BY <1>2 DEF NeverStranded, InTable, TypeOK
<1>3. ASSUME NEW o \in Operations, NEW type \in Types, NEW given \in Forms, NEW crewed \in BOOLEAN,
             CreateOperation(o, type, given, crewed)
      PROVE  NeverStranded'
  <2>1. PICK status \in OperationStatuses :
          /\ op' = [op EXCEPT ![o] = Row(status, type, 1, NoOperation)]
          /\ HasRoute(type, status)
    BY <1>3, CreateTyped
  <2>2. HasRoute(Row(status, type, 1, NoOperation).type, Row(status, type, 1, NoOperation).status)
    BY <2>1 DEF Row
  <2> QED
    BY <1>2, <2>1, <2>2
<1>4. ASSUME NEW o \in Operations, Handled(o)
      PROVE  NeverStranded'
  BY <1>2, <1>4 DEF Handled, Found, NeverStranded
<1>5. ASSUME NEW q \in Requests, NEW o \in Operations, ReopenInsert(q, o)
      PROVE  NeverStranded'
  <2>1. op' = [op EXCEPT ![o] = NewRevision(q, o)]
    BY <1>5, InsertTyped
  <2>2. op[opening[q].parent].type \in OperationTypes
    BY <1>5 DEF ReopenInsert, Settled, TypeOK, Op
  <2>3. HasRoute(NewRevision(q, o).type, NewRevision(q, o).status)
    BY <2>2, StartsLead DEF NewRevision, Row
  <2> QED
    BY <1>2, <2>1, <2>3
<1>6. ASSUME NEW gone \in SUBSET Operations, Purge(gone)
      PROVE  NeverStranded'
  BY <1>6 DEF Purge, Purged, Row, NeverStranded, InTable
<1>7. TaskStep => op' = op
  BY DEF TaskStep, CreateTask, UpdateTask, CancelTask
<1> QED
  BY <1>1, <1>3, <1>4, <1>5, <1>6, <1>7, OperationSteps
     DEF Next, vars, ReopenStep, ReopenCount, ReopenFail

LEMMA StepClosed == TypeOK /\ Settled /\ [Next]_vars => ClosedStep
<1> SUFFICES ASSUME TypeOK, Settled, [Next]_vars,
                    NEW o \in Operations, InTable(o), op[o].status \in Closed, InTable(o)'
             PROVE  /\ op'[o].status \in Closed
                    /\ op[o].status \in Terminal => op'[o].status = op[o].status
                    /\ op'[o].type = op[o].type /\ op'[o].version = op[o].version
  BY DEF ClosedStep
<1>1. CASE op'[o] = op[o]
  BY <1>1
<1>2. ASSUME NEW x \in Operations, NEW type \in Types, NEW given \in Forms, NEW crewed \in BOOLEAN,
             CreateOperation(x, type, given, crewed)
      PROVE  op'[o] = op[o]
  BY <1>2 DEF CreateOperation, InTable, TypeOK
<1>3. ASSUME NEW x \in Operations, Handled(x), op'[o] # op[o]
      PROVE  /\ op'[o].status \in Closed
             /\ op[o].status \in Terminal => op'[o].status = op[o].status
             /\ op'[o].type = op[o].type /\ op'[o].version = op[o].version
  <2>1. x = o
    BY <1>3 DEF Handled, TypeOK
  <2> QED
    BY <1>3, <2>1 DEF Handled, TypeOK
<1>4. ASSUME NEW q \in Requests, NEW x \in Operations, ReopenInsert(q, x)
      PROVE  op'[o] = op[o]
  BY <1>4 DEF ReopenInsert, InTable, TypeOK
<1>5. ASSUME NEW gone \in SUBSET Operations, Purge(gone)
      PROVE  op'[o] = op[o]
  BY <1>5 DEF Purge, Purged, Row, InTable
<1>6. TaskStep => op' = op
  BY DEF TaskStep, CreateTask, UpdateTask, CancelTask
<1> QED
  BY <1>1, <1>2, <1>3, <1>4, <1>5, <1>6, OperationSteps
     DEF Next, vars, ReopenStep, ReopenCount, ReopenFail

-----------------------------------------------------------------------------
(* Theorems.                                                                *)

LifeInv == TypeOK /\ Settled /\ RevisionsNumbered /\ NeverStranded

THEOREM LifecycleSafe == Spec => []LifeInv
<1>1. Init => LifeInv
  BY InitTyped DEF Init, LifeInv, Settled, RevisionsNumbered, NeverStranded, InTable, NoRow, Row
<1>2. LifeInv /\ [Next]_vars => LifeInv'
  BY StepTyped, StepSettled, StepNumbered, StepLeads DEF LifeInv
<1> QED
  BY <1>1, <1>2, PTL DEF Spec

\* Every table keeps its row types.
THEOREM LifecycleTypeCorrect == Spec => []TypeOK
<1>1. LifeInv => TypeOK
  BY DEF LifeInv
<1> QED
  BY <1>1, LifecycleSafe, PTL

\* No sequence of updates, moves, reopens and purges leaves an operation in a
\* status that its pipeline has no route out of.
THEOREM AlwaysAWayOn == Spec => []NeverStranded
<1>1. LifeInv => NeverStranded
  BY DEF LifeInv
<1> QED
  BY <1>1, LifecycleSafe, PTL

\* However many reopens overlap, the rows of a family bear distinct numbers and
\* hang off a first row that is there.
THEOREM FamiliesNumbered == Spec => []RevisionsNumbered
<1>1. LifeInv => RevisionsNumbered
  BY DEF LifeInv
<1> QED
  BY <1>1, LifecycleSafe, PTL

\* A closed operation is continued by a revision, never by itself.
THEOREM ClosedStaysClosed == Spec => ClosedForGood
<1>1. LifeInv /\ [Next]_vars => ClosedStep
  BY StepClosed DEF LifeInv
<1> QED
  BY <1>1, LifecycleSafe, PTL DEF Spec, ClosedForGood
=============================================================================
