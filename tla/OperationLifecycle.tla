------------------------- MODULE OperationLifecycle -------------------------
(***************************************************************************)
(* An operation from its creation to its closure and its revisions, the     *)
(* tasks handed out on it: operation_service, task_service and their        *)
(* routes.  The moves the delivery services make and the runs they open are  *)
(* in VesselDelivery and TruckDelivery; here every move goes through        *)
(* transition_operation, which asks the same state machine.                 *)
(*                                                                         *)
(* One action per request, a refused request being an action that is not    *)
(* enabled; only reopening is cut in two, at the count of the revisions.    *)
(***************************************************************************)
EXTENDS StateMachine, Integers, FiniteSets

CONSTANTS
  Operations,        \* rows of the operations table
  NoOperation,
  Types,             \* the operation types in play
  Tasks,             \* rows of task_assignments
  Superintendents,   \* users of role cargo_superintendent
  LogisticsOfficers, \* users of role logistics_officer
  NoUser,
  Requests           \* reopen requests that may be in flight

Officers == Superintendents \cup LogisticsOfficers

ASSUME LifecycleAssumption ==
  /\ IsFiniteSet(Operations)
  /\ NoOperation \notin Operations
  /\ Types \subseteq OperationTypes
  /\ NoUser \notin Officers
  /\ Superintendents \cap LogisticsOfficers = {}

VARIABLES
  op,      \* operations
  task,    \* task_assignments
  opening  \* the parent and the version each reopen request has settled on

vars == <<op, task, opening>>

\* "purged": the row was deleted by scripts/delete_operations.py.
Op == [status: OperationStatuses \cup {"none", "purged"},
       type: OperationTypes,
       version: Nat,
       root: Operations \cup {NoOperation},   \* parent_operation_id
       paused: BOOLEAN,                       \* paused_at is set
       deleted: BOOLEAN]                      \* deleted_at is set

TaskStatuses == {"pending", "in_progress", "completed", "cancelled"}
TaskTypes == {"truck_logistics", "vessel_operations"}

Task == [on: Operations \cup {NoOperation},
         assigned_to: Officers \cup {NoUser},
         type: TaskTypes,
         status: TaskStatuses \cup {"none"}]

Opening == [parent: Operations \cup {NoOperation}, version: Nat]

TypeOK ==
  /\ op \in [Operations -> Op]
  /\ task \in [Tasks -> Task]
  /\ opening \in [Requests -> Opening]

Row(status, type, version, root) ==
  [status |-> status, type |-> type, version |-> version, root |-> root,
   paused |-> FALSE, deleted |-> FALSE]
NoRow == Row("none", "vessel_only", 0, NoOperation)
Purged == Row("purged", "vessel_only", 0, NoOperation)
FreeTask == [on |-> NoOperation, assigned_to |-> NoUser, type |-> "truck_logistics",
             status |-> "none"]
Idle == [parent |-> NoOperation, version |-> 0]

Init ==
  /\ op = [o \in Operations |-> NoRow]
  /\ task = [t \in Tasks |-> FreeTask]
  /\ opening = [q \in Requests |-> Idle]

-----------------------------------------------------------------------------

InTable(o) == op[o].status \notin {"none", "purged"}

\* Every handler looks for the row with deleted_at NULL first.
Found(o) == InTable(o) /\ ~op[o].deleted

Closed == {"completed", "archived", "cancelled"}

Root(o) == IF op[o].root = NoOperation THEN o ELSE op[o].root
Family(o) == {r \in Operations : InTable(r) /\ Root(r) = o}

ActiveTask(t) == task[t].status \in {"pending", "in_progress"}

NewTask(o, u, type) ==
  [on |-> o, assigned_to |-> u, type |-> type, status |-> "pending"]

-----------------------------------------------------------------------------
(* Creation, with or without assignments on the same form.                  *)

\* A vessel-only operation needs no feedback; with a barge picked and a
\* superintendent assigned to the vessel, its run is opened at once.
CreationStatus(type, assigned, crewed) ==
  CASE ~assigned              -> "draft"
    [] assigned /\ type # "vessel_only" -> "awaiting_feedback"
    [] assigned /\ type = "vessel_only" ->
         IF crewed THEN "vessel_operations" ELSE "active"

\* given: the tasks of the form, each with its officer and type.
CreateOperation(o, type, given, crewed) ==
  LET marine == {given[t].assigned_to : t \in {x \in DOMAIN given :
                   given[x].type = "vessel_operations"}} \cap Superintendents
      commence == crewed /\ type = "vessel_only" /\ marine # {}
  IN
  /\ op[o].status = "none"
  /\ op' = [op EXCEPT ![o] =
       Row(CreationStatus(type, DOMAIN given # {}, commence), type, 1, NoOperation)]
  /\ task' = [t \in Tasks |-> IF t \in DOMAIN given
                THEN [given[t] EXCEPT !.on = o] ELSE task[t]]
  /\ UNCHANGED opening

\* Forms: no task, or any of the free ones.
Forms == UNION {[given -> {NewTask(NoOperation, u, k) : u \in Officers, k \in TaskTypes}] :
                  given \in SUBSET {t \in Tasks : task[t].status = "none"}}

\* Variant the runs must reject: the type follows the form at any status.
RetypeAnytime(o, type) ==
  /\ Found(o)
  /\ op' = [op EXCEPT ![o].type = type]
  /\ UNCHANGED <<task, opening>>

\* update_operation: of the fields it writes only the type is read again here.
UpdateOperation(o, type) ==
  /\ Found(o)
  /\ type # op[o].type => op[o].status = "draft"
  /\ op' = [op EXCEPT ![o].type = type]
  /\ UNCHANGED <<task, opening>>

MoveTo(o, to) ==
  /\ op' = [op EXCEPT ![o].status = to]
  /\ UNCHANGED <<task, opening>>

TransitionOperation(o, to, role) ==
  /\ Found(o)
  /\ ValidateTransition(op[o].type, op[o].status, to, role)
  /\ MoveTo(o, to)

CloseOperation(o, role) ==
  /\ Found(o)
  /\ role \in OperationManagers
  /\ ValidateTransition(op[o].type, op[o].status, "completed", role)
  /\ MoveTo(o, "completed")

PauseOperation(o) ==
  /\ Found(o)
  /\ ~op[o].paused
  /\ op[o].status \notin Closed
  /\ op' = [op EXCEPT ![o].paused = TRUE]
  /\ UNCHANGED <<task, opening>>

\* No status is asked: a pause outlives the operation's end.
ResumeOperation(o) ==
  /\ Found(o)
  /\ op[o].paused
  /\ op' = [op EXCEPT ![o].paused = FALSE]
  /\ UNCHANGED <<task, opening>>

SoftDeleteOperation(o) ==
  /\ Found(o)
  /\ op[o].status = "draft"
  /\ op' = [op EXCEPT ![o].deleted = TRUE]
  /\ UNCHANGED <<task, opening>>

-----------------------------------------------------------------------------
(* Reopening: the family is counted, the revision is named, and only its    *)
(* insertion meets the unique index on operation_number.                    *)

\* Variant the runs must reject: the closed row itself is set going again.
ReopenInPlace(q, o) ==
  /\ opening[q] = Idle
  /\ Found(o)
  /\ op[o].status \in Closed
  /\ op' = [op EXCEPT ![o].status = "tasks_assigned"]
  /\ UNCHANGED <<task, opening>>

ReopenCount(q, o) ==
  /\ opening[q] = Idle
  /\ Found(o)
  /\ op[o].status \in Closed
  /\ opening' = [opening EXCEPT
       ![q] = [parent |-> o, version |-> Cardinality(Family(Root(o))) + 1]]
  /\ UNCHANGED <<op, task>>

Named(r, version) == \E o \in Operations : InTable(o) /\ Root(o) = r /\ op[o].version = version

NewRevision(q, o) ==
  Row("tasks_assigned", op[opening[q].parent].type, opening[q].version, Root(opening[q].parent))

\* Variant the runs must reject: nothing keeps two revisions apart.
InsertUnindexed(q, o) ==
  /\ opening[q] # Idle
  /\ InTable(opening[q].parent)
  /\ op[o].status = "none"
  /\ op' = [op EXCEPT ![o] = NewRevision(q, o)]
  /\ opening' = [opening EXCEPT ![q] = Idle]
  /\ UNCHANGED task

ReopenInsert(q, o) ==
  /\ opening[q] # Idle
  /\ InTable(opening[q].parent)
  /\ InTable(Root(opening[q].parent))
  /\ ~Named(Root(opening[q].parent), opening[q].version)
  /\ op[o].status = "none"
  /\ op' = [op EXCEPT ![o] = NewRevision(q, o)]
  /\ opening' = [opening EXCEPT ![q] = Idle]
  /\ UNCHANGED task

\* The insertion fails, on the index or on a row purged meanwhile.
ReopenFail(q) ==
  /\ opening[q] # Idle
  /\ \/ ~InTable(opening[q].parent)
     \/ ~InTable(Root(opening[q].parent))
     \/ Named(Root(opening[q].parent), opening[q].version)
  /\ opening' = [opening EXCEPT ![q] = Idle]
  /\ UNCHANGED <<op, task>>

\* scripts/delete_operations.py: no revision outside the set may depend on it.
Purge(gone) ==
  /\ gone # {}
  /\ \A o \in gone : InTable(o)
  /\ \A o \in Operations \ gone : InTable(o) => op[o].root \notin gone
  /\ op' = [o \in Operations |-> IF o \in gone THEN Purged ELSE op[o]]
  /\ task' = [t \in Tasks |-> IF task[t].on \in gone THEN FreeTask ELSE task[t]]
  /\ UNCHANGED opening

-----------------------------------------------------------------------------
(* Tasks.                                                                   *)

SameTask(t, o, u, type) ==
  /\ ActiveTask(t)
  /\ task[t].on = o /\ task[t].assigned_to = u /\ task[t].type = type

\* Refused over one such task (409) as over several (the query fails, 500).
CreateTask(t, o, u, type) ==
  /\ task[t].status = "none"
  /\ Found(o)
  /\ ~\E other \in Tasks : SameTask(other, o, u, type)
  /\ task' = [task EXCEPT ![t] = NewTask(o, u, type)]
  /\ UNCHANGED <<op, opening>>

\* Any status to any other: a cancelled task may be taken up again.
UpdateTask(t, to) ==
  /\ task[t].status \notin {"none", to}
  /\ task' = [task EXCEPT ![t].status = to]
  /\ UNCHANGED <<op, opening>>

CancelTask(t) ==
  /\ task[t].status \notin {"none", "cancelled"}
  /\ task' = [task EXCEPT ![t].status = "cancelled"]
  /\ UNCHANGED <<op, opening>>

-----------------------------------------------------------------------------

OperationStep ==
  \E o \in Operations :
    \/ \E type \in Types, given \in Forms, crewed \in BOOLEAN :
         CreateOperation(o, type, given, crewed)
    \/ \E type \in Types : UpdateOperation(o, type)
    \/ \E to \in OperationStatuses, role \in UserRoles : TransitionOperation(o, to, role)
    \/ \E role \in UserRoles : CloseOperation(o, role)
    \/ PauseOperation(o)
    \/ ResumeOperation(o)
    \/ SoftDeleteOperation(o)

ReopenStep ==
  \E q \in Requests :
    \/ \E o \in Operations : ReopenCount(q, o) \/ ReopenInsert(q, o)
    \/ ReopenFail(q)

TaskStep ==
  \E t \in Tasks :
    \/ \E o \in Operations, u \in Officers, type \in TaskTypes : CreateTask(t, o, u, type)
    \/ \E to \in TaskStatuses : UpdateTask(t, to)
    \/ CancelTask(t)

Next == OperationStep \/ ReopenStep \/ TaskStep \/ (\E gone \in SUBSET Operations : Purge(gone))

Spec == Init /\ [][Next]_vars

-----------------------------------------------------------------------------
(* Properties.                                                              *)

HasRoute(type, status) ==
  \/ status \in Terminal
  \/ \E to \in OperationStatuses : <<status, to>> \in TransitionMap(type)

\* An operation never sits in a status its pipeline has no route out of: the
\* dead end that stranded RA-2026-0070, which update_operation guards against.
NeverStranded ==
  \A o \in Operations : InTable(o) => HasRoute(op[o].type, op[o].status)

\* Revisions hang off a root that is still there and is version 1, and no two
\* rows of a family bear one number, however many reopens overlap and whatever
\* the purge script takes.  reopen_operation reads the root without a check.
RevisionsNumbered ==
  \A o \in Operations : InTable(o) =>
    /\ op[o].version = 1 <=> op[o].root = NoOperation
    /\ op[o].root # NoOperation =>
         InTable(op[o].root) /\ op[op[o].root].root = NoOperation
    /\ \A other \in Operations \ {o} :
         InTable(other) /\ Root(other) = Root(o) => op[other].version # op[o].version

ClosedStep ==
  \A o \in Operations : InTable(o) /\ op[o].status \in Closed /\ InTable(o)' =>
    /\ op'[o].status \in Closed
    /\ op[o].status \in Terminal => op'[o].status = op[o].status
    /\ op'[o].type = op[o].type /\ op'[o].version = op[o].version

\* A closed operation is continued by a revision, never by itself: the row
\* only moves on to archived or cancelled, and keeps its type and version.
ClosedForGood == [][ClosedStep]_vars
=============================================================================
