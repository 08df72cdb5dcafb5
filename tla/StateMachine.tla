---------------------------- MODULE StateMachine ----------------------------
(***************************************************************************)
(* The operation status machine of app/services/state_machine.py: which    *)
(* status may follow which, per operation type, and which role may make    *)
(* the move.  A pure module: every service that changes an operation's     *)
(* status asks ValidateTransition first.                                   *)
(***************************************************************************)

OperationTypes == {"truck_only", "full_operation", "vessel_only"}

OperationStatuses ==
  {"draft", "tasks_assigned", "awaiting_feedback", "feedback_submitted",
   "feedback_rejected", "feedback_approved", "active", "pfi_linked",
   "payment_processing", "payment_confirmed", "vessel_operations",
   "pending_completion", "bdn_pending", "bdn_approved", "invoiced",
   "completed", "archived", "cancelled"}

UserRoles ==
  {"bunker_manager", "ops_supervisor", "logistics_officer",
   "cargo_superintendent", "finance_manager", "marine_operator", "client"}

\* Roles with a Bunker Manager's authority over an operation.
OperationManagers == {"bunker_manager", "ops_supervisor"}

-----------------------------------------------------------------------------
(* The transition maps, as sets of edges.                                  *)

From(status, targets) == {status} \X targets

TruckOnlyTransitions ==
  From("draft", {"tasks_assigned", "cancelled"})
    \cup From("tasks_assigned", {"awaiting_feedback", "cancelled"})
    \cup From("awaiting_feedback", {"feedback_submitted"})
    \cup From("feedback_submitted", {"active", "feedback_rejected"})
    \cup From("feedback_rejected", {"feedback_submitted"})
    \cup From("feedback_approved", {"active"})
    \cup From("active", {"pending_completion", "cancelled"})
    \cup From("pfi_linked", {"payment_processing"})
    \cup From("payment_processing", {"payment_confirmed"})
    \cup From("payment_confirmed", {"pending_completion", "invoiced"})
    \cup From("pending_completion", {"bdn_pending", "invoiced", "active"})
    \cup From("bdn_pending", {"bdn_approved", "pending_completion"})
    \cup From("bdn_approved", {"completed", "invoiced", "bdn_pending"})
    \cup From("invoiced", {"completed"})
    \cup From("completed", {"archived"})

FullOperationTransitions ==
  From("draft", {"tasks_assigned", "cancelled"})
    \cup From("tasks_assigned", {"awaiting_feedback", "cancelled"})
    \cup From("awaiting_feedback", {"feedback_submitted"})
    \cup From("feedback_submitted", {"active", "feedback_rejected"})
    \cup From("feedback_rejected", {"feedback_submitted"})
    \cup From("feedback_approved", {"active"})
    \cup From("active", {"vessel_operations", "cancelled"})
    \cup From("pfi_linked", {"payment_processing"})
    \cup From("payment_processing", {"payment_confirmed"})
    \cup From("payment_confirmed", {"vessel_operations", "invoiced"})
    \cup From("vessel_operations", {"pending_completion", "bdn_pending"})
    \cup From("pending_completion", {"vessel_operations", "bdn_pending"})
    \cup From("bdn_pending", {"bdn_approved", "vessel_operations"})
    \cup From("bdn_approved", {"completed", "invoiced", "pfi_linked",
                               "vessel_operations", "bdn_pending"})
    \cup From("invoiced", {"completed"})
    \cup From("completed", {"archived"})

VesselOnlyTransitions ==
  From("draft", {"tasks_assigned", "cancelled"})
    \cup From("tasks_assigned", {"active", "cancelled"})
    \cup From("active", {"vessel_operations", "cancelled"})
    \cup From("pfi_linked", {"payment_processing"})
    \cup From("payment_processing", {"payment_confirmed"})
    \cup From("payment_confirmed", {"vessel_operations", "invoiced"})
    \cup From("vessel_operations", {"pending_completion", "bdn_pending"})
    \cup From("pending_completion", {"vessel_operations", "bdn_pending"})
    \cup From("bdn_pending", {"bdn_approved", "vessel_operations"})
    \cup From("bdn_approved", {"completed", "invoiced", "pfi_linked",
                               "vessel_operations", "bdn_pending"})
    \cup From("invoiced", {"completed"})
    \cup From("completed", {"archived"})

TransitionMap(type) ==
  CASE type = "truck_only"  -> TruckOnlyTransitions
    [] type = "vessel_only" -> VesselOnlyTransitions
    [] OTHER                -> FullOperationTransitions

-----------------------------------------------------------------------------
(* Who may make which move.                                                *)

\* Edges whose role list holds "system": CanUserTransition opens them to all.
SystemTransitions ==
  {<<"tasks_assigned", "awaiting_feedback">>,
   <<"vessel_operations", "pending_completion">>,
   <<"pending_completion", "vessel_operations">>,
   <<"bdn_approved", "vessel_operations">>,
   <<"completed", "archived">>}

\* The remaining edges of TRANSITION_PERMISSIONS, by the roles they list.
ManagerTransitions ==
  {<<"draft", "tasks_assigned">>, <<"tasks_assigned", "active">>,
   <<"active", "vessel_operations">>, <<"payment_confirmed", "vessel_operations">>,
   <<"bdn_pending", "bdn_approved">>, <<"bdn_pending", "vessel_operations">>,
   <<"pending_completion", "active">>, <<"bdn_pending", "pending_completion">>,
   <<"bdn_approved", "completed">>, <<"invoiced", "completed">>,
   <<"active", "pending_completion">>, <<"payment_confirmed", "pending_completion">>,
   <<"vessel_operations", "bdn_pending">>, <<"pending_completion", "bdn_pending">>,
   <<"bdn_approved", "bdn_pending">>}

BunkerManagerTransitions ==
  ManagerTransitions \cup
  {<<"awaiting_feedback", "feedback_submitted">>,
   <<"feedback_rejected", "feedback_submitted">>,
   <<"feedback_submitted", "active">>, <<"feedback_submitted", "feedback_rejected">>,
   <<"feedback_approved", "active">>, <<"bdn_approved", "pfi_linked">>}

LogisticsTransitions ==
  {<<"awaiting_feedback", "feedback_submitted">>,
   <<"feedback_rejected", "feedback_submitted">>,
   <<"active", "pending_completion">>, <<"payment_confirmed", "pending_completion">>,
   <<"pending_completion", "bdn_pending">>, <<"bdn_approved", "bdn_pending">>}

SuperintendentTransitions ==
  {<<"vessel_operations", "bdn_pending">>, <<"pending_completion", "bdn_pending">>,
   <<"bdn_approved", "bdn_pending">>}

FinanceTransitions ==
  {<<"pfi_linked", "payment_processing">>, <<"payment_processing", "payment_confirmed">>,
   <<"pending_completion", "invoiced">>, <<"bdn_approved", "invoiced">>,
   <<"payment_confirmed", "invoiced">>}

RoleTransitions(role) ==
  CASE role = "bunker_manager"       -> BunkerManagerTransitions
    [] role = "ops_supervisor"       -> ManagerTransitions
    [] role = "logistics_officer"    -> LogisticsTransitions
    [] role = "cargo_superintendent" -> SuperintendentTransitions
    [] role = "finance_manager"      -> FinanceTransitions
    [] OTHER                         -> {}

-----------------------------------------------------------------------------
(* StateMachine's methods.                                                 *)

Terminal == {"cancelled", "archived"}

\* Any status that is not terminal may be cancelled; the rest is the map.
IsValidTransition(type, from, to) ==
  \/ to = "cancelled" /\ from \notin Terminal
  \/ <<from, to>> \in TransitionMap(type)

\* No edge into "cancelled" has a list of its own: all use ANY->cancelled.
CanUserTransition(from, to, role) ==
  \/ to = "cancelled" /\ role \in OperationManagers
  \/ <<from, to>> \in SystemTransitions
  \/ <<from, to>> \in RoleTransitions(role)

ValidateTransition(type, from, to, role) ==
  /\ IsValidTransition(type, from, to)
  /\ CanUserTransition(from, to, role)

\* What get_available_transitions offers a role at a status.
AvailableTransitions(type, from, role) ==
  {to \in OperationStatuses : ValidateTransition(type, from, to, role)}
=============================================================================
