---------------------------- MODULE TruckDelivery ----------------------------
(***************************************************************************)
(* The truck side of one operation: the trucks' rows (TruckRoad), the       *)
(* feedback rounds in which a Logistics Officer nominates trucks and the    *)
(* Bunker Manager reviews them, the list of trucks offered for adding, and  *)
(* the Truck BDN that carries a truck operation to bdn_approved.            *)
(*                                                                         *)
(* Left out: the count trucks_required, which no guard reads; the           *)
(* completion report, whose route asks a class for it that does not have    *)
(* it, so that a report always fails and changes nothing.                   *)
(***************************************************************************)
EXTENDS TruckRoad, StateMachine

CONSTANTS
  OpType,   \* operation.type
  Bdns      \* truck_bdns

ASSUME TruckAssumption == OpType \in {"truck_only", "full_operation"}

VARIABLES
  op,      \* operation.status
  round,   \* truck_feedback
  bdn      \* truck_bdns: status

vars == <<row, rob, posted, op, round, bdn>>

TypeOK ==
  /\ RoadTypeOK
  /\ op \in OperationStatuses
  /\ round \in [Rounds -> [status: {"none", "pending", "approved", "rejected"},
                           trucks: SUBSET Trucks]]
  /\ bdn \in [Bdns -> {"none", "pending", "approved", "rejected"}]

\* Tasks are assigned and the truck readiness report is awaited.
Init ==
  /\ RoadInit
  /\ op = "awaiting_feedback"
  /\ round = [f \in Rounds |-> [status |-> "none", trucks |-> {}]]
  /\ bdn = [b \in Bdns |-> "none"]

Move(to, role) == ValidateTransition(OpType, op, to, role) /\ op' = to

-----------------------------------------------------------------------------
(* Feedback: truck_service.                                                 *)

\* A submission moves the operation only from the two statuses that may reach
\* feedback_submitted; later it is an incremental batch.  It is newer than
\* every row there is.  The Bunker Manager may submit too, with the same moves.
SubmitFeedback(f, trucks) ==
  /\ round[f].status = "none"
  /\ round' = [round EXCEPT ![f] = [status |-> "pending", trucks |-> trucks]]
  /\ row' = [r \in Rows |-> IF Exists(r) THEN [row[r] EXCEPT !.later = @ \cup {f}] ELSE row[r]]
  /\ IF op \in {"awaiting_feedback", "feedback_rejected"}
       THEN Move("feedback_submitted", "logistics_officer")
       ELSE op' = op
  /\ UNCHANGED bdn /\ LedgerUnchanged

\* Variant the runs must reject: only the operation's first round activates it.
ApproveFirstOnly(f) ==
  /\ round[f].status = "pending"
  /\ round' = [round EXCEPT ![f].status = "approved"]
  /\ IF op = "feedback_submitted" /\ \A g \in Rounds : round[g].status # "approved"
       THEN Move("active", "bunker_manager") ELSE op' = op
  /\ UNCHANGED <<row, bdn>> /\ LedgerUnchanged

\* Approving an approved round again is a no-op.
ApproveFeedback(f) ==
  /\ round[f].status = "pending"
  /\ round' = [round EXCEPT ![f].status = "approved"]
  /\ IF op = "feedback_submitted" THEN Move("active", "bunker_manager") ELSE op' = op
  /\ UNCHANGED <<row, bdn>> /\ LedgerUnchanged

RejectFeedback(f) ==
  /\ round[f].status = "pending"
  /\ round' = [round EXCEPT ![f].status = "rejected"]
  /\ Move("feedback_rejected", "bunker_manager")
  /\ UNCHANGED <<row, bdn>> /\ LedgerUnchanged

\* addable_truck_ids: approved trucks not on the operation; a removed truck
\* only by an approved round submitted after the last update of its rows.
Addable ==
  {t \in Trucks :
     \E f \in Rounds :
       /\ round[f].status = "approved" /\ t \in round[f].trucks
       /\ \A r \in Rows : row[r].truck = t => ~Live(r) /\ f \in row[r].later}

-----------------------------------------------------------------------------
(* The Truck BDN: truck_bdn_service.                                        *)

\* require_roles lets the Bunker Manager pass everywhere.
BdnSubmitters == OperationManagers \cup {"logistics_officer"}

\* Variant the runs must reject: only a pending BDN stands in the way.
CreateBesideApproved(b, role) ==
  /\ role \in BdnSubmitters
  /\ bdn[b] = "none"
  /\ \A c \in Bdns : bdn[c] # "pending"
  /\ bdn' = [bdn EXCEPT ![b] = "pending"]
  /\ IF op = "bdn_pending" THEN op' = op ELSE Move("bdn_pending", role)
  /\ UNCHANGED <<row, round>> /\ LedgerUnchanged

CreateTruckBdn(b, role) ==
  /\ role \in BdnSubmitters
  /\ bdn[b] = "none"
  /\ \A c \in Bdns : bdn[c] \notin {"pending", "approved"}
  /\ bdn' = [bdn EXCEPT ![b] = "pending"]
  /\ IF op = "bdn_pending" THEN op' = op ELSE Move("bdn_pending", role)
  /\ UNCHANGED <<row, round>> /\ LedgerUnchanged

ApproveTruckBdn(b, role) ==
  /\ role \in OperationManagers
  /\ bdn[b] = "pending"
  /\ bdn' = [bdn EXCEPT ![b] = "approved"]
  /\ IF op = "bdn_approved" THEN op' = op ELSE Move("bdn_approved", role)
  /\ UNCHANGED <<row, round>> /\ LedgerUnchanged

RejectTruckBdn(b, role) ==
  /\ role \in OperationManagers
  /\ bdn[b] = "pending"
  /\ bdn' = [bdn EXCEPT ![b] = "rejected"]
  /\ Move("pending_completion", role)
  /\ UNCHANGED <<row, round>> /\ LedgerUnchanged

\* Whatever its status; nothing else is touched.
DeleteTruckBdn(b) ==
  /\ bdn[b] # "none"
  /\ bdn' = [bdn EXCEPT ![b] = "none"]
  /\ UNCHANGED <<op, row, round>> /\ LedgerUnchanged

\* operation_service: the manual transition.
TransitionOperation(to, role) ==
  /\ Move(to, role)
  /\ UNCHANGED <<row, round, bdn>> /\ LedgerUnchanged

-----------------------------------------------------------------------------

RoadStep == RoadNext /\ UNCHANGED <<op, round, bdn>>

FeedbackStep(f) ==
  \/ \E trucks \in SUBSET Trucks : SubmitFeedback(f, trucks)
  \/ ApproveFeedback(f) \/ RejectFeedback(f)

BdnStep(b) ==
  \/ \E role \in UserRoles :
       CreateTruckBdn(b, role) \/ ApproveTruckBdn(b, role) \/ RejectTruckBdn(b, role)
  \/ DeleteTruckBdn(b)

OperationStep ==
  \E role \in UserRoles, to \in OperationStatuses : TransitionOperation(to, role)

Next ==
  \/ RoadStep
  \/ \E f \in Rounds : FeedbackStep(f)
  \/ \E b \in Bdns : BdnStep(b)
  \/ OperationStep

Spec == Init /\ [][Next]_vars

-----------------------------------------------------------------------------
(* Properties.                                                              *)

\* One active Truck BDN at a time: however BDNs are rejected, deleted and
\* raised anew, two are never pending or approved together.
OneActiveTruckBdn ==
  \A b, c \in Bdns :
    bdn[b] \in {"pending", "approved"} /\ bdn[c] \in {"pending", "approved"} => b = c

OfferStep ==
  \A t \in Addable' \ Addable :
    \E f \in Rounds : /\ t \in round[f].trucks
                      /\ round[f].status = "pending" /\ round'[f].status = "approved"

\* A truck comes to be offered for adding only at the moment the Bunker
\* Manager approves a round that nominates it - not by being removed, nor by
\* anything else that happens to its rows or to the operation.
OfferedOnlyByApproval == [][OfferStep]_vars

FeedbackReviewed == \E f \in Rounds : round[f].status = "pending" /\ round'[f].status # "pending"
BdnReviewed      == \E b \in Bdns : bdn[b] = "pending" /\ bdn'[b] \in {"approved", "rejected"}

ReviewStep ==
  /\ FeedbackReviewed /\ op' = "feedback_submitted"
       => \E f \in Rounds : round'[f].status = "pending"
  /\ BdnReviewed /\ op' = "bdn_pending" => \E b \in Bdns : bdn'[b] = "pending"

\* A review never leaves the operation waiting for a review with nothing to
\* review: feedback_submitted without a pending round, bdn_pending without a
\* pending BDN.
TruckReviewMovesOn == [][ReviewStep]_vars
=============================================================================
