--------------------------- MODULE VesselDelivery ---------------------------
(***************************************************************************)
(* The delivery stage of one vessel-side operation: vessel runs            *)
(* (VesselActivity), receiving-vessel legs (VesselActivityLeg), the BDNs   *)
(* raised for them, the completion gate that carries the operation to      *)
(* bdn_approved, and the barge's remaining-on-board (ROB) ledger.          *)
(*                                                                         *)
(* One action per request handler of vessel_activity_service,              *)
(* vessel_bdn_service, bdn_service and operation_service, each taken as    *)
(* one committed transaction.  A handler that answers 4xx rolls back, so   *)
(* a refusal is an action that is not enabled.  The caller's role is the   *)
(* role state_machine.acting_role yields.                                  *)
(*                                                                         *)
(* The two BDN services work on one table, bdns, and take any BDN by its   *)
(* id: list_bdns shows the vessel BDNs too, and nothing keeps a loading BDN *)
(* from the vessel route or the other way round.                           *)
(***************************************************************************)
EXTENDS StateMachine, Integers, FiniteSetsExt

CONSTANTS
  Types,         \* the operation types considered
  Runs, Legs, Bdns,
  NoRun, NoLeg,
  NoFigure,      \* a tonnage that is NULL
  RunStages,     \* length of _STAGE_ORDER, 6 in the code
  LegStages,     \* length of _LEG_STAGE_ORDER, 4 in the code
  Quantities,    \* tonnages a caller may enter
  Readings,      \* physical readings of the barge at close-out
  InitialRob     \* the barge's ROB when deliveries start

ASSUME DeliveryAssumption ==
  /\ Types \subseteq {"full_operation", "vessel_only"}
  /\ NoRun \notin Runs
  /\ NoLeg \notin Legs
  /\ RunStages \in Nat \ {0}
  /\ LegStages \in Nat \ {0}
  /\ Quantities \subseteq Nat
  /\ NoFigure \notin Nat
  /\ Readings \subseteq Nat
  /\ InitialRob \in Int

\* The tables hold finitely many rows: the ledger can be added up.
ASSUME FiniteTables == IsFiniteSet(Runs) /\ IsFiniteSet(Legs) /\ IsFiniteSet(Bdns)

VARIABLES
  type,    \* operation.type; settled before deliveries start
  op,      \* operation.status
  run,     \* vessel_activities
  leg,     \* vessel_activity_legs
  bdn,     \* bdns: loading BDNs have no run, leg BDNs have a run and a leg
  rob,     \* vessel.current_rob_mt
  posted,  \* rob_entries: net tonnage per source_description
  recorded \* the source_descriptions that have rob_entries

ledger == <<rob, posted, recorded>>
vars == <<type, op, run, leg, bdn, rob, posted, recorded>>

FullOperation == type = "full_operation"
VesselOnly    == type = "vessel_only"

StageRoles == OperationManagers \cup {"cargo_superintendent"}

\* Variant the runs must reject: an approved BDN no longer stands in the way.
PendingBdn == {"pending"}

ActiveBdn == {"pending", "approved"}

\* source_description of the entries each handler writes.
BdnSource(b)     == <<"BDN", b>>
VesselSource(b)  == <<"Vessel BDN", b>>
ReceiptSource(r) == <<"loading receipt", r>>
QuantSource(r)   == <<"quantities", r>>
LegSource(l)     == <<"leg quantities", l>>
CloseSource      == <<"close-out", "operation">>

Sources ==
  {BdnSource(b) : b \in Bdns} \cup {VesselSource(b) : b \in Bdns}
    \cup {ReceiptSource(r) : r \in Runs} \cup {QuantSource(r) : r \in Runs}
    \cup {LegSource(l) : l \in Legs} \cup {CloseSource}

RunRow == [status: {"none", "pending", "active", "completed", "cancelled"},
           stage: 0..RunStages, commenced: BOOLEAN, loaded: BOOLEAN]
LegRow == [run: Runs \cup {NoRun}, stage: 0..LegStages, cancelled: BOOLEAN]
\* Every BDN has two tonnages: mt is quantity_delivered_mt, vac is
\* discharge_mt_vacuum.  audit: the services whose audit rows name it.
Services == {"bdn", "vessel_bdn"}
BdnRow == [status: {"none", "pending", "approved", "rejected"},
           run: Runs \cup {NoRun}, leg: Legs \cup {NoLeg},
           mt: Quantities \cup {0}, vac: Quantities \cup {NoFigure},
           audit: SUBSET Services]

LedgerTypeOK == rob \in Int /\ posted \in [Sources -> Int] /\ recorded \in SUBSET Sources

TypeOK ==
  /\ type \in Types
  /\ op \in OperationStatuses
  /\ run \in [Runs -> RunRow]
  /\ leg \in [Legs -> LegRow]
  /\ bdn \in [Bdns -> BdnRow]
  /\ LedgerTypeOK

NewRun  == [status |-> "none", stage |-> 0, commenced |-> FALSE, loaded |-> FALSE]
NewLeg  == [run |-> NoRun, stage |-> 0, cancelled |-> FALSE]
NoBdn   == [status |-> "none", run |-> NoRun, leg |-> NoLeg, mt |-> 0,
            vac |-> NoFigure, audit |-> {}]

\* Deliveries start once the operation is active; nothing is recorded yet.
Init ==
  /\ type \in Types
  /\ op = "active"
  /\ run = [r \in Runs |-> NewRun]
  /\ leg = [l \in Legs |-> NewLeg]
  /\ bdn = [b \in Bdns |-> NoBdn]
  /\ rob = InitialRob
  /\ posted = [s \in Sources |-> 0]
  /\ recorded = {}

-----------------------------------------------------------------------------
(* Queries.  Each takes the tables it reads, so that a handler can ask them *)
(* of the rows it has just flushed.                                         *)

LiveRuns(R) == {r \in Runs : R[r].status \notin {"none", "cancelled"}}
LiveLegs(R, L) == {l \in Legs : L[l].run \in LiveRuns(R) /\ ~L[l].cancelled}

\* _approval_progress: what the operation owes a BDN for, and what has one.
Deliveries(R, L) == IF VesselOnly THEN LiveLegs(R, L) ELSE LiveRuns(R)

ApprovedDeliveries(R, L, B) ==
  IF VesselOnly
    THEN {l \in LiveLegs(R, L) : \E b \in Bdns : B[b].status = "approved" /\ B[b].leg = l}
    ELSE {r \in LiveRuns(R) : \E b \in Bdns : B[b].status = "approved" /\ B[b].run = r}

NothingOwed(R, L, B) == Deliveries(R, L) = ApprovedDeliveries(R, L, B)
GateCleared(R, L, B) == Deliveries(R, L) # {} /\ NothingOwed(R, L, B)

-----------------------------------------------------------------------------
(* Status moves.  The three services each have their own                    *)
(* _transition_operation; they differ in what they leave alone.             *)

MayMove(to, role) == op = to \/ ValidateTransition(type, op, to, role)

ActivityMove(to, role) == MayMove(to, role) /\ op' = to

\* Variant the runs must reject: the status is written without asking.
UncheckedMove(to, role) == op' = to

VesselBdnMove(to, role) ==
  IF op = "completed" THEN op' = op ELSE MayMove(to, role) /\ op' = to

\* Asks for a valid transition even when the status is already the target.
BdnMove(to, role) ==
  IF op = "completed" THEN op' = op
  ELSE ValidateTransition(type, op, to, role) /\ op' = to

\* _maybe_auto_complete_operation, on stages.
StatusFromStages(R) ==
  IF op = "vessel_operations" /\ \A r \in LiveRuns(R) : R[r].stage = RunStages
    THEN "pending_completion" ELSE op

\* Variant the runs must reject: having no leg left counts as having finished.
StatusFromNoLegs(R, L) ==
  LET remaining == {l \in LiveLegs(R, L) : L[l].stage # LegStages}
  IN  IF remaining = {} /\ op = "vessel_operations" THEN "pending_completion"
      ELSE IF remaining # {} /\ op \in {"pending_completion", "bdn_pending"}
        THEN "vessel_operations"
      ELSE op

\* _maybe_auto_complete_operation_from_legs: re-derives in both directions.
StatusFromLegs(R, L) ==
  LET live      == LiveLegs(R, L)
      remaining == {l \in live : L[l].stage # LegStages}
  IN  IF live # {} /\ remaining = {} /\ op = "vessel_operations"
        THEN "pending_completion"
      ELSE IF remaining # {} /\ op \in {"pending_completion", "bdn_pending"}
        THEN "vessel_operations"
      ELSE op

-----------------------------------------------------------------------------
(* ROB postings.  A correction reverses what its source posted, then posts  *)
(* anew; a source that posted nothing has a net of 0.                       *)

Post(source, mt) ==
  /\ rob' = rob + mt
  /\ posted' = [posted EXCEPT ![source] = @ + mt]
  /\ recorded' = recorded \cup {source}

\* Variants the runs must reject: a correction that adds to what it corrects,
\* one that replaces the entries but not their effect on the barge.
RepostOnTop(source, mt) == Post(source, mt)
RepostKeepingRob(source, mt) ==
  /\ rob' = rob + mt
  /\ posted' = [posted EXCEPT ![source] = mt]
  /\ recorded' = recorded \cup {source}

Repost(source, mt) ==
  /\ rob' = rob - posted[source] + mt
  /\ posted' = [posted EXCEPT ![source] = mt]
  /\ recorded' = recorded \cup {source}

Reverse(source) ==
  /\ rob' = rob - posted[source]
  /\ posted' = [posted EXCEPT ![source] = 0]
  /\ recorded' = recorded \ {source}

RobUnchanged == UNCHANGED ledger

\* Recording is open to the stage roles, correcting to managers.
MayRecord(source, role) == source \notin recorded \/ role \in OperationManagers

-----------------------------------------------------------------------------
(* Vessel runs: vessel_activity_service.                                    *)

CreateRun(r, role) ==
  /\ role \in OperationManagers
  /\ run[r].status = "none"
  /\ run' = [run EXCEPT ![r] =
       [status |-> "pending", stage |-> 0, commenced |-> FALSE, loaded |-> FALSE]]
  /\ ActivityMove(IF op \in {"pending_completion", "bdn_pending", "bdn_approved"}
                     THEN "vessel_operations" ELSE op, role)
  /\ UNCHANGED <<type, leg, bdn>> /\ RobUnchanged

\* Variant the runs must reject: a log that moves the stage wherever it is.
StageAsLogged(current, stage) == stage

\* Re-logging an earlier stage corrects its time only.
LatestStage(current, stage) == IF stage >= current THEN stage ELSE current

\* No skipping ahead.
AdvanceStage(r, stage, role) ==
  /\ role \in StageRoles
  /\ run[r].status # "none"
  /\ stage <= run[r].stage + 1
  /\ run' = [run EXCEPT ![r].stage = LatestStage(@, stage)]
  /\ ActivityMove(IF stage = RunStages THEN StatusFromStages(run') ELSE op, role)
  /\ UNCHANGED <<type, leg, bdn>> /\ RobUnchanged

CancelRun(r, role) ==
  /\ role \in OperationManagers
  /\ run[r].status \notin {"none", "completed"}
  /\ run' = [run EXCEPT ![r].status = "cancelled"]
  /\ ActivityMove(IF op = "bdn_pending" /\ GateCleared(run', leg, bdn)
                     THEN "bdn_approved" ELSE op, role)
  /\ UNCHANGED <<type, leg, bdn>> /\ RobUnchanged

UncancelRun(r) ==
  /\ run[r].status = "cancelled"
  /\ run' = [run EXCEPT ![r].status = IF run[r].loaded THEN "completed"
                                      ELSE IF run[r].commenced THEN "active"
                                      ELSE "pending"]
  /\ UNCHANGED <<type, op, leg, bdn>> /\ RobUnchanged

\* Loading commenced / completed, vessel-only operations.
Commence(r) ==
  /\ VesselOnly
  /\ run[r].status # "none" /\ ~run[r].commenced
  /\ run' = [run EXCEPT ![r].commenced = TRUE, ![r].status = "active"]
  /\ UNCHANGED <<type, op, leg, bdn>> /\ RobUnchanged

CompleteLoading(r) ==
  /\ VesselOnly
  /\ run[r].commenced /\ ~run[r].loaded
  /\ run' = [run EXCEPT ![r].loaded = TRUE, ![r].status = "completed"]
  /\ UNCHANGED <<type, op, leg, bdn>> /\ RobUnchanged

\* A correction may set an instant that was never recorded; status stays.
CorrectTiming(r, commenced, loaded) ==
  /\ VesselOnly
  /\ run[r].status # "none"
  /\ run' = [run EXCEPT ![r].commenced = @ \/ commenced, ![r].loaded = @ \/ loaded]
  /\ UNCHANGED <<type, op, leg, bdn>> /\ RobUnchanged

RecordLoadingReceipt(r, mt, role) ==
  /\ VesselOnly /\ role \in StageRoles
  /\ run[r].status # "none" /\ run[r].loaded
  /\ MayRecord(ReceiptSource(r), role)
  /\ Repost(ReceiptSource(r), mt)
  /\ UNCHANGED <<type, op, run, leg, bdn>>

\* The older single-run reading: received and discharged posted together.
RecordQuantities(r, received, discharged, role) ==
  /\ VesselOnly /\ role \in StageRoles
  /\ run[r].status # "none" /\ run[r].loaded
  /\ MayRecord(QuantSource(r), role)
  /\ Repost(QuantSource(r), received - discharged)
  /\ UNCHANGED <<type, op, run, leg, bdn>>

-----------------------------------------------------------------------------
(* Receiving-vessel legs: vessel_activity_service, vessel-only operations.  *)

AddLeg(l, r, role) ==
  /\ VesselOnly /\ role \in OperationManagers
  /\ run[r].status # "none" /\ leg[l].run = NoRun
  /\ leg' = [leg EXCEPT ![l] = [run |-> r, stage |-> 0, cancelled |-> FALSE]]
  /\ ActivityMove(IF op \in {"pending_completion", "bdn_pending"}
                     THEN "vessel_operations" ELSE op, role)
  /\ UNCHANGED <<type, run, bdn>> /\ RobUnchanged

\* The guards of advance_leg_stage that concern the leg itself.
LegMayReach(l, stage) ==
  /\ leg[l].run # NoRun /\ ~leg[l].cancelled
  /\ stage <= leg[l].stage + 1
  /\ stage = 1 /\ leg[l].stage = 0 => run[leg[l].run].loaded

AdvanceLegStage(l, stage, role) ==
  /\ VesselOnly /\ role \in StageRoles
  /\ LegMayReach(l, stage)
  /\ leg' = [leg EXCEPT ![l].stage = LatestStage(@, stage)]
  /\ ActivityMove(IF stage = LegStages THEN StatusFromLegs(run, leg') ELSE op, role)
  /\ UNCHANGED <<type, run, bdn>> /\ RobUnchanged

RecordLegQuantities(l, mt, role) ==
  /\ VesselOnly /\ role \in StageRoles
  /\ leg[l].run # NoRun /\ leg[l].stage = LegStages
  /\ MayRecord(LegSource(l), role)
  /\ Repost(LegSource(l), -mt)
  /\ UNCHANGED <<type, op, run, leg, bdn>>

\* The stage may be set either way, but not off discharge_completed while a
\* BDN stands; a call that leaves the stage alone still re-derives.
CorrectLegTiming(l, stage, role) ==
  /\ VesselOnly /\ role \in OperationManagers
  /\ leg[l].run # NoRun
  /\ stage # leg[l].stage /\ leg[l].stage = LegStages
       => ~\E b \in Bdns : bdn[b].leg = l /\ bdn[b].status \in ActiveBdn
  /\ leg' = [leg EXCEPT ![l].stage = stage]
  /\ ActivityMove(StatusFromLegs(run, leg'), role)
  /\ UNCHANGED <<type, run, bdn>> /\ RobUnchanged

CancelLeg(l, role) ==
  /\ VesselOnly /\ role \in OperationManagers
  /\ leg[l].run # NoRun /\ ~leg[l].cancelled
  /\ leg' = [leg EXCEPT ![l].cancelled = TRUE]
  /\ ActivityMove(StatusFromLegs(run, leg'), role)
  /\ UNCHANGED <<type, run, bdn>> /\ RobUnchanged

UncancelLeg(l, role) ==
  /\ VesselOnly /\ role \in OperationManagers
  /\ leg[l].cancelled
  /\ leg' = [leg EXCEPT ![l].cancelled = FALSE]
  /\ ActivityMove(StatusFromLegs(run, leg'), role)
  /\ UNCHANGED <<type, run, bdn>> /\ RobUnchanged

-----------------------------------------------------------------------------
(* Vessel BDNs: vessel_bdn_service.                                         *)

\* A new BDN gets a number that was never used.
Submit(b, r, l, mt, vac, service) ==
  /\ bdn[b] = NoBdn
  /\ bdn' = [bdn EXCEPT ![b] = [status |-> "pending", run |-> r, leg |-> l,
                                mt |-> mt, vac |-> vac, audit |-> {service}]]
  /\ UNCHANGED <<type, run, leg>> /\ RobUnchanged

\* A review, a correction or a deletion, as the table and the audit log show it.
Review(b, verdict, service) ==
  /\ bdn[b].status = "pending"
  /\ bdn' = [bdn EXCEPT ![b].status = verdict, ![b].audit = @ \cup {service}]

Correct(b, mt, vac, service) ==
  bdn' = [bdn EXCEPT ![b].mt = mt, ![b].vac = vac, ![b].audit = @ \cup {service}]

\* The slot of a deleted BDN serves another unless the ledger still bears its
\* number.
Remove(b, service) ==
  bdn' = [bdn EXCEPT ![b] =
    IF {BdnSource(b), VesselSource(b)} \cap recorded' = {} THEN NoBdn
    ELSE [NoBdn EXCEPT !.audit = bdn[b].audit \cup {service}]]

\* discharge_mt_vacuum is both of a vessel BDN's tonnages.
CreateVesselBdn(b, r, mt, role) ==
  /\ role \in StageRoles
  /\ run[r].status # "none"
  /\ IF VesselOnly THEN run[r].loaded ELSE run[r].stage = RunStages
  /\ ~\E c \in Bdns : bdn[c].run = r /\ bdn[c].status \in ActiveBdn
  /\ Submit(b, r, NoLeg, mt, mt, "vessel_bdn")
  /\ VesselBdnMove("bdn_pending", role)

CreateVesselBdnForLeg(b, l, mt, role) ==
  /\ role \in StageRoles
  /\ leg[l].run # NoRun /\ leg[l].stage = LegStages
  /\ ~\E c \in Bdns : bdn[c].leg = l /\ bdn[c].status \in ActiveBdn
  /\ Submit(b, leg[l].run, l, mt, mt, "vessel_bdn")
  /\ VesselBdnMove("bdn_pending", role)

\* Approving debits the barge on a full operation; a tonnage that is NULL
\* cannot be subtracted and the request fails.
DebitVessel(b) ==
  IF FullOperation THEN bdn[b].vac # NoFigure /\ Post(VesselSource(b), -bdn[b].vac)
                   ELSE RobUnchanged

\* Variant the runs must reject: the gate is counted before the approval is
\* flushed.
ApproveVesselBdnUnflushed(b, role) ==
  /\ role \in OperationManagers
  /\ Review(b, "approved", "vessel_bdn")
  /\ DebitVessel(b)
  /\ IF GateCleared(run, leg, bdn) THEN VesselBdnMove("bdn_approved", role) ELSE op' = op
  /\ UNCHANGED <<type, run, leg>>

\* The approval is flushed, then the gate is counted.
ApproveVesselBdn(b, role) ==
  /\ role \in OperationManagers
  /\ Review(b, "approved", "vessel_bdn")
  /\ DebitVessel(b)
  /\ IF GateCleared(run, leg, bdn') THEN VesselBdnMove("bdn_approved", role) ELSE op' = op
  /\ UNCHANGED <<type, run, leg>>

RejectVesselBdn(b, role) ==
  /\ role \in OperationManagers
  /\ Review(b, "rejected", "vessel_bdn")
  /\ VesselBdnMove("vessel_operations", role)
  /\ UNCHANGED <<type, run, leg>> /\ RobUnchanged

\* The schema lets the tonnage be taken away again, but not from under a debit.
UpdateVesselBdn(b, vac) ==
  /\ bdn[b].status # "none"
  /\ Correct(b, bdn[b].mt, vac, "vessel_bdn")
  /\ IF FullOperation /\ bdn[b].status = "approved" /\ vac # bdn[b].vac
       THEN vac # NoFigure /\ Repost(VesselSource(b), -vac)
       ELSE RobUnchanged
  /\ UNCHANGED <<type, op, run, leg>>

DeleteVesselBdn(b) ==
  /\ bdn[b].status # "none"
  /\ IF FullOperation /\ bdn[b].status = "approved" THEN Reverse(VesselSource(b)) ELSE RobUnchanged
  /\ Remove(b, "vessel_bdn")
  /\ UNCHANGED <<type, op, run, leg>>

-----------------------------------------------------------------------------
(* Loading BDNs: bdn_service.                                               *)

CreateBdn(b, mt, role) ==
  /\ role \in StageRoles
  /\ Submit(b, NoRun, NoLeg, mt, NoFigure, "bdn")
  /\ IF op = "bdn_pending" THEN op' = op ELSE BdnMove("bdn_pending", role)

CreditVessel(b) == IF FullOperation THEN Post(BdnSource(b), bdn[b].mt) ELSE RobUnchanged

\* The credit flushes the approval with it; where there is no credit the gate
\* is counted before the approval is flushed.
CountedBdns == IF FullOperation THEN bdn' ELSE bdn

\* Variant the runs must reject: the loading BDN alone opens the gate.
ApproveBdnJumpsGate(b, role) ==
  /\ role \in OperationManagers
  /\ Review(b, "approved", "bdn")
  /\ CreditVessel(b)
  /\ IF op # "bdn_approved" THEN BdnMove("bdn_approved", role) ELSE op' = op
  /\ UNCHANGED <<type, run, leg>>

\* The gate stays shut only while a delivery is owed; no delivery, no debt.
ApproveBdn(b, role) ==
  /\ role \in OperationManagers
  /\ Review(b, "approved", "bdn")
  /\ CreditVessel(b)
  /\ IF NothingOwed(run, leg, CountedBdns) /\ op # "bdn_approved"
       THEN BdnMove("bdn_approved", role)
       ELSE op' = op
  /\ UNCHANGED <<type, run, leg>>

RejectBdn(b, role) ==
  /\ role \in OperationManagers
  /\ Review(b, "rejected", "bdn")
  /\ BdnMove("vessel_operations", role)
  /\ UNCHANGED <<type, run, leg>> /\ RobUnchanged

UpdateBdn(b, mt) ==
  /\ bdn[b].status # "none"
  /\ Correct(b, mt, bdn[b].vac, "bdn")
  /\ IF FullOperation /\ bdn[b].status = "approved" /\ mt # bdn[b].mt
       THEN Repost(BdnSource(b), mt)
       ELSE RobUnchanged
  /\ UNCHANGED <<type, op, run, leg>>

\* Reverses a loading BDN's credit; a debit it does not look for.
DeleteBdn(b) ==
  /\ bdn[b].status # "none"
  /\ IF bdn[b].status = "approved" THEN Reverse(BdnSource(b)) ELSE RobUnchanged
  /\ Remove(b, "bdn")
  /\ UNCHANGED <<type, op, run, leg>>

-----------------------------------------------------------------------------
(* The operation itself: operation_service.                                 *)

TransitionOperation(to, role) ==
  /\ ValidateTransition(type, op, to, role)
  /\ op' = to
  /\ UNCHANGED <<type, run, leg, bdn>> /\ RobUnchanged

\* The physical reading is optional; the correction closes the gap to it.
CloseOperation(role) ==
  /\ role \in OperationManagers
  /\ ValidateTransition(type, op, "completed", role)
  /\ op' = "completed"
  /\ \/ RobUnchanged
     \/ \E actual \in Readings : Post(CloseSource, actual - rob)
  /\ UNCHANGED <<type, run, leg, bdn>>

-----------------------------------------------------------------------------

\* The six-stage tracker is meant for full operations, but its route takes a run
\* of either type; loading and legs are refused on a full operation.
RunStep(r) ==
  \/ UncancelRun(r) \/ Commence(r) \/ CompleteLoading(r)
  \/ \E c, d \in BOOLEAN : CorrectTiming(r, c, d)
  \/ \E role \in StageRoles :
       \/ CreateRun(r, role) \/ CancelRun(r, role)
       \/ \E stage \in 1..RunStages : AdvanceStage(r, stage, role)
       \/ \E mt \in Quantities : RecordLoadingReceipt(r, mt, role)
       \/ \E x, y \in Quantities : RecordQuantities(r, x, y, role)

LegStep(l) ==
  \E role \in StageRoles :
    \/ \E r \in Runs : AddLeg(l, r, role)
    \/ \E stage \in 1..LegStages : AdvanceLegStage(l, stage, role)
    \/ \E stage \in (1..LegStages) \cup {leg[l].stage} : CorrectLegTiming(l, stage, role)
    \/ \E mt \in Quantities : RecordLegQuantities(l, mt, role)
    \/ CancelLeg(l, role) \/ UncancelLeg(l, role)

VesselBdnStep(b) ==
  \/ \E role \in StageRoles, mt \in Quantities :
       \/ \E r \in Runs : CreateVesselBdn(b, r, mt, role)
       \/ \E l \in Legs : CreateVesselBdnForLeg(b, l, mt, role)
  \/ \E role \in StageRoles : ApproveVesselBdn(b, role) \/ RejectVesselBdn(b, role)
  \/ \E vac \in Quantities \cup {NoFigure} : UpdateVesselBdn(b, vac)
  \/ DeleteVesselBdn(b)

BdnStep(b) ==
  \/ \E role \in StageRoles, mt \in Quantities : CreateBdn(b, mt, role)
  \/ \E role \in StageRoles : ApproveBdn(b, role) \/ RejectBdn(b, role)
  \/ \E mt \in Quantities : UpdateBdn(b, mt)
  \/ DeleteBdn(b)

OperationStep ==
  \E role \in UserRoles :
    \/ \E to \in OperationStatuses : TransitionOperation(to, role)
    \/ CloseOperation(role)

Next ==
  \/ \E r \in Runs : RunStep(r)
  \/ \E l \in Legs : LegStep(l)
  \/ \E b \in Bdns : VesselBdnStep(b) \/ BdnStep(b)
  \/ OperationStep

Spec == Init /\ [][Next]_vars

-----------------------------------------------------------------------------
(* Invariants.                                                              *)

Active(b) == bdn[b].status \notin {"none", "rejected"}

\* No delivery is ever documented twice: of the BDNs pending or approved, at
\* most one belongs to a leg, and at most one to a run as a whole.  The two
\* submit handlers look before they insert; approving, rejecting, deleting
\* and cancelling happen in between.
OneActiveBdnPerDelivery ==
  \A b, c \in Bdns :
    b # c /\ Active(b) /\ Active(c) /\ bdn[b].run = bdn[c].run /\ bdn[b].leg = bdn[c].leg
      => bdn[b].run = NoRun

\* A standing BDN always rests on a delivery that is still recorded as
\* finished: no stage log, correction, cancellation or restore takes the
\* discharge (or the loading) away from under it.
BdnRestsOnFinishedDelivery ==
  \A b \in Bdns : Active(b) /\ bdn[b].run # NoRun =>
    IF bdn[b].leg # NoLeg
      THEN leg[bdn[b].leg].stage = LegStages /\ leg[bdn[b].leg].run = bdn[b].run
      ELSE IF VesselOnly THEN run[bdn[b].run].loaded ELSE run[bdn[b].run].stage = RunStages

\* What the ledger holds of a BDN under one service's name, when that service
\* counts it or not.
Holds(source, counted, mt) ==
  /\ source \in recorded <=> counted
  /\ posted[source] = IF counted THEN mt ELSE 0

\* A BDN that only its own service has handled has exactly one posting while it
\* is approved on a full operation - a loading BDN a credit, a vessel BDN a
\* debit, at its present tonnage - and none otherwise, deleted ones included.
\* One that both services have handled may be credited, debited or both, but
\* while it is there it is on the ledger only if approved, at its own tonnages.
RobFollowsApprovals ==
  \A b \in Bdns :
    LET counts   == FullOperation /\ bdn[b].status = "approved"
        credited == BdnSource(b) \in recorded
        debited  == VesselSource(b) \in recorded
    IN  /\ bdn[b].audit # Services =>
             /\ Holds(BdnSource(b), counts /\ bdn[b].audit = {"bdn"}, bdn[b].mt)
             /\ Holds(VesselSource(b), counts /\ bdn[b].audit = {"vessel_bdn"}, -bdn[b].vac)
        /\ bdn[b].status # "none" =>
             /\ counts <=> credited \/ debited
             /\ Holds(BdnSource(b), credited, bdn[b].mt)
             /\ Holds(VesselSource(b), debited, -bdn[b].vac)

\* current_rob_mt is the opening figure plus everything on the ledger: the
\* corrections, reversals and the close-out never drop or double a tonne.
RobBalances == rob = InitialRob + MapThenSumSet(LAMBDA s : posted[s], Sources)

-----------------------------------------------------------------------------
(* Action properties.                                                       *)

\* A handler that changes a row and lifts the operation to bdn_approved does
\* so only when every live delivery has its approved BDN.  (The manual
\* transition, which changes no row, is the managers' override.)
GateOpensOnlyWhenNothingOwed ==
  [][op # "bdn_approved" /\ op' = "bdn_approved"
       => NothingOwed(run, leg, bdn)' \/ UNCHANGED <<run, leg, bdn>>]_vars

\* A receiving vessel's log, correction, cancellation or restore lifts the
\* operation to pending_completion only when there is a live leg and all of them
\* are discharged; a run's stage log, on either type of operation, only when
\* every live run is.  (On a vessel-only operation the latter asks nothing of the
\* legs: advance_stage counts runs.)
PendingCompletionMeansDelivered ==
  [][op # "pending_completion" /\ op' = "pending_completion" =>
       /\ leg' # leg => /\ LiveLegs(run, leg)' # {}
                        /\ \A l \in LiveLegs(run, leg)' : leg'[l].stage = LegStages
       /\ run' # run => \A r \in LiveRuns(run)' : run'[r].stage = RunStages]_vars

\* A closed operation stays closed: late runs, legs and BDNs are recorded,
\* reviewed and deleted without reopening it.
CompletedStaysClosed ==
  [][op = "completed" => op' \in {"completed", "archived", "cancelled"}]_vars

\* Stuck at bdn_pending: every delivery approved and no BDN left to review.
Stranded ==
  /\ op = "bdn_pending"
  /\ GateCleared(run, leg, bdn)
  /\ \A b \in Bdns : bdn[b].status # "pending"

Reviewed(b)  == bdn[b].status = "pending" /\ bdn'[b].status \in {"approved", "rejected"}
RunCancelled == \E r \in Runs : run[r].status # "cancelled" /\ run'[r].status = "cancelled"
LegCancelled == \E l \in Legs : ~leg[l].cancelled /\ leg'[l].cancelled

\* A leg's BDN in the hands of the loading BDNs' service.
Misrouted(b) == VesselOnly /\ bdn'[b].leg # NoLeg /\ "bdn" \in bdn'[b].audit

\* Reviewing a BDN and cancelling a run never leave the operation stuck at
\* bdn_pending with nothing left to approve - unless a leg's BDN went through
\* approve_bdn, which on a vessel-only operation counts before it flushes.
ReviewNeverStrands ==
  [][RunCancelled \/ (\E b \in Bdns : Reviewed(b) /\ ~Misrouted(b)) => ~Stranded']_vars

\* Nor does cancelling a receiving vessel, which shrinks the same gate.
LegCancelNeverStrands == [][LegCancelled => ~Stranded']_vars
=============================================================================
