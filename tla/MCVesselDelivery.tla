------------------------- MODULE MCVesselDelivery -------------------------
(* Small instances of VesselDelivery for TLC, of either operation type.    *)
EXTENDS VesselDelivery, AccessControl, TLC

CONSTANTS r1, l1    \* the first run and the first leg to be created

\* The handlers' role guards are those of their routes.
ASSUME GuardsOfRoutes ==
  /\ \A n \in {"advance_stage", "record_loading_receipt", "record_vessel_operation_quantities",
              "advance_leg_stage", "record_leg_quantities", "create_vessel_bdn",
              "create_vessel_bdn_for_leg", "create_bdn"} : Admitted(n) = StageRoles
  /\ \A n \in {"create_vessel_activity", "cancel_vessel_activity", "uncancel_vessel_activity",
              "add_vessel_activity_leg", "correct_leg_timing", "cancel_leg",
              "uncancel_vessel_activity_leg", "approve_vessel_bdn", "reject_vessel_bdn",
              "approve_bdn", "reject_bdn", "close_operation"} : Admitted(n) = OperationManagers
  /\ Admitted("transition_operation") = UserRoles

Symmetry == Permutations(Bdns)

InUse   == {b \in Bdns : bdn[b] # NoBdn}
Created == {r \in Runs : run[r].status # "none"}
Added   == {l \in Legs : leg[l].run # NoRun}
Staged  == \E r \in Runs : run[r].stage # 0

\* BDNs that both services have handled, and BDNs at the common tonnage.
Crossed == {b \in Bdns : bdn[b].audit = Services}
CommonFigures(b) ==
  /\ bdn[b].mt \in {0, 1}
  /\ bdn[b].status # "none" => bdn[b].vac = IF bdn[b].run = NoRun THEN NoFigure ELSE 1

NoReadings == recorded \subseteq {BdnSource(b) : b \in Bdns} \cup {VesselSource(b) : b \in Bdns}

\* The gate reads no tonnage, and what is posted of one BDN does not depend on
\* the others: one BDN is corrected while it is alone, and one crosses over
\* beside one more.
FullBounds ==
  /\ Crossed # {} => Cardinality(InUse) <= 2 /\ NoReadings
  /\ (\E b \in Bdns : ~CommonFigures(b)) => Cardinality(InUse) = 1 /\ NoReadings

\* No BDN of a vessel-only operation posts a tonnage.  One run: two legs meet
\* with their BDNs; one leg meets the stage log, loading BDNs and BDNs that cross
\* over, and two readings at a time.
VesselOnlyBounds ==
  /\ \A b \in Bdns : CommonFigures(b)
  /\ Cardinality(InUse) <= 2 /\ Created \subseteq {r1}
  /\ IF Cardinality(Added) = 2
       THEN NoReadings /\ ~Staged /\ Crossed = {} /\ \A b \in InUse : bdn[b].leg # NoLeg
     ELSE IF NoReadings
       THEN (Staged => InUse = {}) /\ (Crossed # {} => Cardinality(InUse) = 1)
     ELSE /\ Cardinality(recorded) <= 2 /\ ~Staged /\ Cardinality(InUse) <= 1 /\ Crossed = {}
          /\ \A l \in Legs : leg[l].stage # 1 /\ ~leg[l].cancelled
          /\ \A b \in Bdns : bdn[b].status \notin {"pending", "rejected"}

\* Runs and legs come in a fixed order.  The statuses of the paperwork after the
\* deliveries are passed with at most one BDN, without one if there are readings;
\* a cancelled or archived operation is left alone.
Paperwork == {"invoiced", "payment_processing", "payment_confirmed"}

Bounds ==
  /\ Created # {} => r1 \in Created
  /\ Added # {} => l1 \in Added
  /\ op \notin {"cancelled", "archived"}
  /\ op \in Paperwork => Cardinality(InUse) <= (IF NoReadings THEN 1 ELSE 0) /\ Crossed = {}
  /\ IF FullOperation THEN FullBounds ELSE VesselOnlyBounds
=============================================================================
