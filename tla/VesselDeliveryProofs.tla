------------------------ MODULE VesselDeliveryProofs ------------------------
(***************************************************************************)
(* Theorems about VesselDelivery for every set of runs, legs and BDNs,     *)
(* every number of stages and either type of operation.                    *)
(***************************************************************************)
EXTENDS VesselDelivery, SumTheorems

USE DeliveryAssumption

-----------------------------------------------------------------------------
(* Type correctness.                                                       *)

\* The tables are well formed before the first delivery request.
LEMMA InitTypeOK == Init => TypeOK
  BY DEF Init, TypeOK, LedgerTypeOK, RunRow, LegRow, BdnRow, NewRun, NewLeg, NoBdn,
         OperationStatuses, Services

\* Posting, correcting and reversing keep the ledger well formed.
LEMMA LedgerStays ==
  ASSUME LedgerTypeOK, NEW s \in Sources, NEW mt \in Int,
         Post(s, mt) \/ Repost(s, mt) \/ Reverse(s) \/ RobUnchanged
  PROVE  LedgerTypeOK'
  BY DEF LedgerTypeOK, Post, Repost, Reverse, RobUnchanged, ledger

\* Whichever service moves the operation, it moves to a status.
LEMMA MovesTyped ==
  ASSUME op \in OperationStatuses, NEW to \in OperationStatuses, NEW role,
         ActivityMove(to, role) \/ VesselBdnMove(to, role) \/ BdnMove(to, role) \/ op' = op
  PROVE  op' \in OperationStatuses
  BY DEF ActivityMove, VesselBdnMove, BdnMove

\* The re-derivations yield a status.
LEMMA DerivedTyped ==
  ASSUME op \in OperationStatuses, NEW R, NEW L
  PROVE  StatusFromStages(R) \in OperationStatuses /\ StatusFromLegs(R, L) \in OperationStatuses
  BY DEF StatusFromStages, StatusFromLegs, OperationStatuses

\* Every posting is filed under a source of the ledger.
LEMMA SourcesTyped ==
  /\ \A b \in Bdns : BdnSource(b) \in Sources /\ VesselSource(b) \in Sources
  /\ \A r \in Runs : ReceiptSource(r) \in Sources /\ QuantSource(r) \in Sources
  /\ \A l \in Legs : LegSource(l) \in Sources
  /\ CloseSource \in Sources
  BY DEF Sources

\* The handlers of a vessel run keep the tables well formed.
LEMMA RunStepTyped ==
  ASSUME TypeOK, NEW r \in Runs, RunStep(r)
  PROVE  TypeOK'
<1>0. run \in [Runs -> RunRow] /\ r \in Runs
  BY DEF TypeOK
<1>a. ASSUME run' \in [Runs -> RunRow], op' \in OperationStatuses,
             UNCHANGED <<type, leg, bdn>>, RobUnchanged
      PROVE  TypeOK'
  BY <1>a DEF TypeOK, RobUnchanged, ledger, LedgerTypeOK
<1>1. CASE UncancelRun(r)
  <2>1. run' \in [Runs -> RunRow]
    BY <1>0, <1>1 DEF UncancelRun, RunRow
  <2> QED
    BY <1>1, <1>a, <2>1 DEF UncancelRun, TypeOK
<1>2. CASE Commence(r)
  <2>1. run' \in [Runs -> RunRow]
    BY <1>0, <1>2 DEF Commence, RunRow
  <2> QED
    BY <1>2, <1>a, <2>1 DEF Commence, TypeOK
<1>b. CASE CompleteLoading(r)
  <2>1. run' \in [Runs -> RunRow]
    BY <1>0, <1>b DEF CompleteLoading, RunRow
  <2> QED
    BY <1>b, <1>a, <2>1 DEF CompleteLoading, TypeOK
<1>3. ASSUME NEW c \in BOOLEAN, NEW d \in BOOLEAN, CorrectTiming(r, c, d)
      PROVE  TypeOK'
  <2>0. [run[r] EXCEPT !.commenced = @ \/ c, !.loaded = @ \/ d] \in RunRow
    BY <1>0 DEF RunRow
  <2>1. run' \in [Runs -> RunRow]
    BY <1>0, <1>3, <2>0 DEF CorrectTiming
  <2> QED
    BY <1>3, <1>a, <2>1 DEF CorrectTiming, TypeOK
<1>4. ASSUME NEW role \in StageRoles, CreateRun(r, role)
      PROVE  TypeOK'
  <2>0. [status |-> "pending", stage |-> 0, commenced |-> FALSE, loaded |-> FALSE] \in RunRow
    BY DEF RunRow
  <2>1. run' \in [Runs -> RunRow]
    BY <1>0, <1>4, <2>0 DEF CreateRun
  <2>2. op' \in OperationStatuses
    BY <1>4 DEF CreateRun, ActivityMove, OperationStatuses, TypeOK
  <2> QED
    BY <1>4, <1>a, <2>1, <2>2 DEF CreateRun
<1>c. ASSUME NEW role \in StageRoles, CancelRun(r, role)
      PROVE  TypeOK'
  <2>1. run' \in [Runs -> RunRow]
    BY <1>0, <1>c DEF CancelRun, RunRow
  <2>2. op' \in OperationStatuses
    BY <1>c DEF CancelRun, ActivityMove, OperationStatuses, TypeOK
  <2> QED
    BY <1>c, <1>a, <2>1, <2>2 DEF CancelRun
<1>5. ASSUME NEW role \in StageRoles, NEW stage \in 1..RunStages, AdvanceStage(r, stage, role)
      PROVE  TypeOK'
  <2>1. run' \in [Runs -> RunRow]
    BY <1>0, <1>5 DEF AdvanceStage, LatestStage, RunRow
  <2>2. op' \in OperationStatuses
    BY <1>5, DerivedTyped DEF AdvanceStage, ActivityMove, TypeOK
  <2> QED
    BY <1>5, <1>a, <2>1, <2>2 DEF AdvanceStage
<1>6. ASSUME NEW role \in StageRoles, NEW mt \in Quantities, RecordLoadingReceipt(r, mt, role)
      PROVE  TypeOK'
  BY <1>6, LedgerStays, SourcesTyped DEF RecordLoadingReceipt, TypeOK
<1>7. ASSUME NEW role \in StageRoles, NEW x \in Quantities, NEW y \in Quantities,
             RecordQuantities(r, x, y, role)
      PROVE  TypeOK'
  BY <1>7, LedgerStays, SourcesTyped, x - y \in Int DEF RecordQuantities, TypeOK
<1> QED
  BY <1>1, <1>2, <1>b, <1>3, <1>4, <1>c, <1>5, <1>6, <1>7 DEF RunStep

\* The handlers of a receiving-vessel leg keep the tables well formed.
LEMMA LegStepTyped ==
  ASSUME TypeOK, NEW l \in Legs, LegStep(l)
  PROVE  TypeOK'
<1>0. leg \in [Legs -> LegRow] /\ l \in Legs
  BY DEF TypeOK
<1>a. ASSUME leg' \in [Legs -> LegRow], op' \in OperationStatuses,
             UNCHANGED <<type, run, bdn>>, RobUnchanged
      PROVE  TypeOK'
  BY <1>a DEF TypeOK, RobUnchanged, ledger, LedgerTypeOK
<1> PICK role \in StageRoles :
      \/ \E r \in Runs : AddLeg(l, r, role)
      \/ \E stage \in 1..LegStages : AdvanceLegStage(l, stage, role)
      \/ \E stage \in (1..LegStages) \cup {leg[l].stage} : CorrectLegTiming(l, stage, role)
      \/ \E mt \in Quantities : RecordLegQuantities(l, mt, role)
      \/ CancelLeg(l, role) \/ UncancelLeg(l, role)
  BY DEF LegStep
<1>1. ASSUME NEW r \in Runs, AddLeg(l, r, role)
      PROVE  TypeOK'
  <2>0. [run |-> r, stage |-> 0, cancelled |-> FALSE] \in LegRow
    BY DEF LegRow
  <2>1. leg' \in [Legs -> LegRow]
    BY <1>0, <1>1, <2>0 DEF AddLeg
  <2>2. op' \in OperationStatuses
    BY <1>1 DEF AddLeg, ActivityMove, OperationStatuses, TypeOK
  <2> QED
    BY <1>1, <1>a, <2>1, <2>2 DEF AddLeg
<1>2. ASSUME NEW stage \in 1..LegStages, AdvanceLegStage(l, stage, role)
      PROVE  TypeOK'
  <2>1. leg' \in [Legs -> LegRow]
    BY <1>0, <1>2 DEF AdvanceLegStage, LatestStage, LegRow
  <2>2. op' \in OperationStatuses
    BY <1>2, DerivedTyped DEF AdvanceLegStage, ActivityMove, TypeOK
  <2> QED
    BY <1>2, <1>a, <2>1, <2>2 DEF AdvanceLegStage
<1>3. ASSUME NEW stage \in (1..LegStages) \cup {leg[l].stage}, CorrectLegTiming(l, stage, role)
      PROVE  TypeOK'
  <2>0. [leg[l] EXCEPT !.stage = stage] \in LegRow
    BY <1>0 DEF LegRow
  <2>1. leg' \in [Legs -> LegRow]
    BY <1>0, <1>3, <2>0 DEF CorrectLegTiming
  <2>2. op' \in OperationStatuses
    BY <1>3, DerivedTyped DEF CorrectLegTiming, ActivityMove, TypeOK
  <2> QED
    BY <1>3, <1>a, <2>1, <2>2 DEF CorrectLegTiming
<1>4. ASSUME NEW mt \in Quantities, RecordLegQuantities(l, mt, role)
      PROVE  TypeOK'
  BY <1>4, LedgerStays, SourcesTyped, -mt \in Int DEF RecordLegQuantities, TypeOK
<1>5. CASE CancelLeg(l, role) \/ UncancelLeg(l, role)
  <2>0. \A c \in BOOLEAN : [leg[l] EXCEPT !.cancelled = c] \in LegRow
    BY <1>0 DEF LegRow
  <2>1. leg' \in [Legs -> LegRow]
    BY <1>0, <1>5, <2>0 DEF CancelLeg, UncancelLeg
  <2>2. op' \in OperationStatuses
    BY <1>5, DerivedTyped DEF CancelLeg, UncancelLeg, ActivityMove, TypeOK
  <2> QED
    BY <1>5, <1>a, <2>1, <2>2 DEF CancelLeg, UncancelLeg
<1> QED
  BY <1>1, <1>2, <1>3, <1>4, <1>5

\* Submitting a BDN files a row of its own.
LEMMA SubmitTyped ==
  ASSUME TypeOK, NEW b \in Bdns, NEW r \in Runs \cup {NoRun}, NEW l \in Legs \cup {NoLeg},
         NEW mt \in Quantities, NEW vac \in Quantities \cup {NoFigure}, NEW service \in Services,
         Submit(b, r, l, mt, vac, service), op' \in OperationStatuses
  PROVE  TypeOK'
<1>1. [status |-> "pending", run |-> r, leg |-> l, mt |-> mt, vac |-> vac,
       audit |-> {service}] \in BdnRow
  BY DEF BdnRow
<1>2. bdn' \in [Bdns -> BdnRow]
  BY <1>1 DEF Submit, TypeOK
<1> QED
  BY <1>2 DEF Submit, TypeOK, RobUnchanged, ledger, LedgerTypeOK

\* Reviewing, correcting or deleting one leaves a row of the same kind.
LEMMA RowsTyped ==
  ASSUME bdn \in [Bdns -> BdnRow], NEW b \in Bdns, NEW service \in Services,
         \/ \E verdict \in {"approved", "rejected"} : Review(b, verdict, service)
         \/ \E mt \in Quantities \cup {0}, vac \in Quantities \cup {NoFigure} :
              Correct(b, mt, vac, service)
         \/ Remove(b, service)
  PROVE  bdn' \in [Bdns -> BdnRow]
<1>0. bdn[b] \in BdnRow /\ bdn[b].audit \cup {service} \in SUBSET Services
  BY DEF BdnRow
<1>1. ASSUME NEW verdict \in {"approved", "rejected"}, Review(b, verdict, service)
      PROVE  bdn' \in [Bdns -> BdnRow]
  <2>1. [bdn[b] EXCEPT !.status = verdict, !.audit = @ \cup {service}] \in BdnRow
    BY <1>0 DEF BdnRow
  <2> QED
    BY <1>1, <2>1 DEF Review
<1>2. ASSUME NEW mt \in Quantities \cup {0}, NEW vac \in Quantities \cup {NoFigure},
             Correct(b, mt, vac, service)
      PROVE  bdn' \in [Bdns -> BdnRow]
  <2>1. [bdn[b] EXCEPT !.mt = mt, !.vac = vac, !.audit = @ \cup {service}] \in BdnRow
    BY <1>0 DEF BdnRow
  <2> QED
    BY <1>2, <2>1 DEF Correct
<1>3. CASE Remove(b, service)
  <2>1. NoBdn \in BdnRow /\ [NoBdn EXCEPT !.audit = bdn[b].audit \cup {service}] \in BdnRow
    BY <1>0 DEF BdnRow, NoBdn
  <2> QED
    BY <1>3, <2>1 DEF Remove
<1> QED
  BY <1>1, <1>2, <1>3

\* A BDN's tonnages can be posted, unless they are not there.
LEMMA TonnageTyped ==
  ASSUME bdn \in [Bdns -> BdnRow], NEW b \in Bdns
  PROVE  /\ bdn[b].mt \in Quantities \cup {0} /\ bdn[b].mt \in Int
         /\ bdn[b].vac \in Quantities \cup {NoFigure}
         /\ bdn[b].vac # NoFigure => bdn[b].vac \in Int /\ -bdn[b].vac \in Int
<1>1. bdn[b].mt \in Quantities \cup {0} /\ bdn[b].vac \in Quantities \cup {NoFigure}
  BY DEF BdnRow
<1>2. Quantities \cup {0} \subseteq Int
  BY DEF DeliveryAssumption
<1>3. bdn[b].mt \in Int
  BY <1>1, <1>2
<1>4. ASSUME bdn[b].vac # NoFigure
      PROVE  bdn[b].vac \in Int /\ -bdn[b].vac \in Int
  <2>1. bdn[b].vac \in Int
    BY <1>1, <1>2, <1>4
  <2> QED
    BY <2>1
<1> QED
  BY <1>1, <1>3, <1>4

\* The handlers of vessel_bdn_service keep the tables well formed.
LEMMA VesselBdnStepTyped ==
  ASSUME TypeOK, NEW b \in Bdns, VesselBdnStep(b)
  PROVE  TypeOK'
<1>1. /\ {"bdn_pending", "bdn_approved", "vessel_operations"} \subseteq OperationStatuses
      /\ "vessel_bdn" \in Services
      /\ bdn \in [Bdns -> BdnRow]
  BY DEF OperationStatuses, Services, TypeOK
<1>2. ASSUME NEW role \in StageRoles, NEW mt \in Quantities, NEW r \in Runs,
             CreateVesselBdn(b, r, mt, role)
      PROVE  TypeOK'
  <2>1. op' \in OperationStatuses
    BY <1>1, <1>2, MovesTyped DEF CreateVesselBdn, TypeOK
  <2> QED
    BY <1>1, <1>2, <2>1, SubmitTyped DEF CreateVesselBdn
<1>3. ASSUME NEW role \in StageRoles, NEW mt \in Quantities, NEW l \in Legs,
             CreateVesselBdnForLeg(b, l, mt, role)
      PROVE  TypeOK'
  <2>1. op' \in OperationStatuses
    BY <1>1, <1>3, MovesTyped DEF CreateVesselBdnForLeg, TypeOK
  <2>2. leg[l].run \in Runs \cup {NoRun}
    BY DEF TypeOK, LegRow
  <2> QED
    BY <1>1, <1>3, <2>1, <2>2, SubmitTyped DEF CreateVesselBdnForLeg
<1>4. ASSUME NEW role \in StageRoles, ApproveVesselBdn(b, role)
      PROVE  TypeOK'
  <2>1. op' \in OperationStatuses
    BY <1>1, <1>4, MovesTyped DEF ApproveVesselBdn, TypeOK
  <2>2. LedgerTypeOK'
    BY <1>1, <1>4, 0 \in Int, LedgerStays, SourcesTyped, TonnageTyped
       DEF ApproveVesselBdn, DebitVessel, TypeOK
  <2>3. bdn' \in [Bdns -> BdnRow]
    BY <1>1, <1>4, RowsTyped DEF ApproveVesselBdn
  <2> QED
    BY <1>4, <2>1, <2>2, <2>3 DEF ApproveVesselBdn, TypeOK
<1>5. ASSUME NEW role \in StageRoles, RejectVesselBdn(b, role)
      PROVE  TypeOK'
  <2>1. op' \in OperationStatuses
    BY <1>1, <1>5, MovesTyped DEF RejectVesselBdn, TypeOK
  <2>2. bdn' \in [Bdns -> BdnRow]
    BY <1>1, <1>5, RowsTyped DEF RejectVesselBdn
  <2> QED
    BY <1>5, <2>1, <2>2 DEF RejectVesselBdn, TypeOK, RobUnchanged, ledger, LedgerTypeOK
<1>6. ASSUME NEW vac \in Quantities \cup {NoFigure}, UpdateVesselBdn(b, vac)
      PROVE  TypeOK'
  <2>1. vac # NoFigure => -vac \in Int
    BY DEF DeliveryAssumption
  <2>2. LedgerTypeOK'
    BY <1>6, <2>1, 0 \in Int, LedgerStays, SourcesTyped DEF UpdateVesselBdn, TypeOK
  <2>3. bdn' \in [Bdns -> BdnRow]
    BY <1>1, <1>6, RowsTyped, TonnageTyped DEF UpdateVesselBdn
  <2> QED
    BY <1>6, <2>2, <2>3 DEF UpdateVesselBdn, TypeOK
<1>7. CASE DeleteVesselBdn(b)
  <2>1. LedgerTypeOK'
    BY <1>7, 0 \in Int, LedgerStays, SourcesTyped DEF DeleteVesselBdn, TypeOK
  <2>2. bdn' \in [Bdns -> BdnRow]
    BY <1>1, <1>7, RowsTyped DEF DeleteVesselBdn
  <2> QED
    BY <1>7, <2>1, <2>2 DEF DeleteVesselBdn, TypeOK
<1> QED
  BY <1>2, <1>3, <1>4, <1>5, <1>6, <1>7 DEF VesselBdnStep

\* The handlers of bdn_service keep the tables well formed.
LEMMA BdnStepTyped ==
  ASSUME TypeOK, NEW b \in Bdns, BdnStep(b)
  PROVE  TypeOK'
<1>1. /\ {"bdn_pending", "bdn_approved", "vessel_operations"} \subseteq OperationStatuses
      /\ "bdn" \in Services
      /\ bdn \in [Bdns -> BdnRow]
  BY DEF OperationStatuses, Services, TypeOK
<1>2. ASSUME NEW role \in StageRoles, NEW mt \in Quantities, CreateBdn(b, mt, role)
      PROVE  TypeOK'
  <2>1. op' \in OperationStatuses
    BY <1>1, <1>2, MovesTyped DEF CreateBdn, TypeOK
  <2> QED
    BY <1>1, <1>2, <2>1, SubmitTyped DEF CreateBdn
<1>3. ASSUME NEW role \in StageRoles, ApproveBdn(b, role)
      PROVE  TypeOK'
  <2>1. op' \in OperationStatuses
    BY <1>1, <1>3, MovesTyped DEF ApproveBdn, TypeOK
  <2>2. LedgerTypeOK'
    BY <1>1, <1>3, LedgerStays, SourcesTyped, TonnageTyped DEF ApproveBdn, CreditVessel, TypeOK
  <2>3. bdn' \in [Bdns -> BdnRow]
    BY <1>1, <1>3, RowsTyped DEF ApproveBdn
  <2> QED
    BY <1>3, <2>1, <2>2, <2>3 DEF ApproveBdn, TypeOK
<1>4. ASSUME NEW role \in StageRoles, RejectBdn(b, role)
      PROVE  TypeOK'
  <2>1. op' \in OperationStatuses
    BY <1>1, <1>4, MovesTyped DEF RejectBdn, TypeOK
  <2>2. bdn' \in [Bdns -> BdnRow]
    BY <1>1, <1>4, RowsTyped DEF RejectBdn
  <2> QED
    BY <1>4, <2>1, <2>2 DEF RejectBdn, TypeOK, RobUnchanged, ledger, LedgerTypeOK
<1>5. ASSUME NEW mt \in Quantities, UpdateBdn(b, mt)
      PROVE  TypeOK'
  <2>1. LedgerTypeOK'
    BY <1>5, mt \in Int, LedgerStays, SourcesTyped DEF UpdateBdn, TypeOK
  <2>2. bdn' \in [Bdns -> BdnRow]
    BY <1>1, <1>5, RowsTyped, TonnageTyped DEF UpdateBdn
  <2> QED
    BY <1>5, <2>1, <2>2 DEF UpdateBdn, TypeOK
<1>6. CASE DeleteBdn(b)
  <2>1. LedgerTypeOK'
    BY <1>6, 0 \in Int, LedgerStays, SourcesTyped DEF DeleteBdn, TypeOK
  <2>2. bdn' \in [Bdns -> BdnRow]
    BY <1>1, <1>6, RowsTyped DEF DeleteBdn
  <2> QED
    BY <1>6, <2>1, <2>2 DEF DeleteBdn, TypeOK
<1> QED
  BY <1>2, <1>3, <1>4, <1>5, <1>6 DEF BdnStep

\* Moving or closing the operation keeps the tables well formed.
LEMMA OperationStepTyped ==
  ASSUME TypeOK, OperationStep
  PROVE  TypeOK'
<1>1. ASSUME NEW to \in OperationStatuses, NEW role \in UserRoles, TransitionOperation(to, role)
      PROVE  TypeOK'
  BY <1>1 DEF TransitionOperation, TypeOK, RobUnchanged, ledger, LedgerTypeOK
<1>2. ASSUME NEW role \in UserRoles, CloseOperation(role)
      PROVE  TypeOK'
  <2>1. \A actual \in Readings : actual - rob \in Int
    BY DEF TypeOK, LedgerTypeOK
  <2>2. LedgerTypeOK'
    BY <1>2, <2>1, 0 \in Int, LedgerStays, SourcesTyped DEF CloseOperation, TypeOK
  <2> QED
    BY <1>2, <2>2 DEF CloseOperation, TypeOK, OperationStatuses
<1> QED
  BY <1>1, <1>2 DEF OperationStep

\* Every handler writes rows of the right shape, one case per handler.
LEMMA NextTypeOK == TypeOK /\ [Next]_vars => TypeOK'
<1> SUFFICES ASSUME TypeOK, [Next]_vars
             PROVE  TypeOK'
  OBVIOUS
<1>1. CASE UNCHANGED vars
  BY <1>1 DEF vars, TypeOK, LedgerTypeOK
<1> QED
  BY <1>1, RunStepTyped, LegStepTyped, VesselBdnStepTyped, BdnStepTyped, OperationStepTyped DEF Next

\* Every reachable state of a delivery is well formed: no handler writes a
\* stage past the end of its tracker, an unknown status, or a posting that
\* belongs to no row.
THEOREM TypeCorrect == Spec => []TypeOK
  BY InitTypeOK, NextTypeOK, PTL DEF Spec

-----------------------------------------------------------------------------
(* BDNs and the deliveries they document.                                  *)

\* A run that was never created carries no progress: without this, creating
\* one could take the loading away from under a BDN.
Untouched == \A r \in Runs : run[r].status = "none" => run[r].stage = 0 /\ ~run[r].loaded

\* The inductive invariant: types, the two properties, and Untouched.
DeliveryInv ==
  /\ TypeOK
  /\ Untouched
  /\ OneActiveBdnPerDelivery
  /\ BdnRestsOnFinishedDelivery

\* Before anything is recorded the tables document nothing.
LEMMA InitDeliveryInv == Init => DeliveryInv
<1>1. Init => TypeOK
  BY InitTypeOK
<1> QED
  BY <1>1 DEF Init, DeliveryInv, Untouched, OneActiveBdnPerDelivery, BdnRestsOnFinishedDelivery,
              Active, ActiveBdn, NewRun, NoBdn

\* No handler of a run touches a leg or a BDN.
LEMMA RunStepFrame ==
  ASSUME NEW r \in Runs, RunStep(r)
  PROVE  type' = type /\ leg' = leg /\ bdn' = bdn
  BY DEF RunStep, UncancelRun, Commence, CompleteLoading, CorrectTiming, CreateRun, CancelRun,
         AdvanceStage, RecordLoadingReceipt, RecordQuantities

\* No handler of a leg touches a run or a BDN.
LEMMA LegStepFrame ==
  ASSUME NEW l \in Legs, LegStep(l)
  PROVE  type' = type /\ run' = run /\ bdn' = bdn
  BY DEF LegStep, AddLeg, AdvanceLegStage, CorrectLegTiming, RecordLegQuantities, CancelLeg, UncancelLeg

\* No handler of a BDN touches a run or a leg.
LEMMA BdnStepsFrame ==
  ASSUME NEW b \in Bdns, VesselBdnStep(b) \/ BdnStep(b)
  PROVE  type' = type /\ run' = run /\ leg' = leg
  BY DEF VesselBdnStep, BdnStep, CreateVesselBdn, CreateVesselBdnForLeg, CreateBdn, Submit,
         ApproveVesselBdn, RejectVesselBdn, UpdateVesselBdn, DeleteVesselBdn,
         ApproveBdn, RejectBdn, UpdateBdn, DeleteBdn

\* Moving the operation touches none of the rows.
LEMMA OperationStepFrame ==
  ASSUME OperationStep
  PROVE  type' = type /\ run' = run /\ leg' = leg /\ bdn' = bdn
  BY DEF OperationStep, TransitionOperation, CloseOperation

\* What a run has reached, it keeps.
LEMMA RunsOnlyAdvance ==
  ASSUME TypeOK, Untouched, NEW r \in Runs, RunStep(r), NEW q \in Runs
  PROVE  /\ run[q].loaded => run'[q].loaded
         /\ run[q].stage = RunStages => run'[q].stage = RunStages
         /\ run'[q].status = "none" => run'[q].stage = 0 /\ ~run'[q].loaded
<1>0. run \in [Runs -> RunRow] /\ r \in Runs /\ q \in Runs
  BY DEF TypeOK
<1>a. run[q].status = "none" => run[q].stage = 0 /\ ~run[q].loaded
  BY DEF Untouched
<1>1. CASE run' = run
  BY <1>1, <1>a
<1>2. CASE UncancelRun(r)
  BY <1>0, <1>2, <1>a DEF UncancelRun, RunRow
<1>3. CASE Commence(r) \/ CompleteLoading(r)
  BY <1>0, <1>3, <1>a DEF Commence, CompleteLoading, RunRow
<1>4. ASSUME NEW c \in BOOLEAN, NEW d \in BOOLEAN, CorrectTiming(r, c, d)
      PROVE  /\ run[q].loaded => run'[q].loaded
             /\ run[q].stage = RunStages => run'[q].stage = RunStages
             /\ run'[q].status = "none" => run'[q].stage = 0 /\ ~run'[q].loaded
  BY <1>0, <1>4, <1>a DEF CorrectTiming, RunRow
<1>5. ASSUME NEW role \in StageRoles, CreateRun(r, role)
      PROVE  /\ run[q].loaded => run'[q].loaded
             /\ run[q].stage = RunStages => run'[q].stage = RunStages
             /\ run'[q].status = "none" => run'[q].stage = 0 /\ ~run'[q].loaded
  <2>1. CASE q = r
    <3>1. ~run[q].loaded /\ run[q].stage = 0
      BY <1>5, <1>a, <2>1 DEF CreateRun
    <3>2. run'[q].status = "pending"
      BY <1>0, <1>5, <2>1 DEF CreateRun
    <3> QED
      BY <3>1, <3>2
  <2>2. CASE q # r
    BY <1>0, <1>5, <1>a, <2>2 DEF CreateRun
  <2> QED
    BY <2>1, <2>2
<1>6. ASSUME NEW role \in StageRoles, CancelRun(r, role)
      PROVE  /\ run[q].loaded => run'[q].loaded
             /\ run[q].stage = RunStages => run'[q].stage = RunStages
             /\ run'[q].status = "none" => run'[q].stage = 0 /\ ~run'[q].loaded
  BY <1>0, <1>6, <1>a DEF CancelRun, RunRow
<1>7. ASSUME NEW role \in StageRoles, NEW stage \in 1..RunStages, AdvanceStage(r, stage, role)
      PROVE  /\ run[q].loaded => run'[q].loaded
             /\ run[q].stage = RunStages => run'[q].stage = RunStages
             /\ run'[q].status = "none" => run'[q].stage = 0 /\ ~run'[q].loaded
  BY <1>0, <1>7, <1>a DEF AdvanceStage, LatestStage, RunRow
<1> QED
  BY <1>1, <1>2, <1>3, <1>4, <1>5, <1>6, <1>7 DEF RunStep, RecordLoadingReceipt, RecordQuantities

\* A leg under a standing BDN keeps its run and its last stage.
LEMMA LegsUnderBdnStay ==
  ASSUME TypeOK, NEW l \in Legs, LegStep(l), NEW b \in Bdns, Active(b), NEW k \in Legs,
         bdn[b].leg = k, leg[k].stage = LegStages, leg[k].run # NoRun
  PROVE  leg'[k].stage = LegStages /\ leg'[k].run = leg[k].run
<1>0. leg \in [Legs -> LegRow] /\ l \in Legs /\ k \in Legs
  BY DEF TypeOK
<1> PICK role \in StageRoles :
      \/ \E r \in Runs : AddLeg(l, r, role)
      \/ \E stage \in 1..LegStages : AdvanceLegStage(l, stage, role)
      \/ \E stage \in (1..LegStages) \cup {leg[l].stage} : CorrectLegTiming(l, stage, role)
      \/ \E mt \in Quantities : RecordLegQuantities(l, mt, role)
      \/ CancelLeg(l, role) \/ UncancelLeg(l, role)
  BY DEF LegStep
<1>1. ASSUME NEW r \in Runs, AddLeg(l, r, role)
      PROVE  leg'[k] = leg[k]
  BY <1>0, <1>1 DEF AddLeg
<1>2. ASSUME NEW stage \in 1..LegStages, AdvanceLegStage(l, stage, role)
      PROVE  leg'[k].stage = LegStages /\ leg'[k].run = leg[k].run
  BY <1>0, <1>2 DEF AdvanceLegStage, LatestStage, LegRow
<1>3. ASSUME NEW stage \in (1..LegStages) \cup {leg[l].stage}, CorrectLegTiming(l, stage, role)
      PROVE  leg'[k].stage = LegStages /\ leg'[k].run = leg[k].run
  <2>1. ~(stage # leg[l].stage /\ leg[l].stage = LegStages /\ l = k)
    <3>1. bdn[b].status \in ActiveBdn
      BY DEF TypeOK, BdnRow, Active, ActiveBdn
    <3> QED
      BY <1>3, <3>1 DEF CorrectLegTiming
  <2> QED
    BY <1>0, <1>3, <2>1 DEF CorrectLegTiming, LegRow
<1>4. ASSUME NEW mt \in Quantities, RecordLegQuantities(l, mt, role)
      PROVE  leg'[k] = leg[k]
  BY <1>4 DEF RecordLegQuantities
<1>5. CASE CancelLeg(l, role) \/ UncancelLeg(l, role)
  BY <1>0, <1>5 DEF CancelLeg, UncancelLeg, LegRow
<1> QED
  BY <1>1, <1>2, <1>3, <1>4, <1>5

\* A BDN handler submits the BDN, or reviews, corrects or deletes it.
LEMMA BdnStepCases ==
  ASSUME TypeOK, NEW b \in Bdns, VesselBdnStep(b) \/ BdnStep(b)
  PROVE  \/ \E role \in StageRoles, mt \in Quantities : CreateBdn(b, mt, role)
         \/ \E role \in StageRoles, mt \in Quantities, r \in Runs : CreateVesselBdn(b, r, mt, role)
         \/ \E role \in StageRoles, mt \in Quantities, l \in Legs : CreateVesselBdnForLeg(b, l, mt, role)
         \/ \E service \in Services :
              \/ \E verdict \in {"approved", "rejected"} : Review(b, verdict, service)
              \/ \E mt \in Quantities \cup {0}, vac \in Quantities \cup {NoFigure} :
                   Correct(b, mt, vac, service)
              \/ Remove(b, service)
<1>0. /\ "bdn" \in Services /\ "vessel_bdn" \in Services
      /\ bdn[b].mt \in Quantities \cup {0} /\ bdn[b].vac \in Quantities \cup {NoFigure}
  BY TonnageTyped DEF Services, TypeOK
<1>1. ASSUME NEW role \in StageRoles, ApproveVesselBdn(b, role) \/ RejectVesselBdn(b, role)
      PROVE  \E verdict \in {"approved", "rejected"} : Review(b, verdict, "vessel_bdn")
  BY <1>1 DEF ApproveVesselBdn, RejectVesselBdn
<1>2. ASSUME NEW role \in StageRoles, ApproveBdn(b, role) \/ RejectBdn(b, role)
      PROVE  \E verdict \in {"approved", "rejected"} : Review(b, verdict, "bdn")
  BY <1>2 DEF ApproveBdn, RejectBdn
<1>3. ASSUME NEW vac \in Quantities \cup {NoFigure}, UpdateVesselBdn(b, vac)
      PROVE  Correct(b, bdn[b].mt, vac, "vessel_bdn")
  BY <1>3 DEF UpdateVesselBdn
<1>4. ASSUME NEW mt \in Quantities, UpdateBdn(b, mt)
      PROVE  Correct(b, mt, bdn[b].vac, "bdn")
  BY <1>4 DEF UpdateBdn
<1>5. /\ DeleteVesselBdn(b) => Remove(b, "vessel_bdn")
      /\ DeleteBdn(b) => Remove(b, "bdn")
  BY DEF DeleteVesselBdn, DeleteBdn
<1>6. CASE VesselBdnStep(b)
  BY <1>0, <1>1, <1>3, <1>5, <1>6 DEF VesselBdnStep
<1>7. CASE BdnStep(b)
  BY <1>0, <1>2, <1>4, <1>5, <1>7 DEF BdnStep
<1> QED
  BY <1>6, <1>7

\* A review changes the row of its BDN and no other.
LEMMA ReviewedRow ==
  ASSUME bdn \in [Bdns -> BdnRow], NEW b \in Bdns, NEW verdict, NEW service,
         Review(b, verdict, service)
  PROVE  /\ bdn[b].status = "pending" /\ bdn'[b].status = verdict
         /\ bdn'[b].run = bdn[b].run /\ bdn'[b].leg = bdn[b].leg
         /\ bdn'[b].mt = bdn[b].mt /\ bdn'[b].vac = bdn[b].vac
         /\ bdn'[b].audit = bdn[b].audit \cup {service}
         /\ \A c \in Bdns \ {b} : bdn'[c] = bdn[c]
  BY DEF Review, BdnRow

\* A correction keeps its status and its delivery.
LEMMA CorrectedRow ==
  ASSUME bdn \in [Bdns -> BdnRow], NEW b \in Bdns, NEW mt, NEW vac, NEW service,
         Correct(b, mt, vac, service)
  PROVE  /\ bdn'[b].status = bdn[b].status
         /\ bdn'[b].run = bdn[b].run /\ bdn'[b].leg = bdn[b].leg
         /\ bdn'[b].mt = mt /\ bdn'[b].vac = vac
         /\ bdn'[b].audit = bdn[b].audit \cup {service}
         /\ \A c \in Bdns \ {b} : bdn'[c] = bdn[c]
  BY DEF Correct, BdnRow

\* A deletion leaves an empty row, or one with the services that handled it.
LEMMA RemovedRow ==
  ASSUME bdn \in [Bdns -> BdnRow], NEW b \in Bdns, NEW service, Remove(b, service)
  PROVE  /\ bdn'[b].status = "none"
         /\ bdn'[b].audit = IF {BdnSource(b), VesselSource(b)} \cap recorded' = {} THEN {}
                            ELSE bdn[b].audit \cup {service}
         /\ \A c \in Bdns \ {b} : bdn'[c] = bdn[c]
  BY DEF Remove, NoBdn

\* Reviewing, correcting and deleting a BDN never bring one back to life or
\* move it to another delivery.
LEMMA NoBdnRevives ==
  ASSUME TypeOK, NEW b \in Bdns, NEW service \in Services,
         \/ \E verdict \in {"approved", "rejected"} : Review(b, verdict, service)
         \/ \E mt \in Quantities \cup {0}, vac \in Quantities \cup {NoFigure} :
              Correct(b, mt, vac, service)
         \/ Remove(b, service),
         NEW c \in Bdns, Active(c)'
  PROVE  Active(c) /\ bdn'[c].run = bdn[c].run /\ bdn'[c].leg = bdn[c].leg
<1>0. bdn \in [Bdns -> BdnRow] /\ bdn'[c].status \notin {"none", "rejected"}
  BY DEF TypeOK, Active
<1>1. ASSUME NEW verdict \in {"approved", "rejected"}, Review(b, verdict, service)
      PROVE  Active(c) /\ bdn'[c].run = bdn[c].run /\ bdn'[c].leg = bdn[c].leg
  BY <1>0, <1>1, ReviewedRow DEF Active
<1>2. ASSUME NEW mt, NEW vac, Correct(b, mt, vac, service)
      PROVE  Active(c) /\ bdn'[c].run = bdn[c].run /\ bdn'[c].leg = bdn[c].leg
  BY <1>0, <1>2, CorrectedRow DEF Active
<1>3. CASE Remove(b, service)
  BY <1>0, <1>3, RemovedRow DEF Active
<1> QED
  BY <1>1, <1>2, <1>3

\* Submitting files exactly the BDN it was asked to; the others stay.
LEMMA SubmitFiles ==
  ASSUME TypeOK, NEW b \in Bdns, NEW r, NEW l, NEW mt, NEW vac, NEW service,
         Submit(b, r, l, mt, vac, service)
  PROVE  /\ bdn'[b].run = r /\ bdn'[b].leg = l
         /\ \A c \in Bdns \ {b} : bdn'[c] = bdn[c]
  BY DEF Submit, TypeOK

\* What the submit handlers look up before they insert keeps the documents
\* of a delivery single; what the others do to a row never adds a second one.
LEMMA OneActiveStep ==
  ASSUME DeliveryInv, NEW b \in Bdns, VesselBdnStep(b) \/ BdnStep(b)
  PROVE  OneActiveBdnPerDelivery'
<1> SUFFICES ASSUME NEW x \in Bdns, NEW y \in Bdns, x # y, Active(x)', Active(y)',
                    bdn'[x].run = bdn'[y].run, bdn'[x].leg = bdn'[y].leg
             PROVE  bdn'[x].run = NoRun
  BY DEF OneActiveBdnPerDelivery, Active
<1>0. TypeOK /\ OneActiveBdnPerDelivery
  BY DEF DeliveryInv
<1>1. ASSUME NEW role \in StageRoles, NEW mt \in Quantities, CreateBdn(b, mt, role)
      PROVE  bdn'[x].run = NoRun
  <2>1. Submit(b, NoRun, NoLeg, mt, NoFigure, "bdn")
    BY <1>1 DEF CreateBdn
  <2>a. bdn'[b].run = NoRun /\ \A c \in Bdns \ {b} : bdn'[c] = bdn[c]
    BY <1>0, <2>1, SubmitFiles
  <2>2. CASE x = b \/ y = b
    BY <2>a, <2>2
  <2>3. CASE x # b /\ y # b
    BY <1>0, <2>a, <2>3 DEF OneActiveBdnPerDelivery, Active
  <2> QED
    BY <2>2, <2>3
<1>2. ASSUME NEW role \in StageRoles, NEW mt \in Quantities, NEW r \in Runs,
             CreateVesselBdn(b, r, mt, role)
      PROVE  bdn'[x].run = NoRun
  <2>1. Submit(b, r, NoLeg, mt, mt, "vessel_bdn") /\ \A c \in Bdns : Active(c) => bdn[c].run # r
    BY <1>0, <1>2 DEF CreateVesselBdn, Active, ActiveBdn, TypeOK, BdnRow
  <2>a. bdn'[b].run = r /\ \A c \in Bdns \ {b} : bdn'[c] = bdn[c]
    BY <1>0, <2>1, SubmitFiles
  <2>2. CASE x = b \/ y = b
    BY <2>1, <2>a, <2>2 DEF Active
  <2>3. CASE x # b /\ y # b
    BY <1>0, <2>a, <2>3 DEF OneActiveBdnPerDelivery, Active
  <2> QED
    BY <2>2, <2>3
<1>3. ASSUME NEW role \in StageRoles, NEW mt \in Quantities, NEW l \in Legs,
             CreateVesselBdnForLeg(b, l, mt, role)
      PROVE  bdn'[x].run = NoRun
  <2>1. Submit(b, leg[l].run, l, mt, mt, "vessel_bdn") /\ \A c \in Bdns : Active(c) => bdn[c].leg # l
    BY <1>0, <1>3 DEF CreateVesselBdnForLeg, Active, ActiveBdn, TypeOK, BdnRow
  <2>a. bdn'[b].leg = l /\ \A c \in Bdns \ {b} : bdn'[c] = bdn[c]
    BY <1>0, <2>1, SubmitFiles
  <2>2. CASE x = b \/ y = b
    BY <2>1, <2>a, <2>2 DEF Active
  <2>3. CASE x # b /\ y # b
    BY <1>0, <2>a, <2>3 DEF OneActiveBdnPerDelivery, Active
  <2> QED
    BY <2>2, <2>3
<1>4. ASSUME Active(x), Active(y), bdn'[x].run = bdn[x].run, bdn'[x].leg = bdn[x].leg,
             bdn'[y].run = bdn[y].run, bdn'[y].leg = bdn[y].leg
      PROVE  bdn'[x].run = NoRun
  BY <1>0, <1>4 DEF OneActiveBdnPerDelivery
<1> QED
  BY <1>0, <1>1, <1>2, <1>3, <1>4, BdnStepCases, NoBdnRevives

\* What it takes for BDN c to rest on a finished delivery.
LEMMA RestsStep ==
  ASSUME DeliveryInv, NEW b \in Bdns, VesselBdnStep(b) \/ BdnStep(b)
  PROVE  BdnRestsOnFinishedDelivery'
<1> DEFINE Finished(r, l) ==
      IF l # NoLeg
        THEN leg[l].stage = LegStages /\ leg[l].run = r
        ELSE IF VesselOnly THEN run[r].loaded ELSE run[r].stage = RunStages
<1>0. TypeOK /\ \A c \in Bdns : Active(c) /\ bdn[c].run # NoRun => Finished(bdn[c].run, bdn[c].leg)
  BY DEF DeliveryInv, BdnRestsOnFinishedDelivery
<1> SUFFICES ASSUME NEW x \in Bdns, Active(x)', bdn'[x].run # NoRun
             PROVE  Finished(bdn'[x].run, bdn'[x].leg)
  BY BdnStepsFrame DEF BdnRestsOnFinishedDelivery, Active, VesselOnly
<1>a. ASSUME NEW r, NEW l, NEW mt, NEW vac, NEW service, Submit(b, r, l, mt, vac, service),
             r = NoRun \/ Finished(r, l)
      PROVE  Finished(bdn'[x].run, bdn'[x].leg)
  <2>a. /\ bdn'[b].run = r /\ bdn'[b].leg = l
        /\ \A c \in Bdns \ {b} : bdn'[c] = bdn[c]
    BY <1>0, <1>a, SubmitFiles
  <2>1. CASE x = b
    BY <1>a, <2>a, <2>1
  <2>2. CASE x # b
    <3>1. bdn'[x] = bdn[x]
      BY <2>a, <2>2
    <3> QED
      BY <1>0, <3>1 DEF Active
  <2> QED
    BY <2>1, <2>2
<1>1. ASSUME NEW role \in StageRoles, NEW mt \in Quantities, CreateBdn(b, mt, role)
      PROVE  Finished(bdn'[x].run, bdn'[x].leg)
  BY <1>1, <1>a DEF CreateBdn
<1>2. ASSUME NEW role \in StageRoles, NEW mt \in Quantities, NEW r \in Runs,
             CreateVesselBdn(b, r, mt, role)
      PROVE  Finished(bdn'[x].run, bdn'[x].leg)
  <2>1. Submit(b, r, NoLeg, mt, mt, "vessel_bdn") /\ Finished(r, NoLeg)
    BY <1>2 DEF CreateVesselBdn
  <2> QED
    BY <1>a, <2>1
<1>3. ASSUME NEW role \in StageRoles, NEW mt \in Quantities, NEW l \in Legs,
             CreateVesselBdnForLeg(b, l, mt, role)
      PROVE  Finished(bdn'[x].run, bdn'[x].leg)
  <2>1. Submit(b, leg[l].run, l, mt, mt, "vessel_bdn") /\ Finished(leg[l].run, l)
    BY <1>3 DEF CreateVesselBdnForLeg
  <2> QED
    BY <1>a, <2>1
<1>4. ASSUME Active(x), bdn'[x].run = bdn[x].run, bdn'[x].leg = bdn[x].leg
      PROVE  Finished(bdn'[x].run, bdn'[x].leg)
  BY <1>0, <1>4
<1> QED
  BY <1>0, <1>1, <1>2, <1>3, <1>4, BdnStepCases, NoBdnRevives

\* The inductive step of DeliveryInv, one case per handler.
LEMMA NextDeliveryInv == DeliveryInv /\ [Next]_vars => DeliveryInv'
<1> SUFFICES ASSUME DeliveryInv, [Next]_vars
             PROVE  DeliveryInv'
  OBVIOUS
<1>0. TypeOK' /\ TypeOK
  BY NextTypeOK DEF DeliveryInv
<1>1. ASSUME NEW r \in Runs, RunStep(r)
      PROVE  DeliveryInv'
  <2>1. type' = type /\ leg' = leg /\ bdn' = bdn
    BY <1>1, RunStepFrame
  <2>2. Untouched'
    BY <1>0, <1>1, RunsOnlyAdvance DEF DeliveryInv, Untouched
  <2>3. OneActiveBdnPerDelivery'
    BY <2>1 DEF DeliveryInv, OneActiveBdnPerDelivery, Active
  <2>4. \A b \in Bdns : bdn[b].run \in Runs \cup {NoRun}
    BY <1>0 DEF TypeOK, BdnRow
  <2>5. \A q \in Runs : /\ run[q].loaded => run'[q].loaded
                        /\ run[q].stage = RunStages => run'[q].stage = RunStages
    BY <1>0, <1>1, RunsOnlyAdvance DEF DeliveryInv
  <2>6. BdnRestsOnFinishedDelivery'
    BY <2>1, <2>4, <2>5 DEF DeliveryInv, BdnRestsOnFinishedDelivery, Active, VesselOnly
  <2> QED
    BY <1>0, <2>2, <2>3, <2>6 DEF DeliveryInv
<1>2. ASSUME NEW l \in Legs, LegStep(l)
      PROVE  DeliveryInv'
  <2>1. type' = type /\ run' = run /\ bdn' = bdn
    BY <1>2, LegStepFrame
  <2>2. Untouched' /\ OneActiveBdnPerDelivery'
    BY <2>1 DEF DeliveryInv, Untouched, OneActiveBdnPerDelivery, Active
  <2>3. \A b \in Bdns : bdn[b].leg \in Legs \cup {NoLeg}
    BY <1>0 DEF TypeOK, BdnRow
  <2>4. ASSUME NEW b \in Bdns, Active(b), bdn[b].run # NoRun, bdn[b].leg # NoLeg
        PROVE  leg'[bdn[b].leg].stage = LegStages /\ leg'[bdn[b].leg].run = bdn[b].run
    <3>1. leg[bdn[b].leg].stage = LegStages /\ leg[bdn[b].leg].run = bdn[b].run
      BY <2>4 DEF DeliveryInv, BdnRestsOnFinishedDelivery
    <3> QED
      BY <1>0, <1>2, <2>3, <2>4, <3>1, LegsUnderBdnStay
  <2>5. BdnRestsOnFinishedDelivery'
    BY <2>1, <2>4 DEF DeliveryInv, BdnRestsOnFinishedDelivery, Active, VesselOnly
  <2> QED
    BY <1>0, <2>2, <2>5 DEF DeliveryInv
<1>3. ASSUME NEW b \in Bdns, VesselBdnStep(b) \/ BdnStep(b)
      PROVE  DeliveryInv'
  <2>1. Untouched'
    BY <1>3, BdnStepsFrame DEF DeliveryInv, Untouched
  <2> QED
    BY <1>0, <1>3, <2>1, OneActiveStep, RestsStep DEF DeliveryInv
<1>4. CASE OperationStep \/ UNCHANGED vars
  <2>1. type' = type /\ run' = run /\ leg' = leg /\ bdn' = bdn
    BY <1>4, OperationStepFrame DEF vars
  <2> QED
    BY <1>0, <2>1 DEF DeliveryInv, Untouched, OneActiveBdnPerDelivery, BdnRestsOnFinishedDelivery,
       Active, VesselOnly
<1> QED
  BY <1>1, <1>2, <1>3, <1>4 DEF Next

\* Every reachable state satisfies the inductive invariant.
LEMMA DeliveryInvariant == Spec => []DeliveryInv
  BY InitDeliveryInv, NextDeliveryInv, PTL DEF Spec

\* However requests interleave, a delivery never has two BDNs pending or
\* approved: none is documented twice.
THEOREM DeliveriesDocumentedOnce == Spec => []OneActiveBdnPerDelivery
<1>1. DeliveryInv => OneActiveBdnPerDelivery
  BY DEF DeliveryInv
<1> QED
  BY <1>1, DeliveryInvariant, PTL

\* Nor does a standing BDN ever lose the discharge, or the loading, it stands
\* on: no log, correction, cancellation or restore takes it away.
THEOREM BdnsStandOnDeliveries == Spec => []BdnRestsOnFinishedDelivery
<1>1. DeliveryInv => BdnRestsOnFinishedDelivery
  BY DEF DeliveryInv
<1> QED
  BY <1>1, DeliveryInvariant, PTL

-----------------------------------------------------------------------------
(* The ledger follows the approvals.                                       *)

\* The entry and the figure each service posts of a BDN.
Entry(b, s)  == IF s = "bdn" THEN BdnSource(b) ELSE VesselSource(b)
Figure(b, s) == IF s = "bdn" THEN bdn[b].mt ELSE -bdn[b].vac

Counts(b) == FullOperation /\ bdn[b].status = "approved"

\* RobFollowsApprovals, of one BDN and service by service.
Follows(b) ==
  /\ bdn[b].audit # Services =>
       \A s \in Services : Holds(Entry(b, s), Counts(b) /\ bdn[b].audit = {s}, Figure(b, s))
  /\ bdn[b].status # "none" =>
       /\ Counts(b) <=> \E s \in Services : Entry(b, s) \in recorded
       /\ \A s \in Services : Holds(Entry(b, s), Entry(b, s) \in recorded, Figure(b, s))

\* RobFollowsApprovals, one BDN at a time.
LEMMA RobFollowsEach == RobFollowsApprovals <=> \A b \in Bdns : Follows(b)
<1> SUFFICES ASSUME NEW b \in Bdns
             PROVE  Follows(b) <=>
               /\ bdn[b].audit # Services =>
                    /\ Holds(BdnSource(b), Counts(b) /\ bdn[b].audit = {"bdn"}, bdn[b].mt)
                    /\ Holds(VesselSource(b), Counts(b) /\ bdn[b].audit = {"vessel_bdn"}, -bdn[b].vac)
               /\ bdn[b].status # "none" =>
                    /\ Counts(b) <=> BdnSource(b) \in recorded \/ VesselSource(b) \in recorded
                    /\ Holds(BdnSource(b), BdnSource(b) \in recorded, bdn[b].mt)
                    /\ Holds(VesselSource(b), VesselSource(b) \in recorded, -bdn[b].vac)
  BY DEF RobFollowsApprovals, Counts
<1>1. /\ Entry(b, "bdn") = BdnSource(b) /\ Entry(b, "vessel_bdn") = VesselSource(b)
      /\ Figure(b, "bdn") = bdn[b].mt /\ Figure(b, "vessel_bdn") = -bdn[b].vac
  BY DEF Entry, Figure
<1> QED
  BY <1>1 DEF Follows, Services

\* And in the next state.
LEMMA RobFollowsNext == RobFollowsApprovals' <=> (\A b \in Bdns : Follows(b))'
  BY RobFollowsEach, PTL

\* Entries are found by their source_description: no two kinds share one.
LEMMA SourcesDiffer ==
  ASSUME NEW b \in Bdns, NEW c \in Bdns
  PROVE  /\ BdnSource(b) # VesselSource(c)
         /\ b # c => BdnSource(b) # BdnSource(c) /\ VesselSource(b) # VesselSource(c)
         /\ \A r \in Runs : ReceiptSource(r) \notin {BdnSource(b), VesselSource(b)}
         /\ \A r \in Runs : QuantSource(r) \notin {BdnSource(b), VesselSource(b)}
         /\ \A l \in Legs : LegSource(l) \notin {BdnSource(b), VesselSource(b)}
         /\ CloseSource \notin {BdnSource(b), VesselSource(b)}
  BY DEF BdnSource, VesselSource, ReceiptSource, QuantSource, LegSource, CloseSource

\* A posting touches its own source and no other.
LEMMA PostingsApart ==
  ASSUME LedgerTypeOK, NEW s \in Sources, NEW mt \in Int,
         Post(s, mt) \/ Repost(s, mt) \/ Reverse(s) \/ RobUnchanged,
         NEW t \in Sources, t # s
  PROVE  posted'[t] = posted[t] /\ (t \in recorded' <=> t \in recorded)
  BY DEF LedgerTypeOK, Post, Repost, Reverse, RobUnchanged, ledger

\* Entries of the ledger are sources, one service's never the other's nor
\* another BDN's.
LEMMA EntriesApart ==
  ASSUME NEW b \in Bdns, NEW s \in Services
  PROVE  /\ Entry(b, s) \in Sources /\ Entry(b, s) \in {BdnSource(b), VesselSource(b)}
         /\ \A t \in Services : t # s => Entry(b, t) # Entry(b, s)
         /\ \A c \in Bdns, t \in Services : c # b => Entry(c, t) # Entry(b, s)
<1>1. s \in {"bdn", "vessel_bdn"} /\ \A t \in Services : t \in {"bdn", "vessel_bdn"}
  BY DEF Services
<1> QED
  BY <1>1, SourcesTyped, SourcesDiffer DEF Entry

\* A BDN whose row and sources are untouched still follows.
LEMMA FollowsStays ==
  ASSUME NEW b \in Bdns, Follows(b), bdn'[b] = bdn[b], type' = type,
         \A s \in Services : /\ posted'[Entry(b, s)] = posted[Entry(b, s)]
                             /\ Entry(b, s) \in recorded' <=> Entry(b, s) \in recorded
  PROVE  Follows(b)'
<1>1. /\ Counts(b)' <=> Counts(b)
      /\ \A s \in Services : Figure(b, s)' = Figure(b, s) /\ Entry(b, s)' = Entry(b, s)
  BY DEF Counts, FullOperation, Figure, Entry, BdnSource, VesselSource
<1> QED
  BY <1>1 DEF Follows, Holds

\* Neither does a reading or a close-out disturb the BDNs' sources.
LEMMA ReadingsApart ==
  ASSUME LedgerTypeOK, \A b \in Bdns : Follows(b), bdn' = bdn, type' = type,
         NEW source \in Sources, NEW mt \in Int,
         Post(source, mt) \/ Repost(source, mt) \/ Reverse(source) \/ RobUnchanged,
         \A b \in Bdns : source \notin {BdnSource(b), VesselSource(b)}, NEW c \in Bdns
  PROVE  Follows(c)'
<1>1. \A s \in Services : Entry(c, s) \in Sources /\ Entry(c, s) # source
  BY EntriesApart
<1>2. \A s \in Services : /\ posted'[Entry(c, s)] = posted[Entry(c, s)]
                          /\ Entry(c, s) \in recorded' <=> Entry(c, s) \in recorded
  BY <1>1, PostingsApart
<1> QED
  BY <1>2, FollowsStays

\* A handler of BDN b leaves the entries of every other BDN alone.
LEMMA OthersFollow ==
  ASSUME LedgerTypeOK, \A x \in Bdns : Follows(x), type' = type,
         NEW b \in Bdns, NEW s \in Services, NEW mt \in Int,
         \/ Post(Entry(b, s), mt) \/ Repost(Entry(b, s), mt)
         \/ Reverse(Entry(b, s)) \/ RobUnchanged,
         NEW c \in Bdns, c # b, bdn'[c] = bdn[c]
  PROVE  Follows(c)'
<1>1. Entry(b, s) \in Sources
  BY EntriesApart
<1>2. \A t \in Services : Entry(c, t) \in Sources /\ Entry(c, t) # Entry(b, s)
  BY EntriesApart
<1>3. \A t \in Services : /\ posted'[Entry(c, t)] = posted[Entry(c, t)]
                          /\ Entry(c, t) \in recorded' <=> Entry(c, t) \in recorded
  BY <1>1, <1>2, PostingsApart
<1> QED
  BY <1>3, FollowsStays

\* What the service's own entry is after a posting.
LEMMA OwnEntry ==
  ASSUME LedgerTypeOK, NEW b \in Bdns, NEW s \in Services, NEW mt \in Int
  PROVE  /\ Post(Entry(b, s), mt) =>
              /\ posted'[Entry(b, s)] = posted[Entry(b, s)] + mt /\ Entry(b, s) \in recorded'
         /\ Repost(Entry(b, s), mt) =>
              posted'[Entry(b, s)] = mt /\ Entry(b, s) \in recorded'
         /\ Reverse(Entry(b, s)) =>
              posted'[Entry(b, s)] = 0 /\ Entry(b, s) \notin recorded'
<1>1. Entry(b, s) \in Sources
  BY EntriesApart
<1> QED
  BY <1>1 DEF LedgerTypeOK, Post, Repost, Reverse

\* The other service's entry stays.
LEMMA OtherEntry ==
  ASSUME LedgerTypeOK, NEW b \in Bdns, NEW s \in Services, NEW mt \in Int,
         \/ Post(Entry(b, s), mt) \/ Repost(Entry(b, s), mt)
         \/ Reverse(Entry(b, s)) \/ RobUnchanged,
         NEW t \in Services, t # s
  PROVE  /\ posted'[Entry(b, t)] = posted[Entry(b, t)]
         /\ Entry(b, t) \in recorded' <=> Entry(b, t) \in recorded
<1>1. Entry(b, s) \in Sources /\ Entry(b, t) \in Sources /\ Entry(b, t) # Entry(b, s)
  BY EntriesApart
<1> QED
  BY <1>1, PostingsApart

\* A BDN is in no service's hands yet, in one's or in both's.
LEMMA AuditCases ==
  ASSUME NEW a \in SUBSET Services
  PROVE  a \in {{}, {"bdn"}, {"vessel_bdn"}, Services}
<1>1. Services = {"bdn", "vessel_bdn"}
  BY DEF Services
<1>2. CASE "bdn" \in a /\ "vessel_bdn" \in a
  <2>1. a = Services
    BY <1>1, <1>2
  <2> QED
    BY <2>1
<1>3. CASE "bdn" \in a /\ "vessel_bdn" \notin a
  <2>1. a = {"bdn"}
    BY <1>1, <1>3
  <2> QED
    BY <2>1
<1>4. CASE "bdn" \notin a /\ "vessel_bdn" \in a
  <2>1. a = {"vessel_bdn"}
    BY <1>1, <1>4
  <2> QED
    BY <2>1
<1>5. CASE "bdn" \notin a /\ "vessel_bdn" \notin a
  <2>1. a = {}
    BY <1>1, <1>5
  <2> QED
    BY <2>1
<1> QED
  BY <1>2, <1>3, <1>4, <1>5

\* The service that handles it next has it alone if nobody else had it.
LEMMA AuditGrows ==
  ASSUME NEW a \in SUBSET Services, NEW s \in Services
  PROVE  /\ a \in {{}, {s}} => a \cup {s} = {s} /\ {s} # Services
         /\ a \notin {{}, {s}} => a \cup {s} = Services
         /\ \A t \in Services \ {s} : {t} \notin {{}, {s}, Services}
         /\ {} # Services
<1>1. Services = {"bdn", "vessel_bdn"} /\ "bdn" # "vessel_bdn"
  BY DEF Services
<1>2. {"bdn"} # Services /\ {"vessel_bdn"} # Services /\ {} # Services
  BY <1>1
<1>3. a \in {{}, {s}} => a \cup {s} = {s}
  OBVIOUS
<1>4. ASSUME a \notin {{}, {s}}
      PROVE  a \cup {s} = Services
  <2>1. CASE a = Services
    BY <2>1
  <2>2. CASE (a = {"bdn"} /\ s = "vessel_bdn") \/ (a = {"vessel_bdn"} /\ s = "bdn")
    BY <1>1, <2>2
  <2> QED
    BY <1>1, <1>4, <2>1, <2>2, AuditCases
<1> QED
  BY <1>1, <1>2, <1>3, <1>4

\* The inductive invariant of the ledger: each BDN's posting needs only the
\* types beside it, since sources of different BDNs never coincide.
RobInv == TypeOK /\ RobFollowsApprovals

\* A review, a correction or a deletion by one service leaves the BDN's entries in
\* step, whichever service filed it.
LEMMA HandledFollows ==
  ASSUME RobInv, NEW b \in Bdns, NEW s \in Services, type' = type,
         bdn[b].status # "none",
         bdn' \in [Bdns -> BdnRow],
         \A x \in Bdns \ {b} : bdn'[x] = bdn[x],
         \* the row after it
         bdn'[b].status # "none" =>
           /\ bdn'[b].audit = bdn[b].audit \cup {s}
           /\ \A t \in Services \ {s} : Figure(b, t)' = Figure(b, t),
         bdn'[b].status = "none" =>
           bdn'[b].audit = IF {BdnSource(b), VesselSource(b)} \cap recorded' = {} THEN {}
                           ELSE bdn[b].audit \cup {s},
         \* what it posts
         \/ Counts(b)' /\ ~Counts(b) /\ Figure(b, s) \in Int /\ Post(Entry(b, s), Figure(b, s))
              /\ Figure(b, s)' = Figure(b, s)
         \/ Counts(b)' /\ Counts(b) /\ Figure(b, s)' \in Int /\ Repost(Entry(b, s), Figure(b, s)')
         \/ bdn'[b].status = "none" /\ Reverse(Entry(b, s))
         \/ RobUnchanged /\ (Counts(b)' <=> Counts(b)) /\ (Counts(b) => Figure(b, s)' = Figure(b, s)),
         NEW c \in Bdns
  PROVE  Follows(c)'
<1>a. /\ LedgerTypeOK /\ 0 \in Int
      /\ \A x \in Bdns : Follows(x)
      /\ bdn[b].audit \in SUBSET Services
  BY RobFollowsEach DEF RobInv, TypeOK, BdnRow
<1>b. \A t \in Services : Entry(b, t)' = Entry(b, t)
  BY DEF Entry, BdnSource, VesselSource
<1>0. /\ LedgerTypeOK /\ 0 \in Int
      /\ \A x \in Bdns : Follows(x)
      /\ bdn[b].audit \in SUBSET Services
      /\ \A t \in Services : Entry(b, t)' = Entry(b, t)
  BY <1>a, <1>b
<1>1. \E mt \in Int : \/ Post(Entry(b, s), mt) \/ Repost(Entry(b, s), mt)
                      \/ Reverse(Entry(b, s)) \/ RobUnchanged
  BY <1>0
<1>2. CASE c # b
  BY <1>0, <1>1, <1>2, OthersFollow
<1>3. ASSUME c = b
      PROVE  Follows(b)'
  <2>1. \A t \in Services \ {s} : /\ posted'[Entry(b, t)] = posted[Entry(b, t)]
                                  /\ Entry(b, t) \in recorded' <=> Entry(b, t) \in recorded
    <3>1. PICK mt \in Int : \/ Post(Entry(b, s), mt) \/ Repost(Entry(b, s), mt)
                            \/ Reverse(Entry(b, s)) \/ RobUnchanged
      BY <1>1
    <3> QED
      BY <1>0, <3>1, OtherEntry
  <2>a. /\ bdn[b].audit \in {{}, {s}} => bdn[b].audit \cup {s} = {s} /\ {s} # Services
        /\ bdn[b].audit \notin {{}, {s}} => bdn[b].audit \cup {s} = Services
        /\ \A t \in Services \ {s} : {t} # {} /\ {t} # {s} /\ {t} # Services
        /\ {} # Services
    <3> DEFINE a == bdn[b].audit
    <3>1. a \in SUBSET Services
      BY <1>0
    <3> HIDE DEF a
    <3>2. /\ a \in {{}, {s}} => a \cup {s} = {s} /\ {s} # Services
          /\ a \notin {{}, {s}} => a \cup {s} = Services
          /\ \A t \in Services \ {s} : {t} \notin {{}, {s}, Services}
          /\ {} # Services
      BY <3>1, AuditGrows
    <3> QED
      BY <3>2 DEF a
  <2>2. /\ Counts(b) <=> \E t \in Services : Entry(b, t) \in recorded
        /\ \A t \in Services : Holds(Entry(b, t), Entry(b, t) \in recorded, Figure(b, t))
        /\ bdn[b].audit # Services =>
             \A t \in Services : Holds(Entry(b, t), Counts(b) /\ bdn[b].audit = {t}, Figure(b, t))
    <3>1. Follows(b)
      BY <1>0
    <3> QED
      BY <3>1 DEF Follows
  <2>3. \A t \in Services :
          posted[Entry(b, t)] = IF Entry(b, t) \in recorded THEN Figure(b, t) ELSE 0
    BY <2>2 DEF Holds
  <2>4. bdn[b].audit # Services =>
          \A t \in Services : Entry(b, t) \in recorded <=> Counts(b) /\ bdn[b].audit = {t}
    BY <2>2 DEF Holds
  <2>5. CASE bdn'[b].status = "none"
    <3>1. ~Counts(b)'
      BY <2>5 DEF Counts
    <3>2. Entry(b, s) \notin recorded' /\ posted'[Entry(b, s)] = 0
      <4>1. CASE Reverse(Entry(b, s))
        BY <1>0, <4>1, OwnEntry
      <4>2. CASE RobUnchanged /\ ~Counts(b)
        BY <2>2, <2>3, <4>2 DEF RobUnchanged, ledger
      <4> QED
        BY <3>1, <4>1, <4>2
    <3>3. ASSUME NEW t \in Services \ {s}, Entry(b, t) \in recorded'
          PROVE  bdn'[b].audit = Services
      <4>1. Entry(b, t) \in {BdnSource(b), VesselSource(b)}
        BY EntriesApart
      <4>2. bdn'[b].audit = bdn[b].audit \cup {s}
        BY <2>5, <3>3, <4>1
      <4>3. bdn[b].audit = {t} \/ bdn[b].audit = Services
        BY <2>1, <2>4, <3>3
      <4>4. bdn[b].audit \notin {{}, {s}}
        BY <2>a, <4>3
      <4> QED
        BY <2>a, <4>2, <4>4
    <3>4. \A t \in Services \ {s} : Entry(b, t) \notin recorded' => posted'[Entry(b, t)] = 0
      BY <2>1, <2>3
    <3>5. ASSUME bdn'[b].audit # Services, NEW t \in Services
          PROVE  Entry(b, t) \notin recorded' /\ posted'[Entry(b, t)] = 0
      BY <3>2, <3>3, <3>4, <3>5
    <3> QED
      BY <1>0, <2>5, <3>1, <3>5 DEF Follows, Holds
  <2>6. CASE bdn'[b].status # "none"
    <3>1. /\ bdn'[b].audit = bdn[b].audit \cup {s}
          /\ \A t \in Services \ {s} : Figure(b, t)' = Figure(b, t)
      BY <2>6
    <3>2. /\ Entry(b, s) \in recorded' => posted'[Entry(b, s)] = Figure(b, s)'
          /\ Entry(b, s) \notin recorded' => posted'[Entry(b, s)] = 0
          /\ Counts(b)' <=> \E t \in Services : Entry(b, t) \in recorded'
          /\ Entry(b, s) \in recorded' \/ (Entry(b, s) \notin recorded /\ (Counts(b)' <=> Counts(b)))
      <4>1. CASE /\ Counts(b)' /\ ~Counts(b) /\ Figure(b, s) \in Int
                 /\ Post(Entry(b, s), Figure(b, s)) /\ Figure(b, s)' = Figure(b, s)
        <5>1. posted[Entry(b, s)] = 0
          BY <2>2, <2>3, <4>1
        <5>2. posted'[Entry(b, s)] = posted[Entry(b, s)] + Figure(b, s) /\ Entry(b, s) \in recorded'
          BY <1>0, <4>1, OwnEntry
        <5> QED
          BY <4>1, <5>1, <5>2
      <4>2. CASE /\ Counts(b)' /\ Counts(b) /\ Figure(b, s)' \in Int
                 /\ Repost(Entry(b, s), Figure(b, s)')
        <5>1. posted'[Entry(b, s)] = Figure(b, s)' /\ Entry(b, s) \in recorded'
          BY <1>0, <4>2, OwnEntry
        <5> QED
          BY <4>2, <5>1
      <4>3. CASE /\ RobUnchanged /\ (Counts(b)' <=> Counts(b))
                 /\ (Counts(b) => Figure(b, s)' = Figure(b, s))
        <5>1. posted' = posted /\ recorded' = recorded
          BY <4>3 DEF RobUnchanged, ledger
        <5> QED
          BY <2>2, <2>3, <4>3, <5>1
      <4> QED
        BY <2>6, <4>1, <4>2, <4>3
    <3>3. \A t \in Services : Holds(Entry(b, t), Entry(b, t) \in recorded, Figure(b, t))'
      BY <1>0, <2>1, <2>3, <3>1, <3>2 DEF Holds
    <3>4. ASSUME bdn'[b].audit # Services, NEW t \in Services
          PROVE  Entry(b, t) \in recorded' <=> Counts(b)' /\ bdn'[b].audit = {t}
      <4>1. bdn[b].audit \in {{}, {s}} /\ bdn'[b].audit = {s} /\ bdn[b].audit # Services
        BY <2>a, <3>1, <3>4
      <4>2. \A u \in Services \ {s} : Entry(b, u) \notin recorded' /\ bdn[b].audit # {u} /\ {s} # {u}
        BY <2>1, <2>4, <2>a, <4>1
      <4> QED
        BY <3>2, <4>1, <4>2
    <3>5. ASSUME bdn'[b].audit # Services, NEW t \in Services
          PROVE  Holds(Entry(b, t), Counts(b) /\ bdn[b].audit = {t}, Figure(b, t))'
      BY <3>3, <3>4, <3>5 DEF Holds
    <3> QED
      BY <1>0, <3>2, <3>3, <3>5 DEF Follows
  <2> QED
    BY <2>5, <2>6
<1> QED
  BY <1>2, <1>3
\* A new BDN has posted nothing.
LEMMA SubmitFollows ==
  ASSUME RobInv, type' = type, NEW b \in Bdns, NEW r, NEW l, NEW mt, NEW vac, NEW service,
         Submit(b, r, l, mt, vac, service), NEW c \in Bdns
  PROVE  Follows(c)'
<1>0. bdn \in [Bdns -> BdnRow] /\ \A x \in Bdns : Follows(x)
  BY RobFollowsEach DEF RobInv, TypeOK
<1>1. posted' = posted /\ recorded' = recorded /\ bdn[b] = NoBdn
      /\ bdn' = [bdn EXCEPT ![b] = [status |-> "pending", run |-> r, leg |-> l, mt |-> mt,
                                    vac |-> vac, audit |-> {service}]]
  BY DEF Submit, RobUnchanged, ledger
<1>2. CASE c # b
  BY <1>0, <1>1, <1>2, FollowsStays
<1>3. ASSUME c = b
      PROVE  Follows(b)'
  <2>1. bdn'[b].status = "pending" /\ ~Counts(b)'
    BY <1>0, <1>1 DEF Counts
  <2>2. \A t \in Services : Holds(Entry(b, t), Counts(b) /\ bdn[b].audit = {t}, Figure(b, t))
    <3>1. bdn[b].audit # Services
      BY <1>1 DEF NoBdn, Services
    <3>2. Follows(b)
      BY <1>0
    <3> QED
      BY <3>1, <3>2 DEF Follows
  <2>3. ~Counts(b)
    BY <1>1 DEF Counts, NoBdn
  <2>4. \A t \in Services : Entry(b, t) \notin recorded /\ posted[Entry(b, t)] = 0
    BY <2>2, <2>3 DEF Holds
  <2>5. \A t \in Services : Entry(b, t)' = Entry(b, t)
    BY DEF Entry, BdnSource, VesselSource
  <2>6. \A t \in Services : Entry(b, t)' \notin recorded' /\ posted'[Entry(b, t)'] = 0
    BY <1>1, <2>4, <2>5
  <2> QED
    BY <2>1, <2>6 DEF Follows, Holds
<1> QED
  BY <1>2, <1>3

\* Each handler of vessel_bdn_service leaves that BDN's own entries in step.
LEMMA VesselBdnFollows ==
  ASSUME RobInv, NEW b \in Bdns,
         \/ \E role \in StageRoles : ApproveVesselBdn(b, role) \/ RejectVesselBdn(b, role)
         \/ \E vac \in Quantities \cup {NoFigure} : UpdateVesselBdn(b, vac)
         \/ DeleteVesselBdn(b),
         NEW c \in Bdns
  PROVE  Follows(c)'
<1> DEFINE s == "vessel_bdn"
<1>0. bdn \in [Bdns -> BdnRow] /\ TypeOK
  BY DEF RobInv, TypeOK
<1>a. /\ s \in Services /\ Entry(b, s) = VesselSource(b) /\ Figure(b, s) = -bdn[b].vac
      /\ Figure(b, s)' = -bdn'[b].vac
      /\ \A t \in Services \ {s} : Figure(b, t) = bdn[b].mt /\ Figure(b, t)' = bdn'[b].mt
  BY DEF Services, Entry, Figure
<1>b. /\ Counts(b) <=> FullOperation /\ bdn[b].status = "approved"
      /\ type' = type => (Counts(b)' <=> FullOperation /\ bdn'[b].status = "approved")
  BY DEF Counts, FullOperation
<1>1. ASSUME NEW role \in StageRoles, ApproveVesselBdn(b, role)
      PROVE  Follows(c)'
  <2>1. /\ type' = type /\ Review(b, "approved", s) /\ bdn' \in [Bdns -> BdnRow]
        /\ IF FullOperation THEN bdn[b].vac # NoFigure /\ Post(VesselSource(b), -bdn[b].vac)
                            ELSE RobUnchanged
    BY <1>0, <1>1, <1>a, RowsTyped DEF ApproveVesselBdn, DebitVessel
  <2>2. /\ bdn[b].status = "pending" /\ bdn'[b].status = "approved"
        /\ bdn'[b].mt = bdn[b].mt /\ bdn'[b].vac = bdn[b].vac
        /\ bdn'[b].audit = bdn[b].audit \cup {s}
        /\ \A x \in Bdns \ {b} : bdn'[x] = bdn[x]
    BY <1>0, <2>1, ReviewedRow
  <2>3. FullOperation => -bdn[b].vac \in Int
    BY <1>0, <2>1, TonnageTyped
  <2> QED
    BY <1>a, <1>b, <2>1, <2>2, <2>3, HandledFollows
<1>2. ASSUME NEW role \in StageRoles, RejectVesselBdn(b, role)
      PROVE  Follows(c)'
  <2>1. /\ type' = type /\ Review(b, "rejected", s) /\ bdn' \in [Bdns -> BdnRow] /\ RobUnchanged
    BY <1>0, <1>2, <1>a, RowsTyped DEF RejectVesselBdn
  <2>2. /\ bdn[b].status = "pending" /\ bdn'[b].status = "rejected"
        /\ bdn'[b].mt = bdn[b].mt /\ bdn'[b].vac = bdn[b].vac
        /\ bdn'[b].audit = bdn[b].audit \cup {s}
        /\ \A x \in Bdns \ {b} : bdn'[x] = bdn[x]
    BY <1>0, <2>1, ReviewedRow
  <2> QED
    BY <1>a, <1>b, <2>1, <2>2, HandledFollows
<1>3. ASSUME NEW vac \in Quantities \cup {NoFigure}, UpdateVesselBdn(b, vac)
      PROVE  Follows(c)'
  <2>1. /\ type' = type /\ Correct(b, bdn[b].mt, vac, s) /\ bdn' \in [Bdns -> BdnRow]
        /\ bdn[b].status # "none"
        /\ IF FullOperation /\ bdn[b].status = "approved" /\ vac # bdn[b].vac
             THEN vac # NoFigure /\ Repost(VesselSource(b), -vac)
             ELSE RobUnchanged
    BY <1>0, <1>3, <1>a, RowsTyped, TonnageTyped DEF UpdateVesselBdn
  <2>2. /\ bdn'[b].status = bdn[b].status
        /\ bdn'[b].mt = bdn[b].mt /\ bdn'[b].vac = vac
        /\ bdn'[b].audit = bdn[b].audit \cup {s}
        /\ \A x \in Bdns \ {b} : bdn'[x] = bdn[x]
    BY <1>0, <2>1, CorrectedRow
  <2>3. vac # NoFigure => -vac \in Int
    BY DEF DeliveryAssumption
  <2>4. CASE FullOperation /\ bdn[b].status = "approved" /\ vac # bdn[b].vac
    BY <1>a, <1>b, <2>1, <2>2, <2>3, <2>4, HandledFollows
  <2>5. CASE ~(FullOperation /\ bdn[b].status = "approved" /\ vac # bdn[b].vac)
    BY <1>a, <1>b, <2>1, <2>2, <2>5, HandledFollows
  <2> QED
    BY <2>4, <2>5
<1>4. CASE DeleteVesselBdn(b)
  <2>1. /\ type' = type /\ Remove(b, s) /\ bdn' \in [Bdns -> BdnRow]
        /\ bdn[b].status # "none"
        /\ IF FullOperation /\ bdn[b].status = "approved" THEN Reverse(VesselSource(b))
                                                          ELSE RobUnchanged
    BY <1>0, <1>4, <1>a, RowsTyped DEF DeleteVesselBdn
  <2>2. /\ bdn'[b].status = "none"
        /\ bdn'[b].audit = IF {BdnSource(b), VesselSource(b)} \cap recorded' = {} THEN {}
                           ELSE bdn[b].audit \cup {s}
        /\ \A x \in Bdns \ {b} : bdn'[x] = bdn[x]
    BY <1>0, <2>1, RemovedRow
  <2> QED
    BY <1>a, <1>b, <2>1, <2>2, HandledFollows
<1> QED
  BY <1>1, <1>2, <1>3, <1>4

\* Each handler of bdn_service leaves that BDN's own entries in step.
LEMMA BdnFollows ==
  ASSUME RobInv, NEW b \in Bdns,
         \/ \E role \in StageRoles : ApproveBdn(b, role) \/ RejectBdn(b, role)
         \/ \E mt \in Quantities : UpdateBdn(b, mt)
         \/ DeleteBdn(b),
         NEW c \in Bdns
  PROVE  Follows(c)'
<1> DEFINE s == "bdn"
<1>0. bdn \in [Bdns -> BdnRow] /\ TypeOK /\ Follows(b) /\ LedgerTypeOK
  BY RobFollowsEach DEF RobInv, TypeOK
<1>a. /\ s \in Services /\ Entry(b, s) = BdnSource(b) /\ Figure(b, s) = bdn[b].mt
      /\ Figure(b, s)' = bdn'[b].mt
      /\ \A t \in Services \ {s} : Figure(b, t) = -bdn[b].vac /\ Figure(b, t)' = -bdn'[b].vac
  BY DEF Services, Entry, Figure
<1>b. /\ Counts(b) <=> FullOperation /\ bdn[b].status = "approved"
      /\ type' = type => (Counts(b)' <=> FullOperation /\ bdn'[b].status = "approved")
  BY DEF Counts, FullOperation
<1>1. ASSUME NEW role \in StageRoles, ApproveBdn(b, role)
      PROVE  Follows(c)'
  <2>1. /\ type' = type /\ Review(b, "approved", s) /\ bdn' \in [Bdns -> BdnRow]
        /\ IF FullOperation THEN Post(BdnSource(b), bdn[b].mt) ELSE RobUnchanged
    BY <1>0, <1>1, <1>a, RowsTyped DEF ApproveBdn, CreditVessel
  <2>2. /\ bdn[b].status = "pending" /\ bdn'[b].status = "approved"
        /\ bdn'[b].mt = bdn[b].mt /\ bdn'[b].vac = bdn[b].vac
        /\ bdn'[b].audit = bdn[b].audit \cup {s}
        /\ \A x \in Bdns \ {b} : bdn'[x] = bdn[x]
    BY <1>0, <2>1, ReviewedRow
  <2>3. bdn[b].mt \in Int
    BY <1>0, TonnageTyped
  <2> QED
    BY <1>a, <1>b, <2>1, <2>2, <2>3, HandledFollows
<1>2. ASSUME NEW role \in StageRoles, RejectBdn(b, role)
      PROVE  Follows(c)'
  <2>1. /\ type' = type /\ Review(b, "rejected", s) /\ bdn' \in [Bdns -> BdnRow] /\ RobUnchanged
    BY <1>0, <1>2, <1>a, RowsTyped DEF RejectBdn
  <2>2. /\ bdn[b].status = "pending" /\ bdn'[b].status = "rejected"
        /\ bdn'[b].mt = bdn[b].mt /\ bdn'[b].vac = bdn[b].vac
        /\ bdn'[b].audit = bdn[b].audit \cup {s}
        /\ \A x \in Bdns \ {b} : bdn'[x] = bdn[x]
    BY <1>0, <2>1, ReviewedRow
  <2> QED
    BY <1>a, <1>b, <2>1, <2>2, HandledFollows
<1>3. ASSUME NEW mt \in Quantities, UpdateBdn(b, mt)
      PROVE  Follows(c)'
  <2>1. /\ type' = type /\ Correct(b, mt, bdn[b].vac, s) /\ bdn' \in [Bdns -> BdnRow]
        /\ bdn[b].status # "none"
        /\ IF FullOperation /\ bdn[b].status = "approved" /\ mt # bdn[b].mt
             THEN Repost(BdnSource(b), mt)
             ELSE RobUnchanged
    BY <1>0, <1>3, <1>a, RowsTyped, TonnageTyped DEF UpdateBdn
  <2>2. /\ bdn'[b].status = bdn[b].status
        /\ bdn'[b].mt = mt /\ bdn'[b].vac = bdn[b].vac
        /\ bdn'[b].audit = bdn[b].audit \cup {s}
        /\ \A x \in Bdns \ {b} : bdn'[x] = bdn[x]
    BY <1>0, <2>1, CorrectedRow
  <2>3. mt \in Int
    OBVIOUS
  <2>4. CASE FullOperation /\ bdn[b].status = "approved" /\ mt # bdn[b].mt
    <3>1. Counts(b)' /\ Counts(b) /\ Figure(b, s)' \in Int /\ Repost(Entry(b, s), Figure(b, s)')
      BY <1>a, <1>b, <2>1, <2>2, <2>3, <2>4
    <3>2. \A t \in Services \ {s} : Figure(b, t)' = Figure(b, t)
      BY <1>a, <2>2
    <3>3. bdn'[b].status # "none"
      BY <2>1, <2>2
    <3> HIDE DEF s
    <3> QED
      BY <1>a, <2>1, <2>2, <3>1, <3>2, <3>3, HandledFollows
  <2>5. CASE ~(FullOperation /\ bdn[b].status = "approved" /\ mt # bdn[b].mt)
    BY <1>a, <1>b, <2>1, <2>2, <2>5, HandledFollows
  <2> QED
    BY <2>4, <2>5
<1>4. CASE DeleteBdn(b)
  <2>1. /\ type' = type /\ Remove(b, s) /\ bdn' \in [Bdns -> BdnRow]
        /\ bdn[b].status # "none"
        /\ IF bdn[b].status = "approved" THEN Reverse(BdnSource(b)) ELSE RobUnchanged
    BY <1>0, <1>4, <1>a, RowsTyped DEF DeleteBdn
  <2>2. /\ bdn'[b].status = "none"
        /\ bdn'[b].audit = IF {BdnSource(b), VesselSource(b)} \cap recorded' = {} THEN {}
                           ELSE bdn[b].audit \cup {s}
        /\ \A x \in Bdns \ {b} : bdn'[x] = bdn[x]
    BY <1>0, <2>1, RemovedRow
  <2>3. CASE bdn[b].status = "approved"
    <3>1. bdn'[b].status = "none" /\ Reverse(Entry(b, s))
      BY <1>a, <2>1, <2>2, <2>3
    <3> QED
      BY <1>a, <2>1, <2>2, <3>1, HandledFollows
  <2>4. CASE bdn[b].status # "approved"
    BY <1>a, <1>b, <2>1, <2>2, <2>4, HandledFollows
  <2> QED
    BY <2>3, <2>4
<1> QED
  BY <1>1, <1>2, <1>3, <1>4

\* The inductive step of RobInv, one case per handler.
LEMMA NextRobInv == RobInv /\ [Next]_vars => RobInv'
<1> SUFFICES ASSUME RobInv, [Next]_vars, NEW c \in Bdns
             PROVE  Follows(c)'
  BY RobFollowsNext, NextTypeOK DEF RobInv
<1>0. TypeOK /\ LedgerTypeOK /\ \A b \in Bdns : Follows(b)
  BY RobFollowsEach DEF RobInv, TypeOK
<1>a. ASSUME type' = type, bdn' = bdn, RobUnchanged
      PROVE  Follows(c)'
  BY <1>0, <1>a, FollowsStays DEF RobUnchanged, ledger
<1>1. ASSUME NEW r \in Runs, RunStep(r)
      PROVE  Follows(c)'
  <2>1. type' = type /\ bdn' = bdn
    BY <1>1, RunStepFrame
  <2>2. ASSUME NEW role \in StageRoles, NEW mt \in Quantities, RecordLoadingReceipt(r, mt, role)
        PROVE  Follows(c)'
    BY <1>0, <2>1, <2>2, mt \in Int, SourcesTyped, SourcesDiffer, ReadingsApart DEF RecordLoadingReceipt
  <2>3. ASSUME NEW role \in StageRoles, NEW x \in Quantities, NEW y \in Quantities,
               RecordQuantities(r, x, y, role)
        PROVE  Follows(c)'
    BY <1>0, <2>1, <2>3, x - y \in Int, SourcesTyped, SourcesDiffer, ReadingsApart DEF RecordQuantities
  <2>4. CASE RobUnchanged
    BY <1>a, <2>1, <2>4
  <2> QED
    BY <1>1, <2>2, <2>3, <2>4 DEF RunStep, UncancelRun, Commence, CompleteLoading, CorrectTiming,
       CreateRun, CancelRun, AdvanceStage
<1>2. ASSUME NEW l \in Legs, LegStep(l)
      PROVE  Follows(c)'
  <2>1. type' = type /\ bdn' = bdn
    BY <1>2, LegStepFrame
  <2>2. ASSUME NEW role \in StageRoles, NEW mt \in Quantities, RecordLegQuantities(l, mt, role)
        PROVE  Follows(c)'
    BY <1>0, <2>1, <2>2, -mt \in Int, SourcesTyped, SourcesDiffer, ReadingsApart DEF RecordLegQuantities
  <2>3. CASE RobUnchanged
    BY <1>a, <2>1, <2>3
  <2> QED
    BY <1>2, <2>2, <2>3 DEF LegStep, AddLeg, AdvanceLegStage, CorrectLegTiming, CancelLeg, UncancelLeg
<1>3. ASSUME NEW b \in Bdns, VesselBdnStep(b)
      PROVE  Follows(c)'
  <2>1. type' = type
    BY <1>3, BdnStepsFrame
  <2> QED
    BY <1>3, <2>1, SubmitFollows, VesselBdnFollows
       DEF VesselBdnStep, CreateVesselBdn, CreateVesselBdnForLeg
<1>4. ASSUME NEW b \in Bdns, BdnStep(b)
      PROVE  Follows(c)'
  <2>1. type' = type
    BY <1>4, BdnStepsFrame
  <2> QED
    BY <1>4, <2>1, SubmitFollows, BdnFollows DEF BdnStep, CreateBdn
<1>5. CASE OperationStep
  <2>1. type' = type /\ bdn' = bdn
    BY <1>5, OperationStepFrame
  <2>2. ASSUME NEW actual \in Readings, Post(CloseSource, actual - rob)
        PROVE  Follows(c)'
    <3>1. actual - rob \in Int
      BY <1>0 DEF LedgerTypeOK
    <3> QED
      BY <1>0, <2>1, <2>2, <3>1, SourcesTyped, SourcesDiffer, ReadingsApart
  <2> QED
    BY <1>5, <1>a, <2>1, <2>2 DEF OperationStep, TransitionOperation, CloseOperation
<1>6. CASE UNCHANGED vars
  BY <1>6, <1>a DEF vars, RobUnchanged, ledger
<1> QED
  BY <1>1, <1>2, <1>3, <1>4, <1>5, <1>6 DEF Next

\* Through every approval, correction, rejection and deletion, in any order and by
\* whichever of the two services: what only its own service has handled is on the
\* ledger once while approved and never otherwise; what both have handled is
\* there, while it exists, only if approved, at its own tonnages.
THEOREM LedgerFollowsApprovals == Spec => []RobFollowsApprovals
<1>1. Init => RobInv
  BY InitTypeOK, SourcesTyped
     DEF Init, RobInv, RobFollowsApprovals, Holds, NoBdn, Services
<1>2. RobInv => RobFollowsApprovals
  BY DEF RobInv
<1> QED
  BY <1>1, <1>2, NextRobInv, PTL DEF Spec

-----------------------------------------------------------------------------
(* The ledger balances.                                                    *)

\* Every handler posts under one source at most.
LEMMA OneSourceStep ==
  ASSUME TypeOK, [Next]_vars
  PROVE  \E s \in Sources, mt \in Int : Post(s, mt) \/ Repost(s, mt) \/ Reverse(s) \/ RobUnchanged
<1> DEFINE Posted == \E s \in Sources, mt \in Int :
                       Post(s, mt) \/ Repost(s, mt) \/ Reverse(s) \/ RobUnchanged
<1>0. ASSUME NEW s \in Sources, NEW mt \in Int,
             Post(s, mt) \/ Repost(s, mt) \/ Reverse(s) \/ RobUnchanged
      PROVE  Posted
  BY <1>0
<1>1. ASSUME UNCHANGED vars \/ RobUnchanged
      PROVE  Posted
  <2>1. RobUnchanged
    BY <1>1 DEF vars, RobUnchanged, ledger
  <2>2. CloseSource \in Sources /\ 0 \in Int
    BY SourcesTyped
  <2> QED
    BY <1>0, <2>1, <2>2
<1> HIDE DEF Posted
<1>2. ASSUME NEW r \in Runs, RunStep(r)
      PROVE  Posted
  <2>1. ASSUME NEW mt \in Quantities, NEW role, RecordLoadingReceipt(r, mt, role)
        PROVE  Posted
    BY <1>0, <2>1, SourcesTyped, mt \in Int DEF RecordLoadingReceipt
  <2>2. ASSUME NEW x \in Quantities, NEW y \in Quantities, NEW role, RecordQuantities(r, x, y, role)
        PROVE  Posted
    BY <1>0, <2>2, SourcesTyped, x - y \in Int DEF RecordQuantities
  <2> QED
    BY <1>1, <1>2, <2>1, <2>2 DEF RunStep, UncancelRun, Commence, CompleteLoading, CorrectTiming,
       CreateRun, CancelRun, AdvanceStage
<1>3. ASSUME NEW l \in Legs, LegStep(l)
      PROVE  Posted
  <2>1. ASSUME NEW mt \in Quantities, NEW role, RecordLegQuantities(l, mt, role)
        PROVE  Posted
    BY <1>0, <2>1, SourcesTyped, -mt \in Int DEF RecordLegQuantities
  <2> QED
    BY <1>1, <1>3, <2>1 DEF LegStep, AddLeg, AdvanceLegStage, CorrectLegTiming, CancelLeg, UncancelLeg
<1>4. ASSUME NEW b \in Bdns, VesselBdnStep(b) \/ BdnStep(b)
      PROVE  Posted
  <2>0. /\ BdnSource(b) \in Sources /\ VesselSource(b) \in Sources
        /\ bdn[b].mt \in Int /\ (bdn[b].vac # NoFigure => -bdn[b].vac \in Int)
    BY SourcesTyped, TonnageTyped DEF TypeOK
  <2>1. ASSUME NEW role, ApproveVesselBdn(b, role) \/ ApproveBdn(b, role)
        PROVE  Posted
    BY <1>0, <1>1, <2>0, <2>1 DEF ApproveVesselBdn, ApproveBdn, DebitVessel, CreditVessel
  <2>2. ASSUME NEW vac \in Quantities \cup {NoFigure}, UpdateVesselBdn(b, vac)
        PROVE  Posted
    <3>1. vac # NoFigure => -vac \in Int
      BY DEF DeliveryAssumption
    <3> QED
      BY <1>0, <1>1, <2>0, <2>2, <3>1 DEF UpdateVesselBdn
  <2>4. ASSUME NEW mt \in Quantities, UpdateBdn(b, mt)
        PROVE  Posted
    BY <1>0, <1>1, <2>0, <2>4, mt \in Int DEF UpdateBdn
  <2>3. ASSUME DeleteVesselBdn(b) \/ DeleteBdn(b)
        PROVE  Posted
    BY <1>0, <1>1, <2>0, <2>3, 0 \in Int DEF DeleteVesselBdn, DeleteBdn
  <2> QED
    BY <1>1, <1>4, <2>1, <2>2, <2>3, <2>4 DEF VesselBdnStep, BdnStep, CreateVesselBdn, CreateVesselBdnForLeg,
       CreateBdn, Submit, RejectVesselBdn, RejectBdn
<1>5. ASSUME OperationStep
      PROVE  Posted
  <2>1. CloseSource \in Sources /\ \A actual \in Readings : actual - rob \in Int
    BY SourcesTyped DEF TypeOK, LedgerTypeOK
  <2>2. ASSUME NEW role, CloseOperation(role)
        PROVE  Posted
    BY <1>0, <1>1, <2>1, <2>2 DEF CloseOperation
  <2> QED
    BY <1>1, <1>5, <2>2 DEF OperationStep, TransitionOperation
<1>6. Posted
  BY <1>1, <1>2, <1>3, <1>4, <1>5 DEF Next
<1> QED
  BY <1>6 DEF Posted

\* The ledger's sources are finitely many, as the rows they name are.
LEMMA SourcesFinite == IsFiniteSet(Sources)
<1>1. IsFiniteSet(Runs) /\ IsFiniteSet(Legs) /\ IsFiniteSet(Bdns)
  BY FiniteTables DEF FiniteTables
<1>2. IsFiniteSet({BdnSource(b) : b \in Bdns})
  <2> DEFINE f == [b \in Bdns |-> BdnSource(b)]
  <2>1. \A s \in {BdnSource(b) : b \in Bdns} : \E b \in Bdns : f[b] = s
    OBVIOUS
  <2> HIDE DEF f
  <2> QED
    BY <1>1, <2>1, FiniteImage
<1>3. IsFiniteSet({VesselSource(b) : b \in Bdns})
  <2> DEFINE f == [b \in Bdns |-> VesselSource(b)]
  <2>1. \A s \in {VesselSource(b) : b \in Bdns} : \E b \in Bdns : f[b] = s
    OBVIOUS
  <2> HIDE DEF f
  <2> QED
    BY <1>1, <2>1, FiniteImage
<1>4. IsFiniteSet({ReceiptSource(r) : r \in Runs})
  <2> DEFINE f == [r \in Runs |-> ReceiptSource(r)]
  <2>1. \A s \in {ReceiptSource(r) : r \in Runs} : \E r \in Runs : f[r] = s
    OBVIOUS
  <2> HIDE DEF f
  <2> QED
    BY <1>1, <2>1, FiniteImage
<1>5. IsFiniteSet({QuantSource(r) : r \in Runs})
  <2> DEFINE f == [r \in Runs |-> QuantSource(r)]
  <2>1. \A s \in {QuantSource(r) : r \in Runs} : \E r \in Runs : f[r] = s
    OBVIOUS
  <2> HIDE DEF f
  <2> QED
    BY <1>1, <2>1, FiniteImage
<1>6. IsFiniteSet({LegSource(l) : l \in Legs})
  <2> DEFINE f == [l \in Legs |-> LegSource(l)]
  <2>1. \A s \in {LegSource(l) : l \in Legs} : \E l \in Legs : f[l] = s
    OBVIOUS
  <2> HIDE DEF f
  <2> QED
    BY <1>1, <2>1, FiniteImage
<1>7. IsFiniteSet({CloseSource})
  BY FS_Singleton
<1> QED
  BY <1>2, <1>3, <1>4, <1>5, <1>6, <1>7, FS_Union DEF Sources

\* The figure balances when it is the opening figure plus the total posted.
LEMMA BalanceIsTotal == RobBalances <=> rob = InitialRob + Total(posted, Sources)
  BY TotalIsMapThenSumSet DEF RobBalances

\* Posting, correcting or reversing one source moves figure and total alike.
LEMMA PostingBalances ==
  ASSUME LedgerTypeOK, rob = InitialRob + Total(posted, Sources), NEW s \in Sources, NEW mt \in Int,
         Post(s, mt) \/ Repost(s, mt) \/ Reverse(s) \/ RobUnchanged
  PROVE  rob' = InitialRob + Total(posted', Sources)
<1>1. CASE RobUnchanged
  BY <1>1 DEF RobUnchanged, ledger
<1>2. CASE Post(s, mt) \/ Repost(s, mt) \/ Reverse(s)
  <2>1. /\ rob \in Int /\ posted \in [Sources -> Int] /\ posted' \in [Sources -> Int]
        /\ \A t \in Sources \ {s} : posted[t] = posted'[t]
        /\ rob' = rob + posted'[s] - posted[s]
    BY <1>2 DEF Post, Repost, Reverse, LedgerTypeOK
  <2>2. Total(posted', Sources) = Total(posted, Sources) + posted'[s] - posted[s]
    BY <2>1, SourcesFinite, TotalChange
  <2>3. Total(posted, Sources) \in Int
    BY <2>1, SourcesFinite, TotalType
  <2> QED
    BY <2>1, <2>2, <2>3 DEF DeliveryAssumption
<1> QED
  BY <1>1, <1>2

\* However many corrections, reversals and close-outs the requests make, the
\* barge's figure is the opening one plus what the ledger holds.
THEOREM LedgerBalances == Spec => []RobBalances
<1>1. Init => RobBalances
  <2> SUFFICES ASSUME Init
               PROVE  RobBalances
    OBVIOUS
  <2>1. \A s \in Sources : posted[s] = 0
    BY DEF Init
  <2>2. Total(posted, Sources) = 0
    BY <2>1, SourcesFinite, TotalZero
  <2> QED
    BY <2>2, BalanceIsTotal DEF Init, DeliveryAssumption
<1>2. TypeOK /\ RobBalances /\ [Next]_vars => RobBalances'
  <2> SUFFICES ASSUME TypeOK, RobBalances, [Next]_vars
               PROVE  RobBalances'
    OBVIOUS
  <2>1. PICK s \in Sources, mt \in Int : Post(s, mt) \/ Repost(s, mt) \/ Reverse(s) \/ RobUnchanged
    BY OneSourceStep
  <2>2. rob' = InitialRob + Total(posted', Sources)
    BY <2>1, BalanceIsTotal, PostingBalances DEF TypeOK
  <2>3. RobBalances' <=> rob' = InitialRob + Total(posted', Sources)
    BY DEF RobBalances, MapThenSumSet, MapThenFoldSet, Total, Tabulates, Pick
  <2> QED
    BY <2>2, <2>3
<1> QED
  BY <1>1, <1>2, TypeCorrect, PTL DEF Spec

-----------------------------------------------------------------------------
(* What a step may never do to the status.                                 *)

\* A completed operation can only be archived or cancelled.
LEMMA CompletedEdges ==
  ASSUME NEW kind \in OperationTypes, NEW to, NEW role, ValidateTransition(kind, "completed", to, role)
  PROVE  to \in {"archived", "cancelled"}
  BY DEF ValidateTransition, IsValidTransition, TransitionMap, TruckOnlyTransitions,
         FullOperationTransitions, VesselOnlyTransitions, From, OperationTypes

\* The operation types of a delivery are types of the state machine.
LEMMA TypeTyped == TypeOK => type \in OperationTypes
  BY DEF TypeOK, DeliveryAssumption, OperationTypes

\* Where each handler may take the operation.  The guards of a vessel run:
LEMMA RunMoves ==
  ASSUME NEW r \in Runs, RunStep(r), op' # op
  PROVE  \/ op \in {"pending_completion", "bdn_pending", "bdn_approved"} /\ op' = "vessel_operations"
         \/ op = "bdn_pending" /\ op' = "bdn_approved" /\ GateCleared(run, leg, bdn)'
         \/ /\ op = "vessel_operations" /\ op' = "pending_completion"
            /\ \A q \in LiveRuns(run)' : run'[q].stage = RunStages
<1>1. ASSUME NEW role \in StageRoles, CreateRun(r, role)
      PROVE  op \in {"pending_completion", "bdn_pending", "bdn_approved"} /\ op' = "vessel_operations"
  BY <1>1 DEF CreateRun, ActivityMove
<1>2. ASSUME NEW role \in StageRoles, CancelRun(r, role)
      PROVE  op = "bdn_pending" /\ op' = "bdn_approved" /\ GateCleared(run, leg, bdn)'
  <2>1. op = "bdn_pending" /\ op' = "bdn_approved" /\ GateCleared(run', leg, bdn)
        /\ type' = type /\ leg' = leg /\ bdn' = bdn
    BY <1>2 DEF CancelRun, ActivityMove
  <2> QED
    BY <2>1 DEF GateCleared, NothingOwed, Deliveries, ApprovedDeliveries, LiveRuns, LiveLegs, VesselOnly
<1>3. ASSUME NEW role \in StageRoles, NEW stage \in 1..RunStages,
             AdvanceStage(r, stage, role)
      PROVE  /\ op = "vessel_operations" /\ op' = "pending_completion"
             /\ \A q \in LiveRuns(run)' : run'[q].stage = RunStages
  BY <1>3 DEF AdvanceStage, ActivityMove, StatusFromStages, LiveRuns
<1> QED
  BY <1>1, <1>2, <1>3 DEF RunStep, UncancelRun, Commence, CompleteLoading, CorrectTiming,
     RecordLoadingReceipt, RecordQuantities

\* Of a leg:
LEMMA LegMoves ==
  ASSUME NEW l \in Legs, LegStep(l), op' # op
  PROVE  \/ op \in {"pending_completion", "bdn_pending"} /\ op' = "vessel_operations"
         \/ /\ op = "vessel_operations" /\ op' = "pending_completion" /\ VesselOnly
            /\ LiveLegs(run, leg)' # {}
            /\ \A k \in LiveLegs(run, leg)' : leg'[k].stage = LegStages
<1>1. ASSUME NEW r \in Runs, NEW role \in StageRoles, AddLeg(l, r, role)
      PROVE  op \in {"pending_completion", "bdn_pending"} /\ op' = "vessel_operations"
  BY <1>1 DEF AddLeg, ActivityMove
<1>2. ASSUME VesselOnly, run' = run, op' = StatusFromLegs(run, leg')
      PROVE  \/ op \in {"pending_completion", "bdn_pending"} /\ op' = "vessel_operations"
             \/ /\ op = "vessel_operations" /\ op' = "pending_completion" /\ VesselOnly
                /\ LiveLegs(run, leg)' # {}
                /\ \A k \in LiveLegs(run, leg)' : leg'[k].stage = LegStages
  BY <1>2 DEF StatusFromLegs, LiveLegs, LiveRuns
<1>3. ASSUME NEW role \in StageRoles, NEW stage \in 1..LegStages, AdvanceLegStage(l, stage, role)
      PROVE  VesselOnly /\ run' = run /\ op' = StatusFromLegs(run, leg')
  BY <1>3 DEF AdvanceLegStage, ActivityMove
<1>4. ASSUME NEW role \in StageRoles, NEW stage, CorrectLegTiming(l, stage, role)
      PROVE  VesselOnly /\ run' = run /\ op' = StatusFromLegs(run, leg')
  BY <1>4 DEF CorrectLegTiming, ActivityMove
<1>5. ASSUME NEW role \in StageRoles, CancelLeg(l, role) \/ UncancelLeg(l, role)
      PROVE  VesselOnly /\ run' = run /\ op' = StatusFromLegs(run, leg')
  BY <1>5 DEF CancelLeg, UncancelLeg, ActivityMove
<1> QED
  BY <1>1, <1>2, <1>3, <1>4, <1>5 DEF LegStep, RecordLegQuantities

\* What has its approved BDN keeps it through a review that approves another: the
\* gate, once clear, stays clear.
LEMMA ApprovalsOnlyGrow ==
  ASSUME TypeOK, NEW b \in Bdns, NEW service, Review(b, "approved", service),
         NothingOwed(run, leg, bdn)
  PROVE  NothingOwed(run, leg, bdn')
<1>0. bdn \in [Bdns -> BdnRow]
  BY DEF TypeOK
<1>1. \A c \in Bdns : /\ bdn[c].status = "approved" => bdn'[c].status = "approved"
                      /\ bdn'[c].run = bdn[c].run /\ bdn'[c].leg = bdn[c].leg
  BY <1>0, ReviewedRow
<1>2. ApprovedDeliveries(run, leg, bdn) \subseteq ApprovedDeliveries(run, leg, bdn')
  BY <1>1 DEF ApprovedDeliveries
<1>3. ApprovedDeliveries(run, leg, bdn') \subseteq Deliveries(run, leg)
  BY DEF ApprovedDeliveries, Deliveries
<1> QED
  BY <1>2, <1>3 DEF NothingOwed

\* And of a BDN, which leaves a completed operation alone.
LEMMA BdnMoves ==
  ASSUME TypeOK, NEW b \in Bdns, VesselBdnStep(b) \/ BdnStep(b), op' # op
  PROVE  /\ op # "completed"
         /\ \/ op' \in {"bdn_pending", "vessel_operations"}
            \/ op' = "bdn_approved" /\ NothingOwed(run, leg, bdn)'
<1>0. type' = type /\ run' = run /\ leg' = leg
  BY BdnStepsFrame
<1>1. NothingOwed(run, leg, bdn') => NothingOwed(run, leg, bdn)'
  BY <1>0 DEF NothingOwed, Deliveries, ApprovedDeliveries, LiveRuns, LiveLegs, VesselOnly
<1>2. ASSUME NEW role \in StageRoles, NEW mt \in Quantities,
             \/ CreateBdn(b, mt, role)
             \/ \E r \in Runs : CreateVesselBdn(b, r, mt, role)
             \/ \E l \in Legs : CreateVesselBdnForLeg(b, l, mt, role)
      PROVE  op # "completed" /\ op' = "bdn_pending"
  BY <1>2 DEF CreateBdn, CreateVesselBdn, CreateVesselBdnForLeg, VesselBdnMove, BdnMove
<1>3. ASSUME NEW role \in StageRoles, ApproveVesselBdn(b, role)
      PROVE  op # "completed" /\ op' = "bdn_approved" /\ NothingOwed(run, leg, bdn)'
  BY <1>1, <1>3 DEF ApproveVesselBdn, VesselBdnMove, GateCleared
<1>4. ASSUME NEW role \in StageRoles, ApproveBdn(b, role)
      PROVE  op # "completed" /\ op' = "bdn_approved" /\ NothingOwed(run, leg, bdn)'
  <2>1. /\ op # "completed" /\ op' = "bdn_approved" /\ Review(b, "approved", "bdn")
        /\ NothingOwed(run, leg, CountedBdns)
    BY <1>4 DEF ApproveBdn, BdnMove
  <2>2. CASE FullOperation
    BY <1>1, <2>1, <2>2 DEF CountedBdns
  <2>3. CASE ~FullOperation
    BY <1>1, <2>1, <2>3, ApprovalsOnlyGrow DEF CountedBdns
  <2> QED
    BY <2>1, <2>2, <2>3
<1>5. ASSUME NEW role \in StageRoles, RejectVesselBdn(b, role) \/ RejectBdn(b, role)
      PROVE  op # "completed" /\ op' = "vessel_operations"
  BY <1>5 DEF RejectVesselBdn, RejectBdn, VesselBdnMove, BdnMove
<1> QED
  BY <1>2, <1>3, <1>4, <1>5
     DEF VesselBdnStep, BdnStep, UpdateVesselBdn, DeleteVesselBdn, UpdateBdn, DeleteBdn

\* No late run, leg, BDN or correction reopens a closed operation.
THEOREM ClosedForGood == Spec => CompletedStaysClosed
<1>1. TypeOK /\ [Next]_vars => (op = "completed" => op' \in {"completed", "archived", "cancelled"})
  <2> SUFFICES ASSUME TypeOK, [Next]_vars, op = "completed", op' # op
               PROVE  op' \in {"archived", "cancelled"}
    OBVIOUS
  <2>1. ~\E r \in Runs : RunStep(r)
    BY RunMoves
  <2>2. ~\E l \in Legs : LegStep(l)
    BY LegMoves
  <2>3. ~\E b \in Bdns : VesselBdnStep(b) \/ BdnStep(b)
    BY BdnMoves
  <2>4. OperationStep
    BY <2>1, <2>2, <2>3 DEF Next, vars
  <2> QED
    BY <2>4, CompletedEdges, TypeTyped DEF OperationStep, TransitionOperation, CloseOperation
<1> QED
  BY <1>1, TypeCorrect, PTL DEF Spec, CompletedStaysClosed

\* A handler that opens the gate has itself counted every live delivery's
\* BDN: no cancellation, approval or stage log opens it over one still owed.
THEOREM GateNeedsEveryApproval == Spec => GateOpensOnlyWhenNothingOwed
<1>1. TypeOK /\ [Next]_vars =>
        (op # "bdn_approved" /\ op' = "bdn_approved"
           => NothingOwed(run, leg, bdn)' \/ UNCHANGED <<run, leg, bdn>>)
  <2> SUFFICES ASSUME TypeOK, Next, op # "bdn_approved", op' = "bdn_approved"
               PROVE  NothingOwed(run, leg, bdn)' \/ UNCHANGED <<run, leg, bdn>>
    BY DEF vars
  <2>1. ASSUME NEW r \in Runs, RunStep(r)
        PROVE  NothingOwed(run, leg, bdn)'
    BY <2>1, RunMoves DEF GateCleared
  <2>2. ASSUME NEW l \in Legs, LegStep(l)
        PROVE  FALSE
    BY <2>2, LegMoves
  <2>3. ASSUME NEW b \in Bdns, VesselBdnStep(b) \/ BdnStep(b)
        PROVE  NothingOwed(run, leg, bdn)'
    BY <2>3, BdnMoves
  <2>4. ASSUME OperationStep
        PROVE  UNCHANGED <<run, leg, bdn>>
    BY <2>4, OperationStepFrame
  <2> QED
    BY <2>1, <2>2, <2>3, <2>4 DEF Next
<1> QED
  BY <1>1, TypeCorrect, PTL DEF Spec, GateOpensOnlyWhenNothingOwed

\* Whichever log, correction, cancellation or restore makes the operation look
\* ready to close, that tracker is through: the live legs, at least one, are all
\* discharged, or every live run has its last stage.  On a vessel-only operation
\* too a run's log asks after runs alone.
THEOREM ReadyOnlyWhenDelivered == Spec => PendingCompletionMeansDelivered
<1>1. TypeOK /\ [Next]_vars =>
        (op # "pending_completion" /\ op' = "pending_completion" =>
           /\ leg' # leg => /\ LiveLegs(run, leg)' # {}
                            /\ \A l \in LiveLegs(run, leg)' : leg'[l].stage = LegStages
           /\ run' # run => \A r \in LiveRuns(run)' : run'[r].stage = RunStages)
  <2> SUFFICES ASSUME TypeOK, Next, op # "pending_completion", op' = "pending_completion"
               PROVE  /\ leg' # leg => /\ LiveLegs(run, leg)' # {}
                                       /\ \A l \in LiveLegs(run, leg)' : leg'[l].stage = LegStages
                      /\ run' # run => \A r \in LiveRuns(run)' : run'[r].stage = RunStages
    BY DEF vars
  <2>1. ASSUME NEW r \in Runs, RunStep(r)
        PROVE  leg' = leg /\ \A q \in LiveRuns(run)' : run'[q].stage = RunStages
    BY <2>1, RunMoves, RunStepFrame
  <2>2. ASSUME NEW l \in Legs, LegStep(l)
        PROVE  /\ run' = run /\ LiveLegs(run, leg)' # {}
               /\ \A k \in LiveLegs(run, leg)' : leg'[k].stage = LegStages
    BY <2>2, LegMoves, LegStepFrame
  <2>3. ASSUME NEW b \in Bdns, VesselBdnStep(b) \/ BdnStep(b)
        PROVE  FALSE
    BY <2>3, BdnMoves
  <2>4. ASSUME OperationStep
        PROVE  run' = run /\ leg' = leg
    BY <2>4, OperationStepFrame
  <2> QED
    BY <2>1, <2>2, <2>3, <2>4 DEF Next
<1> QED
  BY <1>1, TypeCorrect, PTL DEF Spec, PendingCompletionMeansDelivered

-----------------------------------------------------------------------------
(* Reviews lead on.                                                        *)

\* A run handler that cancels a run is the cancellation: it tries the gate.
LEMMA CancellationTriesGate ==
  ASSUME TypeOK, NEW r \in Runs, RunStep(r), RunCancelled
  PROVE  ~Stranded'
<1>0. run \in [Runs -> RunRow] /\ type' = type /\ leg' = leg /\ bdn' = bdn
  BY RunStepFrame DEF TypeOK
<1>1. PICK q \in Runs : run[q].status # "cancelled" /\ run'[q].status = "cancelled"
  BY DEF RunCancelled
<1>2. PICK role \in StageRoles : CancelRun(r, role)
  <2>1. ~UncancelRun(r)
    BY <1>0, <1>1 DEF UncancelRun, RunRow
  <2>2. ~Commence(r) /\ ~CompleteLoading(r)
    BY <1>0, <1>1 DEF Commence, CompleteLoading, RunRow
  <2>3. ASSUME NEW c \in BOOLEAN, NEW d \in BOOLEAN, CorrectTiming(r, c, d)
        PROVE  FALSE
    BY <1>0, <1>1, <2>3 DEF CorrectTiming, RunRow
  <2>4. ASSUME NEW role \in StageRoles, CreateRun(r, role)
        PROVE  FALSE
    BY <1>0, <1>1, <2>4 DEF CreateRun, RunRow
  <2>5. ASSUME NEW role \in StageRoles, NEW stage \in 1..RunStages, AdvanceStage(r, stage, role)
        PROVE  FALSE
    BY <1>0, <1>1, <2>5 DEF AdvanceStage, RunRow
  <2> QED
    BY <1>1, <2>1, <2>2, <2>3, <2>4, <2>5 DEF RunStep, RecordLoadingReceipt, RecordQuantities
<1>3. op' = "bdn_pending" => ~GateCleared(run', leg, bdn)
  BY <1>2 DEF CancelRun, ActivityMove
<1>4. GateCleared(run, leg, bdn)' => GateCleared(run', leg, bdn)
  BY <1>0 DEF GateCleared, NothingOwed, Deliveries, ApprovedDeliveries, LiveRuns, LiveLegs, VesselOnly
<1> QED
  BY <1>3, <1>4 DEF Stranded

\* Reviewing BDN c is the work of its own handler.
LEMMA ReviewIsItsOwn ==
  ASSUME TypeOK, NEW b \in Bdns, VesselBdnStep(b) \/ BdnStep(b), NEW c \in Bdns, Reviewed(c)
  PROVE  c = b /\ \/ \E role \in StageRoles : ApproveVesselBdn(b, role) \/ ApproveBdn(b, role)
                  \/ \E role \in StageRoles : RejectVesselBdn(b, role) \/ RejectBdn(b, role)
<1>0. /\ bdn \in [Bdns -> BdnRow]
      /\ bdn[c].status = "pending" /\ bdn'[c].status \in {"approved", "rejected"}
  BY DEF TypeOK, Reviewed
<1>1. ASSUME NEW r, NEW l, NEW mt, NEW vac, NEW service, Submit(b, r, l, mt, vac, service)
      PROVE  FALSE
  BY <1>0, <1>1 DEF Submit
<1>2. ASSUME NEW mt, NEW vac, NEW service, Correct(b, mt, vac, service)
      PROVE  FALSE
  BY <1>0, <1>2, CorrectedRow
<1>3. ASSUME NEW service, Remove(b, service)
      PROVE  FALSE
  BY <1>0, <1>3, RemovedRow
<1>4. \/ \E role \in StageRoles : ApproveVesselBdn(b, role) \/ ApproveBdn(b, role)
      \/ \E role \in StageRoles : RejectVesselBdn(b, role) \/ RejectBdn(b, role)
  BY <1>1, <1>2, <1>3 DEF VesselBdnStep, BdnStep, CreateVesselBdn, CreateVesselBdnForLeg, CreateBdn,
     UpdateVesselBdn, UpdateBdn, DeleteVesselBdn, DeleteBdn
<1>5. \E verdict \in {"approved", "rejected"}, service \in Services : Review(b, verdict, service)
  BY <1>4 DEF ApproveVesselBdn, ApproveBdn, RejectVesselBdn, RejectBdn, Services
<1>6. c = b
  BY <1>0, <1>5, ReviewedRow
<1> QED
  BY <1>4, <1>6

\* A BDN handler that reviews a BDN tries the gate or leaves bdn_pending.
LEMMA ReviewTriesGate ==
  ASSUME TypeOK, NEW b \in Bdns, VesselBdnStep(b) \/ BdnStep(b), Reviewed(b), ~Misrouted(b)
  PROVE  ~Stranded'
<1>0. bdn \in [Bdns -> BdnRow] /\ type' = type /\ run' = run /\ leg' = leg
  BY BdnStepsFrame DEF TypeOK
<1>1. GateCleared(run, leg, bdn)' => GateCleared(run, leg, bdn') /\ NothingOwed(run, leg, bdn')
  BY <1>0 DEF GateCleared, NothingOwed, Deliveries, ApprovedDeliveries, LiveRuns, LiveLegs, VesselOnly
<1>2. ASSUME NEW role \in StageRoles, ApproveVesselBdn(b, role)
      PROVE  ~Stranded'
  BY <1>1, <1>2 DEF ApproveVesselBdn, VesselBdnMove, Stranded
<1>3. ASSUME NEW role \in StageRoles, ApproveBdn(b, role), GateCleared(run, leg, bdn)'
      PROVE  op' # "bdn_pending"
  <2>0. /\ Review(b, "approved", "bdn") /\ NothingOwed(run, leg, bdn')
        /\ IF NothingOwed(run, leg, CountedBdns) /\ op # "bdn_approved"
             THEN BdnMove("bdn_approved", role) ELSE op' = op
    BY <1>1, <1>3 DEF ApproveBdn
  <2>1. NothingOwed(run, leg, CountedBdns)
    <3>1. CASE FullOperation
      BY <2>0, <3>1 DEF CountedBdns
    <3>2. CASE ~FullOperation
      <4>1. VesselOnly
        BY <3>2 DEF FullOperation, VesselOnly, TypeOK, DeliveryAssumption
      <4>2. /\ \A c \in Bdns \ {b} : bdn'[c] = bdn[c]
            /\ bdn'[b].leg = NoLeg
        BY <1>0, <2>0, <4>1, ReviewedRow DEF Misrouted
      <4>3. \A l \in Legs, c \in Bdns : bdn'[c].status = "approved" /\ bdn'[c].leg = l
                                          => bdn[c].status = "approved" /\ bdn[c].leg = l
        BY <4>2 DEF DeliveryAssumption
      <4>4. ApprovedDeliveries(run, leg, bdn') \subseteq ApprovedDeliveries(run, leg, bdn)
        BY <4>1, <4>3 DEF ApprovedDeliveries, LiveLegs
      <4>5. ApprovedDeliveries(run, leg, bdn) \subseteq Deliveries(run, leg)
        BY DEF ApprovedDeliveries, Deliveries
      <4> QED
        BY <2>0, <3>2, <4>4, <4>5 DEF CountedBdns, NothingOwed
    <3> QED
      BY <3>1, <3>2
  <2> QED
    BY <2>0, <2>1 DEF BdnMove
<1>4. ASSUME NEW role \in StageRoles, RejectVesselBdn(b, role) \/ RejectBdn(b, role)
      PROVE  ~Stranded'
  BY <1>4 DEF RejectVesselBdn, RejectBdn, VesselBdnMove, BdnMove, Stranded
<1>5. ASSUME NEW role \in StageRoles, ApproveBdn(b, role)
      PROVE  ~Stranded'
  BY <1>3, <1>5 DEF Stranded
<1> QED
  BY <1>2, <1>4, <1>5, ReviewIsItsOwn

\* Whoever reviews a BDN or cancels a run leaves the operation with something to
\* approve, or past bdn_pending - but for a leg's BDN on the loading route.
THEOREM ReviewsLeadOn == Spec => ReviewNeverStrands
<1>1. TypeOK /\ [Next]_vars =>
        (RunCancelled \/ (\E b \in Bdns : Reviewed(b) /\ ~Misrouted(b)) => ~Stranded')
  <2> SUFFICES ASSUME TypeOK, [Next]_vars,
                      RunCancelled \/ (\E b \in Bdns : Reviewed(b) /\ ~Misrouted(b))
               PROVE  ~Stranded'
    OBVIOUS
  <2>1. ASSUME NEW r \in Runs, RunStep(r)
        PROVE  ~Stranded'
    BY <2>1, CancellationTriesGate, RunStepFrame DEF Reviewed
  <2>2. ASSUME NEW l \in Legs, LegStep(l)
        PROVE  FALSE
    BY <2>2, LegStepFrame DEF Reviewed, RunCancelled
  <2>3. ASSUME NEW b \in Bdns, VesselBdnStep(b) \/ BdnStep(b)
        PROVE  ~Stranded'
    <3>1. PICK c \in Bdns : Reviewed(c) /\ ~Misrouted(c)
      BY <2>3, BdnStepsFrame DEF RunCancelled
    <3>2. c = b
      BY <2>3, <3>1, ReviewIsItsOwn
    <3> QED
      BY <2>3, <3>1, <3>2, ReviewTriesGate
  <2>4. ASSUME OperationStep \/ UNCHANGED vars
        PROVE  FALSE
    BY <2>4, OperationStepFrame DEF Reviewed, RunCancelled, vars
  <2> QED
    BY <2>1, <2>2, <2>3, <2>4 DEF Next
<1> QED
  BY <1>1, TypeCorrect, PTL DEF Spec, ReviewNeverStrands
=============================================================================
