------------------------- MODULE TruckDeliveryProofs -------------------------
(***************************************************************************)
(* Proofs about TruckDelivery and the road it extends, for any sets of      *)
(* trucks, rows, barges, rounds, tonnages and Truck BDNs and for both       *)
(* operation types with trucks.  First the rows of TruckRoad: they keep     *)
(* their types, a truck comes to be live twice only by the revival of a     *)
(* removed row, and the ledger follows the rows but for the three named     *)
(* ways out.  Then the Truck BDNs.                                          *)
(***************************************************************************)
EXTENDS TruckDelivery, TLAPS

USE DEF NoQuantity

-----------------------------------------------------------------------------
(* Type correctness of the rows.                                            *)

Statuses == {"none", "pending", "loading", "in_transit", "arrived",
             "discharging", "completed", "cancelled"}

\* Writing a well-formed row keeps the table well formed.
LEMMA WriteTyped ==
  ASSUME RoadTypeOK, NEW r \in Rows, NEW new \in Row, Write(r, new)
  PROVE  row' \in [Rows -> Row]
<1>1. [new EXCEPT !.later = {}] \in Row
  BY DEF Row
<1> QED
  BY <1>1 DEF Write, RoadTypeOK

\* A credit is a figure for every barge.
LEMMA CreditTyped ==
  ASSUME NEW vessel, NEW q \in Quantities \cup {NoQuantity}
  PROVE  /\ Tonnes(q) \in Nat
         /\ Credit(vessel, q) \in [Vessels -> Int]
<1>1. Tonnes(q) \in Nat
  BY RoadAssumption DEF Tonnes
<1> QED
  BY <1>1 DEF Credit

\* Posting figures keeps the ledger well formed; so does leaving it alone.
LEMMA LedgerTyped ==
  ASSUME RoadTypeOK, NEW r \in Rows, NEW delta \in [Vessels -> Int],
         Post(r, delta) \/ LedgerUnchanged
  PROVE  /\ rob' \in [Vessels -> Int]
         /\ posted' \in [Rows -> [Vessels -> Int]]
<1>1. CASE LedgerUnchanged
  BY <1>1 DEF LedgerUnchanged, RoadTypeOK
<1>2. CASE Post(r, delta)
  <2>1. rob' \in [Vessels -> Int]
    BY <1>2 DEF Post, RoadTypeOK
  <2>2. [v \in Vessels |-> posted[r][v] + delta[v]] \in [Vessels -> Int]
    BY DEF RoadTypeOK
  <2>3. posted' = [posted EXCEPT ![r] = [v \in Vessels |-> posted[r][v] + delta[v]]]
    BY <1>2 DEF Post, RoadTypeOK
  <2> QED
    BY <2>1, <2>2, <2>3 DEF RoadTypeOK
<1> QED
  BY <1>1, <1>2

\* A destination is a barge or none, with or without a name; a discharge may
\* choose any a correction may, but for the blank one.
LEMMA DestinationTyped ==
  ASSUME RoadTypeOK, NEW r \in Rows, NEW dest \in EditDestinations(r)
  PROVE  dest.vessel \in Vessels \cup {NoVessel} /\ dest.named \in BOOLEAN
<1>1. row[r].vessel \in Vessels \cup {NoVessel} /\ row[r].named \in BOOLEAN
  BY DEF RoadTypeOK, Row
<1>2. CASE dest = [vessel |-> row[r].vessel, named |-> row[r].named]
  BY <1>1, <1>2
<1>3. CASE dest = [vessel |-> NoVessel, named |-> TRUE]
  BY <1>3
<1>4. CASE dest = Blank
  BY <1>4 DEF Blank
<1>5. ASSUME NEW v \in Vessels, dest = [vessel |-> v, named |-> FALSE]
      PROVE  dest.vessel \in Vessels \cup {NoVessel} /\ dest.named \in BOOLEAN
  BY <1>5
<1> QED
  BY <1>2, <1>3, <1>4, <1>5 DEF Destinations, EditDestinations

\* Nothing is on the road at first.
LEMMA InitRoadTypeOK == RoadInit => RoadTypeOK
<1>1. NoRow \in Row
  BY DEF NoRow, Row
<1> QED
  BY <1>1, RoadAssumption DEF RoadInit, RoadTypeOK

\* A move of the status alone.
LEMMA MoveTyped ==
  ASSUME RoadTypeOK, NEW r \in Rows, NEW from, NEW to \in Statuses, MoveTo(r, from, to)
  PROVE  RoadTypeOK'
<1>1. [row[r] EXCEPT !.status = to] \in Row
  BY DEF RoadTypeOK, Row, Statuses
<1>2. row' \in [Rows -> Row]
  BY <1>1, WriteTyped DEF MoveTo
<1> QED
  BY <1>2 DEF MoveTo, LedgerUnchanged, RoadTypeOK

\* Every handler keeps the rows and the ledger well formed.
LEMMA RowStepTyped ==
  ASSUME RoadTypeOK, NEW r \in Rows, RowStep(r)
  PROVE  RoadTypeOK'
<1>0. row[r] \in Row
  BY DEF RoadTypeOK
<1>a. ASSUME NEW new \in Row, Write(r, new), LedgerUnchanged
      PROVE  RoadTypeOK'
  BY <1>a, WriteTyped DEF LedgerUnchanged, RoadTypeOK
<1>b. ASSUME NEW new \in Row, Write(r, new), NEW delta \in [Vessels -> Int], Post(r, delta)
      PROVE  RoadTypeOK'
  BY <1>b, WriteTyped, LedgerTyped DEF RoadTypeOK
<1>1. ASSUME NEW t \in Trucks, NEW v \in Vessels \cup {NoVessel}, AddTruckToOperation(r, t, v)
      PROVE  RoadTypeOK'
  <2>1. [NoRow EXCEPT !.truck = t, !.status = "pending", !.vessel = v] \in Row
    BY DEF NoRow, Row
  <2> QED
    BY <1>1, <1>a, <2>1 DEF AddTruckToOperation
<1>2. ASSUME NEW q \in Quantities \cup {NoQuantity, row[r].quantity},
             NEW v \in Vessels \cup {NoVessel}, NEW ended \in BOOLEAN,
             UpdateTruckOperation(r, q, v, ended)
      PROVE  RoadTypeOK'
  <2>1. [row[r] EXCEPT !.quantity = q, !.vessel = v, !.ended = ended] \in Row
    BY <1>0 DEF Row
  <2> QED
    BY <1>2, <1>a, <2>1 DEF UpdateTruckOperation
<1>3. CASE RemoveTruckFromOperation(r)
  <2>1. [row[r] EXCEPT !.status = "cancelled"] \in Row
    BY <1>0 DEF Row
  <2> QED
    BY <1>3, <1>a, <2>1 DEF RemoveTruckFromOperation
<1>4. CASE StartTransit(r) \/ EndTransit(r) \/ StartDischarge(r) \/ RecordArrivedDischarge(r)
  BY <1>4, MoveTyped DEF StartTransit, EndTransit, StartDischarge, RecordArrivedDischarge, Statuses
<1>5. CASE RecordDepartParking(r) \/ RecordDepartedLoading(r) \/ RecordDetail(r)
  <2>1. row[r].status \in Statuses
    BY <1>0 DEF Row, Statuses
  <2> QED
    BY <1>5, <2>1, MoveTyped DEF RecordDepartParking, RecordDepartedLoading, RecordDetail, Statuses
<1>6. ASSUME NEW dest \in Destinations(r), NEW q \in Quantities, EndDischarge(r, q, dest)
      PROVE  RoadTypeOK'
  <2>1. dest.vessel \in Vessels \cup {NoVessel} /\ dest.named \in BOOLEAN
    BY DestinationTyped DEF EditDestinations
  <2>2. [row[r] EXCEPT !.status = "completed", !.quantity = q, !.ended = TRUE,
                       !.vessel = dest.vessel, !.named = dest.named,
                       !.approved = dest.vessel # NoVessel \/ dest.named] \in Row
    BY <1>0, <2>1 DEF Row
  <2> QED
    BY <1>6, <1>b, <2>2, CreditTyped DEF EndDischarge
<1>7. ASSUME NEW dest \in EditDestinations(r), NEW q \in Quantities \cup {row[r].quantity},
             NEW ended \in {row[r].ended, TRUE}, EditDischargeRecord(r, q, dest, ended)
      PROVE  RoadTypeOK'
  <2> DEFINE fresh == ~row[r].approved /\ dest.vessel # NoVessel /\ Tonnes(q) > 0
             credited == row[r].approved /\ row[r].vessel # NoVessel
             new   == [row[r] EXCEPT !.quantity = q, !.vessel = dest.vessel, !.named = dest.named,
                                     !.ended = ended, !.approved = @ \/ fresh]
             delta == IF credited
                        THEN Minus(Credit(dest.vessel, q), Credit(row[r].vessel, row[r].quantity))
                      ELSE IF fresh THEN Credit(dest.vessel, q)
                      ELSE Zero
  <2>1. dest.vessel \in Vessels \cup {NoVessel} /\ dest.named \in BOOLEAN
    BY DestinationTyped
  <2>2. q \in Quantities \cup {NoQuantity} /\ row[r].quantity \in Quantities \cup {NoQuantity}
    BY <1>0 DEF Row
  <2>3. ended \in BOOLEAN /\ fresh \in BOOLEAN /\ row[r].approved \in BOOLEAN
    BY <1>0 DEF Row
  <2>4. new \in Row
    <3>1. ASSUME NEW approved \in BOOLEAN
          PROVE  [row[r] EXCEPT !.quantity = q, !.vessel = dest.vessel, !.named = dest.named,
                                !.ended = ended, !.approved = approved] \in Row
      BY <1>0, <2>1, <2>2, <2>3 DEF Row
    <3>2. (row[r].approved \/ fresh) \in BOOLEAN
      OBVIOUS
    <3> QED
      BY <3>1, <3>2
  <2>5. delta \in [Vessels -> Int]
    <3>1. Credit(dest.vessel, q) \in [Vessels -> Int]
      BY <2>2, CreditTyped
    <3>2. Credit(row[r].vessel, row[r].quantity) \in [Vessels -> Int]
      BY <2>2, CreditTyped
    <3> QED
      BY <3>1, <3>2 DEF Minus, Zero
  <2>6. Write(r, new) /\ Post(r, delta)
    BY <1>7 DEF EditDischargeRecord
  <2> QED
    BY <1>b, <2>4, <2>5, <2>6
<1> QED
  BY <1>1, <1>2, <1>3, <1>4, <1>5, <1>6, <1>7 DEF RowStep

LEMMA NextRoadTypeOK == RoadTypeOK /\ [RoadNext]_roadVars => RoadTypeOK'
<1> SUFFICES ASSUME RoadTypeOK, [RoadNext]_roadVars
             PROVE  RoadTypeOK'
  OBVIOUS
<1>1. CASE RoadNext
  BY <1>1, RowStepTyped DEF RoadNext
<1>2. CASE UNCHANGED roadVars
  BY <1>2 DEF roadVars, RoadTypeOK
<1> QED
  BY <1>1, <1>2

\* The rows and the ledger keep their types, whatever the handlers do.
THEOREM RoadTypeCorrect == RoadSpec => []RoadTypeOK
  BY InitRoadTypeOK, NextRoadTypeOK, PTL DEF RoadSpec

\* What writing a row makes of it, and of the others.
LEMMA WriteEffect ==
  ASSUME RoadTypeOK, NEW r \in Rows, NEW new \in Row, Write(r, new)
  PROVE  /\ row'[r] = [new EXCEPT !.later = {}]
         /\ row'[r].truck = new.truck /\ row'[r].status = new.status
         /\ row'[r].quantity = new.quantity /\ row'[r].vessel = new.vessel
         /\ row'[r].approved = new.approved
         /\ \A s \in Rows : s # r => row'[s] = row[s]
<1>1. row' = [row EXCEPT ![r] = [new EXCEPT !.later = {}]]
  BY DEF Write
<1>2. row'[r] = [new EXCEPT !.later = {}] /\ \A s \in Rows : s # r => row'[s] = row[s]
  BY <1>1 DEF RoadTypeOK
<1> QED
  BY <1>2 DEF Row

\* A move of the status leaves the rest of the row alone.
LEMMA MoveEffect ==
  ASSUME RoadTypeOK, NEW r \in Rows, NEW from, NEW to \in Statuses, MoveTo(r, from, to)
  PROVE  /\ row'[r].status = to /\ row'[r].quantity = row[r].quantity
         /\ row'[r].vessel = row[r].vessel /\ row'[r].approved = row[r].approved
<1>1. [row[r] EXCEPT !.status = to] \in Row
  BY DEF RoadTypeOK, Row, Statuses
<1>2. Write(r, [row[r] EXCEPT !.status = to])
  BY DEF MoveTo
<1>3. row[r] \in Row
  BY DEF RoadTypeOK
<1> QED
  BY <1>1, <1>2, <1>3, WriteEffect DEF Row

-----------------------------------------------------------------------------
(* A truck is live once.                                                    *)

\* A step that keeps the row's truck and brings no dead row to life.
LEMMA SameTruck ==
  ASSUME RoadTypeOK, TruckLiveOnce, NEW r \in Rows, NEW new, Write(r, new),
         new \in Row, new.truck = row[r].truck,
         new.status \notin {"none", "cancelled"} => Live(r)
  PROVE  TruckLiveOnce'
<1>1. row' = [row EXCEPT ![r] = [new EXCEPT !.later = {}]]
  BY DEF Write
<1>2. row'[r].truck = row[r].truck /\ row'[r].status = new.status
  BY <1>1 DEF RoadTypeOK, Row
<1>3. \A s \in Rows : s # r => row'[s] = row[s]
  BY <1>1 DEF RoadTypeOK
<1>4. \A s \in Rows : row'[s].truck = row[s].truck /\ (Live(s)' => Live(s))
  BY <1>2, <1>3 DEF Live
<1> QED
  BY <1>4 DEF TruckLiveOnce

\* A truck may be added when none of its rows is live.
LEMMA AddLiveOnce ==
  ASSUME RoadTypeOK, TruckLiveOnce, NEW r \in Rows, NEW t \in Trucks,
         NEW v \in Vessels \cup {NoVessel}, AddTruckToOperation(r, t, v)
  PROVE  TruckLiveOnce'
<1>1. row' = [row EXCEPT ![r] = [[NoRow EXCEPT !.truck = t, !.status = "pending", !.vessel = v]
                                   EXCEPT !.later = {}]]
  BY DEF AddTruckToOperation, Write
<1>2. row'[r].truck = t
  BY <1>1 DEF RoadTypeOK, NoRow
<1>3. \A s \in Rows : s # r => row'[s] = row[s]
  BY <1>1 DEF RoadTypeOK
<1>4. \A s \in Rows : s # r /\ Live(s)' => row'[s].truck # t
  BY <1>3 DEF AddTruckToOperation, Live
<1> QED
  BY <1>2, <1>3, <1>4 DEF TruckLiveOnce, Live

\* A handler puts a truck on the operation twice only by reviving a row.
LEMMA RowStepLiveOnce ==
  ASSUME RoadTypeOK, TruckLiveOnce, NEW r \in Rows, RowStep(r)
  PROVE  TruckLiveOnce' \/ (Revived(r) /\ row'[r].status \in {"arrived", "discharging", "completed"})
<1>0. row[r] \in Row
  BY DEF RoadTypeOK
<1>a. ASSUME NEW from, NEW to \in Statuses, MoveTo(r, from, to),
             to \notin {"none", "cancelled"} => Live(r)
      PROVE  TruckLiveOnce'
  <2>1. [row[r] EXCEPT !.status = to] \in Row
    BY <1>0 DEF Row, Statuses
  <2>2. Write(r, [row[r] EXCEPT !.status = to])
    BY <1>a DEF MoveTo
  <2> QED
    BY <1>0, <1>a, <2>1, <2>2, SameTruck DEF Row
<1>1. ASSUME NEW t \in Trucks, NEW v \in Vessels \cup {NoVessel}, AddTruckToOperation(r, t, v)
      PROVE  TruckLiveOnce'
  BY <1>1, AddLiveOnce
<1>2. ASSUME NEW q \in Quantities \cup {NoQuantity, row[r].quantity},
             NEW v \in Vessels \cup {NoVessel}, NEW ended \in BOOLEAN,
             UpdateTruckOperation(r, q, v, ended)
      PROVE  TruckLiveOnce'
  <2> DEFINE new == [row[r] EXCEPT !.quantity = q, !.vessel = v, !.ended = ended]
  <2>1. new \in Row /\ new.truck = row[r].truck /\ new.status = row[r].status
    BY <1>0 DEF Row
  <2>2. Write(r, new)
    BY <1>2 DEF UpdateTruckOperation
  <2> QED
    BY <2>1, <2>2, SameTruck DEF Live
<1>3. CASE RemoveTruckFromOperation(r)
  <2> DEFINE new == [row[r] EXCEPT !.status = "cancelled"]
  <2>1. new \in Row /\ new.truck = row[r].truck /\ new.status = "cancelled"
    BY <1>0 DEF Row
  <2>2. Write(r, new)
    BY <1>3 DEF RemoveTruckFromOperation
  <2> QED
    BY <2>1, <2>2, SameTruck
<1>4. CASE StartTransit(r) \/ EndTransit(r)
  BY <1>4, <1>a DEF StartTransit, EndTransit, MoveTo, Live, Statuses
<1>5. CASE StartDischarge(r) \/ RecordArrivedDischarge(r)
  <2>1. CASE row[r].status = "cancelled"
    <3>1. row'[r].status \in {"arrived", "discharging"}
      BY <1>5, MoveEffect DEF StartDischarge, RecordArrivedDischarge, Statuses
    <3> QED
      BY <2>1, <3>1 DEF Revived
  <2>2. CASE row[r].status # "cancelled"
    BY <1>5, <2>2, <1>a DEF StartDischarge, RecordArrivedDischarge, MoveTo, Anywhere, Live, Statuses
  <2> QED
    BY <2>1, <2>2
<1>6. CASE RecordDepartParking(r) \/ RecordDepartedLoading(r) \/ RecordDetail(r)
  <2>1. row[r].status \in Statuses
    BY <1>0 DEF Row, Statuses
  <2> QED
    BY <1>6, <2>1, <1>a DEF RecordDepartParking, RecordDepartedLoading, RecordDetail,
                            MoveTo, Anywhere, Live, Statuses
<1>7. ASSUME NEW dest \in Destinations(r), NEW q \in Quantities, EndDischarge(r, q, dest)
      PROVE  TruckLiveOnce' \/ (Revived(r) /\ row'[r].status = "completed")
  <2> DEFINE new == [row[r] EXCEPT !.status = "completed", !.quantity = q, !.ended = TRUE,
                       !.vessel = dest.vessel, !.named = dest.named,
                       !.approved = dest.vessel # NoVessel \/ dest.named]
  <2>1. dest.vessel \in Vessels \cup {NoVessel} /\ dest.named \in BOOLEAN
    BY DestinationTyped DEF EditDestinations
  <2>2. new \in Row /\ new.truck = row[r].truck /\ new.status = "completed"
    BY <1>0, <2>1 DEF Row
  <2>3. Write(r, new) /\ Exists(r)
    BY <1>7 DEF EndDischarge
  <2>4. CASE row[r].status = "cancelled"
    BY <2>2, <2>3, <2>4 DEF Write, Revived, RoadTypeOK, Row
  <2>5. CASE row[r].status # "cancelled"
    BY <2>2, <2>3, <2>5, SameTruck DEF Live, Exists
  <2> QED
    BY <2>4, <2>5
<1>8. ASSUME NEW dest \in EditDestinations(r), NEW q \in Quantities \cup {row[r].quantity},
             NEW ended \in {row[r].ended, TRUE}, EditDischargeRecord(r, q, dest, ended)
      PROVE  TruckLiveOnce'
  <2>1. PICK approved \in BOOLEAN :
           Write(r, [row[r] EXCEPT !.quantity = q, !.vessel = dest.vessel, !.named = dest.named,
                                   !.ended = ended, !.approved = approved])
    <3>1. Write(r, [row[r] EXCEPT !.quantity = q, !.vessel = dest.vessel, !.named = dest.named,
                      !.ended = ended,
                      !.approved = @ \/ (~@ /\ dest.vessel # NoVessel /\ Tonnes(q) > 0)])
      BY <1>8 DEF EditDischargeRecord
    <3> QED
      BY <3>1
  <2> DEFINE new == [row[r] EXCEPT !.quantity = q, !.vessel = dest.vessel, !.named = dest.named,
                                   !.ended = ended, !.approved = approved]
  <2>2. dest.vessel \in Vessels \cup {NoVessel} /\ dest.named \in BOOLEAN
    BY DestinationTyped
  <2>3. q \in Quantities \cup {NoQuantity} /\ ended \in BOOLEAN
    BY <1>0 DEF Row
  <2>4. new \in Row /\ new.truck = row[r].truck /\ new.status = row[r].status
    BY <1>0, <2>2, <2>3 DEF Row
  <2> QED
    BY <2>1, <2>4, SameTruck DEF Live
<1> QED
  BY <1>1, <1>2, <1>3, <1>4, <1>5, <1>6, <1>7, <1>8 DEF RowStep

\* Adding, removing, telemetry and corrections never put a truck on the
\* operation twice; only a removed row that is put back on the road does.
THEOREM LiveOnce == RoadSpec => LiveOnceUnlessRevived
<1> DEFINE Kept == TruckLiveOnce => TruckLiveOnce' \/ \E r \in Rows :
       Revived(r) /\ row'[r].status \in {"arrived", "discharging", "completed"}
<1>1. RoadTypeOK /\ [RoadNext]_roadVars => [Kept]_roadVars
  <2>1. ASSUME RoadTypeOK, TruckLiveOnce, RoadNext
        PROVE  TruckLiveOnce' \/ \E r \in Rows :
                 Revived(r) /\ row'[r].status \in {"arrived", "discharging", "completed"}
    BY <2>1, RowStepLiveOnce DEF RoadNext
  <2> QED
    BY <2>1
<1> QED
  BY <1>1, RoadTypeCorrect, PTL DEF RoadSpec, LiveOnceUnlessRevived

-----------------------------------------------------------------------------
(* The ledger follows the rows.                                             *)

\* What posting makes of the ledger of a row.
LEMMA PostEffect ==
  ASSUME RoadTypeOK, NEW r \in Rows, NEW delta \in [Vessels -> Int], Post(r, delta)
  PROVE  /\ \A v \in Vessels : posted'[r][v] = posted[r][v] + delta[v]
         /\ \A s \in Rows : s # r => posted'[s] = posted[s]
  BY DEF Post, RoadTypeOK

\* The credit of a tonnage goes to its barge and to no other.
LEMMA CreditEffect ==
  ASSUME NEW vessel, NEW q, NEW v \in Vessels
  PROVE  Credit(vessel, q)[v] = IF v = vessel THEN Tonnes(q) ELSE 0
  BY DEF Credit

\* A row in agreement and not approved has nothing on the ledger.
LEMMA UnapprovedPostsNothing ==
  ASSUME NEW r \in Rows, Agrees(r), ~row[r].approved
  PROVE  \A v \in Vessels : posted[r][v] = 0
  BY DEF Agrees, Posts

\* Discharge is credited as it is written, unless it was approved before.
LEMMA EndDischargeAgrees ==
  ASSUME RoadTypeOK, NEW r \in Rows, Agrees(r), ~row[r].approved,
         NEW dest \in Destinations(r), NEW q \in Quantities, EndDischarge(r, q, dest)
  PROVE  Agrees(r)'
<1> DEFINE new == [row[r] EXCEPT !.status = "completed", !.quantity = q, !.ended = TRUE,
                     !.vessel = dest.vessel, !.named = dest.named,
                     !.approved = dest.vessel # NoVessel \/ dest.named]
<1>0. row[r] \in Row
  BY DEF RoadTypeOK
<1>1. dest.vessel \in Vessels \cup {NoVessel} /\ dest.named \in BOOLEAN
  BY DestinationTyped DEF EditDestinations
<1>2. new \in Row
  <2>1. ASSUME NEW approved \in BOOLEAN
        PROVE  [row[r] EXCEPT !.status = "completed", !.quantity = q, !.ended = TRUE,
                  !.vessel = dest.vessel, !.named = dest.named, !.approved = approved] \in Row
    BY <1>0, <1>1 DEF Row
  <2>2. (dest.vessel # NoVessel \/ dest.named) \in BOOLEAN
    OBVIOUS
  <2> QED
    BY <2>1, <2>2
<1>3. Write(r, new) /\ Post(r, Credit(dest.vessel, q))
  BY DEF EndDischarge
<1>4. /\ row'[r].quantity = q /\ row'[r].vessel = dest.vessel
      /\ row'[r].approved <=> (dest.vessel # NoVessel \/ dest.named)
  <2>1. /\ row'[r].quantity = new.quantity /\ row'[r].vessel = new.vessel
        /\ row'[r].approved = new.approved
    BY <1>2, <1>3, WriteEffect
  <2>2. new.quantity = q /\ new.vessel = dest.vessel
    BY <1>0 DEF Row
  <2>3. new.approved <=> (dest.vessel # NoVessel \/ dest.named)
    BY <1>0 DEF Row
  <2> QED
    BY <2>1, <2>2, <2>3
<1>5. ASSUME NEW v \in Vessels
      PROVE  posted'[r][v] = Posts(r, v)'
  <2>1. posted'[r][v] = 0 + Credit(dest.vessel, q)[v]
    BY <1>3, CreditTyped, PostEffect, UnapprovedPostsNothing
  <2>2. posted'[r][v] = IF v = dest.vessel THEN Tonnes(q) ELSE 0
    BY <2>1, CreditEffect, CreditTyped
  <2>3. v # NoVessel
    BY RoadAssumption
  <2> QED
    BY <1>4, <2>2, <2>3 DEF Posts
<1> QED
  BY <1>5 DEF Agrees

\* A correction reverses what was posted and credits anew, or credits what
\* was never approved; only a free-text delivery assigned a barge is missed.
LEMMA EditAgrees ==
  ASSUME RoadTypeOK, NEW r \in Rows, Agrees(r), ~LateAssigned(r),
         NEW dest \in EditDestinations(r), NEW q \in Quantities \cup {row[r].quantity},
         NEW ended \in {row[r].ended, TRUE}, EditDischargeRecord(r, q, dest, ended)
  PROVE  Agrees(r)'
<1> DEFINE fresh == ~row[r].approved /\ dest.vessel # NoVessel /\ Tonnes(q) > 0
           credited == row[r].approved /\ row[r].vessel # NoVessel
           new   == [row[r] EXCEPT !.quantity = q, !.vessel = dest.vessel, !.named = dest.named,
                                   !.ended = ended, !.approved = row[r].approved \/ fresh]
           was   == Credit(row[r].vessel, row[r].quantity)
           is    == Credit(dest.vessel, q)
<1>0. row[r] \in Row
  BY DEF RoadTypeOK
<1>1. dest.vessel \in Vessels \cup {NoVessel} /\ dest.named \in BOOLEAN
  BY DestinationTyped
<1>2. q \in Quantities \cup {NoQuantity} /\ row[r].quantity \in Quantities \cup {NoQuantity}
  BY <1>0 DEF Row
<1>3. is \in [Vessels -> Int] /\ was \in [Vessels -> Int] /\ Tonnes(q) \in Nat
  BY <1>2, CreditTyped
<1>4. /\ row'[r].quantity = q /\ row'[r].vessel = dest.vessel
      /\ row'[r].approved <=> (row[r].approved \/ fresh)
  <2>1. ASSUME NEW approved \in BOOLEAN
        PROVE  [row[r] EXCEPT !.quantity = q, !.vessel = dest.vessel, !.named = dest.named,
                              !.ended = ended, !.approved = approved] \in Row
    BY <1>0, <1>1, <1>2 DEF Row
  <2>2. new \in Row
    <3>1. (row[r].approved \/ fresh) \in BOOLEAN
      OBVIOUS
    <3> QED
      BY <2>1, <3>1
  <2>3. Write(r, new)
    BY DEF EditDischargeRecord
  <2>4. /\ row'[r].quantity = new.quantity /\ row'[r].vessel = new.vessel
        /\ row'[r].approved = new.approved
    BY <2>2, <2>3, WriteEffect
  <2>5. new.quantity = q /\ new.vessel = dest.vessel
    BY <1>0 DEF Row
  <2>6. new.approved <=> (row[r].approved \/ fresh)
    BY <1>0 DEF Row
  <2> QED
    BY <2>4, <2>5, <2>6
<1>5. CASE credited
  <2>1. Minus(is, was) \in [Vessels -> Int]
    BY <1>3 DEF Minus
  <2>2. Post(r, Minus(is, was))
    BY <1>5 DEF EditDischargeRecord
  <2>3. ASSUME NEW v \in Vessels
        PROVE  posted'[r][v] = Posts(r, v)'
    <3>1. posted'[r][v] = posted[r][v] + (is[v] - was[v])
      BY <2>1, <2>2, PostEffect DEF Minus
    <3>2. posted[r][v] = was[v]
      BY <1>5, CreditEffect DEF Agrees, Posts
    <3>3. posted'[r][v] = is[v]
      BY <1>3, <3>1, <3>2
    <3>4. row'[r].approved
      BY <1>4, <1>5
    <3>5. posted'[r][v] = IF v = dest.vessel THEN Tonnes(q) ELSE 0
      BY <3>3, CreditEffect
    <3> QED
      BY <1>4, <3>4, <3>5 DEF Posts, Tonnes
  <2> QED
    BY <2>3 DEF Agrees
<1>6. CASE fresh
  <2>1. Post(r, is)
    BY <1>6 DEF EditDischargeRecord
  <2>2. ASSUME NEW v \in Vessels
        PROVE  posted'[r][v] = Posts(r, v)'
    <3>1. posted'[r][v] = 0 + is[v]
      BY <1>3, <1>6, <2>1, PostEffect, UnapprovedPostsNothing
    <3>2. posted'[r][v] = is[v]
      BY <1>3, <3>1
    <3>3. row'[r].approved
      BY <1>4, <1>6
    <3>4. posted'[r][v] = IF v = dest.vessel THEN Tonnes(q) ELSE 0
      BY <3>2, CreditEffect
    <3> QED
      BY <1>4, <3>3, <3>4 DEF Posts, Tonnes
  <2> QED
    BY <2>2 DEF Agrees
<1>7. CASE ~credited /\ ~fresh
  <2>1. Zero \in [Vessels -> Int] /\ Post(r, Zero)
    BY <1>7 DEF EditDischargeRecord, Zero
  <2>2. ASSUME NEW v \in Vessels
        PROVE  posted'[r][v] = Posts(r, v)'
    <3>1. v # NoVessel
      BY RoadAssumption
    <3>2. posted[r][v] = 0
      BY <1>7, <3>1 DEF Agrees, Posts
    <3>3. posted'[r][v] = 0
      BY <2>1, <3>2, PostEffect DEF Zero
    <3>4. CASE row[r].approved
      BY <1>4, <1>7, <3>1, <3>3, <3>4 DEF Posts, LateAssigned
    <3>5. CASE ~row[r].approved
      BY <1>4, <1>7, <3>3, <3>5 DEF Posts
    <3> QED
      BY <3>4, <3>5
  <2> QED
    BY <2>2 DEF Agrees
<1> QED
  BY <1>5, <1>6, <1>7

\* A step that leaves the ledger alone keeps an unapproved row in agreement;
\* an approved one is overwritten.
LEMMA QuietAgrees ==
  ASSUME RoadTypeOK, NEW r \in Rows, Agrees(r), LedgerUnchanged,
         row[r].approved \/ ~row'[r].approved
  PROVE  Agrees(r)' \/ Overwritten(r)
<1>1. CASE row[r].approved
  BY <1>1 DEF Overwritten, LedgerUnchanged
<1>2. CASE ~row[r].approved
  <2>1. \A v \in Vessels : posted'[r][v] = 0
    BY <1>2, UnapprovedPostsNothing DEF LedgerUnchanged
  <2>2. ~row'[r].approved
    BY <1>2
  <2> QED
    BY <2>1, <2>2 DEF Agrees, Posts
<1> QED
  BY <1>1, <1>2

\* A handler keeps the row it works on in step with the ledger, but for the
\* three ways out.
LEMMA RowStepAgrees ==
  ASSUME RoadTypeOK, NEW r \in Rows, Agrees(r), RowStep(r)
  PROVE  Agrees(r)' \/ Redelivered(r) \/ LateAssigned(r) \/ Overwritten(r)
<1>0. row[r] \in Row
  BY DEF RoadTypeOK
<1>1. ASSUME NEW t \in Trucks, NEW v \in Vessels \cup {NoVessel}, AddTruckToOperation(r, t, v)
      PROVE  Agrees(r)' \/ Overwritten(r)
  <2> DEFINE new == [NoRow EXCEPT !.truck = t, !.status = "pending", !.vessel = v]
  <2>1. new \in Row /\ ~new.approved
    BY DEF NoRow, Row
  <2>2. Write(r, new) /\ LedgerUnchanged
    BY <1>1 DEF AddTruckToOperation
  <2> QED
    BY <2>1, <2>2, WriteEffect, QuietAgrees
<1>2. ASSUME NEW q \in Quantities \cup {NoQuantity, row[r].quantity},
             NEW v \in Vessels \cup {NoVessel}, NEW ended \in BOOLEAN,
             UpdateTruckOperation(r, q, v, ended)
      PROVE  Agrees(r)' \/ Overwritten(r)
  <2> DEFINE new == [row[r] EXCEPT !.quantity = q, !.vessel = v, !.ended = ended]
  <2>1. new \in Row /\ new.approved = row[r].approved
    BY <1>0 DEF Row
  <2>2. Write(r, new) /\ LedgerUnchanged
    BY <1>2 DEF UpdateTruckOperation
  <2>3. row'[r].approved = row[r].approved
    BY <2>1, <2>2, WriteEffect
  <2> QED
    BY <2>2, <2>3, QuietAgrees
<1>3. CASE RemoveTruckFromOperation(r)
  <2> DEFINE new == [row[r] EXCEPT !.status = "cancelled"]
  <2>1. new \in Row /\ new.approved = row[r].approved
    BY <1>0 DEF Row
  <2>2. Write(r, new) /\ LedgerUnchanged
    BY <1>3 DEF RemoveTruckFromOperation
  <2>3. row'[r].approved = row[r].approved
    BY <2>1, <2>2, WriteEffect
  <2> QED
    BY <2>2, <2>3, QuietAgrees
<1>4. ASSUME NEW from, NEW to \in Statuses, MoveTo(r, from, to)
      PROVE  Agrees(r)' \/ Overwritten(r)
  <2>1. row'[r].approved = row[r].approved
    BY <1>4, MoveEffect
  <2>2. LedgerUnchanged
    BY <1>4 DEF MoveTo
  <2> QED
    BY <2>1, <2>2, QuietAgrees
<1>5. CASE StartTransit(r) \/ EndTransit(r) \/ StartDischarge(r) \/ RecordArrivedDischarge(r)
  BY <1>4, <1>5 DEF StartTransit, EndTransit, StartDischarge, RecordArrivedDischarge, Statuses
<1>6. CASE RecordDepartParking(r) \/ RecordDepartedLoading(r) \/ RecordDetail(r)
  <2>1. row[r].status \in Statuses
    BY <1>0 DEF Row, Statuses
  <2> QED
    BY <1>4, <1>6, <2>1 DEF RecordDepartParking, RecordDepartedLoading, RecordDetail, Statuses
<1>7. ASSUME NEW dest \in Destinations(r), NEW q \in Quantities, EndDischarge(r, q, dest)
      PROVE  Agrees(r)' \/ Redelivered(r)
  <2>1. CASE ~row[r].approved
    BY <1>7, <2>1, EndDischargeAgrees
  <2>2. CASE row[r].approved
    <3> DEFINE Ended(approved) ==
                 [row[r] EXCEPT !.status = "completed", !.quantity = q, !.ended = TRUE,
                    !.vessel = dest.vessel, !.named = dest.named, !.approved = approved]
    <3>1. dest.vessel \in Vessels \cup {NoVessel} /\ dest.named \in BOOLEAN
      BY DestinationTyped DEF EditDestinations
    <3>2. ASSUME NEW approved \in BOOLEAN
          PROVE  Ended(approved) \in Row /\ Ended(approved).status = "completed"
      BY <1>0, <3>1 DEF Row
    <3>3. (dest.vessel # NoVessel \/ dest.named) \in BOOLEAN
      OBVIOUS
    <3>4. Write(r, Ended(dest.vessel # NoVessel \/ dest.named)) /\ row[r].status # "completed"
      BY <1>7 DEF EndDischarge
    <3>5. PICK approved \in BOOLEAN : Write(r, Ended(approved))
      BY <3>3, <3>4
    <3>6. row'[r].status = "completed"
      BY <3>2, <3>5, WriteEffect
    <3> QED
      BY <2>2, <3>4, <3>6 DEF Redelivered
  <2> QED
    BY <2>1, <2>2
<1>8. ASSUME NEW dest \in EditDestinations(r), NEW q \in Quantities \cup {row[r].quantity},
             NEW ended \in {row[r].ended, TRUE}, EditDischargeRecord(r, q, dest, ended)
      PROVE  Agrees(r)' \/ LateAssigned(r)
  BY <1>8, EditAgrees
<1> QED
  BY <1>1, <1>2, <1>3, <1>5, <1>6, <1>7, <1>8 DEF RowStep

\* A handler leaves the other rows and what they posted alone.
LEMMA OthersUntouched ==
  ASSUME RoadTypeOK, NEW r \in Rows, RowStep(r), NEW s \in Rows, s # r
  PROVE  row'[s] = row[s] /\ posted'[s] = posted[s]
<1>1. ASSUME NEW new, Write(r, new)
      PROVE  row'[s] = row[s]
  BY <1>1 DEF Write, RoadTypeOK
<1>2. ASSUME NEW delta, Post(r, delta)
      PROVE  posted'[s] = posted[s]
  BY <1>2 DEF Post, RoadTypeOK
<1>3. ASSUME LedgerUnchanged
      PROVE  posted'[s] = posted[s]
  BY <1>3 DEF LedgerUnchanged
<1>4. ASSUME NEW from, NEW to, MoveTo(r, from, to)
      PROVE  row'[s] = row[s] /\ posted'[s] = posted[s]
  BY <1>1, <1>3, <1>4 DEF MoveTo
<1>5. ASSUME NEW t \in Trucks, NEW v \in Vessels \cup {NoVessel}, AddTruckToOperation(r, t, v)
      PROVE  row'[s] = row[s] /\ posted'[s] = posted[s]
  BY <1>1, <1>3, <1>5 DEF AddTruckToOperation
<1>6. ASSUME NEW q \in Quantities \cup {NoQuantity, row[r].quantity},
             NEW v \in Vessels \cup {NoVessel}, NEW ended \in BOOLEAN,
             UpdateTruckOperation(r, q, v, ended)
      PROVE  row'[s] = row[s] /\ posted'[s] = posted[s]
  BY <1>1, <1>3, <1>6 DEF UpdateTruckOperation
<1>7. CASE RemoveTruckFromOperation(r)
  BY <1>1, <1>3, <1>7 DEF RemoveTruckFromOperation
<1>8. CASE StartTransit(r) \/ EndTransit(r) \/ StartDischarge(r) \/ RecordArrivedDischarge(r)
           \/ RecordDepartParking(r) \/ RecordDepartedLoading(r) \/ RecordDetail(r)
  BY <1>4, <1>8 DEF StartTransit, EndTransit, StartDischarge, RecordArrivedDischarge,
                    RecordDepartParking, RecordDepartedLoading, RecordDetail
<1>9. ASSUME NEW dest \in Destinations(r), NEW q \in Quantities, EndDischarge(r, q, dest)
      PROVE  row'[s] = row[s] /\ posted'[s] = posted[s]
  BY <1>1, <1>2, <1>9 DEF EndDischarge
<1>10. ASSUME NEW dest \in EditDestinations(r), NEW q \in Quantities \cup {row[r].quantity},
              NEW ended \in {row[r].ended, TRUE}, EditDischargeRecord(r, q, dest, ended)
       PROVE  row'[s] = row[s] /\ posted'[s] = posted[s]
  BY <1>1, <1>2, <1>10 DEF EditDischargeRecord
<1> QED
  BY <1>5, <1>6, <1>7, <1>8, <1>9, <1>10 DEF RowStep

\* Discharges and corrections keep the ledger in step with the row, through
\* any change of tonnage or barge, but for the three named ways out.
THEOREM LedgerAgrees == RoadSpec => LedgerFollowsRow
<1>1. RoadTypeOK /\ [RoadNext]_roadVars => [LedgerStep]_roadVars
  <2>1. ASSUME RoadTypeOK, NEW r \in Rows, RowStep(r), NEW s \in Rows, Agrees(s)
        PROVE  Agrees(s)' \/ Redelivered(s) \/ LateAssigned(s) \/ Overwritten(s)
    <3>1. CASE s = r
      BY <2>1, <3>1, RowStepAgrees
    <3>2. CASE s # r
      BY <2>1, <3>2, OthersUntouched DEF Agrees, Posts
    <3> QED
      BY <3>1, <3>2
  <2> QED
    BY <2>1 DEF RoadNext, LedgerStep
<1> QED
  BY <1>1, RoadTypeCorrect, PTL DEF RoadSpec, LedgerFollowsRow

-----------------------------------------------------------------------------
(* Type correctness of the operation with its Truck BDNs.                   *)

RoundRow == [status: {"none", "pending", "approved", "rejected"}, trucks: SUBSET Trucks]

LEMMA InitTypeOK == Init => TypeOK
<1> SUFFICES ASSUME Init
             PROVE  TypeOK
  OBVIOUS
<1>1. RoadTypeOK
  BY InitRoadTypeOK DEF Init
<1>2. op \in OperationStatuses
  BY DEF Init, OperationStatuses
<1> QED
  BY <1>1, <1>2 DEF Init, TypeOK

\* A submission leaves well-formed rows, each newer by one round at most.
LEMMA SubmitTyped ==
  ASSUME TypeOK, NEW f \in Rounds, NEW trucks \in SUBSET Trucks, SubmitFeedback(f, trucks)
  PROVE  TypeOK'
<1>1. ASSUME NEW r \in Rows
      PROVE  [row[r] EXCEPT !.later = row[r].later \cup {f}] \in Row
  <2>1. row[r] \in Row
    BY DEF TypeOK, RoadTypeOK
  <2>2. row[r].later \cup {f} \in SUBSET Rounds
    BY <2>1 DEF Row
  <2> QED
    BY <2>1, <2>2 DEF Row
<1>2. row' = [r \in Rows |-> IF Exists(r) THEN [row[r] EXCEPT !.later = row[r].later \cup {f}]
                             ELSE row[r]]
  BY DEF SubmitFeedback
<1>3. row' \in [Rows -> Row]
  BY <1>1, <1>2 DEF TypeOK, RoadTypeOK
<1>4. op' \in OperationStatuses
  BY DEF SubmitFeedback, Move, TypeOK, OperationStatuses
<1>5. round' \in [Rounds -> RoundRow] /\ bdn' = bdn
  BY DEF SubmitFeedback, TypeOK, RoundRow
<1>6. RoadTypeOK'
  BY <1>3 DEF SubmitFeedback, LedgerUnchanged, TypeOK, RoadTypeOK
<1> QED
  BY <1>4, <1>5, <1>6 DEF TypeOK, RoundRow

\* The rows and the ledger when nothing touches them.
LEMMA RoadUntouched ==
  ASSUME RoadTypeOK, row' = row, LedgerUnchanged
  PROVE  RoadTypeOK'
  BY DEF RoadTypeOK, LedgerUnchanged

LEMMA FeedbackTyped ==
  ASSUME TypeOK, NEW f \in Rounds, FeedbackStep(f)
  PROVE  TypeOK'
<1>1. ASSUME NEW trucks \in SUBSET Trucks, SubmitFeedback(f, trucks)
      PROVE  TypeOK'
  BY <1>1, SubmitTyped
<1>2. CASE ApproveFeedback(f)
  <2>1. RoadTypeOK'
    BY <1>2, RoadUntouched DEF ApproveFeedback, TypeOK
  <2>2. op' \in OperationStatuses
    BY <1>2 DEF ApproveFeedback, Move, TypeOK, OperationStatuses
  <2> QED
    BY <1>2, <2>1, <2>2 DEF ApproveFeedback, TypeOK
<1>3. CASE RejectFeedback(f)
  <2>1. RoadTypeOK'
    BY <1>3, RoadUntouched DEF RejectFeedback, TypeOK
  <2>2. op' \in OperationStatuses
    BY <1>3 DEF RejectFeedback, Move, OperationStatuses
  <2> QED
    BY <1>3, <2>1, <2>2 DEF RejectFeedback, TypeOK
<1> QED
  BY <1>1, <1>2, <1>3 DEF FeedbackStep

LEMMA BdnTyped ==
  ASSUME TypeOK, NEW b \in Bdns, BdnStep(b)
  PROVE  TypeOK'
<1>1. RoadTypeOK'
  BY RoadUntouched DEF BdnStep, CreateTruckBdn, ApproveTruckBdn, RejectTruckBdn, DeleteTruckBdn,
                       TypeOK
<1>2. op' \in OperationStatuses
  BY DEF BdnStep, CreateTruckBdn, ApproveTruckBdn, RejectTruckBdn, DeleteTruckBdn,
         Move, TypeOK, OperationStatuses
<1>3. bdn' \in [Bdns -> {"none", "pending", "approved", "rejected"}] /\ round' = round
  BY DEF BdnStep, CreateTruckBdn, ApproveTruckBdn, RejectTruckBdn, DeleteTruckBdn, TypeOK
<1> QED
  BY <1>1, <1>2, <1>3 DEF TypeOK

LEMMA OperationTyped == TypeOK /\ OperationStep => TypeOK'
<1> SUFFICES ASSUME TypeOK, OperationStep
             PROVE  TypeOK'
  OBVIOUS
<1>1. RoadTypeOK' /\ round' = round /\ bdn' = bdn
  BY RoadUntouched DEF OperationStep, TransitionOperation, TypeOK
<1>2. op' \in OperationStatuses
  BY DEF OperationStep, TransitionOperation, Move, OperationStatuses
<1> QED
  BY <1>1, <1>2 DEF TypeOK

LEMMA NextTypeOK == TypeOK /\ [Next]_vars => TypeOK'
<1> SUFFICES ASSUME TypeOK, [Next]_vars
             PROVE  TypeOK'
  OBVIOUS
<1>1. CASE RoadStep
  <2>1. RoadTypeOK'
    BY <1>1, NextRoadTypeOK DEF RoadStep, TypeOK
  <2> QED
    BY <1>1, <2>1 DEF RoadStep, TypeOK
<1>2. CASE UNCHANGED vars
  BY <1>2 DEF vars, TypeOK, RoadTypeOK
<1> QED
  BY <1>1, <1>2, FeedbackTyped, BdnTyped, OperationTyped DEF Next

\* Every table keeps its row types, whatever the handlers do.
THEOREM TruckTypeCorrect == Spec => []TypeOK
  BY InitTypeOK, NextTypeOK, PTL DEF Spec

-----------------------------------------------------------------------------
(* The road, with feedback and Truck BDNs going on.                         *)

\* What is no step of the road leaves the ledger and, of every row, all but its
\* age against the rounds.
LEMMA OffRoad ==
  ASSUME TypeOK, [Next]_vars, ~RoadNext
  PROVE  /\ UNCHANGED <<rob, posted>>
         /\ \A r \in Rows : /\ row'[r].truck = row[r].truck
                           /\ row'[r].status = row[r].status
                           /\ row'[r].quantity = row[r].quantity
                           /\ row'[r].vessel = row[r].vessel
                           /\ row'[r].approved = row[r].approved
<1>0. row \in [Rows -> Row]
  BY DEF TypeOK, RoadTypeOK
<1>1. ASSUME NEW f \in Rounds, NEW trucks \in SUBSET Trucks, SubmitFeedback(f, trucks)
      PROVE  /\ UNCHANGED <<rob, posted>>
             /\ \A r \in Rows : /\ row'[r].truck = row[r].truck
                               /\ row'[r].status = row[r].status
                               /\ row'[r].quantity = row[r].quantity
                               /\ row'[r].vessel = row[r].vessel
                               /\ row'[r].approved = row[r].approved
  <2>1. UNCHANGED <<rob, posted>>
    BY <1>1 DEF SubmitFeedback, LedgerUnchanged
  <2>2. ASSUME NEW r \in Rows
        PROVE  /\ row'[r].truck = row[r].truck
               /\ row'[r].status = row[r].status
               /\ row'[r].quantity = row[r].quantity
               /\ row'[r].vessel = row[r].vessel
               /\ row'[r].approved = row[r].approved
    <3>1. row'[r] = row[r] \/ row'[r] = [row[r] EXCEPT !.later = row[r].later \cup {f}]
      BY <1>1 DEF SubmitFeedback
    <3> QED
      BY <1>0, <3>1 DEF Row
  <2> QED
    BY <2>1, <2>2
<1>2. ASSUME \/ \E f \in Rounds : ApproveFeedback(f) \/ RejectFeedback(f)
             \/ \E b \in Bdns : BdnStep(b)
             \/ OperationStep
             \/ UNCHANGED vars
      PROVE  UNCHANGED <<row, rob, posted>>
  BY <1>2 DEF ApproveFeedback, RejectFeedback, BdnStep, CreateTruckBdn, ApproveTruckBdn, RejectTruckBdn,
     DeleteTruckBdn, OperationStep, TransitionOperation, LedgerUnchanged, vars
<1> QED
  BY <1>1, <1>2 DEF Next, RoadStep, FeedbackStep

\* Feedback rounds and Truck BDNs change nothing of it: on the whole operation
\* too, a truck comes to be live twice only by the revival of a removed row.
THEOREM LiveOnceOnOperation == Spec => LiveOnceUnlessRevived
<1> DEFINE Kept == TruckLiveOnce => TruckLiveOnce' \/ \E r \in Rows :
       Revived(r) /\ row'[r].status \in {"arrived", "discharging", "completed"}
<1>1. TypeOK /\ [Next]_vars => [Kept]_roadVars
  <2> SUFFICES ASSUME TypeOK, [Next]_vars, TruckLiveOnce
               PROVE  TruckLiveOnce' \/ \E r \in Rows :
                        Revived(r) /\ row'[r].status \in {"arrived", "discharging", "completed"}
    OBVIOUS
  <2>1. CASE RoadNext
    BY <2>1, RowStepLiveOnce DEF RoadNext, TypeOK
  <2>2. CASE ~RoadNext
    BY <2>2, OffRoad DEF TruckLiveOnce, Live
  <2> QED
    BY <2>1, <2>2
<1> QED
  BY <1>1, TruckTypeCorrect, PTL DEF Spec, LiveOnceUnlessRevived

\* Nor do they come between the ledger and a row: it follows the row, but for
\* the three named ways out.
THEOREM LedgerAgreesOnOperation == Spec => LedgerFollowsRow
<1>1. TypeOK /\ [Next]_vars => [LedgerStep]_roadVars
  <2> SUFFICES ASSUME TypeOK, [Next]_vars, NEW s \in Rows, Agrees(s)
               PROVE  Agrees(s)' \/ Redelivered(s) \/ LateAssigned(s) \/ Overwritten(s)
    BY DEF LedgerStep
  <2>1. ASSUME NEW r \in Rows, RowStep(r)
        PROVE  Agrees(s)' \/ Redelivered(s) \/ LateAssigned(s) \/ Overwritten(s)
    <3>1. CASE s = r
      BY <2>1, <3>1, RowStepAgrees DEF TypeOK
    <3>2. CASE s # r
      BY <2>1, <3>2, OthersUntouched DEF Agrees, Posts, TypeOK
    <3> QED
      BY <3>1, <3>2
  <2>2. CASE ~RoadNext
    BY <2>2, OffRoad DEF Agrees, Posts
  <2> QED
    BY <2>1, <2>2 DEF RoadNext
<1> QED
  BY <1>1, TruckTypeCorrect, PTL DEF Spec, LedgerFollowsRow

-----------------------------------------------------------------------------
(* One active Truck BDN.                                                    *)

\* One active Truck BDN at a time, through rejection, deletion and
\* resubmission in any order.
THEOREM TruckDocumentedOnce == Spec => []OneActiveTruckBdn
<1>1. Init => OneActiveTruckBdn
  BY DEF Init, OneActiveTruckBdn
<1>2. TypeOK /\ OneActiveTruckBdn /\ [Next]_vars => OneActiveTruckBdn'
  <2> SUFFICES ASSUME TypeOK, OneActiveTruckBdn, [Next]_vars
               PROVE  OneActiveTruckBdn'
    OBVIOUS
  <2>1. ASSUME NEW b \in Bdns, BdnStep(b)
        PROVE  OneActiveTruckBdn'
    <3>1. ASSUME NEW role \in UserRoles, CreateTruckBdn(b, role)
          PROVE  OneActiveTruckBdn'
      BY <3>1 DEF CreateTruckBdn, OneActiveTruckBdn, TypeOK
    <3>2. ASSUME NEW role \in UserRoles, ApproveTruckBdn(b, role) \/ RejectTruckBdn(b, role)
          PROVE  OneActiveTruckBdn'
      BY <3>2 DEF ApproveTruckBdn, RejectTruckBdn, OneActiveTruckBdn, TypeOK
    <3>3. CASE DeleteTruckBdn(b)
      BY <3>3 DEF DeleteTruckBdn, OneActiveTruckBdn, TypeOK
    <3> QED
      BY <2>1, <3>1, <3>2, <3>3 DEF BdnStep
  <2>2. CASE UNCHANGED bdn
    BY <2>2 DEF OneActiveTruckBdn
  <2>3. ASSUME NEW f \in Rounds, FeedbackStep(f)
        PROVE  UNCHANGED bdn
    BY <2>3 DEF FeedbackStep, SubmitFeedback, ApproveFeedback, RejectFeedback
  <2>4. RoadStep \/ OperationStep \/ UNCHANGED vars => UNCHANGED bdn
    BY DEF RoadStep, OperationStep, TransitionOperation, vars
  <2> QED
    BY <2>1, <2>2, <2>3, <2>4 DEF Next
<1> QED
  BY <1>1, <1>2, TruckTypeCorrect, PTL DEF Spec

-----------------------------------------------------------------------------
(* Offered for adding only by an approval.                                  *)

\* A row nobody has used carries no truck.
Unused == \A r \in Rows : row[r].status = "none" => row[r].truck = NoTruck

LEMMA InitUnused == Init => Unused
  BY DEF Init, RoadInit, NoRow, Unused

\* A row in use, newer than every round, and still of the same truck.
Rewritten(r) == /\ row'[r].status # "none" /\ row'[r].later = {}
                /\ row[r].status # "none" => row'[r].truck = row[r].truck

\* That is what every handler of trucks makes of the row it writes.
LEMMA WrittenRow ==
  ASSUME TypeOK, NEW r \in Rows, RowStep(r)
  PROVE  Rewritten(r)
<1>0. row[r] \in Row /\ RoadTypeOK
  BY DEF TypeOK, RoadTypeOK
<1>a. ASSUME NEW new, Write(r, new), new \in Row, new.status # "none",
             row[r].status # "none" => new.truck = row[r].truck
      PROVE  Rewritten(r)
  <2>1. row'[r] = [new EXCEPT !.later = {}]
    BY <1>0, <1>a, WriteEffect
  <2> QED
    BY <1>a, <2>1 DEF Row, Rewritten
<1>b. ASSUME NEW from, NEW to \in Statuses \ {"none"}, MoveTo(r, from, to)
      PROVE  Rewritten(r)
  <2>1. [row[r] EXCEPT !.status = to] \in Row /\ to # "none"
    BY <1>0 DEF Row, Statuses
  <2>2. /\ [row[r] EXCEPT !.status = to].status = to
        /\ [row[r] EXCEPT !.status = to].truck = row[r].truck
    BY <1>0 DEF Row
  <2> QED
    BY <1>a, <1>b, <2>1, <2>2 DEF MoveTo
<1>1. ASSUME NEW t \in Trucks, NEW v \in Vessels \cup {NoVessel}, AddTruckToOperation(r, t, v)
      PROVE  Rewritten(r)
  <2>1. /\ [NoRow EXCEPT !.truck = t, !.status = "pending", !.vessel = v] \in Row
        /\ [NoRow EXCEPT !.truck = t, !.status = "pending", !.vessel = v].status = "pending"
    BY DEF NoRow, Row
  <2> QED
    BY <1>1, <1>a, <2>1 DEF AddTruckToOperation
<1>2. ASSUME NEW q \in Quantities \cup {NoQuantity, row[r].quantity},
             NEW v \in Vessels \cup {NoVessel}, NEW ended \in BOOLEAN,
             UpdateTruckOperation(r, q, v, ended)
      PROVE  Rewritten(r)
  <2> DEFINE new == [row[r] EXCEPT !.quantity = q, !.vessel = v, !.ended = ended]
  <2>1. new \in Row /\ new.status = row[r].status /\ new.truck = row[r].truck
    BY <1>0 DEF Row
  <2>2. Write(r, new) /\ row[r].status # "none"
    BY <1>2 DEF UpdateTruckOperation, Exists
  <2> QED
    BY <1>a, <2>1, <2>2
<1>3. CASE RemoveTruckFromOperation(r)
  <2> DEFINE new == [row[r] EXCEPT !.status = "cancelled"]
  <2>1. new \in Row /\ new.status = "cancelled" /\ new.truck = row[r].truck
    BY <1>0 DEF Row
  <2>2. Write(r, new)
    BY <1>3 DEF RemoveTruckFromOperation
  <2> QED
    BY <1>a, <2>1, <2>2
<1>4. CASE StartTransit(r) \/ EndTransit(r) \/ StartDischarge(r) \/ RecordArrivedDischarge(r)
  BY <1>4, <1>b DEF StartTransit, EndTransit, StartDischarge, RecordArrivedDischarge, Statuses
<1>5. CASE RecordDepartParking(r) \/ RecordDepartedLoading(r) \/ RecordDetail(r)
  <2>1. row[r].status \in Statuses \ {"none"}
    BY <1>5 DEF RecordDepartParking, RecordDepartedLoading, RecordDetail, MoveTo, Anywhere, Statuses
  <2> QED
    BY <1>5, <2>1, <1>b DEF RecordDepartParking, RecordDepartedLoading, RecordDetail, Statuses
<1>6. ASSUME NEW dest \in Destinations(r), NEW q \in Quantities, EndDischarge(r, q, dest)
      PROVE  Rewritten(r)
  <2> DEFINE Ended(approved) ==
               [row[r] EXCEPT !.status = "completed", !.quantity = q, !.ended = TRUE,
                  !.vessel = dest.vessel, !.named = dest.named, !.approved = approved]
  <2>1. dest.vessel \in Vessels \cup {NoVessel} /\ dest.named \in BOOLEAN
    BY <1>0, DestinationTyped DEF EditDestinations
  <2>2. ASSUME NEW approved \in BOOLEAN
        PROVE  /\ Ended(approved) \in Row /\ Ended(approved).status = "completed"
               /\ Ended(approved).truck = row[r].truck
    BY <1>0, <2>1 DEF Row
  <2>3. (dest.vessel # NoVessel \/ dest.named) \in BOOLEAN
    OBVIOUS
  <2>4. Write(r, Ended(dest.vessel # NoVessel \/ dest.named))
    BY <1>6 DEF EndDischarge
  <2>5. PICK approved \in BOOLEAN : Write(r, Ended(approved))
    BY <2>3, <2>4
  <2> QED
    BY <1>a, <2>2, <2>5
<1>7. ASSUME NEW dest \in EditDestinations(r), NEW q \in Quantities \cup {row[r].quantity},
             NEW ended \in {row[r].ended, TRUE}, EditDischargeRecord(r, q, dest, ended)
      PROVE  Rewritten(r)
  <2> DEFINE Edited(approved) ==
               [row[r] EXCEPT !.quantity = q, !.vessel = dest.vessel, !.named = dest.named,
                              !.ended = ended, !.approved = approved]
  <2>1. dest.vessel \in Vessels \cup {NoVessel} /\ dest.named \in BOOLEAN
    BY <1>0, DestinationTyped
  <2>2. q \in Quantities \cup {NoQuantity} /\ ended \in BOOLEAN
    BY <1>0 DEF Row
  <2>3. ASSUME NEW approved \in BOOLEAN
        PROVE  /\ Edited(approved) \in Row /\ Edited(approved).status = row[r].status
               /\ Edited(approved).truck = row[r].truck
    BY <1>0, <2>1, <2>2 DEF Row
  <2>4. PICK approved \in BOOLEAN : Write(r, Edited(approved))
    <3>1. Write(r, [row[r] EXCEPT !.quantity = q, !.vessel = dest.vessel, !.named = dest.named,
                      !.ended = ended,
                      !.approved = @ \/ (~@ /\ dest.vessel # NoVessel /\ Tonnes(q) > 0)])
      BY <1>7 DEF EditDischargeRecord
    <3> QED
      BY <3>1
  <2>5. row[r].status # "none"
    BY <1>7 DEF EditDischargeRecord, Live
  <2> QED
    BY <1>a, <2>3, <2>4, <2>5
<1> QED
  BY <1>1, <1>2, <1>3, <1>4, <1>5, <1>6, <1>7 DEF RowStep

LEMMA NextUnused == TypeOK /\ Unused /\ [Next]_vars => Unused'
<1> SUFFICES ASSUME TypeOK, Unused, [Next]_vars
             PROVE  Unused'
  OBVIOUS
<1>1. CASE RoadStep
  <2>1. PICK r \in Rows : RowStep(r)
    BY <1>1 DEF RoadStep, RoadNext
  <2>2. \A s \in Rows : s # r => row'[s] = row[s]
    BY <2>1, OthersUntouched DEF TypeOK
  <2> QED
    BY <2>1, <2>2, WrittenRow DEF Unused, Rewritten
<1>2. ASSUME NEW f \in Rounds, FeedbackStep(f)
      PROVE  Unused'
  <2>1. ASSUME NEW r \in Rows
        PROVE  row'[r].truck = row[r].truck /\ row'[r].status = row[r].status
    BY <1>2 DEF FeedbackStep, SubmitFeedback, ApproveFeedback, RejectFeedback,
                TypeOK, RoadTypeOK, Row
  <2> QED
    BY <2>1 DEF Unused
<1>3. ASSUME NEW b \in Bdns, BdnStep(b)
      PROVE  row' = row
  BY <1>3 DEF BdnStep, CreateTruckBdn, ApproveTruckBdn, RejectTruckBdn, DeleteTruckBdn
<1>4. OperationStep \/ UNCHANGED vars => row' = row
  BY DEF OperationStep, TransitionOperation, vars
<1> QED
  BY <1>1, <1>2, <1>3, <1>4 DEF Next, Unused

\* What makes a truck addable: an approved round newer than its removed rows.
Nominates(f, t) ==
  /\ round[f].status = "approved" /\ t \in round[f].trucks
  /\ \A r \in Rows : row[r].truck = t => ~Live(r) /\ f \in row[r].later

\* No handler of trucks makes a nomination good that was not good before: the
\* row it writes is newer than the round.
LEMMA RoadNominates ==
  ASSUME TypeOK, Unused, RoadStep, NEW t \in Trucks, NEW f \in Rounds, Nominates(f, t)'
  PROVE  Nominates(f, t)
<1>1. PICK r \in Rows : RowStep(r)
  BY DEF RoadStep, RoadNext
<1>2. \A s \in Rows : s # r => row'[s] = row[s]
  BY <1>1, OthersUntouched DEF TypeOK
<1>3. Rewritten(r)
  BY <1>1, WrittenRow
<1>4. row'[r].truck # t
  BY <1>3 DEF Nominates, Rewritten
<1>5. row[r].truck # t
  BY <1>3, <1>4, RoadAssumption DEF Unused, Rewritten
<1> QED
  BY <1>2, <1>5 DEF Nominates, RoadStep, Live

\* A submission makes no nomination good either: it is itself still pending.
LEMMA SubmitNominates ==
  ASSUME TypeOK, Unused, NEW g \in Rounds, NEW trucks \in SUBSET Trucks,
         SubmitFeedback(g, trucks), NEW t \in Trucks, NEW f \in Rounds, Nominates(f, t)'
  PROVE  Nominates(f, t)
<1>1. f # g /\ round'[f] = round[f]
  BY DEF SubmitFeedback, Nominates, TypeOK
<1>2. ASSUME NEW r \in Rows, row[r].truck = t
      PROVE  ~Live(r) /\ f \in row[r].later
  <2>1. Exists(r)
    BY <1>2, RoadAssumption DEF Exists, Unused
  <2>2. row'[r] = [row[r] EXCEPT !.later = row[r].later \cup {g}]
    BY <2>1 DEF SubmitFeedback
  <2>3. row[r] \in Row
    BY DEF TypeOK, RoadTypeOK
  <2>4. /\ row'[r].truck = t /\ row'[r].status = row[r].status
        /\ row'[r].later = row[r].later \cup {g}
    BY <1>2, <2>2, <2>3 DEF Row
  <2> QED
    BY <1>1, <2>4 DEF Nominates, Live
<1> QED
  BY <1>1, <1>2 DEF Nominates

LEMMA NextOffers == TypeOK /\ Unused /\ [Next]_vars => OfferStep
<1> SUFFICES ASSUME TypeOK, Unused, [Next]_vars, NEW t \in Trucks,
                    t \in Addable', t \notin Addable
             PROVE  \E f \in Rounds : /\ t \in round[f].trucks
                                      /\ round[f].status = "pending"
                                      /\ round'[f].status = "approved"
  BY DEF OfferStep, Addable
<1>1. PICK f \in Rounds : Nominates(f, t)'
  BY DEF Addable, Nominates, Live
<1>2. ~Nominates(f, t)
  BY DEF Addable, Nominates
<1>3. ~RoadStep
  BY <1>1, <1>2, RoadNominates
<1>4. \A g \in Rounds, trucks \in SUBSET Trucks : ~SubmitFeedback(g, trucks)
  BY <1>1, <1>2, SubmitNominates
<1>5. ASSUME row' = row, round' = round
      PROVE  FALSE
  BY <1>1, <1>2, <1>5 DEF Nominates, Live
<1>6. \A g \in Rounds : ~RejectFeedback(g)
  <2>1. ASSUME NEW g \in Rounds, RejectFeedback(g)
        PROVE  FALSE
    <3>1. row' = row /\ f # g /\ round'[f] = round[f]
      BY <1>1, <2>1 DEF RejectFeedback, Nominates, TypeOK
    <3> QED
      BY <1>1, <1>2, <3>1 DEF Nominates, Live
  <2> QED
    BY <2>1
<1>7. ASSUME NEW g \in Rounds, ApproveFeedback(g)
      PROVE  \E h \in Rounds : /\ t \in round[h].trucks
                               /\ round[h].status = "pending" /\ round'[h].status = "approved"
  <2>1. row' = row /\ round[g].status = "pending" /\ round'[g].status = "approved"
    BY <1>7 DEF ApproveFeedback, TypeOK
  <2>2. CASE f = g
    BY <1>1, <1>7, <2>1, <2>2 DEF Nominates, ApproveFeedback, TypeOK
  <2>3. CASE f # g
    <3>1. round'[f] = round[f]
      BY <1>7, <2>3 DEF ApproveFeedback, TypeOK
    <3> QED
      BY <1>1, <1>2, <2>1, <3>1 DEF Nominates, Live
  <2> QED
    BY <2>2, <2>3
<1>8. \A b \in Bdns : ~BdnStep(b)
  BY <1>5 DEF BdnStep, CreateTruckBdn, ApproveTruckBdn, RejectTruckBdn, DeleteTruckBdn
<1>9. ~OperationStep /\ ~UNCHANGED vars
  BY <1>5 DEF OperationStep, TransitionOperation, vars
<1> QED
  BY <1>3, <1>4, <1>6, <1>7, <1>8, <1>9 DEF Next, FeedbackStep

\* A truck comes to be offered only when a round that nominates it is
\* approved, whatever else happens to its rows and to the operation.
THEOREM OfferedByApproval == Spec => OfferedOnlyByApproval
<1>1. TypeOK /\ Unused /\ [Next]_vars => [OfferStep]_vars
  BY NextOffers
<1> QED
  BY <1>1, InitUnused, NextUnused, TruckTypeCorrect, PTL DEF Spec, OfferedOnlyByApproval

-----------------------------------------------------------------------------
(* Reviews move on.                                                         *)

\* A review settles what it reviews and takes the operation out of the status
\* that waits for it, or leaves it where it was already past it.
LEMMA NextReviews == TypeOK /\ [Next]_vars => ReviewStep
<1> SUFFICES ASSUME TypeOK, [Next]_vars
             PROVE  ReviewStep
  OBVIOUS
<1>1. ASSUME NEW f \in Rounds, FeedbackStep(f)
      PROVE  /\ bdn' = bdn
             /\ FeedbackReviewed => op' # "feedback_submitted"
  <2>1. bdn' = bdn
    BY <1>1 DEF FeedbackStep, SubmitFeedback, ApproveFeedback, RejectFeedback
  <2>2. ASSUME NEW trucks \in SUBSET Trucks, SubmitFeedback(f, trucks)
        PROVE  ~FeedbackReviewed
    BY <2>2 DEF SubmitFeedback, FeedbackReviewed, TypeOK
  <2>3. ApproveFeedback(f) \/ RejectFeedback(f) => op' # "feedback_submitted"
    BY DEF ApproveFeedback, RejectFeedback, Move
  <2> QED
    BY <1>1, <2>1, <2>2, <2>3 DEF FeedbackStep
<1>2. ASSUME NEW b \in Bdns, BdnStep(b)
      PROVE  /\ round' = round
             /\ BdnReviewed => op' # "bdn_pending"
  <2>1. round' = round
    BY <1>2 DEF BdnStep, CreateTruckBdn, ApproveTruckBdn, RejectTruckBdn, DeleteTruckBdn
  <2>2. ASSUME NEW role, CreateTruckBdn(b, role) \/ DeleteTruckBdn(b)
        PROVE  ~BdnReviewed
    BY <2>2 DEF CreateTruckBdn, DeleteTruckBdn, BdnReviewed, TypeOK
  <2>3. ASSUME NEW role, ApproveTruckBdn(b, role) \/ RejectTruckBdn(b, role)
        PROVE  op' # "bdn_pending"
    BY <2>3 DEF ApproveTruckBdn, RejectTruckBdn, Move
  <2> QED
    BY <1>2, <2>1, <2>2, <2>3 DEF BdnStep
<1>3. CASE RoadStep \/ OperationStep \/ UNCHANGED vars
  <2>1. round' = round /\ bdn' = bdn
    BY <1>3 DEF RoadStep, OperationStep, TransitionOperation, vars
  <2> QED
    BY <2>1 DEF ReviewStep, FeedbackReviewed, BdnReviewed
<1> QED
  BY <1>1, <1>2, <1>3 DEF Next, ReviewStep, FeedbackReviewed, BdnReviewed

\* A review never leaves the operation waiting with nothing to review.
THEOREM ReviewsMoveOn == Spec => TruckReviewMovesOn
<1>1. TypeOK /\ [Next]_vars => [ReviewStep]_vars
  BY NextReviews
<1> QED
  BY <1>1, TruckTypeCorrect, PTL DEF Spec, TruckReviewMovesOn

=============================================================================
