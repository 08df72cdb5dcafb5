------------------------------ MODULE TruckRoad ------------------------------
(***************************************************************************)
(* A truck's journey on one operation: its rows (TruckOperation) from       *)
(* joining the operation to the end of discharge, and the ROB postings the  *)
(* discharge and its corrections make on the barges it discharged into.     *)
(*                                                                         *)
(* One action per request handler of truck_service, each one committed      *)
(* transaction; a 4xx answer is an action that is not enabled.  No handler  *)
(* here asks the operation's status.                                        *)
(***************************************************************************)
EXTENDS Integers, FiniteSetsExt

CONSTANTS
  Trucks, Rows, Vessels,
  Rounds,        \* truck feedback rounds (TruckFeedback)
  NoTruck, NoVessel,
  Quantities,    \* tonnages a caller may enter
  MaxPosted,     \* bound on what one row may post on one barge
  InitialRob

ASSUME RoadAssumption ==
  /\ NoTruck \notin Trucks
  /\ NoVessel \notin Vessels
  /\ Quantities \subseteq Nat
  /\ MaxPosted \in Nat
  /\ InitialRob \in Int

VARIABLES
  row,     \* truck_operations
  rob,     \* vessels.current_rob_mt
  posted   \* rob_entries: net tonnage per row and barge

roadVars == <<row, rob, posted>>

NoQuantity == -1
Tonnes(q)  == IF q = NoQuantity THEN 0 ELSE q

\* approved: discharge_approved is True; its False has no writer any more.
\* later: the rounds submitted since the row's updated_at.
Row == [truck: Trucks \cup {NoTruck},
        status: {"none", "pending", "loading", "in_transit", "arrived",
                 "discharging", "completed", "cancelled"},
        quantity: Quantities \cup {NoQuantity},
        vessel: Vessels \cup {NoVessel},   \* destination_vessel_id
        named: BOOLEAN,                    \* destination_vessel_name is set
        approved: BOOLEAN,
        ended: BOOLEAN,                    \* discharge_end_at is set
        later: SUBSET Rounds]

RoadTypeOK ==
  /\ row \in [Rows -> Row]
  /\ rob \in [Vessels -> Int]
  /\ posted \in [Rows -> [Vessels -> Int]]

NoRow == [truck |-> NoTruck, status |-> "none", quantity |-> NoQuantity,
          vessel |-> NoVessel, named |-> FALSE, approved |-> FALSE,
          ended |-> FALSE, later |-> {}]

RoadInit ==
  /\ row = [r \in Rows |-> NoRow]
  /\ rob = [v \in Vessels |-> InitialRob]
  /\ posted = [r \in Rows |-> [v \in Vessels |-> 0]]

-----------------------------------------------------------------------------

Exists(r) == row[r].status # "none"

\* truck_op_is_live: a removed truck keeps its row.
Live(r) == row[r].status \notin {"none", "cancelled"}

\* Variant the runs must reject: a finished row no longer counts.
Busy(r) == row[r].status \notin {"none", "cancelled", "completed"}

\* A handler writes a row, which also sets its updated_at.
Write(r, new) == row' = [row EXCEPT ![r] = [new EXCEPT !.later = {}]]

LedgerUnchanged == UNCHANGED <<rob, posted>>

Credit(vessel, q) == [v \in Vessels |-> IF v = vessel THEN Tonnes(q) ELSE 0]

Minus(x, y) == [v \in Vessels |-> x[v] - y[v]]
Zero == [v \in Vessels |-> 0]

Post(r, delta) ==
  /\ rob' = [v \in Vessels |-> rob[v] + delta[v]]
  /\ posted' = [posted EXCEPT ![r] = [v \in Vessels |-> @[v] + delta[v]]]

\* What a discharge or a correction may make of the destination: keep it,
\* name a barge of the fleet, or write the name of another in free text.
Destinations(r) ==
  {[vessel |-> row[r].vessel, named |-> row[r].named],
   [vessel |-> NoVessel, named |-> TRUE]}
    \cup {[vessel |-> v, named |-> FALSE] : v \in Vessels}

\* A correction may also blank the name, which leaves no destination.
Blank == [vessel |-> NoVessel, named |-> FALSE]
EditDestinations(r) == Destinations(r) \cup {Blank}

-----------------------------------------------------------------------------
(* The handlers.                                                            *)

\* Variant the runs must reject: only unfinished rows are in the way.
AddTruckUnlessBusy(r, t, vessel) ==
  /\ row[r].status = "none"
  /\ ~\E other \in Rows : row[other].truck = t /\ Busy(other)
  /\ Write(r, [NoRow EXCEPT !.truck = t, !.status = "pending", !.vessel = vessel])
  /\ LedgerUnchanged

AddTruckToOperation(r, t, vessel) ==
  /\ row[r].status = "none"
  /\ ~\E other \in Rows : row[other].truck = t /\ Live(other)
  /\ Write(r, [NoRow EXCEPT !.truck = t, !.status = "pending", !.vessel = vessel])
  /\ LedgerUnchanged

\* A plain overwrite: the ledger is not told, the free-text name stays.
UpdateTruckOperation(r, q, vessel, ended) ==
  /\ Exists(r)
  /\ Write(r, [row[r] EXCEPT !.quantity = q, !.vessel = vessel, !.ended = ended])
  /\ LedgerUnchanged

\* Variant the runs must reject: updated_at is left as it was.
RemoveUntouched(r) ==
  /\ Exists(r)
  /\ row[r].quantity = NoQuantity /\ ~row[r].ended
  /\ row[r].status \notin {"discharging", "completed"}
  /\ row' = [row EXCEPT ![r].status = "cancelled"]
  /\ LedgerUnchanged

RemoveTruckFromOperation(r) ==
  /\ Exists(r)
  /\ row[r].quantity = NoQuantity /\ ~row[r].ended
  /\ row[r].status \notin {"discharging", "completed"}
  /\ Write(r, [row[r] EXCEPT !.status = "cancelled"])
  /\ LedgerUnchanged

MoveTo(r, from, to) ==
  /\ row[r].status \in from
  /\ Write(r, [row[r] EXCEPT !.status = to])
  /\ LedgerUnchanged

Anywhere == {"pending", "loading", "in_transit", "arrived", "discharging",
             "completed", "cancelled"}

StartTransit(r)   == MoveTo(r, {"pending", "loading"}, "in_transit")
EndTransit(r)     == MoveTo(r, {"in_transit"}, "arrived")
StartDischarge(r) == MoveTo(r, Anywhere \ {"discharging", "completed"}, "discharging")

\* Telemetry milestones.  Arrival at the discharge point asks nothing; the
\* others leave the status alone once the truck is past them.
RecordArrivedDischarge(r) == MoveTo(r, Anywhere, "arrived")
RecordDepartParking(r) ==
  MoveTo(r, Anywhere, IF row[r].status = "pending" THEN "in_transit" ELSE row[r].status)
RecordDepartedLoading(r) ==
  MoveTo(r, Anywhere, IF row[r].status \in {"pending", "in_transit"} THEN "loading"
                      ELSE row[r].status)

\* Arrival at loading, custom events, waybills and loading measurements write
\* columns no guard here reads; they count as an update of the row.
RecordDetail(r) == MoveTo(r, Anywhere, row[r].status)

\* Straight through, no approval gate: the barge is credited at once.
EndDischarge(r, q, dest) ==
  /\ Exists(r) /\ row[r].status # "completed"
  /\ Write(r, [row[r] EXCEPT !.status = "completed", !.quantity = q, !.ended = TRUE,
                             !.vessel = dest.vessel, !.named = dest.named,
                             !.approved = dest.vessel # NoVessel \/ dest.named])
  /\ Post(r, Credit(dest.vessel, q))

\* Variant the runs must reject: the correction forgets the reversal.
EditWithoutReversal(r, q, dest, ended) ==
  LET old == row[r]
      fresh == ~old.approved /\ dest.vessel # NoVessel /\ Tonnes(q) > 0
  IN  /\ Live(r)
      /\ Write(r, [old EXCEPT !.quantity = q, !.vessel = dest.vessel, !.named = dest.named,
                              !.ended = ended, !.approved = @ \/ fresh])
      /\ Post(r, IF fresh \/ (old.approved /\ old.vessel # NoVessel)
                   THEN Credit(dest.vessel, q) ELSE Zero)

\* A delivery already credited to a barge is reversed there and credited
\* anew; one that was never approved is credited fresh.  Crediting a barge
\* where there was nothing to reverse fails on an unset label and rolls back.
EditDischargeRecord(r, q, dest, ended) ==
  LET old      == row[r]
      credited == old.approved /\ old.vessel # NoVessel
      fresh    == ~old.approved /\ dest.vessel # NoVessel /\ Tonnes(q) > 0
      changed  == dest.vessel # old.vessel \/ q # old.quantity
  IN  /\ Live(r)
      /\ ~(credited /\ changed /\ Tonnes(old.quantity) = 0
             /\ dest.vessel # NoVessel /\ Tonnes(q) > 0)
      /\ Write(r, [old EXCEPT !.quantity = q, !.vessel = dest.vessel, !.named = dest.named,
                              !.ended = ended, !.approved = @ \/ fresh])
      /\ Post(r, IF credited THEN Minus(Credit(dest.vessel, q), Credit(old.vessel, old.quantity))
                 ELSE IF fresh THEN Credit(dest.vessel, q)
                 ELSE Zero)

-----------------------------------------------------------------------------

RowStep(r) ==
  \/ \E t \in Trucks, v \in Vessels \cup {NoVessel} : AddTruckToOperation(r, t, v)
  \/ \E q \in Quantities \cup {NoQuantity, row[r].quantity},
        v \in Vessels \cup {NoVessel}, ended \in BOOLEAN : UpdateTruckOperation(r, q, v, ended)
  \/ RemoveTruckFromOperation(r)
  \/ StartTransit(r) \/ EndTransit(r) \/ StartDischarge(r)
  \/ RecordDepartParking(r) \/ RecordDepartedLoading(r) \/ RecordArrivedDischarge(r)
  \/ RecordDetail(r)
  \/ \E q \in Quantities, dest \in Destinations(r) : EndDischarge(r, q, dest)
  \/ \E q \in Quantities \cup {row[r].quantity}, dest \in EditDestinations(r),
        ended \in {row[r].ended, TRUE} : EditDischargeRecord(r, q, dest, ended)

PostedBound == \A r \in Rows, v \in Vessels : posted'[r][v] \in -MaxPosted..MaxPosted

RoadNext == \E r \in Rows : RowStep(r) /\ PostedBound

RoadSpec == RoadInit /\ [][RoadNext]_roadVars

-----------------------------------------------------------------------------
(* Properties.                                                              *)

\* A truck is live on the operation at most once, as add_truck_to_operation
\* says of its guard.
TruckLiveOnce ==
  \A r, s \in Rows : r # s /\ Live(r) /\ Live(s) => row[r].truck # row[s].truck

\* A removed truck's row is put back on the road.
Revived(r) == row[r].status = "cancelled" /\ row'[r].status # "cancelled"

\* Adding, removing, telemetry and corrections never put a truck on the
\* operation twice, except by reviving a row that was removed: starting its
\* discharge, ending it, or recording its arrival.
LiveOnceUnlessRevived ==
  [][TruckLiveOnce => TruckLiveOnce' \/ \E r \in Rows :
       Revived(r) /\ row'[r].status \in {"arrived", "discharging", "completed"}]_roadVars

\* The ledger holds what the row says: its tonnage on its barge once the
\* discharge is approved, nothing anywhere else.
Posts(r, v)   == IF row[r].approved /\ row[r].vessel = v THEN Tonnes(row[r].quantity) ELSE 0
Agrees(r)     == \A v \in Vessels : posted[r][v] = Posts(r, v)

\* The three ways out of agreement.
Redelivered(r)   == row[r].approved /\ row[r].status # "completed" /\ row'[r].status = "completed"
LateAssigned(r)  == row[r].approved /\ row[r].vessel = NoVessel /\ row'[r].vessel # NoVessel
Overwritten(r)   == row[r].approved /\ UNCHANGED <<rob, posted>>

LedgerStep ==
  \A r \in Rows : Agrees(r) =>
    Agrees(r)' \/ Redelivered(r) \/ LateAssigned(r) \/ Overwritten(r)

\* Discharges and corrections keep the ledger in step with the row, through
\* any change of tonnage or barge, except when an approved row is discharged
\* again, when a free-text delivery is assigned a barge after the fact, and
\* when an approved row is overwritten with no correction at all.
LedgerFollowsRow == [][LedgerStep]_roadVars
=============================================================================
