--------------------------- MODULE MCTruckDelivery ---------------------------
(* Small instances of TruckDelivery for TLC.                                *)
EXTENDS TruckDelivery, AccessControl, TLC

\* The handlers' role guards are those of their routes.
ASSUME GuardsOfRoutes ==
  /\ Admitted("create_truck_bdn") = BdnSubmitters
  /\ \A n \in {"approve_truck_bdn", "reject_truck_bdn"} : Admitted(n) = OperationManagers

Symmetry ==
  Permutations(Rows) \cup Permutations(Vessels) \cup Permutations(Bdns) \cup Permutations(Rounds)

Joined == {r \in Rows : row[r].status # "none"}
Barges == {v \in Vessels : \E r \in Rows : row[r].vessel = v \/ posted[r][v] # 0}

Bargeless == Barges = {} /\ \A r \in Rows : row[r].quantity = NoQuantity /\ ~row[r].named

\* The handlers of a truck's journey ask nothing of the operation, and those of
\* its reviews nothing of the ledger: two rows meet with the operation at rest and
\* no barge, one row meets either the barges or the reviews.
OperationAtRest ==
  /\ op = "awaiting_feedback"
  /\ \A f \in Rounds : round[f].status = "none"
  /\ \A b \in Bdns : bdn[b] = "none"

OneThingAtATime ==
  /\ OperationAtRest \/ Bargeless
  /\ Cardinality(Joined) = 2 => OperationAtRest /\ Bargeless
=============================================================================
