SPECIFICATION Spec
CONSTANTS
  OpType = "truck_only"
  Trucks = {t1}
  Rows = {r1, r2}
  Vessels = {v1, v2}
  Rounds = {f1, f2}
  NoTruck = NoTruck
  NoVessel = NoVessel
  Bdns = {b1, b2}
  Quantities = {0, 2}
  MaxPosted = 4
  InitialRob = 0
SYMMETRY Symmetry
CONSTRAINT OneThingAtATime
INVARIANT OneActiveTruckBdn
PROPERTY OfferedOnlyByApproval
PROPERTY TruckReviewMovesOn
PROPERTY LiveOnceUnlessRevived
PROPERTY LedgerFollowsRow
CHECK_DEADLOCK FALSE
