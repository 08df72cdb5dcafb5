SPECIFICATION Spec
CONSTANTS
  Vessels = {v1, v2}
  NoVessel = NoVessel
  Collections = {c1}
  NoCollection = NoCollection
  Requests = {q1, q2}
  MaxMt = 2
  MaxRob = 2
SYMMETRY Symmetry
CONSTRAINT WithinBounds
PROPERTIES
  LosesWhatItMissed
  LedgerFollowsReceipt
  CancelledForGood
  BelowZeroOnlyUnguarded
