SPECIFICATION Spec
CONSTANTS
  Vessels = {v1}
  NoVessel = NoVessel
  Collections = {c1}
  NoCollection = NoCollection
  Requests = {q1, q2}
  MaxMt = 1
  MaxRob = 2
CONSTRAINT WithinBounds
PROPERTIES
  ApprovalLosesNothing
