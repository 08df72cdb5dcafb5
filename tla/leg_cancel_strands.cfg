SPECIFICATION Spec
CONSTANTS
  r1 = r1
  l1 = l1
  Types = {"vessel_only"}
  Runs = {r1}
  Legs = {l1, l2}
  Bdns = {b1, b2}
  NoRun = NoRun
  NoLeg = NoLeg
  NoFigure = NoFigure
  RunStages = 1
  LegStages = 1
  Quantities = {1}
  Readings = {2}
  InitialRob = 5
SYMMETRY Symmetry
PROPERTY LegCancelNeverStrands
CONSTRAINT Bounds
CHECK_DEADLOCK FALSE
