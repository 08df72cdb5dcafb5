SPECIFICATION Spec
CONSTANTS
  r1 = r1
  l1 = l1
  Types = {"full_operation", "vessel_only"}
  Runs = {r1, r2}
  Legs = {l1, l2}
  Bdns = {b1, b2, b3}
  NoRun = NoRun
  NoLeg = NoLeg
  NoFigure = NoFigure
  RunStages = 2
  LegStages = 2
  Quantities = {1, 2}
  Readings = {2}
  InitialRob = 5
SYMMETRY Symmetry
CONSTRAINT Bounds
INVARIANT OneActiveBdnPerDelivery
INVARIANT BdnRestsOnFinishedDelivery
INVARIANT RobFollowsApprovals
INVARIANT RobBalances
PROPERTY GateOpensOnlyWhenNothingOwed
PROPERTY PendingCompletionMeansDelivered
PROPERTY CompletedStaysClosed
PROPERTY ReviewNeverStrands
CHECK_DEADLOCK FALSE
