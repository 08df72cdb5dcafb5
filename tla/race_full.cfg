SPECIFICATION FairSpec
CONSTANTS
  OpType = "full_operation"
  Requests = {q1, q2}
  b1 = b1
  b2 = b2
  load = load
  d1 = d1
  d2 = d2
  v1 = v1
  v2 = v2
  Bdns = {b1, b2, load}
  Deliveries = {d1, d2}
  Loading = Loading
  For <- MCFor
  Barges = {v1, v2}
  Layouts <- MCLayouts
  Mt <- MCMt
  InitialRob = 5
  Free = Free
INVARIANT LastApprovalOpensGate
INVARIANT RingsNeedOneBdn
PROPERTY DriftsOnlyUnseen
PROPERTY GateCountsOnlyApprovals
PROPERTY ReviewsEnd
CHECK_DEADLOCK FALSE
