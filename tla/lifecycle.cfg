SPECIFICATION Spec
CONSTANTS
  Operations = {o1, o2, o3}
  NoOperation = NoOperation
  Types = {"vessel_only", "truck_only"}
  Tasks = {t1}
  Superintendents = {cs}
  LogisticsOfficers = {lo}
  NoUser = NoUser
  Requests = {q1, q2}
SYMMETRY Symmetry
CONSTRAINT OneFamily
INVARIANT NeverStranded
INVARIANT RevisionsNumbered
PROPERTY ClosedForGood
CHECK_DEADLOCK FALSE
