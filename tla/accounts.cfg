SPECIFICATION AccountsSpec
CONSTANTS
  Users = {u1, u2}
  Calls = {q1, q2}
  Roles = {"bunker_manager", "finance_manager"}
  Nobody = Nobody
  MaxMinted = 2
  MaxFaults = 1
SYMMETRY Symmetry
CONSTRAINT FewMinted
PROPERTIES
  LastManagerLeavesOnlyStale
  OrphansNeedAFault
CHECK_DEADLOCK FALSE
