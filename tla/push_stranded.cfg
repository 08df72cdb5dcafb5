SPECIFICATION PushSpec
CONSTANTS
  Sessions = {s1, s2}
  Pushes = {p1, p2}
  Users = {u1, u2}
  Nobody = Nobody
  Devices = {e1, e2}
INVARIANT NeverLeftBehind
