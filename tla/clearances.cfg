SPECIFICATION Spec
CONSTANTS
  Ppdls = {p1}
  NoPpdl = NoPpdl
  Bfls = {b1, b2}
  NoBfl = NoBfl
  Clearances = {c1}
  NoClearance = NoClearance
  Requests = {q1, q2}
  MaxLitres = 3
  MaxDrawdowns = 2
  Operations = {o1}
  Vessels = {v1}
  CastOff = CastOff
  Notices = {n1, n2}
SYMMETRY Symmetry
CONSTRAINT InTurn
INVARIANT MailedWasApproved
PROPERTIES
  BflOverdrawnOnlyUnseen
  PpdlOverissuedOnlyUnseen
  SettledNoticeIsFinal
  EtaHistoryKept
