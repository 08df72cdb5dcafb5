SPECIFICATION Spec
CONSTANTS
  o1 = o1
  o2 = o2
  b1 = b1
  Operations = {o1, o2}
  NoOperation = NoOperation
  Pfis = {p1}
  NoPfi = NoPfi
  Allocations = {a1, a2}
  NoAllocation = NoAllocation
  Payments = {y1}
  Invoices = {i1, i2}
  NoInvoice = NoInvoice
  Bdns = {b1}
  NoBdn = NoBdn
  BdnOf <- BdnOfDef
  Vouchers = {v1, v2}
  NoVoucher = NoVoucher
  Officers = {u1, m1}
  BunkerManagers = {m1}
  NoOne = NoOne
  Requests = {q1, q2}
  MaxLitres = 2
SYMMETRY Symmetry
CONSTRAINT OneAreaAtATime
PROPERTIES
  OverdrawnOnlyUnseen
  BilledForGood
  FinalChangesOnlyUnseen
