SPECIFICATION Spec
CONSTANTS
  p = p q = q b1 = b1 b2 = b2 k1 = k1 k2 = k2 r1 = r1 r2 = r2
  Ids = {p, q} Primary = p Boxes = {b1, b2} NoBox = NoBox Keys = {k1, k2} NoKey = NoKey
  Requests = {r1, r2} MaxJobs = 1
INVARIANTS  OwnMailboxOnly
PROPERTIES NewestRegistryWins
SYMMETRY Interchangeable
CHECK_DEADLOCK FALSE
