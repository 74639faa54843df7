SPECIFICATION ServiceSpec
CONSTANTS
  p1 = p1 p2 = p2 a1 = a1 a2 = a2 s1 = s1 k1 = k1 k2 = k2
  Processes = {p1,p2} Serving = {p1,p2} Interactive = {}  Service = {s1}  Calls = {k1,k2}
  Capped = {s1} Cap = 1 Window = 1 MaxPending = 1 PendingTTL = 0 Expiries = {1} MaxTime = 1
  Mortal = {p1, p2} Faults = TRUE NoProcess = NoProcess NoClient = NoClient
INVARIANTS OnlyTheApproved LedgerHolds
SYMMETRY Alike
