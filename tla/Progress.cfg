SPECIFICATION ProgressSpec
CONSTANTS
  smtp = smtp sender = sender scheduled = scheduled l1 = l1 l2 = l2
  a1 = a1 p1 = p1 p2 = p2 k1 = k1 NoProcess = NoProcess NoClient = NoClient
  \* Grants: an agent that registers itself, a daemon, an administrator that may die
  Processes = {p1, p2} Serving = {p1} Mortal = {p2} Interactive = {a1} Service = {} Calls = {k1}
  Capped = {} Cap = 1 Window = 1 MaxPending = 1 PendingTTL = 0 Expiries = {} MaxTime = 2 Faults = FALSE
  \* ConfigLock: three writers, two of them in one process
  Writers <- ThreeWriters ProcessOf <- TwoShareAProcess
  LOCK_MAX_RETRIES = 2 MaxDeaths = 1 Undisturbed = TRUE
 
PROPERTIES QueueMoves CallsEnd RequestsResolve
CHECK_DEADLOCK FALSE
