CONSTANTS
  Callers = {1, 2}
  MaxSockets = 3
  MaxLoops = 2
  MaxChanges = 2
SPECIFICATION Spec
INVARIANT ConnectionsHold
PROPERTY IdleRecovers
CHECK_DEADLOCK FALSE
