SPECIFICATION DMSpec
CONSTANTS Instances = {1} Pids = {2} MaxBoots = 1 LateRebuild = TRUE
INVARIANT QueueKept
CHECK_DEADLOCK FALSE
