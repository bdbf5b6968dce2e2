SPECIFICATION MCSpec
CONSTANTS
  N = 2
  Device <- Struck
  Calls = {"StartRun", "StopRun", "Build", "FlushEventData"}
  kMaxQueueSize = 1
  MaxTriggers = 2
INVARIANT Aligned
PROPERTY NoHoles
