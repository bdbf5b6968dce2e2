SPECIFICATION FairSpec
CONSTANTS
  Clients = {c1}
  Worker = w
  NoThread = none
  Device = "Sis3350"
  kMaxQueueSize = 2
  MaxEvents = 4
INVARIANTS NoHiddenEvent OldestFirst
PROPERTIES FifoSpec EveryEventComesOut
