SPECIFICATION FairSpec
CONSTANTS
  Clients = {c1}
  Worker = w
  NoThread = none
  Device = "Sis3302"
  kMaxQueueSize = 100
  MaxEvents = 4
INVARIANTS TypeOK SeenEventIsThere NoPhantomEvent AtMostOneLate NoEventLost
PROPERTIES StopReturns
