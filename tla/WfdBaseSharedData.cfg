SPECIFICATION Spec
CONSTANTS
  Clients = {c1, c2}
  Worker = w
  NoThread = none
  Device = "Sis3302"
  kMaxQueueSize = 100
  MaxEvents = 3
INVARIANT EachEventOnce
