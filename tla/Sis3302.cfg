SPECIFICATION DeviceFairSpec
CONSTANTS
  Clients = {c1}
  Worker = w
  NoThread = none
  Device = "Sis3302"
  kMaxQueueSize = 100
  MaxEvents = 3
  Spaced = TRUE
  BusFails = FALSE
  MaxTriggers = 2
  MaxAsked = 1
INVARIANTS RecordsKept NoUnaskedTrigger
PROPERTIES RearmedInTheEnd
