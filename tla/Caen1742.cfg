SPECIFICATION MCSpec
CONSTANTS
  Boards = {b1, b2}
  NumAdcGroups = 2
  MaxEvents = 2
  MaxFails = 1
  MaxLives = 2
  FlashChannels = {0, 1, 9}
  MaxRetries = 1
  MaxFlashFails = 2
INVARIANTS EventInItsGroups DamageStaysWithItsPage SignalRestored
PROPERTY EventsComeOut
CHECK_DEADLOCK FALSE
