SPECIFICATION MCSpec
CONSTANTS
  NumCh = 2
  MaxEvents = 3
  MaxFails = 2
  HighSpeed = {5, 7}
  N1 = {8, 200}
  Reference <- MCReference
INVARIANTS EventsOnceWhole FrequencySet
PROPERTIES HeadComesOut ChangedWhileFrozen
CHECK_DEADLOCK FALSE
