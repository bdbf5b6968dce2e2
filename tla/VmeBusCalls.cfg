SPECIFICATION FairSpec
CONSTANTS
  Digitizers = {d1, d2}
  Boards = {b1}
  NoThread = none
  Methods = {"ReadTrace"}
  max_read_attempts_ = 1
INVARIANTS OneBridge NothingHeld
PROPERTIES CallsReturn
