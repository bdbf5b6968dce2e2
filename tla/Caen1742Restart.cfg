SPECIFICATION Spec
CONSTANTS
  Boards = {b1}
  NumAdcGroups = 1
  MaxEvents = 1
  MaxFails = 0
  MaxLives = 2
INVARIANT StartedBoardAcquires
CHECK_DEADLOCK FALSE
