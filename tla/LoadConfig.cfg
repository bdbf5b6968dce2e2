SPECIFICATION FairSpec
CONSTANTS
  NumGroups = 2
  Numbers <- MCNumbers
  OptionSets <- MCOptionSets
  TraceLens = {70000}
  MaxPoll = 1
  MaxFails = 1
INVARIANTS ReturnedConfigured LoadsWait SwitchesTakeEffect
PROPERTY Ends
CHECK_DEADLOCK FALSE
