SPECIFICATION FairSpec
CONSTANTS
  Octets = {0, 1, 2}
  Layouts <- MCLayouts
  Masks <- MCMasks
  Channels <- MCChannels
  Track = 3
  MaxCalls = 2
  MaxFails = 1
INVARIANT StopsAtBumper
PROPERTIES PinsPreserved StepsAsAsked ClockRests
CHECK_DEADLOCK FALSE
