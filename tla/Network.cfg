SPECIFICATION MCSpec
CONSTANTS
  Traffic <- MCTraffic
  Seams <- MCSeams
  MaxFaults = 2
  Addresses = {256, 536870912}
  ReadSeams = {1, 16}
  Fields = {24}
  Anything = {24, 536870912}
  MaxCalls = 3
  NMRWords = 1
  Users = {"u1", "u2", "u3"}
  Address <- SameAddressPairs
  VXI11_MAX_CLIENTS = 2
  MaxOpens = 4
  MaxQueries = 2
  MaxFails = 2
INVARIANTS DeliveredWhole IntactEventsCome OwnAnswerInStep OnlyOfTheRegister ClientsAndAnswers
CHECK_DEADLOCK FALSE
