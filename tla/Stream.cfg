CONSTANTS
  Message <- MessageVal
  Capacity = 3
  WireCap = 2
  MaxSent = 4
  Excess = 1
  Modes = {TRUE, FALSE}
  Builds = {TRUE, FALSE}
SPECIFICATION FairSpec
INVARIANTS TypeOK SentArrives
PROPERTIES AllReceived
CHECK_DEADLOCK FALSE
