SPECIFICATION Spec
CONSTANTS
  Openers = {"dialing"}
  MaxID = 0
  MaxData = 1
  MaxLoss = 1
  MaxInFlight = 8
  Backlog = 1
  FINRetryCount = 1
  MaxPending = 1
  MaxTombstones = 1
CHECK_DEADLOCK FALSE
PROPERTIES
  CloseReachesPeer
  Quiesces
