SPECIFICATION Spec
CONSTANTS
  Openers = {"dialing"}
  MaxID = 0
  MaxData = 2
  MaxLoss = 0
  MaxInFlight = 3
  Backlog = 1
  FINRetryCount = 1
  MaxPending = 1
  MaxTombstones = 1
CHECK_DEADLOCK FALSE
INVARIANTS
  TypeOK
  OpenFlowsRegistered
  NoHiddenFlow
  OwnIDsNotReused
  FinishedStaysDead
