SPECIFICATION Spec
CONSTANTS
  Cascade <- MCCascade
  Queue = 2
  MaxSets = 2
INVARIANTS
  TypeOK
  DeadlineHonoured
  HandedBackClean
  StandsAlone
PROPERTIES
  CloseReturns
  PumpReleased
