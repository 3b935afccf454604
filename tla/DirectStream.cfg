SPECIFICATION Spec
CONSTANTS
  Modes = {"direct-only", "direct-first", "relay-only"}
  MaxUps = 1
CHECK_DEADLOCK FALSE
PROPERTY
  OpenStreamReturns
