SPECIFICATION Spec
CONSTANTS
  Lengths = {3, 4}
  FragmentPayload = 2
  MaxMessage = 4
  MaxPartialMessages = 2
  MaxPartialBytes = 7
  IDs = 3
  MaxSends = 4
INVARIANTS
  TypeOK
  NoMixedMessage
CHECK_DEADLOCK FALSE
