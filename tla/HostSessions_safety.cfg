SPECIFICATION Spec
CONSTANTS
  Peers = {p1, p2}
  Rungs = {r1, r2}
  Streams = {s1, s2}
  Upper = {wg}
  Floor = Floor
  None = None
  MaxRemoves = 1
SYMMETRY Interchangeable
INVARIANTS
  TypeOK
  LiveRungReachable
  NoStaleRegistration
  QuietAfterWait
  SweptForwardsCut
  NothingOutlivesStack
