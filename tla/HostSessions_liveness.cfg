SPECIFICATION Spec
CONSTANTS
  Peers = {p1}
  Rungs = {r1, r2}
  Streams = {s1, s2}
  Upper = {wg}
  Floor = Floor
  None = None
  MaxRemoves = 0
PROPERTIES
  ShutdownCompletes
  StoppedRungUnwinds
INVARIANT
  SessionCountsHandlers
