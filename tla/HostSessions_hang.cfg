SPECIFICATION Spec
CONSTANTS
  Peers = {p1}
  Rungs = {}
  Streams = {s1, s2}
  Upper = {wg}
  Floor = Floor
  None = None
  MaxRemoves = 1
PROPERTY
  ShutdownCompletes
