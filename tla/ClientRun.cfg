SPECIFICATION Spec
CONSTANTS
  Addrs = {a1}
  MaxFlows = 2
  Conns = {c1}
  Networks = {"tcp", "udp"}
  Planes = {"floor", "upper"}
  MaxCycles = 1
INVARIANTS
  TypeOK
  StreamsOwned
  RegisteredNotReset
PROPERTIES
  ShutdownCompletes
  WatchedLossNoticed
