SPECIFICATION Spec
CONSTANTS
  Addrs = {a1}
  MaxFlows = 2
  Conns = {c1}
  Networks = {"tcp"}
  Planes = {"floor", "upper"}
  MaxCycles = 0
PROPERTY
  HostLossNoticed
