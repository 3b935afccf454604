SPECIFICATION Spec
CONSTANTS
  ClientHellos <- MCClientHellos
  HostHellos <- MCHostHellos
  ClientModes = {"auto", "wireguard", "quic", "libp2p"}
  HostModes = {"auto", "wireguard", "quic", "libp2p"}
  Attempts = {1, 2}
  Diagnostics = {TRUE, FALSE}
INVARIANTS
  TypeOK
  Lockstep
  CleanHandover
  AgentOutlivesRung
  NoRungOnDeadSubstrate
  ServedUntilStopped
  NothingLeaks
PROPERTIES
  AgreementSpec
  ExchangeNotReused
  ClientDecides
  HostReleases
