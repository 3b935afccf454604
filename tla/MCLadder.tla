------------------------------ MODULE MCLadder ------------------------------
(***************************************************************************)
(* The Ladder for every pair of tunnel modes, with the punch attempts and  *)
(* the diagnostic settings the configuration allows each side.             *)
(***************************************************************************)
EXTENDS Ladder

CONSTANTS
  ClientModes, HostModes,  \* the -tunnel-mode values of each side
  Attempts,                \* the -punch-attempts values; 0 means the default
  Diagnostics              \* whether -diagnostic may be given

MCHellos(modes) == {Hello(m, a, d) : m \in modes, a \in Attempts, d \in Diagnostics}
MCClientHellos == MCHellos(ClientModes)
MCHostHellos   == MCHellos(HostModes)
=============================================================================
