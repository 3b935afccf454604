--------------------------- MODULE MCHostSessions ---------------------------
(***************************************************************************)
(* HostSessions on small sets; peers, rungs, streams and tiers are         *)
(* interchangeable.                                                        *)
(***************************************************************************)
EXTENDS HostSessions, TLC

Interchangeable == Permutations(Peers) \cup Permutations(Rungs) \cup Permutations(Streams)
=============================================================================
