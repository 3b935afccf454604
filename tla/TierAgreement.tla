--------------------------- MODULE TierAgreement ---------------------------
(***************************************************************************)
(* What a tier negotiation promises, whatever messages it takes: a client  *)
(* uses an upper tier only after its host has committed to the same one,   *)
(* and a client that settles on the libp2p floor does so only where the    *)
(* floor is served and no upper tier is, or ever will be, committed.  A    *)
(* negotiation may also fail, in which case the host may or may not have   *)
(* committed.                                                              *)
(***************************************************************************)
CONSTANTS Upper, NoTier

VARIABLES
  floor,      \* neither side insists on an upper tier
  committed,  \* the tier the host has committed to
  cres        \* what the client settled on: a tier, "error", or "none" so far

Init == floor \in BOOLEAN /\ committed = NoTier /\ cres = "none"

HostCommits(t) ==
  /\ committed = NoTier
  /\ cres \in {"none", "error"}
  /\ committed' = t
  /\ UNCHANGED <<floor, cres>>

ClientUses(t) ==
  /\ cres = "none"
  /\ committed = t
  /\ cres' = t
  /\ UNCHANGED <<floor, committed>>

ClientFloors ==
  /\ cres = "none"
  /\ floor
  /\ committed = NoTier
  /\ cres' = "libp2p"
  /\ UNCHANGED <<floor, committed>>

ClientFails ==
  /\ cres = "none"
  /\ cres' = "error"
  /\ UNCHANGED <<floor, committed>>

Next ==
  \/ \E t \in Upper : HostCommits(t) \/ ClientUses(t)
  \/ ClientFloors
  \/ ClientFails

Spec == Init /\ [][Next]_<<floor, committed, cres>>
=============================================================================
