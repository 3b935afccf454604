--------------------------- MODULE TierSelection ---------------------------
(***************************************************************************)
(* How two mtunnel processes turn the pair of Hello messages they swapped  *)
(* into a ladder of data planes and a number of punch attempts, with no    *)
(* further round trip: internal/negotiate/negotiate.go and the mode        *)
(* handling of internal/tunnel/tier.go.  The whole scheme rests on both    *)
(* sides computing the same answer from the two Hellos seen in opposite    *)
(* order.                                                                  *)
(***************************************************************************)
EXTENDS Naturals, Sequences

\* The fixed priority order of the wire contract (negotiate.cascade).
Cascade == <<"wireguard", "quic", "libp2p">>

Tiers == {"wireguard", "quic", "libp2p"}

\* The tiers above the libp2p floor: the ones that need a punched substrate.
Upper == Tiers \ {"libp2p"}

\* The empty RequiredTier, and the absence of a tier wherever one may be missing.
NoTier == "none"

\* The -tunnel-mode values.
Modes == {"auto", "wireguard", "quic", "libp2p"}

\* The tier a mode insists on.
forcedTier(mode) == IF mode \in Upper THEN mode ELSE NoTier

\* What a mode advertises; the floor is always offered.  Every upper tier is
\* registered in this build, so the lookup of a forced tier cannot miss.
supported(mode) ==
  CASE mode = "auto"   -> Tiers
    [] mode = "libp2p" -> {"libp2p"}
    [] OTHER           -> {mode, "libp2p"}

\* -punch-attempts left unset means two.
DefaultPunchAttempts == 2

punchAttemptsFor(opt) == IF opt = 0 THEN DefaultPunchAttempts ELSE opt

\* One side's Hello.  The WireGuard key it also carries decides nothing.
Hello(mode, attempts, diagnostic) ==
  [supported |-> supported(mode),
   required  |-> forcedTier(mode),
   probe     |-> diagnostic,
   attempts  |-> punchAttemptsFor(attempts)]

Hellos == [supported : SUBSET Tiers, required : Tiers \cup {NoTier},
           probe : BOOLEAN, attempts : Nat]

\* The smaller of the two requests, zero meaning one.
EffectivePunchAttempts(local, peer) ==
  LET atLeastOne(n) == IF n = 0 THEN 1 ELSE n
      l == atLeastOne(local)
      p == atLeastOne(peer)
  IN  IF l <= p THEN l ELSE p

\* A turn of SharedCascade's loop.
IfShared(t, shared) == IF t \in shared THEN <<t>> ELSE <<>>

\* Every tier both sides support, best first, the floor always last.
SharedCascade(local, peer) ==
  LET shared == local \cap peer
  IN  IfShared(Cascade[1], shared) \o IfShared(Cascade[2], shared) \o <<"libp2p">>

\* An unresolvable pair of Hellos: RequiredCascade's error return.
NoCascade == <<>>

\* The agreed ladder, honouring a tier either side requires.
RequiredCascade(local, peer) ==
  LET required == IF local.required = NoTier THEN peer.required ELSE local.required
      disagree == /\ local.required # NoTier
                  /\ peer.required # NoTier
                  /\ local.required # peer.required
      usable   == required \in Upper \cap local.supported \cap peer.supported
  IN  IF disagree THEN NoCascade
      ELSE IF required = NoTier THEN SharedCascade(local.supported, peer.supported)
      ELSE IF usable THEN <<required>>
      ELSE NoCascade

TierRequired(local, peer) == local.required # NoTier \/ peer.required # NoTier

\* Both sides must ask for the measurement-only punch for either to run it.
probeAgreed(local, peer) == local.probe /\ peer.probe
=============================================================================
