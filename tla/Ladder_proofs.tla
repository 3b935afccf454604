---------------------------- MODULE Ladder_proofs ----------------------------
(***************************************************************************)
(* Theorems about the tier negotiation of Ladder, for any Hellos of the    *)
(* two sides and any number of punch attempts.                             *)
(***************************************************************************)
EXTENDS Ladder, TLAPS

\* The messages under way to a side, and the attempts among them.
Flight(s) == {chan[s][i] : i \in DOMAIN chan[s]}
AttemptsTo(s) == {m \in Flight(s) : m.type = "attempt"}

\* A stream carries one attempt at a time.
OneAttempt(s) ==
  \A i, j \in DOMAIN chan[s] :
    chan[s][i].type = "attempt" /\ chan[s][j].type = "attempt" => i = j

-----------------------------------------------------------------------------
(* What each side knows of itself.                                         *)

ClimbPC == {"request", "reqack", "dial", "commitack"}

\* The agent through the punch: there is one to fall back on only when it landed.
AgentInv(s) ==
  /\ pc[s] \in {"start", "idle", "hello", "gather"} => agent[s] # "open"
  /\ pc[s] \in {"info", "check", "outcome"} /\ landed[s] => agent[s] = "open"
  /\ pc[s] \in ClimbPC \cup {"recv", "got", "serve"} \cup ServeRungPC => agent[s] = "open"

\* When the client comes to a result.  A probe has one before it punches.
ResultInv ==
  /\ pc["client"] \in {"start", "hello"} \cup ClimbPC => cres = "none"
  /\ pc["client"] \in PunchPC => cres = (IF Probing("client") THEN "libp2p" ELSE "none")
  /\ pc["client"] = "done" => cres # "none"
  /\ cres = "libp2p" => ~Required

ClientInv ==
  /\ rung["client"] # NoTier => agent["client"] = "open"
  /\ pc["client"] \in {"dial", "commitack"} => rung["client"] \in Upper
  /\ rung["client"] # NoTier => pc["client"] \in {"dial", "commitack"} \/ rung["client"] = cres
  /\ pc["client"] \in {"reqack", "dial", "commitack"} => RungLeft
  /\ pc["client"] = "done" /\ cres \notin Upper => agent["client"] # "open"
  /\ subDead["client"] => ~RungLeft
  /\ abandoned["client"] => pc["client"] = "done"

HostInv ==
  /\ rung["host"] # NoTier => pc["host"] \in {"serve"} \cup ServeRungPC
  /\ pc["host"] = "serve" => rung["host"] \in Upper
  /\ active # NoTier <=> pc["host"] \in ServeRungPC
  /\ rung["host"] \in {active, NoTier} \/ pc["host"] = "serve"
  /\ pc["host"] \in ServeRungPC /\ ~tierStop => rung["host"] = active
  /\ pc["host"] = "stopping" => tierStop
  /\ pc["host"] = "commit" => pending = Attempt(active, TRUE)
  /\ pc["host"] = "ended" => agent["host"] # "open"
  /\ subDead["host"] => pc["host"] \in ServeRungPC \cup {"ended"}
  /\ abandoned["host"] =>
       pc["host"] = "ended" \/ (pc["host"] = "stopping" /\ pending = NoAttempt)

\* From the acknowledged commit on the host follows nobody but its rung.
CommitInv ==
  /\ pc["host"] \in {"notify", "verify", "committed"} => committed = active
  /\ committed # NoTier => pc["host"] \in {"notify", "verify", "committed", "ended"}
  /\ committed # NoTier /\ pc["host"] = "ended" => tierStop

ClientSide == AgentInv("client") /\ ResultInv /\ ClientInv
HostSide   == AgentInv("host") /\ HostInv /\ CommitInv

LocalInv == TypeOK /\ ClientSide /\ HostSide

-----------------------------------------------------------------------------
(* What they know of each other.                                           *)

\* The client has asked for a commit and cannot go back to the floor.
PastCommit ==
  pc["client"] = "commitack" \/ (pc["client"] = "done" /\ cres \in Upper \cup {"error"})

AgreementInv ==
  /\ \A m \in AttemptsTo("host") : m.flag => PastCommit
  /\ pc["host"] = "commit" \/ committed # NoTier => PastCommit
  /\ \A m \in AttemptsTo("client") : m.flag => m.tier = committed
  /\ cres \in Upper => cres = committed

\* Whose turn it is in the climb: the host's from the attempt to its answer.
HostTurn ==
  pc["host"] \in {"got", "commit"} \/ (pc["host"] = "stopping" /\ pending # NoAttempt)

TurnInv ==
  /\ \A s \in Side : OneAttempt(s)
  /\ pc["client"] \notin {"reqack", "commitack", "done"} =>
       AttemptsTo("host") = {} /\ AttemptsTo("client") = {} /\ ~HostTurn
  /\ AttemptsTo("host") # {} => AttemptsTo("client") = {} /\ ~HostTurn
  /\ HostTurn => AttemptsTo("client") = {}
  /\ \A m \in AttemptsTo("host") : m.tier \in Tiers
  /\ pc["host"] = "got" \/ (pc["host"] = "stopping" /\ pending # NoAttempt) => pending.tier \in Tiers
  /\ \A m \in AttemptsTo("client") : ~m.flag => rung["host"] \in {NoTier, m.tier}
  /\ CleanHandover

IInv == LocalInv /\ AgreementInv /\ TurnInv

-----------------------------------------------------------------------------
(* Lemmas about the selection: both sides compute the same from the two    *)
(* Hellos, each with its own first.                                        *)

\* RequiredCascade does not depend on the order of the Hellos.
LEMMA CascadeSymmetric ==
  ASSUME NEW a \in Hellos, NEW b \in Hellos
  PROVE  RequiredCascade(a, b) = RequiredCascade(b, a)
<1>1. SharedCascade(a.supported, b.supported) = SharedCascade(b.supported, a.supported)
  <2>1. a.supported \cap b.supported = b.supported \cap a.supported
    OBVIOUS
  <2> QED
    BY <2>1 DEF SharedCascade
<1> QED
  BY <1>1 DEF RequiredCascade, Hellos, NoTier, NoCascade

\* The ladder is a sequence of tiers; one that starts with the floor has nothing
\* else, and only a pair of Hellos that requires no tier has such a ladder.
LEMMA CascadeShape ==
  ASSUME NEW a \in Hellos, NEW b \in Hellos
  PROVE  /\ RequiredCascade(a, b) \in Seq(Tiers)
         /\ RequiredCascade(a, b) # NoCascade /\ RequiredCascade(a, b)[1] = "libp2p" =>
              /\ RequiredCascade(a, b) = <<"libp2p">>
              /\ ~TierRequired(a, b)
<1> DEFINE S == a.supported \cap b.supported
<1>1. SharedCascade(a.supported, b.supported) \in Seq(Tiers)
  <2>1. \A t \in Tiers : IfShared(t, S) \in Seq(Tiers)
    BY DEF IfShared
  <2>2. Cascade[1] \in Tiers /\ Cascade[2] \in Tiers /\ <<"libp2p">> \in Seq(Tiers)
    BY DEF Cascade, Tiers
  <2>3. \A u, v \in Seq(Tiers) : u \o v \in Seq(Tiers)
    OBVIOUS
  <2> QED
    BY <2>1, <2>2, <2>3 DEF SharedCascade
<1>2. SharedCascade(a.supported, b.supported)[1] = "libp2p" =>
        SharedCascade(a.supported, b.supported) = <<"libp2p">>
  <2>1. CASE "wireguard" \in S
    BY <2>1 DEF SharedCascade, IfShared, Cascade
  <2>2. CASE "wireguard" \notin S /\ "quic" \in S
    BY <2>2 DEF SharedCascade, IfShared, Cascade
  <2>3. CASE "wireguard" \notin S /\ "quic" \notin S
    <3>1. IfShared(Cascade[1], S) = <<>> /\ IfShared(Cascade[2], S) = <<>>
      BY <2>3 DEF IfShared, Cascade
    <3>2. <<>> \o <<>> = <<>> /\ <<>> \o <<"libp2p">> = <<"libp2p">>
      OBVIOUS
    <3> QED
      BY <3>1, <3>2 DEF SharedCascade
  <2> QED
    BY <2>1, <2>2, <2>3
<1>3. CASE RequiredCascade(a, b) = SharedCascade(a.supported, b.supported) /\ ~TierRequired(a, b)
  BY <1>1, <1>2, <1>3
<1>4. CASE RequiredCascade(a, b) = NoCascade
  BY <1>4 DEF NoCascade
<1>5. CASE \E t \in Upper : RequiredCascade(a, b) = <<t>>
  BY <1>5 DEF Upper
<1> QED
  BY <1>3, <1>4, <1>5 DEF RequiredCascade, TierRequired, Hellos, NoTier

\* EffectivePunchAttempts is symmetric, and at least one.
LEMMA AttemptsSymmetric ==
  ASSUME NEW m \in Nat, NEW n \in Nat
  PROVE  /\ EffectivePunchAttempts(m, n) = EffectivePunchAttempts(n, m)
         /\ EffectivePunchAttempts(m, n) \in Nat /\ EffectivePunchAttempts(m, n) >= 1
BY DEF EffectivePunchAttempts

\* What both sides know of the ladder.
LEMMA LadderShared ==
  ASSUME hello \in [Side -> Hellos]
  PROVE  /\ LadderOf("client") = LadderOf("host")
         /\ \A s \in Side :
              /\ LadderOf(s) \in Seq(Tiers)
              /\ LadderOf(s) # NoCascade /\ LadderOf(s)[1] = "libp2p" => Probing(s)
              /\ Probing(s) => ~Required
              /\ AttemptsOf(s) \in Nat /\ AttemptsOf(s) >= 1
         /\ AttemptsOf("client") = AttemptsOf("host")
<1>1. hello["client"] \in Hellos /\ hello["host"] \in Hellos
  BY DEF Side
<1>2. LadderOf("client") = LadderOf("host")
  BY <1>1, CascadeSymmetric DEF LadderOf, Peer
<1>3. \A s \in Side : LadderOf(s) = RequiredCascade(hello["client"], hello["host"])
  BY <1>2 DEF LadderOf, Peer, Side
<1>4. \A s \in Side :
        /\ LadderOf(s) \in Seq(Tiers)
        /\ LadderOf(s) # NoCascade /\ LadderOf(s)[1] = "libp2p" => Probing(s)
        /\ Probing(s) => ~Required
  <2>1. <<"libp2p">> # NoCascade /\ <<"libp2p">>[1] = "libp2p"
    BY DEF NoCascade
  <2> QED
    BY <1>1, <1>3, <2>1, CascadeShape DEF Probing, Required
<1>5. Probing("client") <=> Probing("host")
  BY <1>2 DEF Probing
<1>6. \A s \in Side : hello[s].attempts \in Nat /\ Peer(s) \in Side
  BY <1>1 DEF Hellos, Side, Peer
<1>7. ASSUME NEW s \in Side PROVE AttemptsOf(s) \in Nat /\ AttemptsOf(s) >= 1
  <2>1. hello[s].attempts \in Nat /\ hello[Peer(s)].attempts \in Nat
    BY <1>6
  <2> DEFINE n == EffectivePunchAttempts(hello[s].attempts, hello[Peer(s)].attempts)
  <2>2. n \in Nat /\ n >= 1
    BY <2>1, AttemptsSymmetric
  <2>3. AttemptsOf(s) = 1 \/ AttemptsOf(s) = n
    BY DEF AttemptsOf
  <2> QED
    BY <2>2, <2>3
<1>8. AttemptsOf("client") = AttemptsOf("host")
  BY <1>5, <1>6, AttemptsSymmetric DEF AttemptsOf, Side, Peer
<1> QED
  BY <1>2, <1>4, <1>7, <1>8

\* The Hellos are fixed at start-up, and with them what follows from them.
LEMMA HelloFixed ==
  ASSUME UNCHANGED hello
  PROVE  /\ \A s \in Side : /\ LadderOf(s)' = LadderOf(s)
                            /\ Probing(s)' <=> Probing(s)
                            /\ AttemptsOf(s)' = AttemptsOf(s)
         /\ Required' <=> Required
<1>1. \A s \in Side : LadderOf(s)' = LadderOf(s)
  BY DEF LadderOf
<1>2. \A s \in Side : Probing(s)' <=> Probing(s)
  BY <1>1 DEF Probing
<1>3. \A s \in Side : AttemptsOf(s)' = AttemptsOf(s)
  BY <1>2 DEF AttemptsOf
<1>4. Required' <=> Required
  BY DEF Required
<1> QED
  BY <1>1, <1>2, <1>3, <1>4

-----------------------------------------------------------------------------
(* Lemmas about the stream.                                                *)

\* A message is added at the end of what is under way to the peer, or lost.
LEMMA SendTo ==
  ASSUME TypeOK, NEW s \in Side, NEW m \in Messages, Send(s, m)
  PROVE  /\ chan' \in [Side -> Seq(Messages)]
         /\ chan'[s] = chan[s]
         /\ \/ chan'[Peer(s)] = chan[Peer(s)] /\ (broken \/ end[Peer(s)] # "open")
            \/ /\ chan'[Peer(s)] = Append(chan[Peer(s)], m)
               /\ ~broken /\ end[Peer(s)] = "open"
         /\ Flight(s)' = Flight(s)
         /\ Flight(Peer(s))' \subseteq Flight(Peer(s)) \cup {m}
<1>1. Peer(s) \in Side /\ Peer(s) # s
  BY DEF Side, Peer
<1>2. chan \in [Side -> Seq(Messages)]
  BY DEF TypeOK
<1>3. /\ chan' \in [Side -> Seq(Messages)]
      /\ chan'[s] = chan[s]
      /\ \/ chan'[Peer(s)] = chan[Peer(s)] /\ (broken \/ end[Peer(s)] # "open")
         \/ chan'[Peer(s)] = Append(chan[Peer(s)], m) /\ ~broken /\ end[Peer(s)] = "open"
  BY <1>1, <1>2 DEF Send
<1>4. Flight(s)' = Flight(s)
  BY <1>3 DEF Flight
<1>5. Flight(Peer(s))' \subseteq Flight(Peer(s)) \cup {m}
  <2>1. CASE chan'[Peer(s)] = chan[Peer(s)]
    BY <2>1 DEF Flight
  <2>2. CASE chan'[Peer(s)] = Append(chan[Peer(s)], m)
    <3>1. \A i \in DOMAIN chan'[Peer(s)] :
            \/ chan'[Peer(s)][i] = m
            \/ i \in DOMAIN chan[Peer(s)] /\ chan'[Peer(s)][i] = chan[Peer(s)][i]
      BY <1>1, <1>2, <2>2
    <3> QED
      BY <3>1 DEF Flight
  <2> QED
    BY <1>3, <2>1, <2>2
<1> QED
  BY <1>3, <1>4, <1>5

\* A message is read from the front.
LEMMA TakeFrom ==
  ASSUME TypeOK, NEW s \in Side, chan[s] # <<>>, Take(s)
  PROVE  /\ chan' \in [Side -> Seq(Messages)]
         /\ chan'[s] = Tail(chan[s]) /\ chan'[Peer(s)] = chan[Peer(s)]
         /\ Head(chan[s]) \in Messages /\ Head(chan[s]) \in Flight(s)
         /\ Flight(s)' \subseteq Flight(s) /\ Flight(Peer(s))' = Flight(Peer(s))
<1>1. Peer(s) \in Side /\ Peer(s) # s
  BY DEF Side, Peer
<1>2. chan \in [Side -> Seq(Messages)] /\ chan[s] \in Seq(Messages)
  BY DEF TypeOK
<1>3. Tail(chan[s]) \in Seq(Messages) /\ Head(chan[s]) \in Messages /\ Head(chan[s]) = chan[s][1]
  BY <1>2
<1>4. 1 \in DOMAIN chan[s]
  BY <1>2
<1>5. /\ chan' \in [Side -> Seq(Messages)]
      /\ chan'[s] = Tail(chan[s]) /\ chan'[Peer(s)] = chan[Peer(s)]
  BY <1>1, <1>2, <1>3 DEF Take
<1>6. \A i \in DOMAIN chan'[s] : i + 1 \in DOMAIN chan[s] /\ chan'[s][i] = chan[s][i + 1]
  BY <1>2, <1>5
<1> QED
  BY <1>3, <1>4, <1>5, <1>6 DEF Flight

\* The next message to be read is one.
LEMMA HeadMessage ==
  ASSUME TypeOK, NEW s \in Side, chan[s] # <<>>
  PROVE  Head(chan[s]) \in Messages /\ Head(chan[s]).flag \in BOOLEAN
<1>1. chan[s] \in Seq(Messages)
  BY DEF TypeOK
<1>2. Head(chan[s]) \in Messages
  BY <1>1
<1> QED
  BY <1>2 DEF Messages

-----------------------------------------------------------------------------
(* Each side keeps what it knows of itself.                                *)

\* A step that leaves alone what the host has.
LEMMA HostFrame ==
  ASSUME HostSide,
         pc'["host"] = pc["host"], agent'["host"] = agent["host"],
         landed'["host"] = landed["host"], rung'["host"] = rung["host"],
         subDead'["host"] = subDead["host"], abandoned'["host"] = abandoned["host"],
         UNCHANGED <<active, pending, committed>>, tierStop => tierStop'
  PROVE  HostSide'
<1>1. AgentInv("host")'
  BY DEF HostSide, AgentInv
<1>2. HostInv'
  BY DEF HostSide, HostInv
<1>3. CommitInv'
  BY DEF HostSide, CommitInv
<1> QED
  BY <1>1, <1>2, <1>3 DEF HostSide

\* A step that leaves alone what the client has.
LEMMA ClientFrame ==
  ASSUME ClientSide, UNCHANGED hello,
         pc'["client"] = pc["client"], agent'["client"] = agent["client"],
         landed'["client"] = landed["client"], rung'["client"] = rung["client"],
         subDead'["client"] = subDead["client"], abandoned'["client"] = abandoned["client"],
         UNCHANGED <<idx, cres>>
  PROVE  ClientSide'
<1>1. LadderOf("client")' = LadderOf("client") /\ (Probing("client")' <=> Probing("client"))
      /\ (Required' <=> Required)
  BY HelloFixed DEF Side
<1>2. AgentInv("client")'
  BY DEF ClientSide, AgentInv
<1>3. ResultInv'
  BY <1>1 DEF ClientSide, ResultInv
<1>4. ClientInv'
  BY <1>1 DEF ClientSide, ClientInv, RungLeft, ClientRung
<1> QED
  BY <1>2, <1>3, <1>4 DEF ClientSide

\* The pieces the handlers end with.
LEMMA AgentClosed ==
  ASSUME TypeOK, NEW s \in Side, CloseAgent(s)
  PROVE  /\ agent' \in [Side -> {"none", "open", "closed"}]
         /\ agent'[s] # "open" /\ agent'[Peer(s)] = agent[Peer(s)]
BY DEF TypeOK, CloseAgent, Side, Peer

\* A climb that fell short gives no upper tier, and the floor only where it may.
LEMMA FellShort ==
  ASSUME TypeOK, NEW uncertain \in BOOLEAN, ClientFellShort(uncertain)
  PROVE  /\ pc' = [pc EXCEPT !["client"] = "done"]
         /\ end' = [end EXCEPT !["client"] = "reset"]
         /\ cres' = "error" \/ (cres' = "libp2p" /\ ~uncertain /\ ~Required)
BY DEF TypeOK, ClientFellShort, Goto, Leave

\* Giving up a wait only marks the side's Exchange.
LEMMA WaitGivenUp ==
  ASSUME TypeOK, NEW s \in Side, NEW type, SwapError(s, type)
  PROVE  /\ abandoned' \in [Side -> BOOLEAN]
         /\ abandoned'[Peer(s)] = abandoned[Peer(s)]
BY DEF TypeOK, SwapError, ReceiveError, Side, Peer

\* The client's negotiation falls short: it holds nothing any more.
LEMMA ClientGivesUp ==
  ASSUME LocalInv, NEW uncertain \in BOOLEAN,
         CloseAgent("client"), ClientFellShort(uncertain), rung' = [rung EXCEPT !["client"] = NoTier],
         chan' \in [Side -> Seq(Messages)],
         abandoned' \in [Side -> BOOLEAN], abandoned'["host"] = abandoned["host"],
         landed' \in [Side -> BOOLEAN], landed'["host"] = landed["host"],
         UNCHANGED <<hello, tries, subDead, idx, pending, tierStop, active, watching, committed,
                     connected, broken>>
  PROVE  LocalInv'
<1>1. /\ agent' \in [Side -> {"none", "open", "closed"}]
      /\ agent'["client"] # "open" /\ agent'["host"] = agent["host"]
  BY AgentClosed DEF LocalInv, Side, Peer
<1>2. /\ pc' = [pc EXCEPT !["client"] = "done"]
      /\ end' = [end EXCEPT !["client"] = "reset"]
      /\ cres' = "error" \/ (cres' = "libp2p" /\ ~Required)
  BY FellShort DEF LocalInv
<1>3. TypeOK'
  BY <1>1, <1>2 DEF LocalInv, TypeOK, Side, ClientPC, Tiers, Upper
<1>4. ClientSide'
  <2>1. LadderOf("client")' = LadderOf("client") /\ (Required' <=> Required)
    BY HelloFixed DEF Side
  <2>2. pc'["client"] = "done" /\ rung'["client"] = NoTier
    BY <1>2 DEF LocalInv, TypeOK, Side
  <2>3. AgentInv("client")'
    BY <2>2 DEF AgentInv, ClimbPC, ServeRungPC
  <2>4. ResultInv'
    BY <1>2, <2>1, <2>2 DEF ResultInv, ClimbPC, PunchPC
  <2>5. ClientInv'
    BY <1>1, <2>1, <2>2 DEF ClientInv, LocalInv, ClientSide, RungLeft, ClientRung
  <2> QED
    BY <2>3, <2>4, <2>5 DEF ClientSide
<1>5. HostSide'
  BY <1>1, <1>2, HostFrame DEF LocalInv, TypeOK, Side
<1> QED
  BY <1>3, <1>4, <1>5 DEF LocalInv

\* The client ends before there is anything to hold.
LEMMA ClientEndsEarly ==
  ASSUME LocalInv, pc["client"] \in {"start", "hello"},
         pc' = [pc EXCEPT !["client"] = "done"],
         cres' = "error" \/ (cres' = "libp2p" /\ ~Required),
         end' \in [Side -> {"open", "closed", "reset"}],
         chan' \in [Side -> Seq(Messages)],
         abandoned' \in [Side -> BOOLEAN], abandoned'["host"] = abandoned["host"],
         UNCHANGED <<hello, punchVars, ladderVars, connected, broken>>
  PROVE  LocalInv'
<1>1. TypeOK'
  BY DEF LocalInv, TypeOK, Side, ClientPC, Tiers, punchVars, ladderVars
<1>2. ClientSide'
  <2>1. LadderOf("client")' = LadderOf("client") /\ (Required' <=> Required)
    BY HelloFixed DEF Side
  <2>2. pc'["client"] = "done" /\ rung["client"] = NoTier /\ agent["client"] # "open"
    BY DEF LocalInv, TypeOK, Side, ClientSide, AgentInv, ClientInv, ResultInv, NoTier
  <2>3. AgentInv("client")'
    BY <2>2 DEF AgentInv, ClimbPC, ServeRungPC
  <2>4. ResultInv'
    BY <2>1, <2>2 DEF ResultInv, ClimbPC, PunchPC
  <2>5. ClientInv'
    BY <2>1, <2>2 DEF ClientInv, LocalInv, ClientSide, RungLeft, ClientRung, punchVars, ladderVars
  <2> QED
    BY <2>3, <2>4, <2>5 DEF ClientSide
<1>3. HostSide'
  BY HostFrame DEF LocalInv, TypeOK, Side, punchVars, ladderVars
<1> QED
  BY <1>1, <1>2, <1>3 DEF LocalInv

\* What the client knows of its ladder.
LEMMA ClientLadder ==
  ASSUME TypeOK
  PROVE  /\ LadderOf("client") \in Seq(Tiers)
         /\ LadderOf("client") # NoCascade /\ LadderOf("client")[1] = "libp2p" => Probing("client")
         /\ LadderOf("client") # NoCascade /\ LadderOf("client")[1] # "libp2p" => ~Probing("client")
         /\ Probing("client") => ~Required
         /\ RungLeft => ClientRung \in Upper
<1>1. hello \in [Side -> Hellos]
  BY DEF TypeOK
<1>2. Probing("client") => LadderOf("client")[1] = "libp2p"
  BY DEF Probing
<1> QED
  BY <1>1, <1>2, LadderShared DEF Side, RungLeft, ClientRung, Upper, TypeOK

\* Opening the stream and swapping Hellos.
LEMMA ClientStarts ==
  ASSUME LocalInv, ClientOpen \/ ClientHello
  PROVE  LocalInv'
<1>0. TypeOK /\ ClientSide /\ HostSide
  BY DEF LocalInv
<1>1. CASE ClientOpen
  <2>1. chan' \in [Side -> Seq(Messages)]
    BY <1>0, <1>1, SendTo DEF ClientOpen, Messages, Msg, TypeOK, Side
  <2>2. CASE Goto("client", "done") /\ cres' = "error"
    BY <1>0, <1>1, <2>1, <2>2, ClientEndsEarly DEF ClientOpen, Goto, envVars, TypeOK
  <2>3. CASE Goto("client", "hello") /\ UNCHANGED cres
    <3>1. TypeOK'
      BY <1>0, <1>1, <2>1, <2>3 DEF ClientOpen, TypeOK, ClientPC, Side, Goto, envVars, punchVars, ladderVars
    <3>2. ClientSide'
      BY <1>0, <1>1, <2>3, HelloFixed DEF ClientOpen, TypeOK, ClientSide, AgentInv, ResultInv, ClientInv,
        PunchPC, ClimbPC, RungLeft, ClientRung, ServeRungPC, Side, Goto, envVars, punchVars, ladderVars
    <3>3. HostSide'
      BY <1>0, <1>1, <2>3, HostFrame DEF ClientOpen, TypeOK, Side, Goto, envVars, punchVars, ladderVars
    <3> QED
      BY <3>1, <3>2, <3>3 DEF LocalInv
  <2> QED
    BY <1>1, <2>2, <2>3 DEF ClientOpen
<1>2. CASE ClientHello
  <2>1. chan' \in [Side -> Seq(Messages)]
    BY <1>0, <1>2, TakeFrom DEF ClientHello, Arrived, Side, TypeOK
  <2>2. abandoned' \in [Side -> BOOLEAN] /\ abandoned'["host"] = abandoned["host"]
    BY <1>0, <1>2, WaitGivenUp DEF ClientHello, Peer, Side, TypeOK
  <2>3. CASE Goto("client", "done")
    <3>1. cres' = "error" \/ (cres' = "libp2p" /\ ~Required)
      BY <1>0, <1>2, <2>3 DEF ClientHello, TypeOK, Goto, Side
    <3>2. end' \in [Side -> {"open", "closed", "reset"}]
      BY <1>0, <1>2 DEF ClientHello, TypeOK, Leave
    <3>3. UNCHANGED tries
      BY <1>0, <1>2, <2>3 DEF ClientHello, TypeOK, Goto, Side
    <3> QED
      BY <1>2, <2>1, <2>2, <2>3, <3>1, <3>2, <3>3, ClientEndsEarly
      DEF ClientHello, Goto, envVars, punchVars
  <2>4. CASE /\ Goto("client", "gather") /\ tries' = [tries EXCEPT !["client"] = 1]
             /\ cres' = (IF Probing("client") THEN "libp2p" ELSE "none") /\ UNCHANGED <<end, abandoned>>
    <3>1. TypeOK'
      BY <1>0, <1>2, <2>1, <2>4 DEF ClientHello, TypeOK, ClientPC, PunchPC, Side, Goto, envVars,
         ladderVars, Tiers
    <3>2. ClientSide'
      <4>1. /\ LadderOf("client")' = LadderOf("client") /\ (Probing("client")' <=> Probing("client"))
            /\ Required' <=> Required
            /\ pc["client"] = "hello" /\ pc'["client"] = "gather"
        BY <1>0, <1>2, <2>4, HelloFixed DEF ClientHello, Side, envVars, TypeOK, Goto
      <4>2. AgentInv("client")'
        BY <1>0, <1>2, <4>1 DEF ClientHello, ClientSide, AgentInv, ClimbPC, ServeRungPC
      <4>3. ResultInv'
        BY <1>0, <2>4, <4>1, ClientLadder DEF ResultInv, PunchPC, ClimbPC
      <4>4. ClientInv'
        BY <1>0, <1>2, <2>4, <4>1 DEF ClientHello, ClientSide, ClientInv, ResultInv, RungLeft,
           ClientRung, ladderVars, NoTier
      <4> QED
        BY <4>2, <4>3, <4>4 DEF ClientSide
    <3>3. HostSide'
      BY <1>0, <1>2, <2>4, HostFrame DEF ClientHello, TypeOK, Side, Goto, envVars, ladderVars
    <3> QED
      BY <3>1, <3>2, <3>3 DEF LocalInv
  <2> QED
    BY <1>0, <1>2, <2>3, <2>4, ClientLadder DEF ClientHello, ClientSide, ResultInv
<1> QED
  BY <1>1, <1>2

\* The walk down the rungs.
LEMMA ClientClimbs ==
  ASSUME LocalInv, ClientRequest \/ ClientRequestAck \/ ClientDial \/ ClientCommitAck
  PROVE  LocalInv'
<1>0. TypeOK /\ ClientSide /\ HostSide
  BY DEF LocalInv
<1>1. CASE ClientRequest
  <2>1. chan' \in [Side -> Seq(Messages)]
    BY <1>0, <1>1, SendTo, ClientLadder DEF ClientRequest, Messages, Msg, Attempt, Side, TypeOK, Tiers,
       Upper
  <2>2. rung["client"] = NoTier /\ cres = "none"
    BY <1>0, <1>1 DEF ClientRequest, ClientSide, ClientInv, ResultInv, ClimbPC, NoTier
  <2>3. CASE RungLeft /\ Goto("client", "reqack") /\ UNCHANGED <<agent, end, cres>>
    <3>1. TypeOK'
      BY <1>0, <1>1, <2>1, <2>3 DEF ClientRequest, TypeOK, Side, ClientPC, Goto, ladderVars, envVars
    <3>2. ClientSide'
      BY <1>0, <1>1, <2>3, HelloFixed DEF ClientRequest, TypeOK, ClientSide, AgentInv, ResultInv, ClientInv,
        PunchPC, ClimbPC, RungLeft, ClientRung, ServeRungPC, Side, Goto, envVars, ladderVars
    <3>3. HostSide'
      BY <1>0, <1>1, <2>3, HostFrame DEF ClientRequest, TypeOK, Side, Goto, ladderVars
    <3> QED
      BY <3>1, <3>2, <3>3 DEF LocalInv
  <2>4. CASE ~RungLeft /\ CloseAgent("client") /\ ClientFellShort(FALSE)
    <3>1. rung' = [rung EXCEPT !["client"] = NoTier]
      BY <1>0, <1>1, <2>2 DEF ClientRequest, ladderVars, TypeOK, Side
    <3> QED
      BY <1>0, <1>1, <2>1, <2>4, <3>1, ClientGivesUp DEF ClientRequest, ladderVars, envVars, TypeOK
  <2> QED
    BY <1>1, <2>3, <2>4 DEF ClientRequest
<1>2. CASE ClientRequestAck
  <2>1. chan' \in [Side -> Seq(Messages)]
    BY <1>0, <1>2, TakeFrom DEF ClientRequestAck, Arrived, Side, TypeOK
  <2>2. abandoned' \in [Side -> BOOLEAN] /\ abandoned'["host"] = abandoned["host"]
    BY <1>0, <1>2, WaitGivenUp DEF ClientRequestAck, Peer, Side, TypeOK
  <2>3. rung["client"] = NoTier /\ cres = "none" /\ RungLeft /\ ClientRung \in Upper
    BY <1>0, <1>2, ClientLadder
    DEF ClientRequestAck, ClientSide, ClientInv, ResultInv, ClimbPC, NoTier
  <2>4. CASE /\ rung' = [rung EXCEPT !["client"] = ClientRung] /\ Goto("client", "dial")
             /\ UNCHANGED <<agent, end, cres, abandoned>>
    <3>1. TypeOK'
      BY <1>0, <1>2, <2>1, <2>3, <2>4 DEF ClientRequestAck, TypeOK, Side, ClientPC, Goto, envVars
    <3>2. ClientSide'
      BY <1>0, <1>2, <2>3, <2>4, HelloFixed DEF ClientRequestAck, TypeOK, ClientSide, AgentInv, ResultInv,
        ClientInv, PunchPC, ClimbPC, RungLeft, ClientRung, ServeRungPC, Side, Goto, envVars
    <3>3. HostSide'
      BY <1>0, <1>2, <2>4, HostFrame DEF ClientRequestAck, TypeOK, Side, Goto
    <3> QED
      BY <3>1, <3>2, <3>3 DEF LocalInv
  <2>5. CASE CloseAgent("client") /\ ClientFellShort(FALSE) /\ UNCHANGED rung
    <3>1. rung' = [rung EXCEPT !["client"] = NoTier]
      BY <1>0, <2>3, <2>5 DEF TypeOK, Side
    <3> QED
      BY <1>0, <1>2, <2>1, <2>2, <2>5, <3>1, ClientGivesUp DEF ClientRequestAck, envVars, TypeOK
  <2> QED
    BY <1>2, <2>4, <2>5 DEF ClientRequestAck
<1>3. CASE ClientDial
  <2>0. rung["client"] \in Upper /\ cres = "none" /\ RungLeft
    BY <1>0, <1>3 DEF ClientDial, ClientSide, ClientInv, ResultInv, ClimbPC
  <2>1. chan' \in [Side -> Seq(Messages)]
    BY <1>0, <1>3, <2>0, SendTo DEF ClientDial, Messages, Msg, Attempt, Side, TypeOK, Tiers, Upper
  <2>2. HostSide'
    BY <1>0, <1>3, HostFrame DEF ClientDial, TypeOK, TearDown, Side, Goto, punchVars
  <2>3. CASE Goto("client", "commitack") /\ UNCHANGED <<rung, subDead, idx>>
    <3>1. TypeOK'
      BY <1>0, <1>3, <2>1, <2>3 DEF ClientDial, TypeOK, Side, ClientPC, Goto, envVars, punchVars
    <3>2. ClientSide'
      BY <1>0, <1>3, <2>0, <2>3, HelloFixed DEF ClientDial, TypeOK, ClientSide, AgentInv, ResultInv,
        ClientInv, PunchPC, ClimbPC, RungLeft, ClientRung, ServeRungPC, Side, Goto, envVars, punchVars
    <3> QED
      BY <2>2, <3>1, <3>2 DEF LocalInv
  <2>4. ASSUME NEW dead \in BOOLEAN, TearDown("client", dead),
               idx' = IF dead THEN Len(LadderOf("client")) + 1 ELSE idx + 1,
               Goto("client", "request")
        PROVE  LocalInv'
    <3>0. LadderOf("client")' = LadderOf("client") /\ Len(LadderOf("client")) \in Nat
      BY <1>0, <1>3, HelloFixed, ClientLadder DEF ClientDial, envVars, Side
    <3>1. TypeOK'
      BY <1>0, <1>3, <2>1, <2>4, <3>0 DEF ClientDial, TypeOK, TearDown, Side, ClientPC, Goto, envVars,
         punchVars
    <3>2. ClientSide'
      BY <1>0, <1>3, <2>0, <2>4, <3>0, HelloFixed DEF ClientDial, TypeOK, TearDown, ClientSide, AgentInv,
        ResultInv, ClientInv, PunchPC, ClimbPC, RungLeft, ClientRung, ServeRungPC, Side, Goto, envVars,
        punchVars
    <3> QED
      BY <2>2, <3>1, <3>2 DEF LocalInv
  <2> QED
    BY <1>3, <2>3, <2>4 DEF ClientDial
<1>4. CASE ClientCommitAck
  <2>1. chan' \in [Side -> Seq(Messages)]
    BY <1>0, <1>4, TakeFrom DEF ClientCommitAck, Arrived, Side, TypeOK
  <2>2. abandoned' \in [Side -> BOOLEAN] /\ abandoned'["host"] = abandoned["host"]
    BY <1>0, <1>4, WaitGivenUp DEF ClientCommitAck, Peer, Side, TypeOK
  <2>3. CASE /\ cres' = rung["client"] /\ Leave("client", "closed") /\ Goto("client", "done")
             /\ UNCHANGED <<rung, agent, abandoned>>
    <3>0. rung["client"] \in Upper /\ agent["client"] = "open"
      BY <1>0, <1>4 DEF ClientCommitAck, ClientSide, ClientInv, NoTier, Upper, Tiers
    <3>1. TypeOK'
      BY <1>0, <1>4, <2>1, <2>3, <3>0 DEF ClientCommitAck, TypeOK, Side, ClientPC, Goto, Leave, envVars,
         Upper
    <3>2. ClientSide'
      BY <1>0, <1>4, <2>3, <3>0, HelloFixed DEF ClientCommitAck, TypeOK, ClientSide, AgentInv, ResultInv,
        ClientInv, PunchPC, ClimbPC, RungLeft, ClientRung, ServeRungPC, Side, Goto, envVars, Upper, Tiers
    <3>3. HostSide'
      BY <1>0, <1>4, <2>3, HostFrame DEF ClientCommitAck, TypeOK, Side, Goto
    <3> QED
      BY <3>1, <3>2, <3>3 DEF LocalInv
  <2>4. CASE /\ CloseAgent("client") /\ ClientFellShort(TRUE)
             /\ rung' = [rung EXCEPT !["client"] = NoTier]
    BY <1>0, <1>4, <2>1, <2>2, <2>4, ClientGivesUp DEF ClientCommitAck, envVars, TypeOK
  <2> QED
    BY <1>4, <2>3, <2>4 DEF ClientCommitAck
<1> QED
  BY <1>1, <1>2, <1>3, <1>4

\* The host's handler ends before it has served anything.
LEMMA HostEndsEarly ==
  ASSUME LocalInv, pc["host"] \in {"idle", "hello"} \cup PunchPC,
         pc' = [pc EXCEPT !["host"] = "ended"],
         agent' \in [Side -> {"none", "open", "closed"}],
         agent'["host"] # "open", agent'["client"] = agent["client"],
         end' \in [Side -> {"open", "closed", "reset"}],
         chan' \in [Side -> Seq(Messages)], tries' \in [Side -> Nat],
         abandoned' \in [Side -> BOOLEAN], abandoned'["client"] = abandoned["client"],
         landed' \in [Side -> BOOLEAN], landed'["client"] = landed["client"],
         UNCHANGED <<ladderVars, cres, envVars>>
  PROVE  LocalInv'
<1>1. TypeOK'
  BY DEF LocalInv, TypeOK, Side, HostPC, ladderVars, envVars
<1>2. ClientSide'
  BY ClientFrame DEF LocalInv, TypeOK, Side, ladderVars, envVars
<1>3. HostSide'
  BY DEF LocalInv, TypeOK, Side, ladderVars, HostSide, AgentInv, HostInv, CommitInv, ServeRungPC,
         ClimbPC, PunchPC
<1> QED
  BY <1>1, <1>2, <1>3 DEF LocalInv

\* punch returns to its caller.
LEMMA PunchOver ==
  ASSUME LocalInv, NEW s \in Side, NEW ok \in BOOLEAN,
         pc[s] \in {"info", "check", "outcome"}, PunchReturns(s, ok),
         ok => agent[s] = "open" /\ abandoned'[s] = abandoned[s],
         chan' \in [Side -> Seq(Messages)],
         abandoned' \in [Side -> BOOLEAN], abandoned'[Peer(s)] = abandoned[Peer(s)],
         landed' \in [Side -> BOOLEAN], landed'[Peer(s)] = landed[Peer(s)],
         UNCHANGED <<tries, ladderVars, envVars>>
  PROVE  LocalInv'
<1>0. TypeOK /\ ClientSide /\ HostSide
  BY DEF LocalInv
<1>1. CASE s = "client"
  <2>0. /\ rung["client"] = NoTier
        /\ LadderOf("client")' = LadderOf("client") /\ (Required' <=> Required)
        /\ (Probing("client")' <=> Probing("client"))
    BY <1>0, <1>1, HelloFixed
    DEF ClientSide, ClientInv, ResultInv, NoTier, PunchPC, TypeOK, Side, Upper, Tiers, envVars
  <2>1. CASE Probing("client")
    <3>1. /\ agent' \in [Side -> {"none", "open", "closed"}]
          /\ agent'["client"] # "open" /\ agent'["host"] = agent["host"]
      BY <1>0, <1>1, <2>1, AgentClosed DEF PunchReturns, Side, Peer
    <3>2. /\ pc' = [pc EXCEPT !["client"] = "done"] /\ UNCHANGED cres
          /\ end' = [end EXCEPT !["client"] = "closed"]
      BY <1>1, <2>1 DEF PunchReturns, Goto, Leave
    <3>3. cres = "libp2p"
      BY <1>0, <1>1, <2>1 DEF ClientSide, ResultInv, PunchPC
    <3>4. TypeOK'
      BY <1>0, <3>1, <3>2 DEF TypeOK, Side, ClientPC, ladderVars, envVars
    <3>5. ClientSide'
      BY <1>0, <1>1, <2>0, <3>1, <3>2, <3>3 DEF TypeOK, ClientSide, AgentInv, ResultInv, ClientInv, PunchPC,
         ClimbPC, RungLeft, ClientRung, ServeRungPC, Side, ladderVars
    <3>6. HostSide'
      BY <1>0, <1>1, <3>1, <3>2, HostFrame DEF TypeOK, Side, Peer, ladderVars
    <3> QED
      BY <3>4, <3>5, <3>6 DEF LocalInv
  <2>2. CASE ~Probing("client") /\ ok
    <3>1. pc' = [pc EXCEPT !["client"] = "request"] /\ UNCHANGED <<agent, end, cres>>
      BY <1>1, <2>2 DEF PunchReturns, Goto
    <3>2. TypeOK'
      BY <1>0, <3>1 DEF TypeOK, Side, ClientPC, ladderVars, envVars
    <3>3. ClientSide'
      BY <1>0, <1>1, <2>0, <2>2, <3>1 DEF TypeOK, ClientSide, AgentInv, ResultInv, ClientInv, PunchPC,
         ClimbPC, RungLeft, ClientRung, ServeRungPC, Side, ladderVars
    <3>4. HostSide'
      BY <1>0, <1>1, <3>1, HostFrame DEF TypeOK, Side, Peer, ladderVars
    <3> QED
      BY <3>2, <3>3, <3>4 DEF LocalInv
  <2>3. CASE ~Probing("client") /\ ~ok
    <3>1. CloseAgent("client") /\ ClientFellShort(FALSE)
      BY <1>1, <2>3 DEF PunchReturns
    <3>2. rung' = [rung EXCEPT !["client"] = NoTier]
      BY <1>0, <2>0 DEF ladderVars, TypeOK, Side
    <3> QED
      BY <1>1, <3>1, <3>2, ClientGivesUp DEF ladderVars, envVars, Peer
  <2> QED
    BY <2>1, <2>2, <2>3
<1>2. CASE s = "host"
  <2>1. CASE ~Probing("host") /\ ok
    <3>1. pc' = [pc EXCEPT !["host"] = "recv"] /\ UNCHANGED <<agent, end, cres>>
      BY <1>2, <2>1 DEF PunchReturns, Goto
    <3>2. TypeOK'
      BY <1>0, <3>1 DEF TypeOK, Side, HostPC, ladderVars, envVars
    <3>3. ClientSide'
      BY <1>0, <1>2, <3>1, ClientFrame DEF TypeOK, Side, Peer, ladderVars, envVars
    <3>4. HostSide'
      BY <1>0, <1>2, <2>1, <3>1 DEF TypeOK, HostSide, AgentInv, HostInv, CommitInv, ServeRungPC, ClimbPC,
         Side, ladderVars
    <3> QED
      BY <3>2, <3>3, <3>4 DEF LocalInv
  <2>2. CASE CloseAgent("host") /\ Leave("host", "closed") /\ Goto("host", "ended") /\ UNCHANGED cres
    <3>1. /\ agent' \in [Side -> {"none", "open", "closed"}]
          /\ agent'["host"] # "open" /\ agent'["client"] = agent["client"]
      BY <1>0, <2>2, AgentClosed DEF Side, Peer
    <3>2. end' \in [Side -> {"open", "closed", "reset"}]
      BY <1>0, <2>2 DEF TypeOK, Leave
    <3> QED
      BY <1>0, <1>2, <2>2, <3>1, <3>2, HostEndsEarly DEF PunchPC, Goto, Peer, TypeOK
  <2> QED
    BY <1>2, <2>1, <2>2 DEF PunchReturns
<1> QED
  BY <1>1, <1>2 DEF Side

\* A step of the punch that stays in it.
LEMMA PunchOn ==
  ASSUME LocalInv, NEW s \in Side, NEW l \in PunchPC, pc[s] \in PunchPC, Goto(s, l),
         agent' \in [Side -> {"none", "open", "closed"}], agent'[Peer(s)] = agent[Peer(s)],
         landed' \in [Side -> BOOLEAN], landed'[Peer(s)] = landed[Peer(s)],
         l = "gather" => agent'[s] # "open",
         landed'[s] /\ l # "gather" => agent'[s] = "open",
         chan' \in [Side -> Seq(Messages)], tries' \in [Side -> Nat],
         UNCHANGED <<end, abandoned, cres, ladderVars, envVars>>
  PROVE  LocalInv'
<1>0. TypeOK /\ ClientSide /\ HostSide
  BY DEF LocalInv
<1>1. TypeOK'
  BY <1>0 DEF TypeOK, Side, ClientPC, HostPC, Goto, ladderVars, envVars
<1>2. CASE s = "client"
  <2>1. /\ LadderOf("client")' = LadderOf("client") /\ (Required' <=> Required)
        /\ (Probing("client")' <=> Probing("client"))
    BY HelloFixed DEF Side, envVars
  <2>2. ClientSide'
    BY <1>0, <1>2, <2>1 DEF TypeOK, ClientSide, AgentInv, ResultInv, ClientInv, PunchPC,
       ClimbPC, RungLeft, ClientRung, ServeRungPC, Side, ladderVars, Goto, Upper, Tiers, NoTier
  <2>3. HostSide'
    BY <1>0, <1>2, HostFrame DEF TypeOK, Side, Peer, ladderVars, Goto
  <2> QED
    BY <1>1, <2>2, <2>3 DEF LocalInv
<1>3. CASE s = "host"
  <2>1. ClientSide'
    BY <1>0, <1>3, ClientFrame DEF TypeOK, Side, Peer, ladderVars, envVars, Goto
  <2>2. HostSide'
    BY <1>0, <1>3 DEF TypeOK, HostSide, AgentInv, HostInv, CommitInv, ServeRungPC, ClimbPC, PunchPC,
       Side, ladderVars, Goto
  <2> QED
    BY <1>1, <2>1, <2>2 DEF LocalInv
<1> QED
  BY <1>2, <1>3 DEF Side

\* punch on either side.
LEMMA PunchLocal ==
  ASSUME LocalInv, NEW s \in Side, Punch(s)
  PROVE  LocalInv'
<1>0. TypeOK /\ AgentInv(s) /\ Peer(s) \in Side /\ Peer(s) # s
  BY DEF LocalInv, ClientSide, HostSide, Side, Peer
<1>1. CASE PunchGather(s)
  <2>1. PICK ok \in BOOLEAN :
          /\ agent' = [agent EXCEPT ![s] = IF ok THEN "open" ELSE "none"]
          /\ landed' = [landed EXCEPT ![s] = ok]
          /\ Send(s, Msg("info", NoTier, ok))
    BY <1>1 DEF PunchGather
  <2>2. chan' \in [Side -> Seq(Messages)]
    BY <1>0, <2>1, SendTo DEF Messages, Msg
  <2> QED
    BY <1>0, <1>1, <2>1, <2>2, PunchOn DEF PunchGather, TypeOK, PunchPC
<1>2. CASE PunchInfo(s)
  <2>1. chan' \in [Side -> Seq(Messages)]
    BY <1>0, <1>2, TakeFrom DEF PunchInfo, Arrived, TypeOK
  <2>2. abandoned' \in [Side -> BOOLEAN] /\ abandoned'[Peer(s)] = abandoned[Peer(s)]
    BY <1>0, <1>2, WaitGivenUp DEF PunchInfo, TypeOK
  <2>3. CASE /\ Arrived(s, "info") /\ landed' = [landed EXCEPT ![s] = @ /\ Head(chan[s]).flag]
             /\ Goto(s, "check") /\ UNCHANGED <<abandoned, agent, end, cres>>
    <3>1. Head(chan[s]).flag \in BOOLEAN
      BY <1>0, <2>3, HeadMessage DEF Arrived
    <3> QED
      BY <1>0, <1>2, <2>1, <2>3, <3>1, PunchOn DEF PunchInfo, TypeOK, PunchPC, AgentInv
  <2>4. CASE PunchReturns(s, FALSE) /\ UNCHANGED landed
    BY <1>0, <1>2, <2>1, <2>2, <2>4, PunchOver DEF PunchInfo, TypeOK
  <2> QED
    BY <1>2, <2>3, <2>4 DEF PunchInfo
<1>3. CASE PunchCheck(s)
  <2>1. PICK ok \in ConnectOutcomes(s) :
          /\ landed' = [landed EXCEPT ![s] = ok]
          /\ IF AttemptsOf(s) = 1
             THEN PunchReturns(s, ok) /\ UNCHANGED chan
             ELSE /\ IF ok THEN UNCHANGED agent ELSE CloseAgent(s)
                  /\ Send(s, Msg("outcome", NoTier, ok))
                  /\ Goto(s, "outcome")
                  /\ UNCHANGED <<end, cres>>
    BY <1>3 DEF PunchCheck
  <2>2. ok \in BOOLEAN /\ (ok => landed[s] /\ agent[s] = "open")
    BY <1>0, <1>3 DEF ConnectOutcomes, AgentInv, PunchCheck
  <2>3. CASE PunchReturns(s, ok) /\ UNCHANGED chan
    <3>1. landed' \in [Side -> BOOLEAN] /\ landed'[Peer(s)] = landed[Peer(s)]
      BY <1>0, <2>1, <2>2 DEF TypeOK
    <3>2. /\ chan' \in [Side -> Seq(Messages)] /\ abandoned' \in [Side -> BOOLEAN]
          /\ UNCHANGED <<abandoned, tries, ladderVars, envVars>> /\ pc[s] = "check"
      BY <1>0, <1>3, <2>3 DEF PunchCheck, TypeOK
    <3> QED
      BY <2>2, <2>3, <3>1, <3>2, PunchOver
  <2>4. CASE /\ IF ok THEN UNCHANGED agent ELSE CloseAgent(s)
             /\ Send(s, Msg("outcome", NoTier, ok))
             /\ Goto(s, "outcome")
             /\ UNCHANGED <<end, cres>>
    <3>1. chan' \in [Side -> Seq(Messages)]
      BY <1>0, <2>2, <2>4, SendTo DEF Messages, Msg
    <3>2. agent' \in [Side -> {"none", "open", "closed"}] /\ agent'[Peer(s)] = agent[Peer(s)]
      BY <1>0, <2>4, AgentClosed DEF TypeOK
    <3> QED
      BY <1>0, <1>3, <2>1, <2>2, <2>4, <3>1, <3>2, PunchOn DEF PunchCheck, TypeOK, PunchPC
  <2> QED
    BY <2>1, <2>3, <2>4
<1>4. CASE PunchOutcome(s)
  <2>1. chan' \in [Side -> Seq(Messages)]
    BY <1>0, <1>4, TakeFrom DEF PunchOutcome, Arrived, TypeOK
  <2>2. abandoned' \in [Side -> BOOLEAN] /\ abandoned'[Peer(s)] = abandoned[Peer(s)]
    BY <1>0, <1>4, WaitGivenUp DEF PunchOutcome, TypeOK
  <2>3. Arrived(s, "outcome") => Head(chan[s]).flag \in BOOLEAN
    BY <1>0, HeadMessage DEF Arrived
  <2>4. CASE /\ Arrived(s, "outcome") /\ UNCHANGED <<abandoned, tries>>
             /\ PunchReturns(s, landed[s] /\ Head(chan[s]).flag)
    BY <1>0, <1>4, <2>1, <2>2, <2>3, <2>4, PunchOver DEF PunchOutcome, TypeOK, AgentInv
  <2>5. CASE /\ CloseAgent(s) /\ tries' = [tries EXCEPT ![s] = @ + 1] /\ Goto(s, "gather")
             /\ UNCHANGED <<end, cres, abandoned>>
    <3>1. /\ agent' \in [Side -> {"none", "open", "closed"}]
          /\ agent'[s] # "open" /\ agent'[Peer(s)] = agent[Peer(s)]
      BY <1>0, <2>5, AgentClosed
    <3>2. /\ tries' \in [Side -> Nat] /\ landed' \in [Side -> BOOLEAN]
          /\ UNCHANGED <<landed, ladderVars, envVars>> /\ pc[s] = "outcome"
      BY <1>0, <1>4, <2>5 DEF PunchOutcome, TypeOK
    <3> QED
      BY <2>1, <2>5, <3>1, <3>2, PunchOn DEF PunchPC
  <2>6. CASE PunchReturns(s, FALSE) /\ UNCHANGED tries
    BY <1>0, <1>4, <2>1, <2>2, <2>6, PunchOver DEF PunchOutcome, TypeOK
  <2> QED
    BY <1>4, <2>4, <2>5, <2>6 DEF PunchOutcome
<1> QED
  BY <1>1, <1>2, <1>3, <1>4 DEF Punch


\* Accepting the stream and swapping Hellos on the host.
LEMMA HostStarts ==
  ASSUME LocalInv, HostAccept \/ HostHello
  PROVE  LocalInv'
<1>0. TypeOK /\ ClientSide /\ HostSide
  BY DEF LocalInv
<1>1. CASE HostAccept
  <2>1. chan' \in [Side -> Seq(Messages)]
    BY <1>0, <1>1, SendTo DEF HostAccept, Messages, Msg, TypeOK, Side
  <2>2. CASE Goto("host", "hello") /\ UNCHANGED end
    <3>1. TypeOK'
      BY <1>0, <1>1, <2>1, <2>2 DEF HostAccept, TypeOK, HostPC, Side, Goto, envVars, punchVars, ladderVars
    <3>2. ClientSide'
      BY <1>0, <1>1, <2>2, ClientFrame DEF HostAccept, TypeOK, Side, Goto, envVars, punchVars, ladderVars
    <3>3. HostSide'
      BY <1>0, <1>1, <2>2 DEF HostAccept, TypeOK, HostSide, AgentInv, HostInv, CommitInv, ServeRungPC,
         ClimbPC, Side, Goto, punchVars, ladderVars
    <3> QED
      BY <3>1, <3>2, <3>3 DEF LocalInv
  <2>3. CASE Goto("host", "ended") /\ Leave("host", "reset")
    <3>1. agent["host"] # "open" /\ end' \in [Side -> {"open", "closed", "reset"}]
      BY <1>0, <1>1, <2>3 DEF HostAccept, HostSide, AgentInv, TypeOK, Leave
    <3> QED
      BY <1>0, <1>1, <2>1, <2>3, <3>1, HostEndsEarly DEF HostAccept, Goto, punchVars, TypeOK
  <2> QED
    BY <1>1, <2>2, <2>3 DEF HostAccept
<1>2. CASE HostHello
  <2>1. chan' \in [Side -> Seq(Messages)]
    BY <1>0, <1>2, TakeFrom DEF HostHello, Arrived, Side, TypeOK
  <2>2. abandoned' \in [Side -> BOOLEAN] /\ abandoned'["client"] = abandoned["client"]
    BY <1>0, <1>2, WaitGivenUp DEF HostHello, Peer, Side, TypeOK
  <2>3. CASE /\ Goto("host", "gather") /\ tries' = [tries EXCEPT !["host"] = 1]
             /\ UNCHANGED <<end, abandoned>>
    <3>1. TypeOK'
      BY <1>0, <1>2, <2>1, <2>3 DEF HostHello, TypeOK, HostPC, PunchPC, Side, Goto, envVars, ladderVars
    <3>2. ClientSide'
      BY <1>0, <1>2, <2>3, ClientFrame DEF HostHello, TypeOK, Side, Goto, envVars, ladderVars
    <3>3. HostSide'
      BY <1>0, <1>2, <2>3 DEF HostHello, TypeOK, HostSide, AgentInv, HostInv, CommitInv, ServeRungPC,
         ClimbPC, Side, Goto, ladderVars
    <3> QED
      BY <3>1, <3>2, <3>3 DEF LocalInv
  <2>4. CASE /\ Goto("host", "ended") /\ UNCHANGED tries
             /\ end' \in [Side -> {"open", "closed", "reset"}]
    <3>1. agent["host"] # "open"
      BY <1>0, <1>2 DEF HostHello, HostSide, AgentInv
    <3> QED
      BY <1>0, <1>2, <2>1, <2>2, <2>4, <3>1, HostEndsEarly DEF HostHello, Goto, TypeOK
  <2> QED
    BY <1>0, <1>2, <2>3, <2>4 DEF HostHello, Leave, TypeOK
<1> QED
  BY <1>1, <1>2

\* The host's handler returns with nothing on its substrate.
LEMMA HostHandlerEnds ==
  ASSUME LocalInv, HostReturns,
         rung' \in [Side -> Upper \cup {NoTier}],
         rung'["host"] = NoTier, rung'["client"] = rung["client"],
         subDead' \in [Side -> BOOLEAN], subDead'["client"] = subDead["client"],
         active' = NoTier, committed # NoTier => tierStop',
         tierStop' \in BOOLEAN, watching' \in BOOLEAN, pending' \in Messages,
         chan' \in [Side -> Seq(Messages)],
         abandoned' \in [Side -> BOOLEAN], abandoned'["client"] = abandoned["client"],
         UNCHANGED <<tries, landed, idx, committed, cres, envVars>>
  PROVE  LocalInv'
<1>0. TypeOK /\ ClientSide /\ HostSide
  BY DEF LocalInv
<1>1. /\ agent' \in [Side -> {"none", "open", "closed"}]
      /\ agent'["host"] # "open" /\ agent'["client"] = agent["client"]
      /\ pc' = [pc EXCEPT !["host"] = "ended"]
      /\ end' \in [Side -> {"open", "closed", "reset"}]
  BY <1>0, AgentClosed DEF HostReturns, Goto, Leave, Side, Peer, TypeOK
<1>2. TypeOK'
  BY <1>0, <1>1 DEF TypeOK, Side, HostPC, envVars
<1>3. ClientSide'
  BY <1>0, <1>1, ClientFrame DEF TypeOK, Side, envVars
<1>4. HostSide'
  BY <1>0, <1>1 DEF HostSide, AgentInv, HostInv, CommitInv, ServeRungPC, ClimbPC, TypeOK, Side
<1> QED
  BY <1>2, <1>3, <1>4 DEF LocalInv

\* A host that is not serving holds no rung and has committed to none.
LEMMA HostIdle ==
  ASSUME LocalInv, pc["host"] \notin {"serve", "ended"} \cup ServeRungPC
  PROVE  rung["host"] = NoTier /\ active = NoTier /\ committed = NoTier /\ ~subDead["host"]
BY DEF LocalInv, HostSide, HostInv, CommitInv, ServeRungPC, TypeOK, Side

\* A step of the host's handler that does not end it.
LEMMA HostMoves ==
  ASSUME LocalInv, NEW l \in HostPC, Goto("host", l),
         rung' \in [Side -> Upper \cup {NoTier}], rung'["client"] = rung["client"],
         subDead' \in [Side -> BOOLEAN], subDead'["client"] = subDead["client"],
         active' \in Upper \cup {NoTier}, committed' \in Upper \cup {NoTier},
         tierStop' \in BOOLEAN, watching' \in BOOLEAN, pending' \in Messages,
         chan' \in [Side -> Seq(Messages)],
         abandoned' \in [Side -> BOOLEAN], abandoned'["client"] = abandoned["client"],
         UNCHANGED <<punchVars, end, idx, cres, envVars>>
  PROVE  TypeOK' /\ ClientSide' /\ pc'["host"] = l
<1>0. TypeOK /\ ClientSide /\ HostSide
  BY DEF LocalInv
<1>1. TypeOK'
  BY <1>0 DEF TypeOK, Side, envVars, punchVars, Goto
<1>2. ClientSide'
  BY <1>0, ClientFrame DEF TypeOK, Side, envVars, punchVars, Goto
<1> QED
  BY <1>0, <1>1, <1>2 DEF Goto, TypeOK, Side

\* The host's loop up to a standing rung.
LEMMA HostFollows ==
  ASSUME LocalInv, TurnInv, HostReceive \/ HostGot \/ HostServe
  PROVE  LocalInv'
<1>0. TypeOK /\ ClientSide /\ HostSide
  BY DEF LocalInv
<1>1. CASE HostReceive
  <2>0. rung["host"] = NoTier /\ active = NoTier /\ committed = NoTier /\ ~subDead["host"]
    BY <1>1, HostIdle DEF HostReceive, ServeRungPC
  <2>1. CASE /\ Arrived("host", "attempt") /\ Take("host") /\ pending' = Head(chan["host"])
             /\ Goto("host", "got") /\ UNCHANGED <<abandoned, agent, end>>
    <3>1. chan' \in [Side -> Seq(Messages)] /\ pending' \in Messages
      BY <1>0, <2>1, TakeFrom DEF Arrived, Side
    <3>2. TypeOK' /\ ClientSide' /\ pc'["host"] = "got"
      BY <1>0, <1>1, <2>1, <3>1, HostMoves DEF HostReceive, TypeOK, HostPC, punchVars
    <3>3. HostSide'
      BY <1>0, <1>1, <2>0, <2>1, <3>2 DEF HostReceive, HostSide, AgentInv, HostInv, CommitInv, ServeRungPC,
         ClimbPC
    <3> QED
      BY <3>2, <3>3 DEF LocalInv
  <2>2. CASE ReceiveError("host", "attempt") /\ HostReturns /\ UNCHANGED <<chan, pending>>
    <3>1. abandoned' \in [Side -> BOOLEAN] /\ abandoned'["client"] = abandoned["client"]
      BY <1>0, <2>2, WaitGivenUp DEF SwapError, Side, Peer
    <3> QED
      BY <1>0, <1>1, <2>0, <2>2, <3>1, HostHandlerEnds DEF HostReceive, TypeOK
  <2> QED
    BY <1>1, <2>1, <2>2 DEF HostReceive
<1>2. CASE HostGot
  <2>0. rung["host"] = NoTier /\ active = NoTier /\ committed = NoTier /\ ~subDead["host"]
    BY <1>2, HostIdle DEF HostGot, ServeRungPC
  <2>1. CASE HostReturns /\ UNCHANGED <<chan, rung>>
    BY <1>0, <1>2, <2>0, <2>1, HostHandlerEnds DEF HostGot, TypeOK
  <2>2. CASE /\ pending.tier # "libp2p" /\ Send("host", Attempt(pending.tier, FALSE))
             /\ rung' = [rung EXCEPT !["host"] = pending.tier]
             /\ Goto("host", "serve") /\ UNCHANGED <<agent, end>>
    <3>1. pending.tier \in Upper
      BY <1>2, <2>2 DEF HostGot, TurnInv, Upper
    <3>2. chan' \in [Side -> Seq(Messages)]
      BY <1>0, <2>2, <3>1, SendTo DEF Messages, Msg, Attempt, Side, Upper
    <3>3. /\ rung' \in [Side -> Upper \cup {NoTier}]
          /\ rung'["host"] \in Upper /\ rung'["client"] = rung["client"]
      BY <1>0, <2>2, <3>1 DEF TypeOK, Side
    <3>4. TypeOK' /\ ClientSide' /\ pc'["host"] = "serve"
      BY <1>0, <1>2, <2>2, <3>2, <3>3, HostMoves DEF HostGot, TypeOK, HostPC, punchVars
    <3>5. HostSide'
      BY <1>0, <1>2, <2>0, <2>2, <3>3, <3>4 DEF HostGot, HostSide, AgentInv, HostInv, CommitInv,
         ServeRungPC, ClimbPC
    <3> QED
      BY <3>4, <3>5 DEF LocalInv
  <2> QED
    BY <1>2, <2>1, <2>2 DEF HostGot
<1>3. CASE HostServe
  <2>0. /\ rung["host"] \in Upper /\ active = NoTier /\ committed = NoTier
        /\ ~subDead["host"] /\ ~abandoned["host"]
    BY <1>0, <1>3 DEF HostServe, HostSide, HostInv, CommitInv, ServeRungPC, TypeOK, Side
  <2>1. CASE /\ active' = rung["host"] /\ tierStop' = FALSE /\ Goto("host", "serving")
             /\ UNCHANGED <<rung, subDead, agent, end>>
    <3>1. TypeOK' /\ ClientSide' /\ pc'["host"] = "serving"
      BY <1>0, <1>3, <2>0, <2>1, HostMoves DEF HostServe, TypeOK, HostPC, punchVars
    <3>2. HostSide'
      BY <1>0, <1>3, <2>0, <2>1, <3>1 DEF HostServe, HostSide, AgentInv, HostInv, CommitInv, ServeRungPC,
         ClimbPC, NoTier, Upper, Tiers
    <3> QED
      BY <3>1, <3>2 DEF LocalInv
  <2>2. ASSUME NEW dead \in BOOLEAN, TearDown("host", dead)
        PROVE  /\ rung' \in [Side -> Upper \cup {NoTier}]
               /\ rung'["host"] = NoTier /\ rung'["client"] = rung["client"]
               /\ subDead' \in [Side -> BOOLEAN]
               /\ subDead'["host"] = dead /\ subDead'["client"] = subDead["client"]
    BY <1>0, <2>0, <2>2 DEF TearDown, TypeOK, Side
  <2>3. CASE TearDown("host", FALSE) /\ Goto("host", "recv") /\ UNCHANGED <<agent, end, active, tierStop>>
    <3>0. /\ rung' \in [Side -> Upper \cup {NoTier}]
          /\ rung'["host"] = NoTier /\ rung'["client"] = rung["client"]
          /\ subDead' \in [Side -> BOOLEAN]
          /\ subDead'["host"] = FALSE /\ subDead'["client"] = subDead["client"]
      BY <2>2, <2>3
    <3>1. TypeOK' /\ ClientSide' /\ pc'["host"] = "recv"
      BY <1>0, <1>3, <2>3, <3>0, HostMoves DEF HostServe, TypeOK, HostPC, punchVars
    <3>2. HostSide'
      BY <1>0, <1>3, <2>0, <2>3, <3>0, <3>1 DEF HostServe, HostSide, AgentInv, HostInv, CommitInv,
         ServeRungPC, ClimbPC
    <3> QED
      BY <3>1, <3>2 DEF LocalInv
  <2>4. CASE TearDown("host", TRUE) /\ HostReturns /\ UNCHANGED <<active, tierStop>>
    <3>0. /\ rung' \in [Side -> Upper \cup {NoTier}]
          /\ rung'["host"] = NoTier /\ rung'["client"] = rung["client"]
          /\ subDead' \in [Side -> BOOLEAN] /\ subDead'["client"] = subDead["client"]
      BY <2>2, <2>4
    <3> QED
      BY <1>0, <1>3, <2>0, <2>4, <3>0, HostHandlerEnds DEF HostServe, TypeOK
  <2> QED
    BY <1>3, <2>1, <2>3, <2>4 DEF HostServe
<1> QED
  BY <1>1, <1>2, <1>3

\* serveRung and what follows it.
LEMMA HostServes ==
  ASSUME LocalInv,
         HostServing \/ HostStopped \/ HostCommit \/ HostNotify \/ HostVerify \/ HostRelease
  PROVE  LocalInv'
<1>0. TypeOK /\ ClientSide /\ HostSide
  BY DEF LocalInv
<1>1. CASE HostServing
  <2>0. /\ active \in Upper /\ committed = NoTier /\ ~abandoned["host"] /\ agent["host"] = "open"
        /\ ~tierStop => rung["host"] = active
    BY <1>0, <1>1 DEF HostServing, HostSide, AgentInv, HostInv, CommitInv, ServeRungPC, TypeOK, Side
  <2>1. CASE /\ Arrived("host", "attempt") /\ Take("host") /\ pending' = Head(chan["host"])
             /\ UNCHANGED abandoned
    <3>1. chan' \in [Side -> Seq(Messages)] /\ pending' \in Messages
      BY <1>0, <2>1, TakeFrom DEF Arrived, Side
    <3>2. CASE pending'.flag /\ pending'.tier = active /\ Goto("host", "commit") /\ UNCHANGED tierStop
      <4>1. TypeOK' /\ ClientSide' /\ pc'["host"] = "commit"
        BY <1>0, <1>1, <2>1, <3>1, <3>2, HostMoves DEF HostServing, TypeOK, HostPC
      <4>2. pending' = Attempt(active, TRUE)
        <5>1. pending'.type = "attempt" /\ pending'.flag = TRUE
          BY <2>1, <3>1, <3>2 DEF Arrived, Messages
        <5> QED
          BY <3>1, <3>2, <5>1 DEF Messages, Attempt, Msg
      <4>3. HostSide'
        BY <1>0, <1>1, <2>0, <2>1, <3>2, <4>1, <4>2 DEF HostServing, HostSide, AgentInv, HostInv, CommitInv,
           ServeRungPC, ClimbPC, punchVars
      <4> QED
        BY <4>1, <4>3 DEF LocalInv
    <3>3. CASE Goto("host", "stopping") /\ tierStop' = TRUE
      <4>1. TypeOK' /\ ClientSide' /\ pc'["host"] = "stopping"
        BY <1>0, <1>1, <2>1, <3>1, <3>3, HostMoves DEF HostServing, TypeOK, HostPC
      <4>2. HostSide'
        BY <1>0, <1>1, <2>0, <2>1, <3>3, <4>1 DEF HostServing, HostSide, AgentInv, HostInv, CommitInv,
           ServeRungPC, ClimbPC, punchVars
      <4> QED
        BY <4>1, <4>2 DEF LocalInv
    <3> QED
      BY <1>1, <2>1, <3>2, <3>3 DEF HostServing, Arrived, ReadFails
  <2>2. CASE /\ UNCHANGED abandoned \/ abandoned' = [abandoned EXCEPT !["host"] = TRUE]
             /\ pending' = NoAttempt /\ tierStop' = TRUE /\ Goto("host", "stopping") /\ UNCHANGED chan
    <3>1. abandoned' \in [Side -> BOOLEAN] /\ abandoned'["client"] = abandoned["client"]
      BY <1>0, <2>2 DEF TypeOK, Side
    <3>2. pending' \in Messages
      BY <2>2 DEF NoAttempt, Attempt, Msg, Messages
    <3>3. TypeOK' /\ ClientSide' /\ pc'["host"] = "stopping"
      BY <1>0, <1>1, <2>2, <3>1, <3>2, HostMoves DEF HostServing, TypeOK, HostPC
    <3>4. HostSide'
      BY <1>0, <1>1, <2>0, <2>2, <3>3 DEF HostServing, HostSide, AgentInv, HostInv, CommitInv,
         ServeRungPC, ClimbPC, punchVars
    <3> QED
      BY <3>3, <3>4 DEF LocalInv
  <2> QED
    BY <1>1, <2>1, <2>2 DEF HostServing
<1>2. CASE HostStopped
  <2>0. /\ committed = NoTier /\ agent["host"] = "open"
        /\ abandoned["host"] => pending = NoAttempt
    BY <1>0, <1>2 DEF HostStopped, HostSide, AgentInv, HostInv, CommitInv, ServeRungPC
  <2>1. CASE HostReturns
    BY <1>0, <1>2, <2>0, <2>1, HostHandlerEnds DEF HostStopped, TypeOK
  <2>2. CASE /\ pending # NoAttempt /\ ~pending.flag /\ ~subDead["host"]
             /\ Goto("host", "got") /\ UNCHANGED <<agent, end>>
    <3>1. TypeOK' /\ ClientSide' /\ pc'["host"] = "got"
      BY <1>0, <1>2, <2>2, HostMoves DEF HostStopped, TypeOK, HostPC, punchVars
    <3>2. HostSide'
      BY <1>0, <1>2, <2>0, <2>2, <3>1 DEF HostStopped, HostSide, AgentInv, HostInv, CommitInv,
         ServeRungPC, ClimbPC
    <3> QED
      BY <3>1, <3>2 DEF LocalInv
  <2> QED
    BY <1>2, <2>1, <2>2 DEF HostStopped
<1>3. CASE HostCommit
  <2>0. active \in Upper /\ committed = NoTier /\ agent["host"] = "open" /\ ~abandoned["host"]
    BY <1>0, <1>3 DEF HostCommit, HostSide, AgentInv, HostInv, CommitInv, ServeRungPC, TypeOK, Side
  <2>1. CASE /\ Send("host", Attempt(active, TRUE)) /\ committed' = active
             /\ Goto("host", "notify") /\ UNCHANGED <<tierStop, pending>>
    <3>1. chan' \in [Side -> Seq(Messages)]
      BY <1>0, <2>0, <2>1, SendTo DEF Messages, Msg, Attempt, Side, Upper
    <3>2. TypeOK' /\ ClientSide' /\ pc'["host"] = "notify"
      BY <1>0, <1>3, <2>0, <2>1, <3>1, HostMoves DEF HostCommit, TypeOK, HostPC
    <3>3. HostSide'
      BY <1>0, <1>3, <2>0, <2>1, <3>2 DEF HostCommit, HostSide, AgentInv, HostInv, CommitInv,
         ServeRungPC, ClimbPC, punchVars
    <3> QED
      BY <3>2, <3>3 DEF LocalInv
  <2>2. CASE /\ pending' = NoAttempt /\ tierStop' = TRUE /\ Goto("host", "stopping")
             /\ UNCHANGED <<chan, committed>>
    <3>1. pending' \in Messages
      BY <2>2 DEF NoAttempt, Attempt, Msg, Messages
    <3>2. TypeOK' /\ ClientSide' /\ pc'["host"] = "stopping"
      BY <1>0, <1>3, <2>2, <3>1, HostMoves DEF HostCommit, TypeOK, HostPC
    <3>3. HostSide'
      BY <1>0, <1>3, <2>0, <2>2, <3>2 DEF HostCommit, HostSide, AgentInv, HostInv, CommitInv,
         ServeRungPC, ClimbPC, punchVars
    <3> QED
      BY <3>2, <3>3 DEF LocalInv
  <2> QED
    BY <1>3, <2>1, <2>2 DEF HostCommit
<1>4. CASE HostNotify
  <2>1. TypeOK' /\ ClientSide' /\ pc'["host"] = "verify"
    BY <1>0, <1>4, HostMoves DEF HostNotify, TypeOK, HostPC
  <2>2. HostSide'
    BY <1>0, <1>4, <2>1 DEF HostNotify, HostSide, AgentInv, HostInv, CommitInv, ServeRungPC, ClimbPC,
       punchVars
  <2> QED
    BY <2>1, <2>2 DEF LocalInv
<1>5. CASE HostVerify
  <2>1. TypeOK' /\ ClientSide' /\ pc'["host"] = "committed"
    BY <1>0, <1>5, HostMoves DEF HostVerify, TypeOK, HostPC
  <2>2. HostSide'
    BY <1>0, <1>5, <2>1 DEF HostVerify, HostSide, AgentInv, HostInv, CommitInv, ServeRungPC, ClimbPC,
       punchVars
  <2> QED
    BY <2>1, <2>2 DEF LocalInv
<1>6. CASE HostRelease
  BY <1>0, <1>6, HostHandlerEnds DEF HostRelease, TypeOK
<1> QED
  BY <1>1, <1>2, <1>3, <1>4, <1>5, <1>6

\* The closer goroutine, what stops a rung, the network and the client's exit.
LEMMA SurroundingsLocal ==
  ASSUME LocalInv, CloseRung \/ StopTier \/ StreamBreaks \/ Disconnect \/ ClientExit
  PROVE  LocalInv'
<1>0. TypeOK /\ ClientSide /\ HostSide
  BY DEF LocalInv
<1>1. CASE CloseRung
  <2>1. PICK dead \in BOOLEAN : TearDown("host", dead)
    BY <1>1 DEF CloseRung
  <2>2. /\ rung' \in [Side -> Upper \cup {NoTier}]
        /\ rung'["host"] = NoTier /\ rung'["client"] = rung["client"]
        /\ subDead' \in [Side -> BOOLEAN] /\ subDead'["client"] = subDead["client"]
    BY <1>0, <2>1 DEF TearDown, TypeOK, Side
  <2>3. TypeOK'
    BY <1>0, <1>1, <2>2 DEF CloseRung, TypeOK, Side, punchVars, envVars
  <2>4. ClientSide'
    BY <1>0, <1>1, <2>2, ClientFrame DEF CloseRung, punchVars, envVars
  <2>5. HostSide'
    BY <1>0, <1>1, <2>2 DEF CloseRung, HostSide, AgentInv, HostInv, CommitInv, ServeRungPC, ClimbPC,
       punchVars
  <2> QED
    BY <2>3, <2>4, <2>5 DEF LocalInv
<1>2. CASE StopTier
  <2>1. TypeOK'
    BY <1>0, <1>2 DEF StopTier, TypeOK, punchVars, envVars
  <2>2. ClientSide' /\ HostSide'
    BY <1>0, <1>2, ClientFrame, HostFrame DEF StopTier, punchVars, envVars
  <2> QED
    BY <2>1, <2>2 DEF LocalInv
<1>3. CASE StreamBreaks \/ Disconnect
  <2>1. TypeOK'
    BY <1>0, <1>3 DEF StreamBreaks, Disconnect, LosePeer, TypeOK, punchVars, ladderVars
  <2>2. /\ tierStop => tierStop'
        /\ UNCHANGED <<hello, pc, abandoned, landed, agent, rung, subDead, idx, pending, active,
                       committed, cres>>
    <3>1. tierStop \in BOOLEAN /\ watching \in BOOLEAN
      BY <1>0 DEF TypeOK
    <3> QED
      BY <1>3, <3>1 DEF StreamBreaks, Disconnect, LosePeer, punchVars, ladderVars
  <2>3. ClientSide'
    BY <1>0, <2>2, ClientFrame
  <2>4. HostSide'
    BY <1>0, <2>2, HostFrame
  <2> QED
    BY <2>1, <2>3, <2>4 DEF LocalInv
<1>4. CASE ClientExit
  <2>1. /\ agent' \in [Side -> {"none", "open", "closed"}]
        /\ agent'["client"] # "open" /\ agent'["host"] = agent["host"]
    BY <1>0, <1>4, AgentClosed DEF ClientExit, Side, Peer
  <2>2. /\ rung' \in [Side -> Upper \cup {NoTier}]
        /\ rung'["client"] = NoTier /\ rung'["host"] = rung["host"]
    BY <1>0, <1>4 DEF ClientExit, TypeOK, Side
  <2>3. TypeOK'
    BY <1>0, <1>4, <2>1, <2>2 DEF ClientExit, LosePeer, TypeOK
  <2>4. HostSide'
    BY <1>0, <1>4, <2>1, <2>2, HostFrame DEF ClientExit, LosePeer
  <2>5. LadderOf("client")' = LadderOf("client") /\ (Required' <=> Required)
    BY <1>4, HelloFixed DEF Side, ClientExit
  <2>6. ClientSide'
    BY <1>0, <1>4, <2>1, <2>2, <2>5 DEF ClientExit, ClientSide, AgentInv, ResultInv, ClientInv, PunchPC,
       ClimbPC, ServeRungPC, RungLeft, ClientRung
  <2> QED
    BY <2>3, <2>4, <2>6 DEF LocalInv
<1> QED
  BY <1>1, <1>2, <1>3, <1>4

-----------------------------------------------------------------------------
(* The attempts on the stream.                                             *)

\* A step that puts no attempt on the stream.
NoNewAttempt == \A t \in Side : AttemptsTo(t)' \subseteq AttemptsTo(t) /\ OneAttempt(t)'

\* Messages of the punch are no attempts.
LEMMA SendOther ==
  ASSUME TypeOK, TurnInv, NEW s \in Side, NEW m \in Messages, m.type # "attempt", Send(s, m)
  PROVE  NoNewAttempt
<1>1. \A t \in Side : t = s \/ t = Peer(s)
  BY DEF Side, Peer
<1>2. AttemptsTo(s)' \subseteq AttemptsTo(s) /\ AttemptsTo(Peer(s))' \subseteq AttemptsTo(Peer(s))
  BY SendTo DEF AttemptsTo
<1>3. Peer(s) \in Side /\ chan[Peer(s)] \in Seq(Messages)
  BY DEF TypeOK, Side, Peer
<1>4. OneAttempt(s)'
  BY SendTo DEF OneAttempt, TurnInv
<1>5. OneAttempt(Peer(s))'
  <2>1. CASE chan'[Peer(s)] = chan[Peer(s)]
    BY <1>3, <2>1 DEF OneAttempt, TurnInv
  <2>2. CASE chan'[Peer(s)] = Append(chan[Peer(s)], m)
    <3>1. \A i \in DOMAIN chan'[Peer(s)] :
            \/ chan'[Peer(s)][i] = m
            \/ i \in DOMAIN chan[Peer(s)] /\ chan'[Peer(s)][i] = chan[Peer(s)][i]
      BY <1>3, <2>2
    <3> QED
      BY <1>3, <3>1 DEF OneAttempt, TurnInv
  <2> QED
    BY <2>1, <2>2, SendTo
<1> QED
  BY <1>1, <1>2, <1>4, <1>5 DEF NoNewAttempt

\* An attempt sent where none was under way is the only one under way.
LEMMA SendAttempt ==
  ASSUME TypeOK, TurnInv, NEW s \in Side, NEW m \in Messages, m.type = "attempt", Send(s, m),
         AttemptsTo(Peer(s)) = {}
  PROVE  /\ AttemptsTo(s)' = AttemptsTo(s) /\ AttemptsTo(Peer(s))' \subseteq {m}
         /\ \A t \in Side : OneAttempt(t)'
<1>1. \A t \in Side : t = s \/ t = Peer(s)
  BY DEF Side, Peer
<1>2. AttemptsTo(s)' = AttemptsTo(s) /\ AttemptsTo(Peer(s))' \subseteq {m}
  BY SendTo DEF AttemptsTo
<1>3. Peer(s) \in Side /\ chan[Peer(s)] \in Seq(Messages)
  BY DEF TypeOK, Side, Peer
<1>4. OneAttempt(s)'
  BY SendTo DEF OneAttempt, TurnInv
<1>5. OneAttempt(Peer(s))'
  <2>1. CASE chan'[Peer(s)] = chan[Peer(s)]
    BY <1>3, <2>1 DEF OneAttempt, TurnInv
  <2>2. CASE chan'[Peer(s)] = Append(chan[Peer(s)], m)
    <3>1. \A i \in DOMAIN chan[Peer(s)] : chan[Peer(s)][i].type # "attempt"
      BY DEF AttemptsTo, Flight
    <3>2. \A i \in DOMAIN chan'[Peer(s)] :
            \/ i = Len(chan[Peer(s)]) + 1
            \/ i \in DOMAIN chan[Peer(s)] /\ chan'[Peer(s)][i] = chan[Peer(s)][i]
      BY <1>3, <2>2
    <3> QED
      BY <3>1, <3>2 DEF OneAttempt
  <2> QED
    BY <2>1, <2>2, SendTo
<1> QED
  BY <1>1, <1>2, <1>4, <1>5

\* Reading adds nothing, and the attempt read was the only one.
LEMMA TakeAttempt ==
  ASSUME TypeOK, TurnInv, NEW s \in Side, chan[s] # <<>>, Take(s)
  PROVE  /\ NoNewAttempt
         /\ Head(chan[s]).type = "attempt" => Head(chan[s]) \in AttemptsTo(s) /\ AttemptsTo(s)' = {}
<1>1. \A t \in Side : t = s \/ t = Peer(s)
  BY DEF Side, Peer
<1>2. /\ AttemptsTo(s)' \subseteq AttemptsTo(s) /\ AttemptsTo(Peer(s))' \subseteq AttemptsTo(Peer(s))
      /\ Head(chan[s]).type = "attempt" => Head(chan[s]) \in AttemptsTo(s)
  BY TakeFrom DEF AttemptsTo
<1>3. chan[s] \in Seq(Messages) /\ Peer(s) \in Side
  BY DEF TypeOK, Side, Peer
<1>4. OneAttempt(Peer(s))'
  BY <1>3, TakeFrom DEF OneAttempt, TurnInv
<1>5. \A i \in DOMAIN chan'[s] :
        i + 1 \in DOMAIN chan[s] /\ chan'[s][i] = chan[s][i + 1] /\ i \in Nat /\ i >= 1
  <2>1. chan'[s] = Tail(chan[s])
    BY TakeFrom
  <2> QED
    BY <1>3, <2>1
<1>6. OneAttempt(s)'
  BY <1>5 DEF OneAttempt, TurnInv
<1>7. ASSUME Head(chan[s]).type = "attempt"
      PROVE  AttemptsTo(s)' = {}
  <2>1. 1 \in DOMAIN chan[s] /\ Head(chan[s]) = chan[s][1]
    BY <1>3
  <2>2. \A i \in DOMAIN chan'[s] : chan'[s][i].type # "attempt"
    <3> SUFFICES ASSUME NEW i \in DOMAIN chan'[s], chan'[s][i].type = "attempt"
                 PROVE  FALSE
      OBVIOUS
    <3>1. i + 1 = 1
      BY <1>5, <1>7, <2>1 DEF OneAttempt, TurnInv
    <3> QED
      BY <1>5, <3>1
  <2> QED
    BY <2>2 DEF AttemptsTo, Flight
<1> QED
  BY <1>1, <1>2, <1>4, <1>6, <1>7 DEF NoNewAttempt

\* A step that leaves the stream alone.
LEMMA StreamUntouched ==
  ASSUME TurnInv, UNCHANGED chan
  PROVE  NoNewAttempt
BY DEF NoNewAttempt, AttemptsTo, Flight, OneAttempt, TurnInv

-----------------------------------------------------------------------------
(* What the sides know of each other.                                      *)

\* The client's message is the only thing between the two sides.
QuietPC == ClientPC \ {"reqack", "commitack", "done"}
Answering == pc["host"] = "got" \/ (pc["host"] = "stopping" /\ pending # NoAttempt)

\* A step that sends no attempt and reads none to act on it.
LEMMA NoTurn ==
  ASSUME TypeOK, AgreementInv, TurnInv, NoNewAttempt, TypeOK',
         pc'["client"] \in QuietPC => pc["client"] \in QuietPC,
         PastCommit => PastCommit',
         Answering' => Answering /\ UNCHANGED pending,
         pc'["host"] = "commit" => pc["host"] = "commit",
         UNCHANGED committed, cres' \in Upper => UNCHANGED cres,
         rung'["host"] \in {NoTier, rung["host"]},
         pc'["client"] = "dial" => pc["client"] = "dial" /\ rung'["client"] = rung["client"]
  PROVE  AgreementInv' /\ TurnInv'
<1>1. /\ AttemptsTo("host")' \subseteq AttemptsTo("host")
      /\ AttemptsTo("client")' \subseteq AttemptsTo("client")
      /\ \A t \in Side : OneAttempt(t)'
  BY DEF NoNewAttempt, Side
<1>2. HostTurn' => HostTurn
  BY DEF HostTurn, Answering
<1>3. AgreementInv'
  BY <1>1 DEF AgreementInv
<1>4. CleanHandover'
  BY DEF CleanHandover, TurnInv
<1>5. \A m \in AttemptsTo("client")' : ~m.flag => rung'["host"] \in {NoTier, m.tier}
  BY <1>1 DEF TurnInv
<1>6. \A m \in AttemptsTo("host")' : m.tier \in Tiers
  BY <1>1 DEF TurnInv
<1>7. Answering' => pending'.tier \in Tiers
  BY DEF TurnInv, Answering
<1>8. /\ (AttemptsTo("host") # {})' => AttemptsTo("client")' = {} /\ ~HostTurn'
      /\ HostTurn' => AttemptsTo("client")' = {}
  BY <1>1, <1>2 DEF TurnInv
<1>9. pc'["client"] \notin {"reqack", "commitack", "done"} =>
        AttemptsTo("host")' = {} /\ AttemptsTo("client")' = {} /\ ~HostTurn'
  BY <1>1, <1>2 DEF TurnInv, QuietPC, TypeOK
<1> QED
  BY <1>1, <1>3, <1>4, <1>5, <1>6, <1>7, <1>8, <1>9 DEF TurnInv, Answering

\* Such a step of the client.
LEMMA ClientNoTurn ==
  ASSUME IInv, TypeOK', NoNewAttempt, NEW l, Goto("client", l), l # "dial",
         pc["client"] \in QuietPC \/ l = "done",
         PastCommit => l = "done" /\ cres' \in Upper \cup {"error"},
         cres' \in Upper => UNCHANGED cres,
         rung'["host"] = rung["host"], UNCHANGED <<pending, committed>>
  PROVE  AgreementInv' /\ TurnInv'
<1>1. TypeOK /\ AgreementInv /\ TurnInv
  BY DEF IInv, LocalInv
<1>2. pc'["client"] = l /\ pc'["host"] = pc["host"]
  BY <1>1 DEF Goto, TypeOK, Side
<1>3. pc'["client"] \in QuietPC => pc["client"] \in QuietPC
  BY <1>2 DEF QuietPC
<1>4. PastCommit => PastCommit'
  BY <1>2 DEF PastCommit
<1>5. Answering' => Answering
  BY <1>2 DEF Answering
<1> QED
  BY <1>1, <1>2, <1>3, <1>4, <1>5, NoTurn

\* Such a step of the host.
LEMMA HostNoTurn ==
  ASSUME IInv, TypeOK', NoNewAttempt, NEW l, Goto("host", l), l \notin {"got", "commit"},
         l = "stopping" => pending' = NoAttempt,
         rung'["host"] \in {NoTier, rung["host"]}, rung'["client"] = rung["client"],
         UNCHANGED <<committed, cres>>
  PROVE  AgreementInv' /\ TurnInv'
<1>1. TypeOK /\ AgreementInv /\ TurnInv
  BY DEF IInv, LocalInv
<1>2. pc'["host"] = l /\ pc'["client"] = pc["client"]
  BY <1>1 DEF Goto, TypeOK, Side
<1>3. PastCommit => PastCommit'
  BY <1>2 DEF PastCommit
<1>4. ~Answering'
  BY <1>2 DEF Answering
<1> QED
  BY <1>1, <1>2, <1>3, <1>4, NoTurn

\* Opening the stream and swapping Hellos carries no attempt.
LEMMA StartsJoint ==
  ASSUME IInv, LocalInv', ClientOpen \/ ClientHello \/ HostAccept \/ HostHello
  PROVE  AgreementInv' /\ TurnInv'
<1>0. TypeOK /\ TypeOK' /\ AgreementInv /\ TurnInv
  BY DEF IInv, LocalInv
<1>1. CASE ClientOpen
  <2>1. NoNewAttempt
    BY <1>0, <1>1, SendOther, StreamUntouched DEF ClientOpen, Messages, Msg, Side
  <2>2. pc["client"] \in QuietPC /\ ~PastCommit
    BY <1>1 DEF ClientOpen, QuietPC, ClientPC, PastCommit
  <2>3. cres' \in Upper => UNCHANGED cres
    BY <1>1 DEF ClientOpen, Upper, Tiers
  <2> QED
    BY <1>1, <2>1, <2>2, <2>3, <1>0, ClientNoTurn DEF ClientOpen, ladderVars
<1>2. CASE ClientHello
  <2>1. NoNewAttempt
    BY <1>0, <1>2, TakeAttempt, StreamUntouched DEF ClientHello, Arrived, Side
  <2>2. pc["client"] \in QuietPC /\ ~PastCommit
    BY <1>2 DEF ClientHello, QuietPC, ClientPC, PastCommit
  <2>3. cres' \in Upper => UNCHANGED cres
    BY <1>2 DEF ClientHello, Upper, Tiers
  <2>4. Goto("client", "gather") \/ Goto("client", "done")
    BY <1>2 DEF ClientHello
  <2> QED
    BY <1>2, <2>1, <2>2, <2>3, <2>4, <1>0, ClientNoTurn DEF ClientHello, ladderVars
<1>3. CASE HostAccept
  <2>1. NoNewAttempt
    BY <1>0, <1>3, SendOther, StreamUntouched DEF HostAccept, Messages, Msg, Side
  <2> QED
    BY <1>3, <2>1, <1>0, HostNoTurn DEF HostAccept, ladderVars
<1>4. CASE HostHello
  <2>1. NoNewAttempt
    BY <1>0, <1>4, TakeAttempt, StreamUntouched DEF HostHello, Arrived, Side
  <2>2. Goto("host", "gather") \/ Goto("host", "ended")
    BY <1>4 DEF HostHello
  <2> QED
    BY <1>4, <2>1, <2>2, <1>0, HostNoTurn DEF HostHello, ladderVars
<1> QED
  BY <1>1, <1>2, <1>3, <1>4

\* Nor does the punch.
LEMMA PunchJoint ==
  ASSUME IInv, LocalInv', NEW s \in Side, Punch(s)
  PROVE  AgreementInv' /\ TurnInv'
<1>0. TypeOK /\ TypeOK' /\ AgreementInv /\ TurnInv
  BY DEF IInv, LocalInv
<1>1. NoNewAttempt
  <2>1. CASE PunchGather(s)
    BY <1>0, <2>1, SendOther DEF PunchGather, Messages, Msg
  <2>2. CASE PunchInfo(s)
    BY <1>0, <2>2, TakeAttempt, StreamUntouched DEF PunchInfo, Arrived
  <2>3. CASE PunchCheck(s)
    BY <1>0, <2>3, SendOther, StreamUntouched DEF PunchCheck, Messages, Msg, ConnectOutcomes
  <2>4. CASE PunchOutcome(s)
    BY <1>0, <2>4, TakeAttempt, StreamUntouched DEF PunchOutcome, Arrived
  <2> QED
    BY <2>1, <2>2, <2>3, <2>4 DEF Punch
<1>2. pc[s] \in PunchPC /\ UNCHANGED <<rung, pending, committed>>
  BY DEF Punch, PunchGather, PunchInfo, PunchCheck, PunchOutcome, PunchPC, ladderVars
<1>3. \A ok \in BOOLEAN : PunchReturns(s, ok) =>
        /\ s = "client" => Goto(s, "done") \/ Goto(s, "request")
        /\ s = "host" => Goto(s, "ended") \/ Goto(s, "recv")
        /\ UNCHANGED cres \/ (s = "client" /\ cres' \in {"error", "libp2p"})
  BY DEF PunchReturns, ClientFellShort
<1>4. \/ \E l \in PunchPC : Goto(s, l) /\ UNCHANGED cres
      \/ \E ok \in BOOLEAN : PunchReturns(s, ok)
  <2>1. CASE PunchGather(s)
    BY <2>1 DEF PunchGather, PunchPC
  <2>2. CASE PunchInfo(s)
    BY <2>2 DEF PunchInfo, PunchPC
  <2>3. CASE PunchCheck(s)
    BY <2>3 DEF PunchCheck, PunchPC, ConnectOutcomes
  <2>4. CASE PunchOutcome(s)
    <3>1. Arrived(s, "outcome") => (landed[s] /\ Head(chan[s]).flag) \in BOOLEAN
      BY <1>0, HeadMessage DEF Arrived, TypeOK
    <3> QED
      BY <2>4, <3>1 DEF PunchOutcome, PunchPC
  <2> QED
    BY <2>1, <2>2, <2>3, <2>4 DEF Punch
<1>5. CASE s = "client"
  <2>1. pc["client"] \in QuietPC /\ ~PastCommit
    BY <1>2, <1>5 DEF PunchPC, QuietPC, ClientPC, PastCommit
  <2>2. cres' \in Upper => UNCHANGED cres
    BY <1>3, <1>4, <1>5 DEF Upper, Tiers
  <2>3. \E l \in PunchPC \cup {"done", "request"} : Goto("client", l)
    BY <1>3, <1>4, <1>5
  <2>4. \A l \in PunchPC \cup {"done", "request"} : l # "dial"
    BY DEF PunchPC
  <2> QED
    BY <1>0, <1>1, <1>2, <2>1, <2>2, <2>3, <2>4, ClientNoTurn
<1>6. CASE s = "host"
  <2>1. \E l \in PunchPC \cup {"ended", "recv"} : Goto("host", l)
    BY <1>3, <1>4, <1>6
  <2>2. \A l \in PunchPC \cup {"ended", "recv"} : l \notin {"got", "commit", "stopping"}
    BY DEF PunchPC
  <2>3. UNCHANGED cres
    BY <1>3, <1>4, <1>6
  <2> QED
    BY <1>0, <1>1, <1>2, <2>1, <2>2, <2>3, HostNoTurn
<1> QED
  BY <1>5, <1>6 DEF Side

\* The closer goroutine, what stops a rung, the network and the client's exit.
LEMMA SurroundingsJoint ==
  ASSUME IInv, LocalInv', CloseRung \/ StopTier \/ StreamBreaks \/ Disconnect \/ ClientExit
  PROVE  AgreementInv' /\ TurnInv'
<1>0. TypeOK /\ TypeOK' /\ AgreementInv /\ TurnInv
  BY DEF IInv, LocalInv
<1>1. UNCHANGED <<pc, chan, pending, committed, cres>>
  BY DEF CloseRung, StopTier, StreamBreaks, Disconnect, ClientExit, ladderVars
<1>2. rung'["host"] \in {NoTier, rung["host"]}
  BY <1>0 DEF CloseRung, StopTier, StreamBreaks, Disconnect, ClientExit, ladderVars, TearDown, TypeOK, Side
<1>3. pc["client"] = "dial" => rung'["client"] = rung["client"]
  BY <1>0 DEF CloseRung, StopTier, StreamBreaks, Disconnect, ClientExit, ladderVars, TearDown, TypeOK, Side
<1>4. NoNewAttempt /\ (PastCommit => PastCommit') /\ (Answering' => Answering)
  BY <1>0, <1>1, StreamUntouched DEF PastCommit, Answering
<1> QED
  BY <1>0, <1>1, <1>2, <1>3, <1>4, NoTurn

\* The client puts an attempt on the stream.
LEMMA ClientSpeaks ==
  ASSUME IInv, LocalInv', pc["client"] \in {"request", "dial"},
         NEW m \in Messages, m.type = "attempt", m.tier \in Tiers, Send("client", m),
         NEW l \in {"reqack", "commitack", "done"}, Goto("client", l), m.flag => l = "commitack",
         cres' \notin Upper, rung'["host"] = rung["host"], UNCHANGED <<pending, committed>>
  PROVE  AgreementInv' /\ TurnInv'
<1>0. TypeOK /\ TypeOK' /\ AgreementInv /\ TurnInv /\ ResultInv
  BY DEF IInv, LocalInv, ClientSide
<1>1. AttemptsTo("host") = {} /\ AttemptsTo("client") = {} /\ ~HostTurn /\ ~PastCommit
  BY <1>0 DEF TurnInv, PastCommit
<1>2. AttemptsTo("client")' = {} /\ AttemptsTo("host")' \subseteq {m} /\ \A t \in Side : OneAttempt(t)'
  BY <1>0, <1>1, SendAttempt DEF Side, Peer
<1>3. pc'["client"] = l /\ pc'["host"] = pc["host"] /\ ~HostTurn'
  BY <1>0, <1>1 DEF Goto, TypeOK, Side, HostTurn
<1>4. AgreementInv'
  BY <1>0, <1>1, <1>2, <1>3 DEF AgreementInv, PastCommit
<1>5. TurnInv'
  BY <1>0, <1>1, <1>2, <1>3 DEF TurnInv, HostTurn, CleanHandover
<1> QED
  BY <1>4, <1>5

\* The host puts its answer on the stream.
LEMMA HostSpeaks ==
  ASSUME IInv, LocalInv', HostTurn,
         NEW m \in Messages, m.type = "attempt", Send("host", m),
         NEW l \in {"serve", "notify"}, Goto("host", l),
         m.flag => m.tier = committed', ~m.flag => rung'["host"] = m.tier,
         committed' # NoTier => PastCommit, cres \in Upper => cres = committed',
         UNCHANGED cres
  PROVE  AgreementInv' /\ TurnInv'
<1>0. TypeOK /\ TypeOK' /\ AgreementInv /\ TurnInv
  BY DEF IInv, LocalInv
<1>1. /\ AttemptsTo("host") = {} /\ AttemptsTo("client") = {}
      /\ pc["client"] \in {"reqack", "commitack", "done"}
  BY <1>0 DEF TurnInv
<1>2. AttemptsTo("host")' = {} /\ AttemptsTo("client")' \subseteq {m} /\ \A t \in Side : OneAttempt(t)'
  BY <1>0, <1>1, SendAttempt DEF Side, Peer
<1>3. pc'["host"] = l /\ pc'["client"] = pc["client"] /\ ~HostTurn' /\ (PastCommit' <=> PastCommit)
  BY <1>0 DEF Goto, TypeOK, Side, HostTurn, PastCommit
<1>4. AgreementInv'
  BY <1>0, <1>2, <1>3 DEF AgreementInv
<1>5. TurnInv'
  BY <1>0, <1>1, <1>2, <1>3 DEF TurnInv, CleanHandover
<1> QED
  BY <1>4, <1>5

\* The host reads an attempt.
LEMMA HostHears ==
  ASSUME IInv, LocalInv', Arrived("host", "attempt"), Take("host"), pending' = Head(chan["host"]),
         NEW l \in {"got", "stopping", "commit"}, Goto("host", l), l = "commit" => pending'.flag,
         UNCHANGED <<rung, committed, cres>>
  PROVE  AgreementInv' /\ TurnInv'
<1>0. TypeOK /\ TypeOK' /\ AgreementInv /\ TurnInv
  BY DEF IInv, LocalInv
<1>1. /\ AttemptsTo("host")' = {} /\ pending' \in AttemptsTo("host")
      /\ AttemptsTo("client")' \subseteq AttemptsTo("client") /\ \A t \in Side : OneAttempt(t)'
  BY <1>0, TakeAttempt DEF Arrived, Side, NoNewAttempt
<1>2. /\ AttemptsTo("client")' = {} /\ pending'.tier \in Tiers
      /\ pc["client"] \in {"reqack", "commitack", "done"}
      /\ pending'.flag => PastCommit
  BY <1>0, <1>1 DEF TurnInv, AgreementInv
<1>3. pc'["host"] = l /\ pc'["client"] = pc["client"] /\ (PastCommit' <=> PastCommit)
  BY <1>0 DEF Goto, TypeOK, Side, PastCommit
<1>4. AgreementInv'
  BY <1>0, <1>1, <1>2, <1>3 DEF AgreementInv
<1>5. TurnInv'
  BY <1>0, <1>1, <1>2, <1>3 DEF TurnInv, CleanHandover
<1> QED
  BY <1>4, <1>5

\* The client walks the ladder.
LEMMA ClientClimbsJoint ==
  ASSUME IInv, LocalInv', ClientRequest \/ ClientRequestAck \/ ClientDial \/ ClientCommitAck
  PROVE  AgreementInv' /\ TurnInv'
<1>0. TypeOK /\ TypeOK' /\ AgreementInv /\ TurnInv /\ ResultInv /\ ClientInv
  BY DEF IInv, LocalInv, ClientSide
<1>1. CASE ClientRequest
  <2>0. pc["client"] \in QuietPC /\ ~PastCommit /\ cres = "none"
    BY <1>0, <1>1 DEF ClientRequest, QuietPC, ClientPC, PastCommit, ResultInv, ClimbPC
  <2>1. CASE /\ RungLeft /\ Send("client", Attempt(ClientRung, FALSE))
             /\ Goto("client", "reqack") /\ UNCHANGED cres
    <3>1. ClientRung \in Tiers
      BY <1>0, <2>1, ClientLadder DEF Upper
    <3>2. cres' \notin Upper
      BY <2>0, <2>1 DEF Upper, Tiers
    <3>3. Attempt(ClientRung, FALSE) \in Messages
      BY <3>1 DEF Messages, Msg, Attempt
    <3> QED
      BY <1>1, <2>1, <3>1, <3>2, <3>3, ClientSpeaks DEF ClientRequest, Msg, Attempt, ladderVars
  <2>2. CASE /\ ClientFellShort(FALSE)
             /\ UNCHANGED chan \/ Send("client", Attempt("libp2p", FALSE))
    <3>1. Goto("client", "done") /\ cres' \notin Upper
      BY <2>2 DEF ClientFellShort, Upper, Tiers
    <3>2. CASE UNCHANGED chan
      BY <1>0, <1>1, <2>0, <3>1, <3>2, StreamUntouched, ClientNoTurn DEF ClientRequest, ladderVars
    <3>3. CASE Send("client", Attempt("libp2p", FALSE))
      <4>1. Attempt("libp2p", FALSE) \in Messages /\ "libp2p" \in Tiers
        BY DEF Messages, Msg, Attempt, Tiers
      <4> QED
        BY <1>1, <3>1, <3>3, <4>1, ClientSpeaks DEF ClientRequest, Msg, Attempt, ladderVars
    <3> QED
      BY <2>2, <3>2, <3>3
  <2> QED
    BY <1>1, <2>1, <2>2 DEF ClientRequest
<1>2. CASE ClientRequestAck
  <2>0. ~PastCommit /\ cres = "none"
    BY <1>0, <1>2 DEF ClientRequestAck, PastCommit, ResultInv, ClimbPC
  <2>1. CASE /\ Arrived("client", "attempt") /\ Take("client")
             /\ Head(chan["client"]) = Attempt(ClientRung, FALSE)
             /\ rung' = [rung EXCEPT !["client"] = ClientRung]
             /\ Goto("client", "dial") /\ UNCHANGED cres
    <3>1. /\ AttemptsTo("client")' = {} /\ Attempt(ClientRung, FALSE) \in AttemptsTo("client")
          /\ AttemptsTo("host")' \subseteq AttemptsTo("host") /\ \A t \in Side : OneAttempt(t)'
      BY <1>0, <2>1, TakeAttempt DEF Arrived, Side, NoNewAttempt
    <3>2. AttemptsTo("host")' = {} /\ ~HostTurn /\ rung["host"] \in {NoTier, ClientRung}
      BY <1>0, <3>1 DEF TurnInv, Attempt, Msg
    <3>3. /\ pc'["client"] = "dial" /\ pc'["host"] = pc["host"] /\ UNCHANGED pending
          /\ rung'["host"] = rung["host"] /\ rung'["client"] = ClientRung /\ UNCHANGED committed
      BY <1>0, <1>2, <2>1 DEF ClientRequestAck, Goto, TypeOK, Side
    <3>4. ~HostTurn'
      BY <3>2, <3>3 DEF HostTurn
    <3>5. AgreementInv'
      BY <1>0, <2>0, <2>1, <3>1, <3>2, <3>3 DEF AgreementInv
    <3>6. TurnInv'
      BY <1>0, <3>1, <3>2, <3>3, <3>4 DEF TurnInv, HostTurn, CleanHandover
    <3> QED
      BY <3>5, <3>6
  <2>2. CASE ClientFellShort(FALSE) /\ UNCHANGED rung
    <3>1. Goto("client", "done") /\ cres' \notin Upper
      BY <2>2 DEF ClientFellShort, Upper, Tiers
    <3>2. NoNewAttempt
      BY <1>0, <1>2, TakeAttempt, StreamUntouched DEF ClientRequestAck, Arrived, Side
    <3> QED
      BY <1>0, <1>2, <2>0, <2>2, <3>1, <3>2, ClientNoTurn DEF ClientRequestAck
  <2> QED
    BY <1>2, <2>1, <2>2 DEF ClientRequestAck
<1>3. CASE ClientDial
  <2>0. /\ pc["client"] \in QuietPC /\ ~PastCommit /\ cres = "none" /\ UNCHANGED cres
        /\ rung["client"] \in Upper
    BY <1>0, <1>3 DEF ClientDial, QuietPC, ClientPC, PastCommit, ResultInv, ClimbPC, ClientInv
  <2>1. CASE /\ Send("client", Attempt(rung["client"], TRUE)) /\ Goto("client", "commitack")
             /\ UNCHANGED rung
    <3>1. Attempt(rung["client"], TRUE) \in Messages /\ rung["client"] \in Tiers /\ cres' \notin Upper
      BY <2>0 DEF Messages, Msg, Attempt, Upper, Tiers
    <3> QED
      BY <1>3, <2>1, <3>1, ClientSpeaks DEF ClientDial, Msg, Attempt
  <2>2. CASE Goto("client", "request") /\ UNCHANGED chan /\ \E dead \in BOOLEAN : TearDown("client", dead)
    <3>1. rung'["host"] = rung["host"]
      BY <1>0, <2>2 DEF TearDown, TypeOK, Side
    <3> QED
      BY <1>0, <1>3, <2>0, <2>2, <3>1, StreamUntouched, ClientNoTurn DEF ClientDial
  <2> QED
    BY <1>3, <2>1, <2>2 DEF ClientDial
<1>4. CASE ClientCommitAck
  <2>0. NoNewAttempt
    BY <1>0, <1>4, TakeAttempt, StreamUntouched DEF ClientCommitAck, Arrived, Side
  <2>1. CASE /\ Arrived("client", "attempt") /\ Take("client")
             /\ Head(chan["client"]) = Attempt(rung["client"], TRUE)
             /\ cres' = rung["client"] /\ Goto("client", "done") /\ UNCHANGED rung
    <3>1. Attempt(rung["client"], TRUE) \in AttemptsTo("client")
      BY <1>0, <2>1, TakeAttempt DEF Arrived, Side
    <3>2. cres' = committed /\ cres' \in Upper /\ UNCHANGED <<committed, pending>>
      BY <1>0, <1>4, <2>1, <3>1 DEF AgreementInv, Attempt, Msg, ClientCommitAck, ClientInv
    <3>3. /\ pc'["client"] = "done" /\ pc'["host"] = pc["host"] /\ PastCommit' /\ (HostTurn' <=> HostTurn)
          /\ AttemptsTo("host")' \subseteq AttemptsTo("host")
          /\ AttemptsTo("client")' \subseteq AttemptsTo("client")
          /\ \A t \in Side : OneAttempt(t)'
      BY <1>0, <2>0, <2>1, <3>2 DEF Goto, TypeOK, Side, HostTurn, PastCommit, NoNewAttempt
    <3>4. AgreementInv'
      BY <1>0, <3>2, <3>3 DEF AgreementInv
    <3>5. TurnInv'
      BY <1>0, <2>1, <3>2, <3>3 DEF TurnInv, CleanHandover
    <3> QED
      BY <3>4, <3>5
  <2>2. CASE ClientFellShort(TRUE) /\ rung' = [rung EXCEPT !["client"] = NoTier]
    <3>1. Goto("client", "done") /\ cres' = "error" /\ "error" \notin Upper
      BY <2>2 DEF ClientFellShort, Upper, Tiers
    <3>2. rung'["host"] = rung["host"]
      BY <1>0, <2>2 DEF TypeOK, Side
    <3> QED
      BY <1>0, <1>4, <2>0, <3>1, <3>2, ClientNoTurn DEF ClientCommitAck
  <2> QED
    BY <1>4, <2>1, <2>2 DEF ClientCommitAck
<1> QED
  BY <1>1, <1>2, <1>3, <1>4

\* The host follows and serves.
LEMMA HostJoint ==
  ASSUME IInv, LocalInv',
         \/ HostReceive \/ HostGot \/ HostServe \/ HostServing \/ HostStopped
         \/ HostCommit \/ HostNotify \/ HostVerify \/ HostRelease
  PROVE  AgreementInv' /\ TurnInv'
<1>0. TypeOK /\ TypeOK' /\ AgreementInv /\ TurnInv /\ HostInv /\ CommitInv
  BY DEF IInv, LocalInv, HostSide
<1>1. CASE HostReceive
  <2>1. CASE /\ Arrived("host", "attempt") /\ Take("host") /\ pending' = Head(chan["host"])
             /\ Goto("host", "got")
    BY <1>1, <2>1, HostHears DEF HostReceive
  <2>2. CASE HostReturns /\ UNCHANGED <<chan, pending>>
    BY <1>0, <1>1, <2>2, StreamUntouched, HostNoTurn DEF HostReceive, HostReturns
  <2> QED
    BY <1>1, <2>1, <2>2 DEF HostReceive
<1>2. CASE HostGot
  <2>0. HostTurn /\ committed = NoTier /\ (cres \in Upper => cres = committed)
    BY <1>0, <1>2 DEF HostGot, HostTurn, CommitInv, AgreementInv
  <2>1. CASE HostReturns /\ UNCHANGED <<chan, rung>>
    BY <1>0, <1>2, <2>1, StreamUntouched, HostNoTurn DEF HostGot, HostReturns
  <2>2. CASE /\ Send("host", Attempt(pending.tier, FALSE))
             /\ rung' = [rung EXCEPT !["host"] = pending.tier] /\ Goto("host", "serve")
    <3>1. Attempt(pending.tier, FALSE) \in Messages
      BY <1>0 DEF Messages, Attempt, Msg, TypeOK
    <3>2. rung'["host"] = pending.tier
      BY <1>0, <2>2 DEF TypeOK, Side
    <3> QED
      BY <1>2, <2>0, <2>2, <3>1, <3>2, HostSpeaks DEF HostGot, Attempt, Msg
  <2> QED
    BY <1>2, <2>1, <2>2 DEF HostGot
<1>3. CASE HostServe
  <2>1. rung'["host"] \in {NoTier, rung["host"]} /\ rung'["client"] = rung["client"]
    BY <1>0, <1>3 DEF HostServe, TearDown, TypeOK, Side
  <2>2. Goto("host", "serving") \/ Goto("host", "recv") \/ Goto("host", "ended")
    BY <1>3 DEF HostServe, HostReturns
  <2> QED
    BY <1>0, <1>3, <2>1, <2>2, StreamUntouched, HostNoTurn DEF HostServe
<1>4. CASE HostServing
  <2>1. CASE Arrived("host", "attempt") /\ Take("host") /\ pending' = Head(chan["host"])
    <3>1. Goto("host", "stopping") \/ (Goto("host", "commit") /\ pending'.flag)
      BY <1>4, <2>1 DEF HostServing
    <3> QED
      BY <1>4, <2>1, <3>1, HostHears DEF HostServing
  <2>2. CASE pending' = NoAttempt /\ Goto("host", "stopping") /\ UNCHANGED chan
    BY <1>0, <1>4, <2>2, StreamUntouched, HostNoTurn DEF HostServing
  <2> QED
    BY <1>4, <2>1, <2>2 DEF HostServing
<1>5. CASE HostStopped
  <2>1. CASE HostReturns
    BY <1>0, <1>5, <2>1, StreamUntouched, HostNoTurn DEF HostStopped, HostReturns
  <2>2. CASE pending # NoAttempt /\ Goto("host", "got")
    <3>1. Answering /\ PastCommit' = PastCommit
      BY <1>0, <1>5, <2>2 DEF HostStopped, Answering, PastCommit, Goto, TypeOK, Side
    <3>2. NoNewAttempt
      BY <1>0, <1>5, StreamUntouched DEF HostStopped
    <3>3. pc'["client"] = pc["client"] /\ pc'["host"] = "got"
      BY <1>0, <2>2 DEF Goto, TypeOK, Side
    <3> QED
      BY <1>0, <1>5, <3>1, <3>2, <3>3, NoTurn DEF HostStopped
  <2> QED
    BY <1>5, <2>1, <2>2 DEF HostStopped
<1>6. CASE HostCommit
  <2>0. HostTurn /\ PastCommit /\ committed = NoTier /\ active \in Upper /\ cres \notin Upper
    <3>1. active \in Upper /\ committed = NoTier
      BY <1>0, <1>6 DEF HostCommit, HostInv, CommitInv, ServeRungPC, TypeOK
    <3>2. NoTier \notin Upper
      BY DEF NoTier, Upper, Tiers
    <3> QED
      BY <1>0, <1>6, <3>1, <3>2 DEF HostCommit, HostTurn, AgreementInv
  <2>1. CASE Send("host", Attempt(active, TRUE)) /\ committed' = active /\ Goto("host", "notify")
    <3>1. Attempt(active, TRUE) \in Messages
      BY <2>0 DEF Messages, Attempt, Msg, Upper
    <3> QED
      BY <1>6, <2>0, <2>1, <3>1, HostSpeaks DEF HostCommit, Attempt, Msg
  <2>2. CASE pending' = NoAttempt /\ Goto("host", "stopping") /\ UNCHANGED <<chan, committed>>
    BY <1>0, <1>6, <2>2, StreamUntouched, HostNoTurn DEF HostCommit
  <2> QED
    BY <1>6, <2>1, <2>2 DEF HostCommit
<1>7. CASE HostNotify \/ HostVerify \/ HostRelease
  BY <1>0, <1>7, StreamUntouched, HostNoTurn DEF HostNotify, HostVerify, HostRelease, HostReturns
<1> QED
  BY <1>1, <1>2, <1>3, <1>4, <1>5, <1>6, <1>7

-----------------------------------------------------------------------------
(* The inductive invariant.                                                *)

\* The invariant holds when the two processes start.
LEMMA InitInv == Init => IInv
<1> SUFFICES ASSUME Init PROVE IInv
  OBVIOUS
<1>1. PICK c \in ClientHellos, h \in HostHellos :
        hello = [s \in Side |-> IF s = "client" THEN c ELSE h]
  BY DEF Init
<1>2. TypeOK
  <2>1. hello \in [Side -> Hellos]
    BY <1>1, HellosAssumption DEF Side
  <2>2. NoAttempt \in Messages
    BY DEF NoAttempt, Attempt, Msg, Messages
  <2>3. chan \in [Side -> Seq(Messages)]
    BY DEF Init
  <2>4. pc \in [Side -> ClientPC \cup HostPC] /\ pc["client"] \in ClientPC /\ pc["host"] \in HostPC
    BY DEF Init, Side, ClientPC, HostPC
  <2>5. /\ end \in [Side -> {"open", "closed", "reset"}] /\ abandoned \in [Side -> BOOLEAN]
        /\ tries \in [Side -> Nat] /\ landed \in [Side -> BOOLEAN]
        /\ agent \in [Side -> {"none", "open", "closed"}]
        /\ rung \in [Side -> Upper \cup {NoTier}] /\ subDead \in [Side -> BOOLEAN]
    BY DEF Init
  <2>6. idx \in Nat \ {0} /\ pending \in Messages
    BY <2>2 DEF Init
  <2>7. /\ active \in Upper \cup {NoTier} /\ committed \in Upper \cup {NoTier}
        /\ cres \in Tiers \cup {"error", "none"}
    BY DEF Init
  <2>8. {tierStop, watching, connected, broken} \subseteq BOOLEAN
    BY DEF Init
  <2> QED
    BY <2>1, <2>3, <2>4, <2>5, <2>6, <2>7, <2>8 DEF TypeOK
<1>3. pc["client"] = "start" /\ pc["host"] = "idle"
  BY DEF Init, Side
<1>4. AgentInv("client") /\ AgentInv("host")
  BY <1>3 DEF Init, AgentInv, Side, ClimbPC, ServeRungPC
<1>5. ResultInv
  BY <1>3 DEF Init, ResultInv, PunchPC
<1>6. ClientInv
  BY <1>3 DEF Init, ClientInv, Side
<1>7. HostInv /\ CommitInv
  BY <1>3 DEF Init, HostInv, CommitInv, ServeRungPC, Side
<1>8. \A s \in Side : chan[s] = <<>>
  BY DEF Init
<1>9. AttemptsTo("host") = {} /\ AttemptsTo("client") = {} /\ \A s \in Side : OneAttempt(s)
  BY <1>8 DEF AttemptsTo, Flight, OneAttempt, Side
<1>10. AgreementInv
  BY <1>3, <1>9 DEF Init, AgreementInv, Upper, Tiers
<1>11. TurnInv
  BY <1>3, <1>9 DEF Init, TurnInv, HostTurn, CleanHandover
<1> QED
  BY <1>2, <1>4, <1>5, <1>6, <1>7, <1>10, <1>11 DEF IInv, LocalInv, ClientSide, HostSide

\* A step that changes nothing keeps it.
LEMMA StutterInv == IInv /\ UNCHANGED vars => IInv'
<1> SUFFICES ASSUME IInv, UNCHANGED vars PROVE IInv'
  OBVIOUS
<1>0. TypeOK /\ ClientSide /\ HostSide /\ AgreementInv /\ TurnInv
  BY DEF IInv, LocalInv
<1>1. TypeOK'
  BY <1>0 DEF vars, TypeOK
<1>2. ClientSide'
  BY <1>0, ClientFrame DEF vars
<1>3. HostSide'
  BY <1>0, HostFrame DEF vars
<1>4. (PastCommit => PastCommit') /\ (Answering' => Answering) /\ NoNewAttempt
  BY <1>0, StreamUntouched DEF vars, PastCommit, Answering
<1>5. AgreementInv' /\ TurnInv'
  BY <1>0, <1>1, <1>4, NoTurn DEF vars
<1> QED
  BY <1>1, <1>2, <1>3, <1>5 DEF IInv, LocalInv

\* Every step of either side and of their surroundings keeps the invariant.
LEMMA NextInv == IInv /\ [Next]_vars => IInv'
<1> SUFFICES ASSUME IInv, [Next]_vars PROVE IInv'
  OBVIOUS
<1>0. LocalInv /\ TurnInv
  BY DEF IInv
<1>1. CASE ClientOpen \/ ClientHello
  BY <1>0, <1>1, ClientStarts, StartsJoint DEF IInv
<1>2. CASE HostAccept \/ HostHello
  BY <1>0, <1>2, HostStarts, StartsJoint DEF IInv
<1>3. ASSUME NEW s \in Side, Punch(s) PROVE IInv'
  BY <1>0, <1>3, PunchLocal, PunchJoint DEF IInv
<1>4. CASE ClientRequest \/ ClientRequestAck \/ ClientDial \/ ClientCommitAck
  BY <1>0, <1>4, ClientClimbs, ClientClimbsJoint DEF IInv
<1>5. CASE HostReceive \/ HostGot \/ HostServe
  BY <1>0, <1>5, HostFollows, HostJoint DEF IInv
<1>6. CASE HostServing \/ HostStopped \/ HostCommit \/ HostNotify \/ HostVerify \/ HostRelease
  BY <1>0, <1>6, HostServes, HostJoint DEF IInv
<1>7. CASE CloseRung \/ StopTier \/ StreamBreaks \/ Disconnect \/ ClientExit
  BY <1>0, <1>7, SurroundingsLocal, SurroundingsJoint DEF IInv
<1>8. CASE Terminated \/ UNCHANGED vars
  BY <1>8, StutterInv DEF Terminated
<1> QED
  BY <1>1, <1>2, <1>3, <1>4, <1>5, <1>6, <1>7, <1>8 DEF Next, ClientStep, HostStep, Side

\* The invariant behind the theorems below.
THEOREM Invariant == Spec => []IInv
BY InitInv, NextInv, PTL DEF Spec

\* What the invariant says of the states, property by property.
LEMMA InvImplies ==
  IInv => /\ TypeOK /\ CleanHandover /\ AgentOutlivesRung /\ NoRungOnDeadSubstrate
          /\ ServedUntilStopped /\ NothingLeaks
<1> SUFFICES ASSUME IInv
             PROVE  /\ TypeOK /\ CleanHandover /\ AgentOutlivesRung /\ NoRungOnDeadSubstrate
                    /\ ServedUntilStopped /\ NothingLeaks
  OBVIOUS
<1>0. TypeOK /\ ClientSide /\ HostSide /\ AgreementInv /\ TurnInv
  BY DEF IInv, LocalInv
<1>1. CleanHandover
  BY <1>0 DEF TurnInv
<1>2. AgentOutlivesRung
  <2>1. rung["client"] # NoTier => agent["client"] = "open"
    BY <1>0 DEF ClientSide, ClientInv
  <2>2. rung["host"] # NoTier => agent["host"] = "open"
    BY <1>0 DEF HostSide, HostInv, AgentInv
  <2> QED
    BY <2>1, <2>2 DEF AgentOutlivesRung, Side
<1>3. NoRungOnDeadSubstrate
  <2>1. pc["client"] \in {"serve", "dial"} => ~subDead["client"]
    BY <1>0 DEF ClientSide, ClientInv, TypeOK, ClientPC, PunchPC
  <2>2. pc["host"] \in {"serve", "dial"} => ~subDead["host"]
    BY <1>0 DEF HostSide, HostInv, ServeRungPC
  <2> QED
    BY <2>1, <2>2 DEF NoRungOnDeadSubstrate, Side
<1>4. ServedUntilStopped
  <2> SUFFICES ASSUME cres \in Upper, ~tierStop PROVE rung["host"] = cres /\ active = cres
    BY DEF ServedUntilStopped
  <2>1. committed = cres /\ committed # NoTier
    BY <1>0 DEF AgreementInv, NoTier, Upper, Tiers
  <2>2. pc["host"] \in {"notify", "verify", "committed"}
    BY <1>0, <2>1 DEF HostSide, CommitInv
  <2> QED
    BY <1>0, <2>1, <2>2 DEF HostSide, CommitInv, HostInv, ServeRungPC
<1>5. NothingLeaks
  <2>1. pc["host"] = "ended" => agent["host"] # "open" /\ rung["host"] = NoTier /\ active = NoTier
    BY <1>0 DEF HostSide, HostInv, ServeRungPC
  <2>2. pc["client"] = "done" /\ cres \notin Upper => agent["client"] # "open" /\ rung["client"] = NoTier
    BY <1>0 DEF ClientSide, ClientInv
  <2> QED
    BY <2>1, <2>2 DEF NothingLeaks
<1> QED
  BY <1>0, <1>1, <1>2, <1>3, <1>4, <1>5

\* Every variable of the two handlers, the stream and the network has its type.
THEOREM TypeCorrect == Spec => []TypeOK
BY Invariant, InvImplies, PTL

\* requestRung's guarantee, for every ladder two Hellos can agree on: the host has
\* let go of the rung before when the client builds the next on the substrate.
THEOREM HandoverIsClean == Spec => []CleanHandover
BY Invariant, InvImplies, PTL

\* Neither side closes its ICE agent under a rung that stands on it.
THEOREM AgentHeldUnderRung == Spec => []AgentOutlivesRung
BY Invariant, InvImplies, PTL

\* A substrate that a teardown had to close is never built on again.
THEOREM DeadSubstrateUnused == Spec => []NoRungOnDeadSubstrate
BY Invariant, InvImplies, PTL

\* The host serves the tier its client selected until something stops the rung.
THEOREM SelectedTierServed == Spec => []ServedUntilStopped
BY Invariant, InvImplies, PTL

\* Both handlers return with nothing held, on every path.
THEOREM HandlersReleaseAll == Spec => []NothingLeaks
BY Invariant, InvImplies, PTL

-----------------------------------------------------------------------------
(* The negotiation implements TierAgreement.                               *)

\* The client comes to its result once, and commits nothing itself.
LEMMA ResultOnce ==
  ASSUME IInv, ClientStep
  PROVE  UNCHANGED <<hello, committed>> /\ (UNCHANGED cres \/ cres = "none")
<1>0. TypeOK /\ ResultInv
  BY DEF IInv, LocalInv, ClientSide
<1>1. CASE ClientOpen \/ ClientHello
  BY <1>0, <1>1 DEF ClientOpen, ClientHello, ResultInv, ladderVars, envVars
<1>2. CASE Punch("client")
  <2>1. UNCHANGED <<hello, committed>> /\ pc["client"] \in PunchPC
    BY <1>2 DEF Punch, PunchGather, PunchInfo, PunchCheck, PunchOutcome, PunchPC, ladderVars, envVars
  <2>2. UNCHANGED cres \/ ~Probing("client")
    BY <1>2 DEF Punch, PunchGather, PunchInfo, PunchCheck, PunchOutcome, PunchReturns
  <2> QED
    BY <1>0, <2>1, <2>2 DEF ResultInv
<1>3. CASE ClientRequest \/ ClientRequestAck \/ ClientDial \/ ClientCommitAck
  BY <1>0, <1>3 DEF ClientRequest, ClientRequestAck, ClientDial, ClientCommitAck, ResultInv, ClimbPC,
     ladderVars, envVars
<1> QED
  BY <1>1, <1>2, <1>3 DEF ClientStep

\* Everything else leaves the result alone, and only HostCommit commits.
LEMMA CommitOnce ==
  ASSUME TypeOK, HostStep \/ CloseRung \/ StopTier \/ StreamBreaks \/ Disconnect \/ ClientExit
  PROVE  UNCHANGED <<hello, cres>> /\ (UNCHANGED committed \/ (HostCommit /\ committed' = active))
<1>1. CASE HostAccept \/ HostHello
  BY <1>1 DEF HostAccept, HostHello, ladderVars, envVars
<1>2. CASE Punch("host")
  <2>1. \A ok : PunchReturns("host", ok) => UNCHANGED cres
    BY DEF PunchReturns
  <2> QED
    BY <1>2, <2>1 DEF Punch, PunchGather, PunchInfo, PunchCheck, PunchOutcome, ladderVars, envVars
<1>3. CASE HostReceive \/ HostGot \/ HostServe \/ HostServing \/ HostStopped
  BY <1>3 DEF HostReceive, HostGot, HostServe, HostServing, HostStopped, envVars
<1>4. CASE HostCommit \/ HostNotify \/ HostVerify \/ HostRelease
  BY <1>4 DEF HostCommit, HostNotify, HostVerify, HostRelease, envVars
<1>5. CASE CloseRung \/ StopTier \/ StreamBreaks \/ Disconnect \/ ClientExit
  BY <1>5 DEF CloseRung, StopTier, StreamBreaks, Disconnect, ClientExit, ladderVars, envVars
<1> QED
  BY <1>1, <1>2, <1>3, <1>4, <1>5 DEF HostStep

\* Every step of the negotiation is a step of TierAgreement or leaves its variables alone.
LEMMA AgreementStep ==
  IInv /\ IInv' /\ [Next]_vars => [Agreement!Next]_<<~Required, committed, cres>>
<1> SUFFICES ASSUME IInv, IInv', [Next]_vars
             PROVE  [Agreement!Next]_<<~Required, committed, cres>>
  OBVIOUS
<1>0. /\ TypeOK /\ TypeOK' /\ ResultInv /\ ResultInv' /\ AgreementInv /\ AgreementInv'
      /\ HostInv /\ CommitInv
  BY DEF IInv, LocalInv, ClientSide, HostSide
<1>1. CASE ClientStep
  <2>1. UNCHANGED <<hello, committed>> /\ (UNCHANGED cres \/ cres = "none") /\ (Required' <=> Required)
    BY <1>1, ResultOnce, HelloFixed
  <2>2. CASE UNCHANGED cres
    BY <2>1, <2>2
  <2>3. CASE cres = "none" /\ cres' = "error"
    BY <2>1, <2>3 DEF Agreement!Next, Agreement!ClientFails
  <2>4. CASE cres = "none" /\ cres' = "libp2p"
    <3>1. ~Required
      BY <1>0, <2>1, <2>4 DEF ResultInv
    <3>2. committed = NoTier
      <4>1. ~PastCommit'
        BY <1>0, <2>4 DEF PastCommit, ResultInv, ClimbPC, Upper
      <4> QED
        BY <1>0, <2>1, <4>1 DEF AgreementInv
    <3> QED
      BY <2>1, <2>4, <3>1, <3>2 DEF Agreement!Next, Agreement!ClientFloors
  <2>5. CASE cres = "none" /\ cres' \in Upper
    <3>1. committed = cres'
      BY <1>0, <2>1, <2>5 DEF AgreementInv
    <3> QED
      BY <2>1, <2>5, <3>1 DEF Agreement!Next, Agreement!ClientUses
  <2> QED
    BY <1>0, <2>1, <2>2, <2>3, <2>4, <2>5 DEF TypeOK, Upper
<1>2. CASE HostStep \/ CloseRung \/ StopTier \/ StreamBreaks \/ Disconnect \/ ClientExit
  <2>1. /\ UNCHANGED <<hello, cres>> /\ (Required' <=> Required)
        /\ UNCHANGED committed \/ (HostCommit /\ committed' = active)
    BY <1>0, <1>2, CommitOnce, HelloFixed
  <2>2. CASE UNCHANGED committed
    BY <2>1, <2>2
  <2>3. CASE HostCommit /\ committed' = active
    <3>1. active \in Upper /\ committed = NoTier
      BY <1>0, <2>3 DEF HostCommit, HostInv, CommitInv, ServeRungPC, TypeOK
    <3>2. PastCommit
      BY <1>0, <2>3 DEF HostCommit, AgreementInv
    <3>3. cres \notin Upper
      BY <1>0, <3>1 DEF AgreementInv, NoTier, Upper, Tiers
    <3>4. cres \in {"none", "error"}
      BY <1>0, <3>2, <3>3 DEF PastCommit, ResultInv, ClimbPC
    <3> QED
      BY <2>1, <2>3, <3>1, <3>4 DEF Agreement!Next, Agreement!HostCommits
  <2> QED
    BY <2>1, <2>2, <2>3
<1>3. CASE Terminated \/ UNCHANGED vars
  <2>1. UNCHANGED <<hello, committed, cres>> /\ (Required' <=> Required)
    BY <1>3, HelloFixed DEF Terminated, vars
  <2> QED
    BY <2>1
<1> QED
  BY <1>1, <1>2, <1>3 DEF Next

\* The refinement: whatever is lost, late or broken on the way, the client's result
\* and the host's commit are those of TierAgreement.
THEOREM ImplementsAgreement == Spec => AgreementSpec
<1>1. Init => Agreement!Init
  BY DEF Init, Agreement!Init
<1> QED
  BY <1>1, Invariant, AgreementStep, PTL DEF Spec, AgreementSpec, Agreement!Spec

-----------------------------------------------------------------------------
(* An Exchange is not used again after it was abandoned.                   *)

\* A side adds to what is under way to its peer and takes from what is under way to it.
OwnEnds(s) == Len(chan'[Peer(s)]) >= Len(chan[Peer(s)]) /\ Len(chan'[s]) <= Len(chan[s])

\* What each operation of the Exchange does to the two ends.
LEMMA StreamOp ==
  ASSUME TypeOK, NEW s \in Side,
         \/ UNCHANGED chan
         \/ \E m \in Messages : Send(s, m)
         \/ chan[s] # <<>> /\ Take(s)
  PROVE  OwnEnds(s)
<1>1. chan \in [Side -> Seq(Messages)] /\ Peer(s) \in Side
  BY DEF TypeOK, Side, Peer
<1>2. chan[s] \in Seq(Messages) /\ chan[Peer(s)] \in Seq(Messages)
  BY <1>1
<1>3. CASE UNCHANGED chan
  BY <1>2, <1>3 DEF OwnEnds
<1>4. ASSUME NEW m \in Messages, Send(s, m) PROVE OwnEnds(s)
  <2>1. chan'[s] = chan[s]
        /\ (chan'[Peer(s)] = chan[Peer(s)] \/ chan'[Peer(s)] = Append(chan[Peer(s)], m))
    BY <1>4, SendTo
  <2> QED
    BY <1>2, <2>1 DEF OwnEnds
<1>5. CASE chan[s] # <<>> /\ Take(s)
  <2>1. chan'[s] = Tail(chan[s]) /\ chan'[Peer(s)] = chan[Peer(s)]
    BY <1>5, TakeFrom
  <2> QED
    BY <1>2, <1>5, <2>1 DEF OwnEnds
<1> QED
  BY <1>3, <1>4, <1>5

\* punch works on its own ends only.
LEMMA PunchStream ==
  ASSUME TypeOK, NEW s \in Side, Punch(s)
  PROVE  OwnEnds(s) /\ pc'[Peer(s)] = pc[Peer(s)]
<1>1. \A type \in {"hello", "info", "outcome"}, ok \in BOOLEAN : Msg(type, NoTier, ok) \in Messages
  BY DEF Msg, Messages
<1>2. \/ UNCHANGED chan
      \/ \E m \in Messages : Send(s, m)
      \/ chan[s] # <<>> /\ Take(s)
  <2>1. CASE PunchGather(s)
    BY <1>1, <2>1 DEF PunchGather
  <2>2. CASE PunchInfo(s) \/ PunchOutcome(s)
    BY <2>2 DEF PunchInfo, PunchOutcome, Arrived
  <2>3. CASE PunchCheck(s)
    BY <1>1, <2>3 DEF PunchCheck, ConnectOutcomes
  <2> QED
    BY <2>1, <2>2, <2>3 DEF Punch
<1>3. OwnEnds(s)
  BY <1>2, StreamOp
<1>4. Peer(s) # s /\ Peer(s) \in Side /\ pc \in [Side -> ClientPC \cup HostPC]
  BY DEF Peer, Side, TypeOK
<1>5. \E l : Goto(s, l)
  <2>1. \A ok : PunchReturns(s, ok) => \E l : Goto(s, l)
    BY DEF PunchReturns, ClientFellShort, Side
  <2> QED
    BY <2>1 DEF Punch, PunchGather, PunchInfo, PunchCheck, PunchOutcome
<1> QED
  BY <1>3, <1>4, <1>5 DEF Goto

\* So does the client, which takes no step once it is done.
LEMMA ClientStream ==
  ASSUME IInv, ClientStep
  PROVE  OwnEnds("client") /\ pc'["host"] = pc["host"] /\ pc["client"] # "done"
<1>0. TypeOK /\ ClientInv
  BY DEF IInv, LocalInv, ClientSide
<1>1. CASE ClientOpen \/ ClientHello
  <2>1. Msg("hello", NoTier, FALSE) \in Messages
    BY DEF Msg, Messages
  <2>2. OwnEnds("client")
    BY <1>0, <1>1, <2>1, StreamOp DEF ClientOpen, ClientHello, Arrived, Side
  <2> QED
    BY <1>0, <1>1, <2>2 DEF ClientOpen, ClientHello, Goto, TypeOK, Side
<1>2. CASE Punch("client")
  <2>1. pc["client"] # "done"
    BY <1>2 DEF Punch, PunchGather, PunchInfo, PunchCheck, PunchOutcome
  <2> QED
    BY <1>0, <1>2, <2>1, PunchStream DEF Side, Peer
<1>3. CASE ClientRequest \/ ClientRequestAck \/ ClientDial \/ ClientCommitAck
  <2>1. /\ ClientRequest /\ RungLeft => Attempt(ClientRung, FALSE) \in Messages
        /\ Attempt("libp2p", FALSE) \in Messages
        /\ ClientDial => Attempt(rung["client"], TRUE) \in Messages
    BY <1>0, ClientLadder DEF Messages, Msg, Attempt, Upper, Tiers, ClientDial, ClientInv
  <2>2. OwnEnds("client")
    <3>1. \/ UNCHANGED chan
          \/ \E m \in Messages : Send("client", m)
          \/ chan["client"] # <<>> /\ Take("client")
      BY <1>3, <2>1 DEF ClientRequest, ClientRequestAck, ClientDial, ClientCommitAck, Arrived
    <3> QED
      BY <1>0, <3>1, StreamOp DEF Side
  <2> QED
    BY <1>0, <1>3, <2>2 DEF ClientRequest, ClientRequestAck, ClientDial, ClientCommitAck, ClientFellShort,
       Goto, TypeOK, Side
<1> QED
  BY <1>1, <1>2, <1>3 DEF ClientStep

\* So does the host, which takes no step once its handler returned.
LEMMA HostStream ==
  ASSUME IInv, HostStep
  PROVE  OwnEnds("host") /\ pc'["client"] = pc["client"] /\ pc["host"] # "ended"
<1>0. TypeOK /\ HostInv /\ TurnInv
  BY DEF IInv, LocalInv, HostSide
<1>1. CASE HostAccept \/ HostHello
  <2>1. Msg("hello", NoTier, FALSE) \in Messages
    BY DEF Msg, Messages
  <2>2. OwnEnds("host")
    BY <1>0, <1>1, <2>1, StreamOp DEF HostAccept, HostHello, Arrived, Side
  <2> QED
    BY <1>0, <1>1, <2>2 DEF HostAccept, HostHello, Goto, TypeOK, Side
<1>2. CASE Punch("host")
  <2>1. pc["host"] # "ended"
    BY <1>2 DEF Punch, PunchGather, PunchInfo, PunchCheck, PunchOutcome
  <2> QED
    BY <1>0, <1>2, <2>1, PunchStream DEF Side, Peer
<1>3. CASE HostReceive \/ HostGot \/ HostServe \/ HostServing \/ HostStopped
  <2>1. Attempt(pending.tier, FALSE) \in Messages
    BY <1>0 DEF Messages, Msg, Attempt, TypeOK
  <2>2. OwnEnds("host")
    <3>1. \/ UNCHANGED chan
          \/ \E m \in Messages : Send("host", m)
          \/ chan["host"] # <<>> /\ Take("host")
      BY <1>3, <2>1 DEF HostReceive, HostGot, HostServe, HostServing, HostStopped, Arrived
    <3> QED
      BY <1>0, <3>1, StreamOp DEF Side
  <2> QED
    BY <1>0, <1>3, <2>2 DEF HostReceive, HostGot, HostServe, HostServing, HostStopped, HostReturns,
       Goto, TypeOK, Side
<1>4. CASE HostCommit \/ HostNotify \/ HostVerify \/ HostRelease
  <2>1. Attempt(active, TRUE) \in Messages
    BY <1>0 DEF Messages, Msg, Attempt, TypeOK, Upper
  <2>2. OwnEnds("host")
    <3>1. UNCHANGED chan \/ \E m \in Messages : Send("host", m)
      BY <1>4, <2>1 DEF HostCommit, HostNotify, HostVerify, HostRelease
    <3> QED
      BY <1>0, <3>1, StreamOp DEF Side
  <2> QED
    BY <1>0, <1>4, <2>2 DEF HostCommit, HostNotify, HostVerify, HostRelease, HostReturns,
       Goto, TypeOK, Side
<1> QED
  BY <1>1, <1>2, <1>3, <1>4 DEF HostStep

\* What ExchangeNotReused allows side s.
Unused(s) ==
  /\ Len(chan'[s]) >= Len(chan[s])
  /\ Len(chan'[Peer(s)]) <= Len(chan[Peer(s)])
  /\ pc'[s] \notin {"hello", "info", "outcome", "reqack", "commitack", "recv", "serve"}

\* No step uses an Exchange that was abandoned.
LEMMA AbandonedStep ==
  ASSUME IInv, [Next]_vars, NEW s \in Side, abandoned[s]
  PROVE  Unused(s)
<1>0. TypeOK /\ ClientInv /\ HostInv
  BY DEF IInv, LocalInv, ClientSide, HostSide
<1>1. /\ s = "client" => pc["client"] = "done"
      /\ s = "host" => pc["host"] = "ended" \/ (pc["host"] = "stopping" /\ pending = NoAttempt)
  BY <1>0 DEF ClientInv, HostInv
<1>2. pc[s] \in {"done", "ended", "stopping"}
  BY <1>1 DEF Side
<1>3. CASE ClientStep
  <2>1. s = "host" /\ OwnEnds("client") /\ pc'["host"] = pc["host"]
    BY <1>1, <1>3, ClientStream DEF Side
  <2> QED
    BY <1>2, <2>1 DEF OwnEnds, Unused, Peer
<1>4. CASE HostStep /\ s = "client"
  <2>1. OwnEnds("host") /\ pc'["client"] = pc["client"]
    BY <1>4, HostStream
  <2> QED
    BY <1>2, <1>4, <2>1 DEF OwnEnds, Unused, Peer
<1>5. CASE HostStep /\ s = "host"
  <2>1. pc["host"] = "stopping" /\ pending = NoAttempt
    BY <1>1, <1>5, HostStream
  <2>2. HostStopped
    BY <1>5, <2>1 DEF HostStep, HostAccept, HostHello, Punch, PunchGather, PunchInfo, PunchCheck,
       PunchOutcome, HostReceive, HostGot, HostServe, HostServing, HostCommit, HostNotify, HostVerify,
       HostRelease
  <2>3. UNCHANGED chan /\ HostReturns
    BY <2>1, <2>2 DEF HostStopped
  <2>4. pc'["host"] = "ended"
    BY <1>0, <2>3 DEF HostReturns, Goto, TypeOK, Side
  <2>5. \A t \in Side : chan[t] \in Seq(Messages) /\ Peer(t) \in Side
    BY <1>0 DEF TypeOK, Side, Peer
  <2> QED
    BY <1>5, <2>3, <2>4, <2>5 DEF Unused
<1>6. CASE UNCHANGED <<pc, chan>>
  <2>1. \A t \in Side : chan[t] \in Seq(Messages) /\ Peer(t) \in Side
    BY <1>0 DEF TypeOK, Side, Peer
  <2> QED
    BY <1>2, <1>6, <2>1 DEF Unused
<1>7. CASE CloseRung \/ StopTier \/ StreamBreaks \/ Disconnect \/ ClientExit \/ Terminated \/ UNCHANGED vars
  BY <1>6, <1>7 DEF CloseRung, StopTier, StreamBreaks, Disconnect, ClientExit, Terminated, vars
<1> QED
  BY <1>3, <1>4, <1>5, <1>7 DEF Next, Side

\* negotiate.Exchange: after a call that returned a context error, with its decode still
\* reading, that side neither sends nor reads nor waits on the stream again.
THEOREM AbandonedExchangeUnused == Spec => ExchangeNotReused
<1>1. IInv /\ [Next]_vars =>
        [\A s \in Side : abandoned[s] =>
           /\ Len(chan'[s]) >= Len(chan[s])
           /\ Len(chan'[Peer(s)]) <= Len(chan[Peer(s)])
           /\ pc'[s] \notin {"hello", "info", "outcome", "reqack", "commitack", "recv", "serve"}]_vars
  BY AbandonedStep DEF Unused
<1> QED
  BY <1>1, Invariant, PTL DEF Spec, ExchangeNotReused
=============================================================================
