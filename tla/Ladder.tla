------------------------------- MODULE Ladder -------------------------------
(***************************************************************************)
(* One tier negotiation between a client and a host: the Hello swap, the   *)
(* NAT punch and its lockstep retries, the walk down the cascade of rungs, *)
(* the commit that hands a rung's lifetime over, and the host's teardown   *)
(* (internal/tunnel/tier.go over internal/negotiate's Exchange).           *)
(*                                                                         *)
(* Every wait with a deadline may expire at any moment, the stream may     *)
(* break while the peers stay connected (libp2p replaces connections), the *)
(* peers may disconnect, ICE and handshakes may fail on one side only, and *)
(* a rung's teardown may have to close the substrate it shares.            *)
(***************************************************************************)
EXTENDS TierSelection, FiniteSets

CONSTANTS
  ClientHellos,   \* the Hellos a client may be configured to send
  HostHellos      \* the Hellos a host may be configured to send

ASSUME HellosAssumption == ClientHellos \subseteq Hellos /\ HostHellos \subseteq Hellos

VARIABLES
  hello,      \* each side's Hello; fixed at start-up
  pc,         \* where each side is in its handler
  chan,       \* messages under way to each side on the negotiate stream
  end,        \* how each side has left the stream: "open", "closed", "reset"
  abandoned,  \* a side's Exchange call returned a context error (history)
  tries,      \* the punch attempt a side is in
  landed,     \* whether a side's current attempt has gone well so far
  agent,      \* each side's ICE agent: "none", "open", "closed"
  rung,       \* the rung standing on each side's substrate, from build to close
  subDead,    \* a rung teardown closed the side's substrate
  idx,        \* the client's position in the ladder
  pending,    \* the attempt the host is acting on
  tierStop,   \* the host's tierCtx is cancelled
  active,     \* the rung serveRung is running and has registered (activeRung.id)
  watching,   \* the host's peer watcher is registered
  committed,  \* the tier whose commit the host acknowledged (history)
  cres,       \* the client's result: a tier, "error", or "none" so far
  connected,  \* libp2p still has a connection between the peers
  broken      \* the connection carrying the negotiate stream is gone

vars == <<hello, pc, chan, end, abandoned, tries, landed, agent, rung, subDead,
          idx, pending, tierStop, active, watching, committed, cres,
          connected, broken>>

Side == {"client", "host"}
Peer(s) == IF s = "client" THEN "host" ELSE "client"

\* flag is OK in a punch message and Commit in an attempt.
Msg(type, tier, flag) == [type |-> type, tier |-> tier, flag |-> flag]
Messages == [type : {"hello", "info", "outcome", "attempt"},
             tier : Tiers \cup {NoTier}, flag : BOOLEAN]
Attempt(tier, commit) == Msg("attempt", tier, commit)

\* What serveRung returns in place of an attempt when there is no next rung.
NoAttempt == Attempt(NoTier, FALSE)

PunchPC  == {"gather", "info", "check", "outcome"}
ClientPC == PunchPC \cup {"start", "hello", "request", "reqack", "dial", "commitack", "done"}
HostPC   == PunchPC \cup {"idle", "hello", "recv", "got", "serve", "serving", "stopping",
                          "commit", "notify", "verify", "committed", "ended"}

\* The points of serveRung: the rung's goroutines are running.
ServeRungPC == {"serving", "stopping", "commit", "notify", "verify", "committed"}

TypeOK ==
  /\ hello \in [Side -> Hellos]
  /\ pc \in [Side -> ClientPC \cup HostPC]
  /\ pc["client"] \in ClientPC /\ pc["host"] \in HostPC
  /\ chan \in [Side -> Seq(Messages)]
  /\ end \in [Side -> {"open", "closed", "reset"}]
  /\ abandoned \in [Side -> BOOLEAN]
  /\ tries \in [Side -> Nat]
  /\ landed \in [Side -> BOOLEAN]
  /\ agent \in [Side -> {"none", "open", "closed"}]
  /\ rung \in [Side -> Upper \cup {NoTier}]
  /\ subDead \in [Side -> BOOLEAN]
  /\ idx \in Nat \ {0}
  /\ pending \in Messages
  /\ {tierStop, watching, connected, broken} \subseteq BOOLEAN
  /\ active \in Upper \cup {NoTier}
  /\ committed \in Upper \cup {NoTier}
  /\ cres \in Tiers \cup {"error", "none"}

Init ==
  /\ hello \in {[s \in Side |-> IF s = "client" THEN c ELSE h] :
                  c \in ClientHellos, h \in HostHellos}
  /\ pc = [s \in Side |-> IF s = "client" THEN "start" ELSE "idle"]
  /\ chan = [s \in Side |-> <<>>]
  /\ end = [s \in Side |-> "open"]
  /\ abandoned = [s \in Side |-> FALSE]
  /\ tries = [s \in Side |-> 0]
  /\ landed = [s \in Side |-> FALSE]
  /\ agent = [s \in Side |-> "none"]
  /\ rung = [s \in Side |-> NoTier]
  /\ subDead = [s \in Side |-> FALSE]
  /\ idx = 1
  /\ pending = NoAttempt
  /\ tierStop = FALSE
  /\ active = NoTier
  /\ watching = FALSE
  /\ committed = NoTier
  /\ cres = "none"
  /\ connected = TRUE
  /\ broken = FALSE

-----------------------------------------------------------------------------
(* What both sides compute from the two Hellos.                            *)

\* Each side resolves the ladder with its own Hello first.
LadderOf(s) == RequiredCascade(hello[s], hello[Peer(s)])
Required    == TierRequired(hello["client"], hello["host"])

\* A ladder whose head is the floor is punched for only to measure, and once.
Probing(s) == LadderOf(s) = <<"libp2p">>
\* Mutant: a side counts by its own setting only.
AttemptsOf_OwnSetting(s) ==
  IF Probing(s) THEN 1 ELSE EffectivePunchAttempts(hello[s].attempts, hello[s].attempts)

AttemptsOf(s) ==
  IF Probing(s) THEN 1
  ELSE EffectivePunchAttempts(hello[s].attempts, hello[Peer(s)].attempts)

-----------------------------------------------------------------------------
(* The Exchange over the negotiate stream.                                 *)

\* A message to a side that has left the stream is never read.
Send(s, m) ==
  chan' = IF broken \/ end[Peer(s)] # "open" THEN chan
          ELSE [chan EXCEPT ![Peer(s)] = Append(@, m)]

\* A send, or a swap that starts with one, may report an error.
Failing(s) == broken \/ end[Peer(s)] # "open"

Arrived(s, type) == chan[s] # <<>> /\ Head(chan[s]).type = type
Take(s) == chan' = [chan EXCEPT ![s] = Tail(@)]

\* A read fails on a broken or reset stream, at its end, or on another message: the
\* payloads carry no tag, and what Lockstep shows is that this never has to be told.
ReadFails(s, type) ==
  \/ broken
  \/ end[Peer(s)] = "reset"
  \/ end[Peer(s)] = "closed" /\ chan[s] = <<>>
  \/ chan[s] # <<>> /\ Head(chan[s]).type # type

\* Mutant: a wait without a deadline.
ReceiveError_NoDeadline(s, type) == ReadFails(s, type) /\ UNCHANGED abandoned

\* receive and swap give up with the read's error or with their context's, in
\* which case the decode they started is still in flight.
ReceiveError(s, type) ==
  \/ ReadFails(s, type) /\ UNCHANGED abandoned
  \/ abandoned' = [abandoned EXCEPT ![s] = TRUE]

SwapError(s, type) ==
  \/ ReceiveError(s, type)
  \/ Failing(s) /\ UNCHANGED abandoned

Leave(s, how) == end' = [end EXCEPT ![s] = how]
Goto(s, l) == pc' = [pc EXCEPT ![s] = l]

\* Closing an agent that was never made changes nothing.
CloseAgent(s) ==
  agent' = [agent EXCEPT ![s] = IF @ = "open" THEN "closed" ELSE @]

\* Closing a rung, which may have to close the substrate under it (an outcome or an
\* error that SubstrateAbandoned recognises).
TearDown(s, dead) ==
  /\ rung' = [rung EXCEPT ![s] = NoTier]
  /\ subDead' = [subDead EXCEPT ![s] = @ \/ dead]

ladderVars == <<rung, subDead, idx, pending, tierStop, active, watching, committed>>
envVars    == <<hello, connected, broken>>
punchVars  == <<tries, landed, agent>>

-----------------------------------------------------------------------------
(* The ends of the two handlers.                                           *)

\* Mutant: a lost commit acknowledgement treated as one more failed rung.
ClientFellShort_FloorAfterCommit(uncertain) ==
  /\ Leave("client", "reset")
  /\ Goto("client", "done")
  /\ cres' = IF Required THEN "error" ELSE "libp2p"

\* negotiateTierClient after a climb that returned an error: the stream is
\* reset, and the floor is allowed unless a tier was required or the error is an
\* uncertain commit.
ClientFellShort(uncertain) ==
  /\ Leave("client", "reset")
  /\ Goto("client", "done")
  /\ cres' = IF uncertain \/ Required THEN "error" ELSE "libp2p"

\* Mutant: serveUpperTiers without its deferred agent.Close.
HostReturns_NoRelease ==
  /\ Leave("host", "closed")
  /\ Goto("host", "ended")
  /\ UNCHANGED agent

\* The host's handler returns: deferred agent.Close, then s.Close.
HostReturns ==
  /\ CloseAgent("host")
  /\ Leave("host", "closed")
  /\ Goto("host", "ended")

-----------------------------------------------------------------------------
(* Opening the stream and swapping Hellos.                                 *)

ClientOpen ==
  /\ pc["client"] = "start"
  /\ \/ /\ Goto("client", "done")
        /\ cres' = "error"
        /\ UNCHANGED chan
     \/ /\ ~broken
        /\ Goto("client", "hello")
        /\ Send("client", Msg("hello", NoTier, FALSE))
        /\ UNCHANGED cres
  /\ UNCHANGED <<end, abandoned, punchVars, ladderVars, envVars>>

\* The host's negotiate stream handler; one that is shutting down refuses.
HostAccept ==
  /\ pc["host"] = "idle"
  /\ ~broken
  /\ chan["host"] # <<>>
  /\ \/ /\ Goto("host", "hello")
        /\ Send("host", Msg("hello", NoTier, FALSE))
        /\ UNCHANGED end
     \/ /\ Goto("host", "ended")
        /\ Leave("host", "reset")
        /\ UNCHANGED chan
  /\ UNCHANGED <<abandoned, cres, punchVars, ladderVars, envVars>>

ClientHello ==
  /\ pc["client"] = "hello"
  /\ \/ /\ Arrived("client", "hello")
        /\ Take("client")
        /\ LET ladder == LadderOf("client")
           IN  \/ /\ ladder = NoCascade
                  /\ Leave("client", "reset")
                  /\ cres' = "error"
                  /\ Goto("client", "done")
                  /\ UNCHANGED tries
               \/ /\ ladder # NoCascade /\ ladder[1] # "libp2p"
                  /\ Goto("client", "gather")
                  /\ tries' = [tries EXCEPT !["client"] = 1]
                  /\ UNCHANGED <<end, cres>>
               \/ /\ ladder # NoCascade /\ ladder[1] = "libp2p"
                  /\ probeAgreed(hello["client"], hello["host"])
                  /\ Goto("client", "gather")
                  /\ tries' = [tries EXCEPT !["client"] = 1]
                  /\ cres' = "libp2p"
                  /\ UNCHANGED end
               \/ /\ ladder # NoCascade /\ ladder[1] = "libp2p"
                  /\ ~probeAgreed(hello["client"], hello["host"])
                  /\ Leave("client", "closed")
                  /\ Goto("client", "done")
                  /\ cres' = IF Required THEN "error" ELSE "libp2p"
                  /\ UNCHANGED tries
        /\ UNCHANGED abandoned
     \/ /\ SwapError("client", "hello")
        /\ Leave("client", "reset")
        /\ cres' = "error"
        /\ Goto("client", "done")
        /\ UNCHANGED <<chan, tries>>
  /\ UNCHANGED <<landed, agent, ladderVars, envVars>>

HostHello ==
  /\ pc["host"] = "hello"
  /\ \/ /\ Arrived("host", "hello")
        /\ Take("host")
        /\ LET ladder == LadderOf("host")
               punches == /\ ladder # NoCascade
                          /\ \/ ladder[1] # "libp2p"
                             \/ probeAgreed(hello["host"], hello["client"])
           IN  \/ /\ punches
                  /\ Goto("host", "gather")
                  /\ tries' = [tries EXCEPT !["host"] = 1]
                  /\ UNCHANGED end
               \/ /\ ~punches
                  /\ Leave("host", IF ladder = NoCascade THEN "reset" ELSE "closed")
                  /\ Goto("host", "ended")
                  /\ UNCHANGED tries
        /\ UNCHANGED abandoned
     \/ /\ SwapError("host", "hello")
        /\ Leave("host", "reset")
        /\ Goto("host", "ended")
        /\ UNCHANGED <<chan, tries>>
  /\ UNCHANGED <<landed, agent, cres, ladderVars, envVars>>

-----------------------------------------------------------------------------
(* punch: gather, swap credentials, check connectivity, swap outcomes.     *)

\* The caller's continuation once punch has returned on side s.
PunchReturns(s, ok) ==
  CASE Probing(s) ->
         /\ CloseAgent(s)
         /\ Leave(s, "closed")
         /\ Goto(s, IF s = "client" THEN "done" ELSE "ended")
         /\ UNCHANGED cres
    [] ~Probing(s) /\ ok ->
         /\ Goto(s, IF s = "client" THEN "request" ELSE "recv")
         /\ UNCHANGED <<agent, end, cres>>
    [] OTHER ->
         /\ CloseAgent(s)
         /\ IF s = "client"
            THEN ClientFellShort(FALSE)
            ELSE Leave(s, "closed") /\ Goto(s, "ended") /\ UNCHANGED cres

\* The credentials are sent even when gathering failed: the empty ones release
\* a peer blocked in its half of the swap.
PunchGather(s) ==
  /\ pc[s] = "gather"
  /\ \E ok \in BOOLEAN :
       /\ agent' = [agent EXCEPT ![s] = IF ok THEN "open" ELSE "none"]
       /\ landed' = [landed EXCEPT ![s] = ok]
       /\ Send(s, Msg("info", NoTier, ok))
  /\ Goto(s, "info")
  /\ UNCHANGED <<end, abandoned, tries, cres, ladderVars, envVars>>

\* Both sides' credentials in hand, the attempt goes on to AddRemote and Connect.
PunchInfo(s) ==
  /\ pc[s] = "info"
  /\ \/ /\ Arrived(s, "info")
        /\ Take(s)
        /\ landed' = [landed EXCEPT ![s] = @ /\ Head(chan[s]).flag]
        /\ Goto(s, "check")
        /\ UNCHANGED <<abandoned, agent, end, cres>>
     \/ /\ SwapError(s, "info")
        /\ PunchReturns(s, FALSE)
        /\ UNCHANGED <<chan, landed>>
  /\ UNCHANGED <<tries, ladderVars, envVars>>

\* Connectivity checks need both sides' credentials, and may fail on one side alone.
ConnectOutcomes(s) == {ok \in BOOLEAN : ok => landed[s]}

\* The attempt's own outcome.  A side that failed has already let its agent go.
PunchCheck(s) ==
  /\ pc[s] = "check"
  /\ \E ok \in ConnectOutcomes(s) :
       /\ landed' = [landed EXCEPT ![s] = ok]
       /\ IF AttemptsOf(s) = 1
          THEN PunchReturns(s, ok) /\ UNCHANGED chan
          ELSE /\ IF ok THEN UNCHANGED agent ELSE CloseAgent(s)
               /\ Send(s, Msg("outcome", NoTier, ok))
               /\ Goto(s, "outcome")
               /\ UNCHANGED <<end, cres>>
  /\ UNCHANGED <<abandoned, tries, ladderVars, envVars>>

\* Only an attempt that landed on both sides counts; otherwise both let go and
\* both try again, up to the agreed number.
PunchOutcome(s) ==
  /\ pc[s] = "outcome"
  /\ \/ /\ Arrived(s, "outcome")
        /\ Take(s)
        /\ LET agreed == landed[s] /\ Head(chan[s]).flag
           IN  \/ /\ agreed \/ tries[s] >= AttemptsOf(s)
                  /\ PunchReturns(s, agreed)
                  /\ UNCHANGED tries
               \/ /\ ~agreed /\ tries[s] < AttemptsOf(s)
                  /\ CloseAgent(s)
                  /\ tries' = [tries EXCEPT ![s] = @ + 1]
                  /\ Goto(s, "gather")
                  /\ UNCHANGED <<end, cres>>
        /\ UNCHANGED abandoned
     \/ /\ SwapError(s, "outcome")
        /\ PunchReturns(s, FALSE)
        /\ UNCHANGED <<chan, tries>>
  /\ UNCHANGED <<landed, ladderVars, envVars>>

Punch(s) == PunchGather(s) \/ PunchInfo(s) \/ PunchCheck(s) \/ PunchOutcome(s)

-----------------------------------------------------------------------------
(* climbCascade: the client walks the rungs.                               *)

ClientRung == LadderOf("client")[idx]

\* The walk ends with the ladder, or before its floor.
RungLeft == idx <= Len(LadderOf("client")) /\ ClientRung # "libp2p"

\* Mutant: requestRung as a one-way message.
ClientRequest_OneWay ==
  /\ pc["client"] = "request"
  /\ RungLeft
  /\ Send("client", Attempt(ClientRung, FALSE))
  /\ rung' = [rung EXCEPT !["client"] = ClientRung]
  /\ Goto("client", "dial")
  /\ UNCHANGED <<agent, end, cres, abandoned, tries, landed, subDead, idx, pending,
                 tierStop, active, watching, committed, envVars>>

\* Ask for the next rung, or, with none left, tell the host so and fall short.
ClientRequest ==
  /\ pc["client"] = "request"
  /\ \/ /\ RungLeft
        /\ Send("client", Attempt(ClientRung, FALSE))
        /\ Goto("client", "reqack")
        /\ UNCHANGED <<agent, end, cres>>
     \/ /\ ~RungLeft
        /\ IF Required THEN UNCHANGED chan
                       ELSE Send("client", Attempt("libp2p", FALSE))
        /\ CloseAgent("client")
        /\ ClientFellShort(FALSE)
  /\ UNCHANGED <<abandoned, tries, landed, ladderVars, envVars>>

\* requestRung's wait; the rung is built as soon as the host acknowledged it.
ClientRequestAck ==
  /\ pc["client"] = "reqack"
  /\ \/ /\ Arrived("client", "attempt")
        /\ Take("client")
        /\ IF Head(chan["client"]) = Attempt(ClientRung, FALSE)
           THEN /\ rung' = [rung EXCEPT !["client"] = ClientRung]
                /\ Goto("client", "dial")
                /\ UNCHANGED <<agent, end, cres>>
           ELSE /\ CloseAgent("client")
                /\ ClientFellShort(FALSE)
                /\ UNCHANGED rung
        /\ UNCHANGED abandoned
     \/ /\ SwapError("client", "attempt")
        /\ CloseAgent("client")
        /\ ClientFellShort(FALSE)
        /\ UNCHANGED <<chan, rung>>
  /\ UNCHANGED <<tries, landed, subDead, idx, pending, tierStop, active,
                 watching, committed, envVars>>

\* A handshake can complete only against a host rung of the same tier, on a live
\* substrate.
Handshakes ==
  /\ rung["host"] = rung["client"]
  /\ agent["host"] = "open" /\ ~subDead["host"] /\ ~subDead["client"]

\* set.Dial.  A completed handshake is followed at once by the commit; a failed one
\* is torn down, which may cost the substrate and with it every rung below.
ClientDial ==
  /\ pc["client"] = "dial"
  /\ \/ /\ Handshakes
        /\ Send("client", Attempt(rung["client"], TRUE))
        /\ Goto("client", "commitack")
        /\ UNCHANGED <<rung, subDead, idx>>
     \/ /\ \E dead \in BOOLEAN :
             /\ TearDown("client", dead)
             /\ idx' = IF dead THEN Len(LadderOf("client")) + 1 ELSE idx + 1
        /\ Goto("client", "request")
        /\ UNCHANGED chan
  /\ UNCHANGED <<end, abandoned, punchVars, pending, tierStop, active,
                 watching, committed, cres, envVars>>

\* commitRung's wait.  Without the acknowledgement the host may or may not have
\* committed, so the client gives the session up.
ClientCommitAck ==
  /\ pc["client"] = "commitack"
  /\ \/ /\ Arrived("client", "attempt")
        /\ Take("client")
        /\ IF Head(chan["client"]) = Attempt(rung["client"], TRUE)
           THEN /\ cres' = rung["client"]
                /\ Leave("client", "closed")
                /\ Goto("client", "done")
                /\ UNCHANGED <<rung, agent>>
           ELSE /\ rung' = [rung EXCEPT !["client"] = NoTier]
                /\ CloseAgent("client")
                /\ ClientFellShort(TRUE)
        /\ UNCHANGED abandoned
     \/ /\ SwapError("client", "attempt")
        /\ rung' = [rung EXCEPT !["client"] = NoTier]
        /\ CloseAgent("client")
        /\ ClientFellShort(TRUE)
        /\ UNCHANGED chan
  /\ UNCHANGED <<tries, landed, subDead, idx, pending, tierStop, active,
                 watching, committed, envVars>>

-----------------------------------------------------------------------------
(* serveUpperTiers and serveRung: the host follows.                        *)

\* receiveRungRequest.
HostReceive ==
  /\ pc["host"] = "recv"
  /\ \/ /\ Arrived("host", "attempt")
        /\ Take("host")
        /\ pending' = Head(chan["host"])
        /\ Goto("host", "got")
        /\ UNCHANGED <<abandoned, agent, end>>
     \/ /\ ReceiveError("host", "attempt")
        /\ HostReturns
        /\ UNCHANGED <<chan, pending>>
  /\ UNCHANGED <<tries, landed, rung, subDead, idx, tierStop, active,
                 watching, committed, cres, envVars>>

\* Mutant: the floor served as if it were a rung.
HostGot_ServesFloor ==
  /\ pc["host"] = "got"
  /\ ~pending.flag
  /\ Send("host", Attempt(pending.tier, FALSE))
  /\ rung' = [rung EXCEPT !["host"] = pending.tier]
  /\ Goto("host", "serve")
  /\ UNCHANGED <<agent, end, abandoned, tries, landed, subDead, idx, pending,
                 tierStop, active, watching, committed, cres, envVars>>

\* The floor and a commit with nothing served both end the handler; any other
\* request is acknowledged before anything is built.
HostGot ==
  /\ pc["host"] = "got"
  /\ \/ /\ pending.tier = "libp2p" \/ pending.flag \/ Failing("host")
        /\ HostReturns
        /\ UNCHANGED <<chan, rung>>
     \/ /\ pending.tier # "libp2p" /\ ~pending.flag
        /\ Send("host", Attempt(pending.tier, FALSE))
        /\ rung' = [rung EXCEPT !["host"] = pending.tier]
        /\ Goto("host", "serve")
        /\ UNCHANGED <<agent, end>>
  /\ UNCHANGED <<abandoned, tries, landed, subDead, idx, pending, tierStop,
                 active, watching, committed, cres, envVars>>

\* A WireGuard device stands by itself; QUIC's accept needs a client that dials it,
\* or one that has just given up while its last packets are under way.
CanStand ==
  rung["host"] = "quic" => rung["client"] = "quic" \/ ~RungLeft \/ pc["client"] = "done"

\* set.Serve and, when the rung stands, serveRung's registration.
HostServe ==
  /\ pc["host"] = "serve"
  /\ \/ /\ CanStand
        /\ active' = rung["host"]
        /\ tierStop' = FALSE
        /\ Goto("host", "serving")
        /\ UNCHANGED <<rung, subDead, agent, end>>
     \/ /\ TearDown("host", FALSE)
        /\ Goto("host", "recv")
        /\ UNCHANGED <<agent, end, active, tierStop>>
     \/ /\ TearDown("host", TRUE)
        /\ HostReturns
        /\ UNCHANGED <<active, tierStop>>
  /\ UNCHANGED <<chan, abandoned, tries, landed, idx, pending, watching,
                 committed, cres, envVars>>

\* serveRung's select, both channels possibly ready: the client's next message,
\* the stream's error, or the rung ending for a reason of its own, which leaves
\* the read in flight.
HostServing ==
  /\ pc["host"] = "serving"
  /\ \/ /\ Arrived("host", "attempt")
        /\ Take("host")
        /\ pending' = Head(chan["host"])
        /\ IF pending'.flag /\ pending'.tier = active
           THEN Goto("host", "commit") /\ UNCHANGED tierStop
           ELSE Goto("host", "stopping") /\ tierStop' = TRUE
        /\ UNCHANGED abandoned
     \/ /\ \/ ReadFails("host", "attempt") /\ UNCHANGED abandoned
           \/ tierStop /\ abandoned' = [abandoned EXCEPT !["host"] = TRUE]
        /\ pending' = NoAttempt
        /\ tierStop' = TRUE
        /\ Goto("host", "stopping")
        /\ UNCHANGED chan
  /\ UNCHANGED <<end, punchVars, rung, subDead, idx, active, watching,
                 committed, cres, envVars>>

\* The closer goroutine: a cancelled tierCtx closes the rung, which may have to
\* close the substrate.
CloseRung ==
  /\ pc["host"] \in ServeRungPC
  /\ tierStop
  /\ rung["host"] # NoTier
  /\ \E dead \in BOOLEAN : TearDown("host", dead)
  /\ UNCHANGED <<pc, chan, end, abandoned, punchVars, idx, pending, tierStop,
                 active, watching, committed, cres, envVars>>

\* Mutant: the next request is served whatever the teardown reported.
HostStopped_IgnoresAbandoned ==
  /\ pc["host"] = "stopping"
  /\ rung["host"] = NoTier
  /\ active' = NoTier
  /\ IF pending # NoAttempt /\ ~pending.flag
     THEN Goto("host", "got") /\ UNCHANGED <<agent, end>>
     ELSE HostReturns
  /\ UNCHANGED <<chan, abandoned, tries, landed, rung, subDead, idx, pending,
                 tierStop, watching, committed, cres, envVars>>

\* Mutant: a rung that ended by itself sends the host back to its reader.
HostStopped_ReadsAgain ==
  /\ pc["host"] = "stopping"
  /\ rung["host"] = NoTier
  /\ active' = NoTier
  /\ Goto("host", IF pending = NoAttempt THEN "recv" ELSE "got")
  /\ UNCHANGED <<chan, end, abandoned, punchVars, rung, subDead, idx, pending,
                 tierStop, watching, committed, cres, envVars>>

\* serving.Wait and UnregisterTier, then on to the next request if there is one
\* and a substrate to stand it on.
HostStopped ==
  /\ pc["host"] = "stopping"
  /\ rung["host"] = NoTier
  /\ active' = NoTier
  /\ LET more == pending # NoAttempt /\ ~pending.flag /\ ~subDead["host"]
     IN  \/ more /\ Goto("host", "got") /\ UNCHANGED <<agent, end>>
         \/ ~more /\ HostReturns
  /\ UNCHANGED <<chan, abandoned, tries, landed, rung, subDead, idx, pending,
                 tierStop, watching, committed, cres, envVars>>

\* Mutant: the handler returns with the rung once it has acknowledged the commit.
HostCommit_ReturnsEarly ==
  /\ pc["host"] = "commit"
  /\ Send("host", Attempt(active, TRUE))
  /\ committed' = active
  /\ active' = NoTier
  /\ rung' = [rung EXCEPT !["host"] = NoTier]
  /\ HostReturns
  /\ UNCHANGED <<tierStop, pending, abandoned, tries, landed, subDead, idx,
                 watching, cres, envVars>>

\* The commit acknowledgement.  A send given up at its deadline whose bytes arrive all
\* the same is to the client a send, and to the host one followed by its stop.
HostCommit ==
  /\ pc["host"] = "commit"
  /\ \/ /\ Send("host", Attempt(active, TRUE))
        /\ committed' = active
        /\ Goto("host", "notify")
        /\ UNCHANGED <<tierStop, pending>>
     \/ /\ Failing("host")
        /\ pending' = NoAttempt
        /\ tierStop' = TRUE
        /\ Goto("host", "stopping")
        /\ UNCHANGED <<chan, committed>>
  /\ UNCHANGED <<end, abandoned, punchVars, rung, subDead, idx, active, watching,
                 cres, envVars>>

\* Register the peer watcher; it is not told of earlier disconnects.
HostNotify ==
  /\ pc["host"] = "notify"
  /\ watching' = TRUE
  /\ Goto("host", "verify")
  /\ UNCHANGED <<chan, end, abandoned, punchVars, rung, subDead, idx, pending,
                 tierStop, active, committed, cres, envVars>>

\* Mutant: the watcher is trusted to replay an earlier disconnect.
HostVerify_NoRecheck ==
  /\ pc["host"] = "verify"
  /\ Goto("host", "committed")
  /\ UNCHANGED <<tierStop, chan, end, abandoned, punchVars, rung, subDead, idx, pending,
                 active, watching, committed, cres, envVars>>

\* Connectedness is read once more after registering.
HostVerify ==
  /\ pc["host"] = "verify"
  /\ tierStop' = (tierStop \/ ~connected)
  /\ Goto("host", "committed")
  /\ UNCHANGED <<chan, end, abandoned, punchVars, rung, subDead, idx, pending,
                 active, watching, committed, cres, envVars>>

\* Mutant: the handler does not wait for the rung to be closed.
HostRelease_NoWait ==
  /\ pc["host"] = "committed"
  /\ tierStop
  /\ active' = NoTier
  /\ watching' = FALSE
  /\ HostReturns
  /\ UNCHANGED <<chan, abandoned, tries, landed, rung, subDead, idx, pending,
                 tierStop, committed, cres, envVars>>

\* The detached rung has unwound; the handler returns and releases the agent.
HostRelease ==
  /\ pc["host"] = "committed"
  /\ tierStop
  /\ rung["host"] = NoTier
  /\ active' = NoTier
  /\ watching' = FALSE
  /\ HostReturns
  /\ UNCHANGED <<chan, abandoned, tries, landed, rung, subDead, idx, pending,
                 tierStop, committed, cres, envVars>>

\* The accept loop dies, an operator disconnects the peer, or the host shuts down.
StopTier ==
  /\ pc["host"] \in ServeRungPC
  /\ ~tierStop
  /\ tierStop' = TRUE
  /\ UNCHANGED <<pc, chan, end, abandoned, punchVars, rung, subDead, idx, pending,
                 active, watching, committed, cres, envVars>>

-----------------------------------------------------------------------------
(* The network, and the end of the client process.                         *)

\* libp2p drops the connection carrying the stream while the peers stay connected.
StreamBreaks ==
  /\ ~broken
  /\ broken' = TRUE
  /\ UNCHANGED <<hello, pc, chan, end, abandoned, punchVars, ladderVars, cres, connected>>

\* The last connection between the peers goes; a registered watcher is told.
LosePeer ==
  /\ connected' = FALSE
  /\ broken' = TRUE
  /\ tierStop' = (tierStop \/ watching)

Disconnect ==
  /\ connected
  /\ LosePeer
  /\ UNCHANGED <<hello, pc, chan, end, abandoned, punchVars, rung, subDead, idx,
                 pending, active, watching, committed, cres>>

\* RunClient returns: after an error at once, after a success when it is told to.
\* It closes what carries its traffic and then its libp2p host.
ClientExit ==
  /\ pc["client"] = "done"
  /\ connected
  /\ rung' = [rung EXCEPT !["client"] = NoTier]
  /\ CloseAgent("client")
  /\ LosePeer
  /\ UNCHANGED <<hello, pc, chan, end, abandoned, tries, landed, subDead, idx,
                 pending, active, watching, committed, cres>>

ClientStep ==
  \/ ClientOpen \/ ClientHello \/ Punch("client")
  \/ ClientRequest \/ ClientRequestAck \/ ClientDial \/ ClientCommitAck

HostStep ==
  \/ HostAccept \/ HostHello \/ Punch("host")
  \/ HostReceive \/ HostGot \/ HostServe \/ HostServing \/ HostStopped
  \/ HostCommit \/ HostNotify \/ HostVerify \/ HostRelease

Terminated ==
  /\ pc["client"] = "done"
  /\ pc["host"] \in {"idle", "ended"}
  /\ UNCHANGED vars

Next ==
  \/ ClientStep \/ HostStep \/ CloseRung \/ StopTier
  \/ StreamBreaks \/ Disconnect \/ ClientExit \/ Terminated

\* The client's goroutine runs, its deadlines expire, and a client whose
\* negotiation failed exits.
Fairness == WF_vars(ClientStep) /\ WF_vars(ClientExit /\ cres = "error")

\* Nothing is assumed of the host: it may stall without a word.
Spec == Init /\ [][Next]_vars /\ Fairness

\* What the scheduler grants a host that does not stall.
HostRuns == WF_vars(HostStep) /\ WF_vars(CloseRung)

-----------------------------------------------------------------------------
(* Properties.                                                             *)

\* The negotiation implements TierAgreement: whatever is lost, late or broken,
\* climbCascade returns an upper tier only when serveRung acknowledged the commit
\* of that very tier, and returns the floor only when neither side required a tier
\* and the host has not committed and never will.
Agreement == INSTANCE TierAgreement WITH floor <- ~Required
AgreementSpec == Agreement!Spec

\* The kind of message a side is about to read.
Awaits(s) ==
  CASE pc[s] \in {"hello", "info", "outcome"} -> pc[s]
    [] pc[s] \in {"reqack", "commitack", "recv", "serving"} -> "attempt"
    [] OTHER -> "nothing"

\* Lockstep: no side ever finds another kind of message at the head of the stream
\* than the one it is waiting for, through retries, uneven punch outcomes and
\* one-sided failures (the "two different message types" of punch's comment), so a
\* payload is never decoded as a message it is not.
Lockstep ==
  \A s \in Side : Awaits(s) # "nothing" /\ chan[s] # <<>> => Arrived(s, Awaits(s))

\* requestRung's guarantee: while the client is building a rung, no other rung of
\* the host is still reading the shared substrate.
CleanHandover ==
  pc["client"] = "dial" => rung["host"] \in {NoTier, rung["client"]}

\* The agent owns the substrate: neither side lets it go under a standing rung.
AgentOutlivesRung ==
  \A s \in Side : rung[s] # NoTier => agent[s] = "open"

\* Once a teardown has closed a side's substrate, that side neither acknowledges
\* nor builds another rung on it.
NoRungOnDeadSubstrate ==
  \A s \in Side : pc[s] \in {"serve", "dial"} => ~subDead[s]

\* A client that selected an upper tier is being served on it for as long as
\* nothing has stopped the host's rung: a later stream failure does not.
ServedUntilStopped ==
  cres \in Upper /\ ~tierStop => rung["host"] = cres /\ active = cres

\* Nothing outlives its handler: a host whose handler returned and a client that
\* did not select an upper tier hold no agent and no rung.
NothingLeaks ==
  /\ pc["host"] = "ended" =>
       agent["host"] # "open" /\ rung["host"] = NoTier /\ active = NoTier
  /\ pc["client"] = "done" /\ cres \notin Upper =>
       agent["client"] # "open" /\ rung["client"] = NoTier

\* An Exchange is not used again after a call returned a context error: the
\* decode it abandoned would still be reading the stream.
ExchangeNotReused ==
  [][\A s \in Side : abandoned[s] =>
       /\ Len(chan'[s]) >= Len(chan[s])
       /\ Len(chan'[Peer(s)]) <= Len(chan[Peer(s)])
       /\ pc'[s] \notin {"hello", "info", "outcome", "reqack", "commitack", "recv", "serve"}]_vars

\* The client's negotiation comes to a result even if its host stalls: every wait
\* of negotiateTierClient is under a deadline.
ClientDecides == <>(cres # "none")

\* A client that gave up, fell to the floor or is gone leaves nothing behind: the
\* handler of a host that runs returns, whatever it was doing, even if the disconnect came
\* between the commit acknowledgement and the watcher's registration.
HostReleases ==
  HostRuns => ((cres \in {"error", "libp2p"} \/ ~connected) ~> (pc["host"] \in {"idle", "ended"}))
=============================================================================
