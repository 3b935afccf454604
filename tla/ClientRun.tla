----------------------------- MODULE ClientRun ------------------------------
(***************************************************************************)
(* A client's run from the start of its negotiation to the return of       *)
(* RunClient (internal/tunnel/client.go), with the disconnect watcher      *)
(* (watcher.go) and the forwarder of either network: UDPFlows or TCPConns. *)
(*                                                                         *)
(* A plane is the libp2p floor, whose streams end with the libp2p stack,   *)
(* or an upper tier, whose streams end with plane.close.  Links are the    *)
(* libp2p connections to the host: at most a relayed and a direct one,     *)
(* which libp2p cycles; each that closes is an event for the notifiees     *)
(* registered when it is delivered.                                        *)
(***************************************************************************)
EXTENDS UDPFlows, TCPConns

CONSTANTS
  Networks,   \* the networks the token may name
  Planes,     \* where the negotiation may end
  MaxCycles   \* bound: links made or closed while the host is there

ASSUME ClientAssumption ==
  /\ Networks \subseteq {"tcp", "udp"}
  /\ Planes \subseteq {"floor", "upper"}
  /\ MaxCycles \in Nat

VARIABLES
  pc,        \* where RunClient is
  network,   \* the forwarded network
  plane,     \* what the negotiation selected
  planeUp,   \* plane.close has not been called
  stack,     \* the libp2p host is open
  probe,     \* a background punch probe runs
  watching,  \* the watcher is registered
  links,     \* libp2p connections to the host
  events,    \* disconnect events libp2p has yet to deliver
  host,      \* the host is there
  cycles     \* links made or closed so far

runVars  == <<pc, network, plane, planeUp, stack, probe, watching>>
linkVars == <<links, events, host, cycles>>
vars == <<ctx, udpVars, tcpVars, runVars, linkVars>>

Quiet ==
  /\ \A f \in Flows : stream[f] # "open" /\ pump[f] \in {"none", "gone"}
  /\ \A c \in Conns : conn[c] \in {"none", "gone"}
  /\ reaper # "running" /\ ~probe /\ ~watching /\ ~planeUp /\ ~stack

\* Types; and when RunClient returns nothing is left of the forwarder, the probe, the
\* watcher, the plane and the stack.  The control reader and the diagnostics are not
\* waited for.
TypeOK ==
  /\ UDPTypeOK /\ TCPTypeOK
  /\ pc \in {"negotiating", "negotiated", "watching", "serving", "closing plane",
             "closing stack", "waiting", "returned"}
  /\ network \in Networks
  /\ plane \in Planes \cup {"none"}
  /\ {planeUp, stack, probe, watching, host} \subseteq BOOLEAN
  /\ links \in 0..2 /\ events \in Nat /\ cycles \in 0..MaxCycles
  /\ pc = "returned" => Quiet

\* Connected, with the opening exchange about to begin.
Init ==
  /\ UDPInit /\ TCPInit
  /\ pc = "negotiating"
  /\ network \in Networks
  /\ plane = "none" /\ planeUp = FALSE /\ stack = TRUE
  /\ probe = FALSE /\ watching = FALSE
  /\ links = 1 /\ events = 0 /\ host = TRUE /\ cycles = 0

-----------------------------------------------------------------------------
(* RunClient.                                                              *)

At(from, to) == pc = from /\ pc' = to

\* The ways out before the forwarder runs: cancel, close what there is, wait.
Abort(from) ==
  /\ At(from, "waiting")
  /\ ctx' = TRUE
  /\ planeUp' = FALSE /\ stack' = FALSE /\ watching' = FALSE
  /\ links' = 0 /\ events' = 0
  /\ UNCHANGED <<udpVars, tcpVars, network, plane, probe, host, cycles>>

\* The negotiation failed, the DHT could not be closed, or the port is taken.
Aborts == \E from \in {"negotiating", "negotiated", "watching"} : Abort(from)

\* On the floor a punch probe may be left running.
Negotiated(p) ==
  /\ At("negotiating", "negotiated")
  /\ plane' = p
  /\ planeUp' = TRUE
  /\ probe' \in (IF p = "floor" THEN BOOLEAN ELSE {FALSE})
  /\ UNCHANGED <<ctx, udpVars, tcpVars, network, stack, watching, linkVars>>

\* Network().Notify; what has happened to the links before is not looked at.
Watch ==
  /\ At("negotiated", "watching")
  /\ watching' = TRUE
  /\ UNCHANGED <<ctx, udpVars, tcpVars, network, plane, planeUp, stack, probe, linkVars>>

\* Listen opens the local socket, then Serve is started.
Listen ==
  /\ At("watching", "serving")
  /\ \/ /\ network = "udp"
        /\ loop' = "reading" /\ reaper' = "running" /\ sock' = TRUE
        /\ UNCHANGED <<tableVars, stream, idle, pump, cur, reaping, sweeping, tcpVars>>
     \/ /\ network = "tcp"
        /\ acceptor' = "accepting" /\ listener' = TRUE
        /\ UNCHANGED <<conn, copying, tunnel, local, udpVars>>
  /\ UNCHANGED <<ctx, network, plane, planeUp, stack, probe, watching, linkVars>>

\* The context is cancelled: stop watching and accepting.
StopForwarder ==
  /\ At("serving", "closing plane")
  /\ ctx
  /\ watching' = FALSE /\ events' = 0
  /\ sock' = FALSE /\ listener' = FALSE
  /\ UNCHANGED <<ctx, tableVars, stream, idle, pump, loop, cur, reaper, reaping, sweeping,
                 acceptor, conn, copying, tunnel, local, network, plane, planeUp, stack, probe,
                 links, host, cycles>>

CutStreams ==
  /\ stream' = [f \in Flows |-> IF stream[f] = "open" THEN "cut" ELSE stream[f]]
  /\ tunnel' = [c \in Conns |-> IF conn[c] = "piping" THEN "cut" ELSE tunnel[c]]

\* Mutant: the tier is not torn down before the wait.
ClosePlane_Skipped ==
  /\ At("closing plane", "closing stack")
  /\ UNCHANGED <<ctx, udpVars, tcpVars, network, plane, planeUp, stack, probe, watching, linkVars>>

\* plane.close: on the floor it does nothing.
ClosePlane ==
  /\ At("closing plane", "closing stack")
  /\ planeUp' = FALSE
  /\ IF plane = "upper" THEN CutStreams ELSE UNCHANGED <<stream, tunnel>>
  /\ UNCHANGED <<ctx, sock, tableVars, idle, pump, loop, cur, reaper, reaping, sweeping, listener,
                 acceptor, conn, copying, local, network, plane, stack, probe, watching, linkVars>>

\* p2p.Close.
CloseStack ==
  /\ At("closing stack", "waiting")
  /\ stack' = FALSE
  /\ links' = 0
  /\ IF plane = "floor" THEN CutStreams ELSE UNCHANGED <<stream, tunnel>>
  /\ UNCHANGED <<ctx, sock, tableVars, idle, pump, loop, cur, reaper, reaping, sweeping, listener,
                 acceptor, conn, copying, local, network, plane, planeUp, probe, watching,
                 events, host, cycles>>

\* Mutant: the wait group has the forwarder only.
Return_ForgetsProbe ==
  /\ At("waiting", "returned")
  /\ loop \in {"none", "returned"} /\ acceptor \in {"none", "returned"}
  /\ UNCHANGED <<ctx, udpVars, tcpVars, network, plane, planeUp, stack, probe, watching, linkVars>>

\* wg.Wait: the forwarder and the probe.
Return ==
  /\ At("waiting", "returned")
  /\ loop \in {"none", "returned"} /\ acceptor \in {"none", "returned"} /\ ~probe
  /\ UNCHANGED <<ctx, udpVars, tcpVars, network, plane, planeUp, stack, probe, watching, linkVars>>

\* A probe ends with its own timeouts or the context.
ProbeEnds ==
  /\ probe
  /\ probe' = FALSE
  /\ UNCHANGED <<ctx, udpVars, tcpVars, pc, network, plane, planeUp, stack, watching, linkVars>>

\* SHUTDOWN on the control channel, or a signal.
Cancel ==
  /\ ~ctx
  /\ ctx' = TRUE
  /\ UNCHANGED <<udpVars, tcpVars, runVars, linkVars>>

-----------------------------------------------------------------------------
(* libp2p's links and the watcher, while anybody asks about them.          *)

Followed == pc \in {"negotiating", "negotiated", "watching", "serving"}

\* libp2p makes a second link, or redials.
LinkUp ==
  /\ Followed /\ host /\ links < 2 /\ cycles < MaxCycles
  /\ links' = links + 1
  /\ cycles' = cycles + 1
  /\ UNCHANGED <<ctx, udpVars, tcpVars, runVars, events, host>>

LinkCycles ==
  /\ Followed /\ host /\ links > 0 /\ cycles < MaxCycles
  /\ links' = links - 1
  /\ events' = events + 1
  /\ cycles' = cycles + 1
  /\ UNCHANGED <<ctx, udpVars, tcpVars, runVars, host>>

HostGoes ==
  /\ Followed /\ host
  /\ host' = FALSE
  /\ UNCHANGED <<ctx, udpVars, tcpVars, runVars, links, events, cycles>>

\* The links of a host that is gone time out.
LinkDies ==
  /\ Followed /\ ~host /\ links > 0
  /\ links' = links - 1
  /\ events' = events + 1
  /\ UNCHANGED <<ctx, udpVars, tcpVars, runVars, host, cycles>>

\* Mutant: the early return of the watcher is on the wrong answer.
Gone_Inverted == links # 0

\* Connectedness is NotConnected.
Gone == links = 0

\* Disconnected, to the watcher if it is registered by now.
Disconnected ==
  /\ events > 0
  /\ events' = events - 1
  /\ ctx' = (ctx \/ (watching /\ Gone))
  /\ UNCHANGED <<udpVars, tcpVars, runVars, links, host, cycles>>

-----------------------------------------------------------------------------
(* The forwarders on the plane.                                            *)

\* OpenStream can succeed.
Carries == IF plane = "upper" THEN planeUp ELSE stack /\ links > 0

OpenReturns ==
  \/ OpenFails /\ UNCHANGED tcpVars
  \/ \E c \in Conns : StreamRefused(c) /\ UNCHANGED <<ctx, udpVars>>
OpenSucceeds ==
  /\ Carries
  /\ \/ Opened /\ UNCHANGED tcpVars
     \/ \E c \in Conns : StreamOpened(c) /\ UNCHANGED <<ctx, udpVars>>

\* The host, or the network, ends a stream.
PeerCuts ==
  /\ \/ /\ \E f \in Flows : stream[f] = "open" /\ stream' = [stream EXCEPT ![f] = "cut"]
        /\ UNCHANGED tunnel
     \/ /\ \E c \in Conns : tunnel[c] \in {"open", "eof"} /\ tunnel' = [tunnel EXCEPT ![c] = "cut"]
        /\ UNCHANGED stream
  /\ UNCHANGED <<ctx, sock, tableVars, idle, pump, loop, cur, reaper, reaping, sweeping,
                 listener, acceptor, conn, copying, local>>

UDPGoroutine ==
  /\ UNCHANGED <<tcpVars, runVars, linkVars>>
  /\ LoopRuns \/ ReaperRuns \/ (\E f \in Flows : PumpRuns(f)) \/ UDPWaits
TCPGoroutine ==
  /\ UNCHANGED <<ctx, udpVars, runVars, linkVars>>
  /\ AcceptorRuns \/ (\E c \in Conns : ConnRuns(c)) \/ TCPWaits

ClientStep ==
  \/ Aborts \/ Watch \/ Listen \/ StopForwarder \/ ClosePlane \/ CloseStack \/ Return
  \/ \E p \in Planes : Negotiated(p)

Finished == pc = "returned" /\ UNCHANGED vars

Next ==
  \/ ClientStep \/ ProbeEnds \/ Cancel
  \/ LinkUp \/ LinkCycles \/ HostGoes \/ LinkDies \/ Disconnected
  \/ (OpenReturns \/ OpenSucceeds \/ PeerCuts) /\ UNCHANGED <<runVars, linkVars>>
  \/ UDPGoroutine \/ TCPGoroutine
  \/ Finished

\* Goroutines that can run do; a negotiation ends (see Ladder); OpenStream returns once
\* its context is cancelled (DirectStream says when it does not); libp2p notices dead links and delivers its events.
Fairness ==
  /\ WF_vars(ClientStep) /\ WF_vars(ProbeEnds) /\ WF_vars(LinkDies) /\ WF_vars(Disconnected)
  /\ WF_vars(ctx /\ OpenReturns /\ UNCHANGED <<runVars, linkVars>>)
  /\ WF_vars((LoopRuns /\ UNCHANGED <<tcpVars, runVars, linkVars>>))
  /\ WF_vars((ReaperRuns /\ UNCHANGED <<tcpVars, runVars, linkVars>>))
  /\ \A f \in Flows : WF_vars((PumpRuns(f) /\ UNCHANGED <<tcpVars, runVars, linkVars>>))
  /\ WF_vars((AcceptorRuns /\ UNCHANGED <<ctx, udpVars, runVars, linkVars>>))
  /\ \A c \in Conns : WF_vars((ConnRuns(c) /\ UNCHANGED <<ctx, udpVars, runVars, linkVars>>))

Spec == Init /\ [][Next]_vars /\ Fairness

-----------------------------------------------------------------------------
(* Properties.                                                             *)

\* A pipe that has sent its local application the end of the stream and reads on from it.
HeldByLocal ==
  \E c \in Conns : conn[c] = "piping" /\ copying[c] = {"local_to_tunnel"} /\ local[c] = "open"

\* A cancelled run returns: closing the forwarder, the plane and the stack, in that
\* order, unblocks every read, write and OpenStream of the forwarder on either plane.
\* One thing alone can hold it for ever: pipe waits for both of its directions, so a
\* TCP application that is sent the end and neither writes nor closes (tcp/pipe.go).
ShutdownCompletes == <>ctx => <>(pc = "returned") \/ <>[]HeldByLocal

\* Once the watcher is registered, a host that goes away for good shuts the client down,
\* however libp2p cycled its links before, as long as the last one is still to close or
\* its event to be delivered.
WatchedLossNoticed == watching /\ ~host /\ (links > 0 \/ events > 0) ~> ctx

\* client.go: "Shut the client down if the host goes away entirely."
HostLossNoticed == ~host ~> ctx
=============================================================================
