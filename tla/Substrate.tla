----------------------------- MODULE Substrate ------------------------------
(***************************************************************************)
(* The punched conn and the rungs that use it in turn: nat's deadlineConn  *)
(* (nat/deadline.go) with its pump and its read deadline, the two adapters *)
(* that read it, wireguard's Bind (wireguard/bind.go) and quictun's        *)
(* packetConn (quictun/packetconn.go), the teardown of the tunnels on top  *)
(* (Tunnel.Close of wireguard and of quictun) and Agent.Close (nat/nat.go).*)
(*                                                                         *)
(* wireguard-go and quic-go are seen through the one goroutine each keeps  *)
(* reading, and how each waits for it.  A datagram is only counted: what   *)
(* matters is who takes it.  Time is not modelled: a grace period or a     *)
(* timer may end at any moment.  Writing is left out.                      *)
(***************************************************************************)
EXTENDS Integers, Sequences, FiniteSets

CONSTANTS
  Cascade,   \* the tiers that use the substrate, in the order they are tried
  Queue,     \* substrateQueue: the buffers of the conn
  MaxSets    \* bound: deadlines quic-go sets while its transport is up

ASSUME SubstrateAssumption ==
  /\ Cascade \in Seq({"wireguard", "quic"})
  /\ \A r \in 1..Len(Cascade) : Cascade[r] = "quic" => r = Len(Cascade)
  /\ Queue \in Nat \ {0}
  /\ MaxSets \in Nat

Rungs == 1..Len(Cascade)
IsQUIC(r) == Cascade[r] = "quic"

VARIABLES
  pump,      \* where deadlineConn.pump is
  free,      \* buffers in the free channel
  packets,   \* datagrams in the packets channel
  readErr,   \* what ended the pump
  done,      \* deadlineConn.stop has been called
  open,      \* the substrate under the conn has not been closed
  gen,       \* read.gen
  chan,      \* which channel read.expired is, counted
  expired,   \* the channels that have been closed
  timers,    \* the generations of deadline callbacks that may still run
  limit,     \* the read deadline last set (history)
  sets,      \* deadlines quic-go has set
  phase,     \* how far a rung is in its life
  reader,    \* where the goroutine reading for a rung is
  on,        \* the channel a parked Read waits on
  err,       \* the error a Read returned
  exited,    \* Bind.exited: the receive function has reported the close
  verdict    \* what closing the rung reported of the substrate

connVars     == <<pump, free, packets, readErr, done>>
deadlineVars == <<gen, chan, expired, timers, limit>>
rungVars     == <<phase, verdict>>
readerVars   == <<reader, on, err, exited>>
vars == <<connVars, open, deadlineVars, sets, rungVars, readerVars>>

Errors == {"none", "timeout", "closed", "failed"}

\* While the pump runs every buffer is free, queued or in its hands, which is why consume
\* never blocks on the free channel nor the pump on the packets channel.
BuffersConserved ==
  pump # "stopped" => free + packets + (IF pump = "take" THEN 0 ELSE 1) = Queue

\* Types, and the account of deadlineConn's buffers.
TypeOK ==
  /\ BuffersConserved
  /\ pump \in {"take", "read", "offer", "stopped"}
  /\ free \in 0..Queue /\ packets \in 0..Queue
  /\ readErr \in {"none", "closed", "failed"}
  /\ done \in BOOLEAN /\ open \in BOOLEAN
  /\ gen \in Nat /\ chan \in Nat
  /\ expired \subseteq 0..chan
  /\ timers \subseteq 1..gen
  /\ limit \in {"none", "future", "past"}
  /\ sets \in 0..MaxSets
  /\ phase \in [Rungs -> {"idle", "up", "joining", "detaching", "waiting", "draining", "ended"}]
  /\ verdict \in [Rungs -> {"none", "clean", "abandoned", "unreported"}]
  /\ reader \in [Rungs -> {"none", "enter", "reading", "parked", "failed", "got", "out"}]
  /\ on \in [Rungs -> Nat]
  /\ err \in [Rungs -> Errors]
  /\ exited \in [Rungs -> BOOLEAN]

\* withDeadlines, over a conn ICE has just nominated.
Init ==
  /\ pump = "take" /\ free = Queue /\ packets = 0 /\ readErr = "none"
  /\ done = FALSE /\ open = TRUE
  /\ gen = 0 /\ chan = 0 /\ expired = {} /\ timers = {} /\ limit = "none"
  /\ sets = 0
  /\ phase = [r \in Rungs |-> "idle"]
  /\ verdict = [r \in Rungs |-> "none"]
  /\ reader = [r \in Rungs |-> "none"]
  /\ on = [r \in Rungs |-> 0]
  /\ err = [r \in Rungs |-> "none"]
  /\ exited = [r \in Rungs |-> FALSE]

-----------------------------------------------------------------------------
(* The pump, the one reader of the substrate itself.                       *)

PumpStops(e) == pump' = "stopped" /\ readErr' = e

\* Mutant: waiting for a buffer does not notice stop.
PumpTake_IgnoresDone ==
  /\ pump = "take"
  /\ free > 0
  /\ free' = free - 1
  /\ pump' = "read"
  /\ UNCHANGED <<packets, readErr, done, open, deadlineVars, sets, rungVars, readerVars>>

PumpTake ==
  /\ pump = "take"
  /\ \/ free > 0 /\ free' = free - 1 /\ pump' = "read" /\ UNCHANGED readErr
     \/ done /\ PumpStops("closed") /\ UNCHANGED free
  /\ UNCHANGED <<packets, done, open, deadlineVars, sets, rungVars, readerVars>>

\* A datagram from the peer, or an error of ICE's own.
PumpRead ==
  /\ pump = "read"
  /\ open
  /\ \/ pump' = "offer" /\ UNCHANGED readErr
     \/ PumpStops("failed")
  /\ UNCHANGED <<free, packets, done, open, deadlineVars, sets, rungVars, readerVars>>

\* Closing the substrate ends its Read, with an error that is net.ErrClosed or not.
PumpReadEnds ==
  /\ pump = "read"
  /\ ~open
  /\ \E e \in {"closed", "failed"} : PumpStops(e)
  /\ UNCHANGED <<free, packets, done, open, deadlineVars, sets, rungVars, readerVars>>

PumpOffer ==
  /\ pump = "offer"
  /\ \/ packets < Queue /\ packets' = packets + 1 /\ pump' = "take" /\ UNCHANGED readErr
     \/ done /\ PumpStops("closed") /\ UNCHANGED packets
  /\ UNCHANGED <<free, done, open, deadlineVars, sets, rungVars, readerVars>>

PumpStep == PumpTake \/ PumpOffer \/ PumpReadEnds

-----------------------------------------------------------------------------
(* The read deadline.                                                      *)

fired == chan \in expired

\* Mutant: every set installs a new channel.
set_FreshChannel(t) ==
  /\ gen' = gen + 1
  /\ chan' = chan + 1
  /\ expired' = IF t = "past" THEN expired \cup {chan'} ELSE expired
  /\ \E running \in SUBSET (timers \cap {gen}) :
       timers' = (timers \ {gen}) \cup running \cup (IF t = "future" THEN {gen + 1} ELSE {})
  /\ limit' = t

\* deadlineConn.set.  The channel is kept unless it has fired, so that a Read already
\* parked on it is released; a callback past its Stop stays about.
set(t) ==
  /\ gen' = gen + 1
  /\ chan' = IF fired THEN chan + 1 ELSE chan
  /\ expired' = IF t = "past" THEN expired \cup {chan'} ELSE expired
  /\ \E running \in SUBSET (timers \cap {gen}) :
       timers' = (timers \ {gen}) \cup running \cup (IF t = "future" THEN {gen + 1} ELSE {})
  /\ limit' = t

\* Mutant: Stop is trusted to have cancelled the callback.
expire_AnyGeneration(g) ==
  /\ g \in timers
  /\ timers' = timers \ {g}
  /\ expired' = expired \cup {chan}
  /\ UNCHANGED <<connVars, open, gen, chan, limit, sets, rungVars, readerVars>>

\* deadlineConn.expire: a timer callback gets the mutex.
expire(g) ==
  /\ g \in timers
  /\ timers' = timers \ {g}
  /\ expired' = IF gen = g THEN expired \cup {chan} ELSE expired
  /\ UNCHANGED <<connVars, open, gen, chan, limit, sets, rungVars, readerVars>>

\* quic-go may set deadlines on its packet conn, which passes them on.
QUICSetsDeadline(r, t) ==
  /\ IsQUIC(r) /\ phase[r] = "up"
  /\ sets < MaxSets
  /\ sets' = sets + 1
  /\ set(t)
  /\ UNCHANGED <<connVars, open, rungVars, readerVars>>

-----------------------------------------------------------------------------
(* The goroutine that reads for a rung: wireguard-go's receive routine in  *)
(* Bind's receive function, or quic-go's read loop in ReadFrom.            *)

Reader(r, at) == reader' = [reader EXCEPT ![r] = at]
ReadFails(r, e) == Reader(r, "failed") /\ err' = [err EXCEPT ![r] = e]

\* The adapter's closed channel.
Detached(r) == phase[r] \in {"detaching", "waiting", "draining", "ended"}

\* net.ErrClosed to the caller, which stops reading; Bind takes note of it.
ReportsClosed(r) == Reader(r, "out") /\ exited' = [exited EXCEPT ![r] = TRUE]

\* A fresh call finds the adapter closed or goes on to the conn.  ReadFrom holds its
\* token from here until it returns.
CallRead(r) ==
  /\ reader[r] = "enter"
  /\ \/ Detached(r) /\ ReportsClosed(r)
     \/ ~Detached(r) /\ Reader(r, "reading") /\ UNCHANGED exited
  /\ UNCHANGED <<connVars, open, deadlineVars, sets, rungVars, on, err>>

\* deadlineConn.Read up to its select: a deadline that has passed wins over a datagram.
ReadParks(r) ==
  /\ reader[r] = "reading"
  /\ \/ fired /\ ReadFails(r, "timeout") /\ UNCHANGED on
     \/ ~fired /\ Reader(r, "parked") /\ on' = [on EXCEPT ![r] = chan] /\ UNCHANGED err
  /\ UNCHANGED <<connVars, open, deadlineVars, sets, rungVars, exited>>

\* Mutant: the buffer is not given back.
ReadTakes_KeepsBuffer(r) ==
  /\ reader[r] = "parked"
  /\ packets > 0
  /\ packets' = packets - 1
  /\ Reader(r, "got")
  /\ UNCHANGED <<pump, free, readErr, done, open, deadlineVars, sets, rungVars, on, err, exited>>

\* A datagram, also one left over from a pump that has stopped; consume returns its buffer.
ReadTakes(r) ==
  /\ reader[r] = "parked"
  /\ packets > 0
  /\ packets' = packets - 1
  /\ free' = free + 1
  /\ Reader(r, "got")
  /\ UNCHANGED <<pump, readErr, done, open, deadlineVars, sets, rungVars, on, err, exited>>

\* The deadline of the channel the Read started with, or the end of the pump.
ReadReleased(r) ==
  /\ reader[r] = "parked"
  /\ \/ on[r] \in expired /\ ReadFails(r, "timeout")
     \/ pump = "stopped" /\ packets = 0 /\ ReadFails(r, readErr)
  /\ UNCHANGED <<connVars, open, deadlineVars, sets, rungVars, on, exited>>

\* The device or the transport handles the datagram and reads on.
Delivered(r) ==
  /\ reader[r] = "got"
  /\ Reader(r, "enter")
  /\ UNCHANGED <<connVars, open, deadlineVars, sets, rungVars, on, err, exited>>

\* Bind.receive after a failed Read.  A timeout nobody here asked for is retried inside;
\* the device retries any other error but net.ErrClosed and gives up in the end.
ReceiveFails(r) ==
  /\ ~IsQUIC(r) /\ reader[r] = "failed"
  /\ \/ /\ Detached(r) \/ err[r] = "closed"
        /\ ReportsClosed(r)
     \/ /\ ~Detached(r) /\ err[r] # "closed"
        /\ Reader(r, "enter") /\ UNCHANGED exited
     \/ /\ ~Detached(r) /\ err[r] = "failed"
        /\ Reader(r, "out") /\ UNCHANGED exited
  /\ UNCHANGED <<connVars, open, deadlineVars, sets, rungVars, on, err>>

\* ReadFrom after a failed Read.  quic-go reads on after a timeout unless its transport
\* is closing, and stops at any other error.
ReadFromFails(r) ==
  /\ IsQUIC(r) /\ reader[r] = "failed"
  /\ IF err[r] = "timeout" /\ phase[r] = "up" THEN Reader(r, "enter") ELSE Reader(r, "out")
  /\ UNCHANGED <<connVars, open, deadlineVars, sets, rungVars, on, err, exited>>

ReaderStep(r) ==
  \/ CallRead(r) \/ ReadParks(r) \/ ReadTakes(r) \/ ReadReleased(r)
  \/ Delivered(r) \/ ReceiveFails(r) \/ ReadFromFails(r)

-----------------------------------------------------------------------------
(* A rung: set up, torn down, and the substrate handed back.               *)

Move(r, at) == phase' = [phase EXCEPT ![r] = at]
Report(r, v) == verdict' = [verdict EXCEPT ![r] = v]

\* The cascade goes on unless the rung before reported the substrate given up.
CanStart(r) ==
  /\ phase[r] = "idle" /\ ~done
  /\ \A q \in 1..(r - 1) : phase[q] = "ended" /\ verdict[q] # "abandoned"

\* Bind.Open under device.Up, or a transport's first Dial or Listen.
Start(r) ==
  /\ CanStart(r)
  /\ Move(r, "up")
  /\ Reader(r, "enter")
  /\ UNCHANGED <<connVars, open, deadlineVars, sets, verdict, on, err, exited>>

\* A device that never comes up closes a bind that was never open.
StartFails(r) ==
  /\ CanStart(r)
  /\ Move(r, "ended")
  /\ Report(r, "clean")
  /\ UNCHANGED <<connVars, open, deadlineVars, sets, readerVars>>

\* Tunnel.Close, or a handshake that failed.  The bind is marked closed at once; quic-go
\* first interrupts and joins its own read loop.
BeginClose(r) ==
  /\ phase[r] = "up"
  /\ \/ ~IsQUIC(r) /\ Move(r, "detaching") /\ UNCHANGED deadlineVars
     \/ IsQUIC(r) /\ Move(r, "joining") /\ set("past")
  /\ UNCHANGED <<connVars, open, sets, verdict, readerVars>>

\* The rest of Transport.Close; then packetConn.Close marks the conn closed.
TransportJoined(r) ==
  /\ phase[r] = "joining"
  /\ reader[r] = "out"
  /\ set("none")
  /\ Move(r, "detaching")
  /\ UNCHANGED <<connVars, open, sets, verdict, readerVars>>

Interrupt(r) ==
  /\ phase[r] = "detaching"
  /\ set("past")
  /\ Move(r, "waiting")
  /\ UNCHANGED <<connVars, open, sets, verdict, readerVars>>

\* The evidence a close waits for: the bind's report, or the token of ReadFrom.
Released(r) ==
  IF IsQUIC(r) THEN reader[r] \notin {"reading", "parked", "failed"} ELSE exited[r]

\* Mutant: the deadline that released the reader is left behind.
HandBack_KeepsDeadline(r) ==
  /\ phase[r] = "waiting"
  /\ Released(r)
  /\ Move(r, "draining")
  /\ Report(r, "clean")
  /\ UNCHANGED <<connVars, open, deadlineVars, sets, readerVars>>

HandBack(r) ==
  /\ phase[r] = "waiting"
  /\ Released(r)
  /\ set("none")
  /\ Move(r, "draining")
  /\ Report(r, "clean")
  /\ UNCHANGED <<connVars, open, sets, readerVars>>

\* Mutant: the error of Bind.Close goes where device.Close drops it.
Abandon_Silent(r) ==
  /\ phase[r] = "waiting"
  /\ open' = FALSE
  /\ Report(r, "clean")
  /\ Move(r, "draining")
  /\ UNCHANGED <<connVars, deadlineVars, sets, readerVars>>

\* The grace period ends first: the substrate is closed and that reported, except by
\* quictun's start when the peer has no datagrams, which drops what release returns.
Abandon(r) ==
  /\ phase[r] = "waiting"
  /\ open' = FALSE
  /\ \/ Report(r, "abandoned")
     \/ IsQUIC(r) /\ Report(r, "unreported")
  /\ Move(r, "draining")
  /\ UNCHANGED <<connVars, deadlineVars, sets, readerVars>>

\* device.Close waits for the receive routine.
Closed(r) ==
  /\ phase[r] = "draining"
  /\ reader[r] = "out"
  /\ Move(r, "ended")
  /\ UNCHANGED <<connVars, open, deadlineVars, sets, verdict, readerVars>>

CloseStep(r) == TransportJoined(r) \/ Interrupt(r) \/ HandBack(r) \/ Abandon(r) \/ Closed(r)

-----------------------------------------------------------------------------
(* Agent.Close, called when no rung stands: the wrapper first.             *)

AgentStops ==
  /\ ~done
  /\ \A r \in Rungs : phase[r] \in {"idle", "ended"}
  /\ done' = TRUE
  /\ UNCHANGED <<pump, free, packets, readErr, open, deadlineVars, sets, rungVars, readerVars>>

AgentCloses ==
  /\ done /\ open
  /\ open' = FALSE
  /\ UNCHANGED <<connVars, deadlineVars, sets, rungVars, readerVars>>

\* Everything has ended.
Finished ==
  /\ done /\ ~open /\ pump = "stopped" /\ timers = {}
  /\ UNCHANGED vars

Next ==
  \/ PumpStep \/ PumpRead
  \/ \E g \in timers : expire(g)
  \/ \E r \in Rungs :
       \/ ReaderStep(r)
       \/ Start(r) \/ StartFails(r) \/ BeginClose(r) \/ CloseStep(r)
       \/ \E t \in {"none", "future"} : QUICSetsDeadline(r, t)
  \/ AgentStops \/ AgentCloses
  \/ Finished

\* Goroutines that can run do, and a grace period ends.  Nobody has to send a datagram,
\* close a rung or stop the agent.
Fairness ==
  /\ WF_vars(PumpStep)
  /\ \A r \in Rungs : WF_vars(ReaderStep(r)) /\ WF_vars(CloseStep(r))
  /\ WF_vars(AgentCloses)

Spec == Init /\ [][Next]_vars /\ Fairness

-----------------------------------------------------------------------------
(* Properties.                                                             *)

\* Reads are interrupted by the deadline last set and by no earlier one: a timer
\* callback that outlived its Stop does not end reads under a later deadline or under
\* none (deadlineConn.expire's generation), and one in the past is never missed.
DeadlineHonoured ==
  /\ limit = "none" => ~fired
  /\ limit = "past" => fired
  /\ limit = "future" => fired \/ gen \in timers

\* Between two rungs the substrate is as it was at the start: nobody reads it, and
\* unless it was given up no deadline is set and no timer can still fire one
\* (Bind.Close and packetConn.detach, quic-go's own deadlines included).
HandedBackClean ==
  (\A r \in Rungs : phase[r] \in {"idle", "ended"}) =>
    /\ \A r \in Rungs : reader[r] \in {"none", "out"}
    /\ (\A r \in Rungs : verdict[r] \in {"none", "clean"}) => ~fired /\ gen \notin timers

\* A rung stands only where nobody else reads, on a substrate no rung before it has
\* closed: giving the substrate up reaches the cascade although device.Close drops the
\* error of Bind.Close.
StandsAlone ==
  \A r \in Rungs : phase[r] = "up" =>
    /\ open
    /\ \A q \in Rungs \ {r} : reader[q] \in {"none", "out"}

\* Closing a rung always returns.  quic-go's wait for its read loop has no limit of its
\* own: it relies on a past deadline releasing a Read that is already parked, and on
\* one that is just starting not being fed with datagrams instead.
CloseReturns ==
  \A r \in Rungs : phase[r] \in {"joining", "detaching", "waiting", "draining"} ~> phase[r] = "ended"

\* Agent.Close ends the pump wherever it is parked, on the substrate or on its own
\* channels after its consumer has stopped reading.
PumpReleased == done ~> pump = "stopped"
=============================================================================
