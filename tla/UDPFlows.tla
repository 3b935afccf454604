------------------------------ MODULE UDPFlows ------------------------------
(***************************************************************************)
(* The client's UDP forwarder (internal/udp/flow.go): serveLocal's read    *)
(* loop, the flow table with one tunnel stream per source address, a       *)
(* reverse pump per flow, the reaper of idle flows and closeAll.           *)
(*                                                                         *)
(* A flow object is a number, given in the order they are made; a datagram *)
(* is only its source.  One action is one critical section of flowTable.mu *)
(* or the call that follows it.  The mutex is held across OpenStream.      *)
(* Cancelling ctx, closing the socket and cutting streams belong to the    *)
(* caller.                                                                 *)
(***************************************************************************)
EXTENDS Integers, FiniteSets

CONSTANTS
  Addrs,     \* the source addresses of local datagrams
  MaxFlows   \* bound: flow objects made in all

ASSUME UDPAssumption ==
  /\ MaxFlows \in Nat
  /\ 0 \notin Addrs

Flows == 1..MaxFlows
NoFlow == 0
NoAddr == 0

VARIABLES
  ctx,       \* the run's context has been cancelled
  sock,      \* the local socket is open
  flows,     \* flowTable.flows
  closed,    \* flowTable.closed, and its done channel
  made,      \* flow objects made so far
  addr,      \* per flow, its source address
  stream,    \* per flow, its tunnel stream
  idle,      \* the registered flows without traffic for flowIdleTimeout
  pump,      \* per flow, where its reverse pump is
  loop,      \* where serveLocal is
  cur,       \* the source address or the flow the loop is busy with
  reaper,    \* whether the reaper runs
  reaping,   \* flows the reaper has taken out and not yet reset
  sweeping   \* flows closeAll has taken out and not yet reset

tableVars == <<flows, closed, made, addr>>
udpVars == <<sock, tableVars, stream, idle, pump, loop, cur, reaper, reaping, sweeping>>

UDPTypeOK ==
  /\ ctx \in BOOLEAN /\ sock \in BOOLEAN /\ closed \in BOOLEAN
  /\ flows \in [Addrs -> 0..MaxFlows]
  /\ made \in 0..MaxFlows
  /\ addr \in [Flows -> Addrs \cup {NoAddr}]
  /\ stream \in [Flows -> {"none", "open", "cut", "reset"}]
  /\ idle \subseteq Flows
  /\ pump \in [Flows -> {"none", "reading", "removing", "resetting", "gone"}]
  /\ loop \in {"none", "reading", "get", "opening", "writing", "removing", "resetting",
               "sweeping", "waiting", "returned"}
  /\ cur \in Addrs \cup Flows \cup {NoFlow}
  /\ reaper \in {"none", "running", "gone"}
  /\ reaping \subseteq Flows /\ sweeping \subseteq Flows

UDPInit ==
  /\ ctx = FALSE /\ sock = FALSE /\ closed = FALSE
  /\ flows = [a \in Addrs |-> NoFlow]
  /\ made = 0
  /\ addr = [f \in Flows |-> NoAddr]
  /\ stream = [f \in Flows |-> "none"]
  /\ idle = {}
  /\ pump = [f \in Flows |-> "none"]
  /\ loop = "none" /\ cur = NoFlow
  /\ reaper = "none" /\ reaping = {} /\ sweeping = {}

-----------------------------------------------------------------------------
\* get keeps the mutex while it opens a stream.
Unlocked == loop # "opening"

Registered(f) == flows[addr[f]] = f
Reset(S) == stream' = [f \in Flows |-> IF f \in S THEN "reset" ELSE stream[f]]

\* A flow that is no longer in the table is not looked at by the reaper either.
Unlist(S) ==
  /\ flows' = [a \in Addrs |-> IF flows[a] \in S THEN NoFlow ELSE flows[a]]
  /\ idle' = idle \ S

\* Mutant: remove keyed on the address alone.
remove_ByAddress(f) == flows[addr[f]] # NoFlow /\ Unlist({flows[addr[f]]})

\* flowTable.remove under the mutex, for a flow found still registered.
remove(f) == Registered(f) /\ Unlist({f})

\* remove called for a flow that has been taken out, and perhaps replaced, by another.
removed(f) == ~Registered(f)

-----------------------------------------------------------------------------
(* serveLocal's read loop.                                                 *)

Receive(a) ==
  /\ loop = "reading" /\ sock
  /\ loop' = "get" /\ cur' = a
  /\ UNCHANGED <<ctx, sock, tableVars, stream, idle, pump, reaper, reaping, sweeping>>

\* get for a known source: touched under the mutex.
GetKnown ==
  /\ loop = "get"
  /\ flows[cur] # NoFlow
  /\ idle' = idle \ {flows[cur]}
  /\ loop' = "writing" /\ cur' = flows[cur]
  /\ UNCHANGED <<ctx, sock, tableVars, stream, pump, reaper, reaping, sweeping>>

\* get for a new source: OpenStream is called with the mutex held.
GetOpens ==
  /\ loop = "get"
  /\ flows[cur] = NoFlow /\ ~closed
  /\ loop' = "opening"
  /\ UNCHANGED <<ctx, sock, tableVars, stream, idle, pump, cur, reaper, reaping, sweeping>>

Opened ==
  LET f == made + 1 IN
  /\ loop = "opening"
  /\ made < MaxFlows
  /\ made' = f
  /\ addr' = [addr EXCEPT ![f] = cur]
  /\ flows' = [flows EXCEPT ![cur] = f]
  /\ stream' = [stream EXCEPT ![f] = "open"]
  /\ pump' = [pump EXCEPT ![f] = "reading"]
  /\ loop' = "writing" /\ cur' = f
  /\ UNCHANGED <<ctx, sock, closed, idle, reaper, reaping, sweeping>>

\* The datagram is dropped when its flow cannot be opened.
OpenFails ==
  /\ loop = "opening"
  /\ loop' = "reading" /\ cur' = NoFlow
  /\ UNCHANGED <<ctx, sock, tableVars, stream, idle, pump, reaper, reaping, sweeping>>

\* A write to a stream that still stands may block for as long as it does.
Written ==
  /\ loop = "writing"
  /\ stream[cur] = "open"
  /\ loop' = "reading" /\ cur' = NoFlow
  /\ UNCHANGED <<ctx, sock, tableVars, stream, idle, pump, reaper, reaping, sweeping>>

\* A write to a stream that has ended fails; so may one to a stream that stands, such as
\* a datagram too large for the path.
WriteFails ==
  /\ loop = "writing"
  /\ loop' = "removing"
  /\ UNCHANGED <<ctx, sock, tableVars, stream, idle, pump, cur, reaper, reaping, sweeping>>

LoopRemoves ==
  /\ loop = "removing"
  /\ \/ remove(cur) /\ loop' = "resetting" /\ UNCHANGED cur
     \/ removed(cur) /\ loop' = "reading" /\ cur' = NoFlow /\ UNCHANGED <<flows, idle>>
  /\ UNCHANGED <<ctx, sock, closed, made, addr, stream, pump, reaper, reaping, sweeping>>

LoopResets ==
  /\ loop = "resetting"
  /\ Reset({cur})
  /\ loop' = "reading" /\ cur' = NoFlow
  /\ UNCHANGED <<ctx, sock, tableVars, idle, pump, reaper, reaping, sweeping>>

-----------------------------------------------------------------------------
(* closeAll, deferred by serveLocal.                                       *)

CloseAll ==
  /\ loop = "reading" /\ ~sock
  /\ closed' = TRUE
  /\ sweeping' = {flows[a] : a \in Addrs} \ {NoFlow}
  /\ flows' = [a \in Addrs |-> NoFlow]
  /\ idle' = {}
  /\ loop' = "sweeping"
  /\ UNCHANGED <<ctx, sock, made, addr, stream, pump, cur, reaper, reaping>>

Sweep ==
  /\ loop = "sweeping"
  /\ Reset(sweeping)
  /\ sweeping' = {}
  /\ loop' = "waiting"
  /\ UNCHANGED <<ctx, sock, tableVars, idle, pump, cur, reaper, reaping>>

Drained ==
  /\ loop = "waiting"
  /\ reaper = "gone"
  /\ \A f \in Flows : pump[f] \in {"none", "gone"}
  /\ loop' = "returned"
  /\ UNCHANGED <<ctx, sock, tableVars, stream, idle, pump, cur, reaper, reaping, sweeping>>

-----------------------------------------------------------------------------
(* A flow's reverse pump.                                                  *)

\* A datagram for the local client; writing it may fail.
PumpCopies(f) ==
  /\ pump[f] = "reading" /\ stream[f] = "open"
  /\ idle' = idle \ {f}
  /\ \/ sock /\ UNCHANGED pump
     \/ pump' = [pump EXCEPT ![f] = "removing"]
  /\ UNCHANGED <<ctx, sock, tableVars, stream, loop, cur, reaper, reaping, sweeping>>

PumpEnds(f) ==
  /\ pump[f] = "reading" /\ stream[f] # "open"
  /\ pump' = [pump EXCEPT ![f] = "removing"]
  /\ UNCHANGED <<ctx, sock, tableVars, stream, idle, loop, cur, reaper, reaping, sweeping>>

PumpRemoves(f) ==
  /\ pump[f] = "removing" /\ Unlocked
  /\ \/ remove(f) /\ pump' = [pump EXCEPT ![f] = "resetting"]
     \/ removed(f) /\ pump' = [pump EXCEPT ![f] = "gone"] /\ UNCHANGED <<flows, idle>>
  /\ UNCHANGED <<ctx, sock, closed, made, addr, stream, loop, cur, reaper, reaping, sweeping>>

PumpResets(f) ==
  /\ pump[f] = "resetting"
  /\ Reset({f})
  /\ pump' = [pump EXCEPT ![f] = "gone"]
  /\ UNCHANGED <<ctx, sock, tableVars, idle, loop, cur, reaper, reaping, sweeping>>

-----------------------------------------------------------------------------
(* The reaper.                                                             *)

\* flowIdleTimeout passes without traffic.
GoesIdle(f) ==
  /\ f \in 1..made /\ Registered(f) /\ f \notin idle
  /\ idle' = idle \cup {f}
  /\ UNCHANGED <<ctx, sock, tableVars, stream, pump, loop, cur, reaper, reaping, sweeping>>

\* Mutant: the idle flows are reset and left in the table.
removeIdle_KeepsEntry ==
  /\ reaper = "running" /\ reaping = {} /\ Unlocked
  /\ idle # {}
  /\ reaping' = idle
  /\ UNCHANGED <<ctx, sock, tableVars, stream, idle, pump, loop, cur, reaper, sweeping>>

\* At a tick of the reaper.
removeIdle ==
  /\ reaper = "running" /\ reaping = {} /\ Unlocked
  /\ idle # {}
  /\ Unlist(idle)
  /\ reaping' = idle
  /\ UNCHANGED <<ctx, sock, closed, made, addr, stream, pump, loop, cur, reaper, sweeping>>

ReaperResets(f) ==
  /\ f \in reaping
  /\ Reset({f})
  /\ reaping' = reaping \ {f}
  /\ UNCHANGED <<ctx, sock, tableVars, idle, pump, loop, cur, reaper, sweeping>>

ReaperEnds ==
  /\ reaper = "running" /\ reaping = {}
  /\ ctx \/ closed
  /\ reaper' = "gone"
  /\ UNCHANGED <<ctx, sock, tableVars, stream, idle, pump, loop, cur, reaping, sweeping>>

-----------------------------------------------------------------------------
(* What each goroutine does without waiting for anybody outside.           *)

LoopRuns ==
  \/ GetKnown \/ GetOpens \/ LoopRemoves \/ LoopResets
  \/ loop = "writing" /\ stream[cur] # "open" /\ WriteFails
  \/ CloseAll \/ Sweep \/ Drained
PumpRuns(f) == PumpEnds(f) \/ PumpRemoves(f) \/ PumpResets(f)
ReaperRuns == ReaperEnds \/ \E f \in reaping : ReaperResets(f)

\* What depends on the peer, the local clients and time.
UDPWaits ==
  \/ \E a \in Addrs : Receive(a)
  \/ Written \/ WriteFails
  \/ \E f \in Flows : PumpCopies(f) \/ GoesIdle(f)
  \/ removeIdle

\* Every stream still open is in the table, or in the hands of the one goroutine that
\* took it out and is about to reset it: none is lost between the pump, the read loop,
\* the reaper and closeAll, whatever order they come in.
StreamsOwned ==
  \A f \in Flows : stream[f] = "open" =>
    \/ Registered(f)
    \/ pump[f] = "resetting" \/ (loop = "resetting" /\ cur = f)
    \/ f \in reaping \cup sweeping

\* Whoever resets a flow's stream has taken the flow out of the table first, under the
\* mutex: get never hands the read loop a flow this side has ended, and the next datagram
\* of that source opens a replacement (flowTable.remove, removeIdle, closeAll).
RegisteredNotReset == \A a \in Addrs : flows[a] # NoFlow => stream[flows[a]] # "reset"
=============================================================================
