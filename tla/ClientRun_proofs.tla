-------------------------- MODULE ClientRun_proofs --------------------------
(***************************************************************************)
(* Theorems about the client's run: the flow table of its UDP forwarder,   *)
(* whatever the run around it does, and what is left when RunClient        *)
(* returns, for any addresses, flows, local connections and link cycles.   *)
(***************************************************************************)
EXTENDS ClientRun, TLAPS

\* Flow objects are made one after the other, each for an address.
Issued ==
  \A f \in Flows :
    /\ f <= made => addr[f] \in Addrs
    /\ f > made => stream[f] = "none" /\ pump[f] = "none"

\* The table has a flow under its own address.
Listed == \A a \in Addrs : flows[a] # NoFlow => flows[a] <= made /\ addr[flows[a]] = a

\* The reaper counts the flows of the table only.
IdleListed == \A f \in idle : f <= made /\ Registered(f)

\* What the read loop is busy with; get fills an empty slot, since it keeps the mutex.
LoopBusy ==
  /\ loop \in {"get", "opening"} => cur \in Addrs
  /\ loop = "opening" => flows[cur] = NoFlow
  /\ loop \in {"writing", "removing", "resetting"} => cur \in Flows /\ cur <= made
  /\ loop = "resetting" => ~Registered(cur)
  /\ loop # "sweeping" => sweeping = {}

\* A flow about to be reset is out of the table, for good.
TakenOut ==
  /\ \A f \in Flows : pump[f] = "resetting" => ~Registered(f)
  /\ \A f \in reaping \cup sweeping : f <= made /\ ~Registered(f)

UDPInv ==
  /\ UDPTypeOK
  /\ Issued /\ Listed /\ IdleListed /\ LoopBusy /\ TakenOut
  /\ StreamsOwned /\ RegisteredNotReset

\* The forwarder runs only once RunClient has started it.
NotStarted == pc \in {"negotiating", "negotiated", "watching"} => loop = "none"

IInv == UDPInv /\ NotStarted

-----------------------------------------------------------------------------
(* The forwarder's goroutines.  The facts about its state are unfolded     *)
(* throughout; every step names the action it is about.                    *)

\* remove takes out the flow it is called for and no other.
LEMMA RemoveListed ==
  ASSUME UDPInv, NEW f \in Flows, f <= made, remove(f), UNCHANGED <<made, addr>>
  PROVE  /\ flows' \in [Addrs -> 0..MaxFlows] /\ idle' \subseteq Flows
         /\ Listed' /\ IdleListed'
         /\ \A g \in Flows : g <= made => (Registered(g)' <=> Registered(g) /\ g # f)
<1> USE UDPAssumption DEF UDPInv, Flows, NoFlow, NoAddr, UDPTypeOK, Issued, Listed, remove, Unlist,
        Registered
<1>1. flows' \in [Addrs -> 0..MaxFlows] /\ idle' \subseteq Flows
  OBVIOUS
<1>2. \A g \in Flows : g <= made => (Registered(g)' <=> Registered(g) /\ g # f)
  OBVIOUS
<1>3. Listed'
  OBVIOUS
<1>4. IdleListed'
  BY <1>2 DEF IdleListed
<1> QED
  BY <1>1, <1>2, <1>3, <1>4

\* serveLocal's loop up to the end of a datagram.
LEMMA LoopInv ==
  ASSUME UDPInv,
         \/ \E a \in Addrs : Receive(a)
         \/ GetKnown \/ GetOpens \/ Opened \/ OpenFails \/ Written \/ WriteFails
         \/ LoopRemoves \/ LoopResets
  PROVE  UDPInv'
<1> USE UDPAssumption DEF UDPInv, Flows, NoFlow, NoAddr, UDPTypeOK, Issued, Listed, IdleListed,
        LoopBusy, TakenOut, StreamsOwned, RegisteredNotReset, Registered, tableVars
<1>1. CASE \E a \in Addrs : Receive(a)
  BY <1>1 DEF Receive
<1>2. CASE GetKnown
  <2>1. flows[cur] \in Flows /\ flows[cur] <= made /\ cur \in Addrs
    BY <1>2 DEF GetKnown
  <2>2. UDPTypeOK'
    BY <1>2, <2>1 DEF GetKnown
  <2> QED
    BY <1>2, <2>1, <2>2 DEF GetKnown
<1>3. CASE GetOpens
  BY <1>3 DEF GetOpens
<1>4. CASE Opened
  BY <1>4 DEF Opened
<1>5. CASE OpenFails
  BY <1>5 DEF OpenFails
<1>6. CASE Written
  BY <1>6 DEF Written
<1>7. CASE WriteFails
  BY <1>7 DEF WriteFails
<1>8. CASE LoopRemoves /\ remove(cur)
  <2>1. cur \in Flows /\ cur <= made /\ UNCHANGED <<made, addr>>
    BY <1>8 DEF LoopRemoves
  <2>2. /\ flows' \in [Addrs -> 0..MaxFlows] /\ idle' \subseteq Flows
        /\ Listed' /\ IdleListed'
        /\ \A g \in Flows : g <= made => (Registered(g)' <=> Registered(g) /\ g # cur)
    BY <1>8, <2>1, RemoveListed DEF UDPInv
  <2> QED
    BY <1>8, <2>1, <2>2 DEF LoopRemoves, removed
<1>9. CASE LoopRemoves /\ removed(cur)
  BY <1>9 DEF LoopRemoves, remove, removed
<1>10. CASE LoopResets
  BY <1>10 DEF LoopResets, Reset
<1> QED
  BY <1>1, <1>2, <1>3, <1>4, <1>5, <1>6, <1>7, <1>8, <1>9, <1>10 DEF LoopRemoves

\* closeAll.
LEMMA CloseAllInv == ASSUME UDPInv, CloseAll \/ Sweep \/ Drained PROVE UDPInv'
<1> USE UDPAssumption DEF UDPInv, Flows, NoFlow, NoAddr, UDPTypeOK, Issued, Listed, IdleListed,
        LoopBusy, TakenOut, StreamsOwned, RegisteredNotReset, Registered, tableVars
<1>1. CASE CloseAll
  <2>1. sweeping' \subseteq Flows /\ \A f \in sweeping' : f <= made
    BY <1>1 DEF CloseAll
  <2>2. \A f \in Flows : f <= made => ~Registered(f)'
    BY <1>1 DEF CloseAll
  <2>3. \A f \in Flows : f <= made /\ Registered(f) => f \in sweeping'
    BY <1>1 DEF CloseAll
  <2>4. UDPTypeOK' /\ Issued' /\ Listed' /\ IdleListed' /\ LoopBusy' /\ RegisteredNotReset'
    BY <1>1, <2>1 DEF CloseAll
  <2>5. TakenOut'
    BY <1>1, <2>1, <2>2 DEF CloseAll
  <2>6. StreamsOwned'
    BY <1>1, <2>3 DEF CloseAll
  <2> QED
    BY <2>4, <2>5, <2>6
<1>2. CASE Sweep
  BY <1>2 DEF Sweep, Reset
<1>3. CASE Drained
  BY <1>3 DEF Drained
<1> QED
  BY <1>1, <1>2, <1>3

\* A flow's reverse pump.
LEMMA PumpInv ==
  ASSUME UDPInv, NEW f \in Flows,
         PumpCopies(f) \/ PumpEnds(f) \/ PumpRemoves(f) \/ PumpResets(f)
  PROVE  UDPInv'
<1> USE UDPAssumption DEF UDPInv, Flows, NoFlow, NoAddr, UDPTypeOK, Issued, Listed, IdleListed,
        LoopBusy, TakenOut, StreamsOwned, RegisteredNotReset, Registered, tableVars
<1>1. CASE PumpCopies(f)
  <2>1. UDPTypeOK'
    BY <1>1 DEF PumpCopies
  <2>2. Issued' /\ Listed' /\ IdleListed' /\ LoopBusy'
    BY <1>1 DEF PumpCopies
  <2>3. TakenOut' /\ StreamsOwned' /\ RegisteredNotReset'
    BY <1>1 DEF PumpCopies
  <2> QED
    BY <2>1, <2>2, <2>3
<1>2. CASE PumpEnds(f)
  BY <1>2 DEF PumpEnds
<1>3. CASE PumpRemoves(f) /\ remove(f)
  <2>1. f <= made /\ UNCHANGED <<made, addr>>
    BY <1>3 DEF PumpRemoves
  <2>2. /\ flows' \in [Addrs -> 0..MaxFlows] /\ idle' \subseteq Flows
        /\ Listed' /\ IdleListed'
        /\ \A g \in Flows : g <= made => (Registered(g)' <=> Registered(g) /\ g # f)
    BY <1>3, <2>1, RemoveListed DEF UDPInv
  <2>3. /\ loop # "opening" /\ pump' = [pump EXCEPT ![f] = "resetting"]
        /\ UNCHANGED <<ctx, sock, closed, made, addr, stream, loop, cur, reaper, reaping, sweeping>>
    BY <1>3 DEF PumpRemoves, Unlocked, remove, removed
  <2>4. UDPTypeOK' /\ Issued' /\ LoopBusy'
    <3>1. UDPTypeOK'
      BY <2>2, <2>3
    <3>2. Issued'
      BY <2>1, <2>3
    <3> QED
      BY <2>1, <2>2, <2>3, <3>1, <3>2
  <2>5. TakenOut'
    BY <2>1, <2>2, <2>3
  <2>6. StreamsOwned'
    BY <2>1, <2>2, <2>3
  <2>7. RegisteredNotReset'
    BY <1>3, <2>3 DEF remove, Unlist
  <2> QED
    BY <2>2, <2>4, <2>5, <2>6, <2>7
<1>4. CASE PumpRemoves(f) /\ removed(f)
  <2>1. UNCHANGED <<ctx, sock, tableVars, stream, idle, loop, cur, reaper, reaping, sweeping>>
        /\ pump' = [pump EXCEPT ![f] = "gone"] /\ pump[f] = "removing"
    BY <1>4 DEF PumpRemoves, remove, removed
  <2>2. UDPTypeOK' /\ Issued' /\ Listed' /\ IdleListed' /\ LoopBusy'
    BY <2>1
  <2>3. TakenOut' /\ StreamsOwned' /\ RegisteredNotReset'
    BY <2>1
  <2> QED
    BY <2>2, <2>3
<1>5. CASE PumpResets(f)
  BY <1>5 DEF PumpResets, Reset
<1> QED
  BY <1>1, <1>2, <1>3, <1>4, <1>5 DEF PumpRemoves

\* The reaper, and time.
LEMMA ReaperInv ==
  ASSUME UDPInv,
         \/ \E f \in Flows : GoesIdle(f)
         \/ removeIdle \/ ReaperEnds
         \/ \E f \in reaping : ReaperResets(f)
  PROVE  UDPInv'
<1> USE UDPAssumption DEF UDPInv, Flows, NoFlow, NoAddr, UDPTypeOK, Issued, Listed, IdleListed,
        LoopBusy, TakenOut, StreamsOwned, RegisteredNotReset, Registered, tableVars
<1>1. CASE \E f \in Flows : GoesIdle(f)
  BY <1>1 DEF GoesIdle
<1>2. CASE removeIdle
  BY <1>2 DEF removeIdle, Unlist
<1>3. CASE ReaperEnds
  BY <1>3 DEF ReaperEnds
<1>4. CASE \E f \in reaping : ReaperResets(f)
  BY <1>4 DEF ReaperResets, Reset
<1> QED
  BY <1>1, <1>2, <1>3, <1>4

-----------------------------------------------------------------------------
(* The run around it.                                                      *)

\* Streams that are cut, by the peer or by closing the plane or the stack, leave the
\* table to the pumps.
LEMMA CutInv ==
  ASSUME UDPInv, ctx' \in BOOLEAN, sock' \in BOOLEAN,
         UNCHANGED <<tableVars, idle, pump, loop, cur, reaper, reaping, sweeping>>,
         stream' \in [Flows -> {"none", "open", "cut", "reset"}],
         \A f \in Flows : stream'[f] = stream[f] \/ (stream[f] = "open" /\ stream'[f] = "cut")
  PROVE  UDPInv'
BY UDPAssumption DEF UDPInv, Flows, NoFlow, NoAddr, UDPTypeOK, Issued, Listed, IdleListed,
   LoopBusy, TakenOut, StreamsOwned, RegisteredNotReset, Registered, tableVars

\* The forwarder starts with an empty table.
LEMMA ListenInv == ASSUME UDPInv, NotStarted, Listen PROVE UDPInv'
<1>1. CASE network = "udp"
  <2> USE UDPAssumption DEF UDPInv, Flows, NoFlow, NoAddr, UDPTypeOK, Issued, Listed, IdleListed,
          LoopBusy, TakenOut, StreamsOwned, RegisteredNotReset, Registered, tableVars
  <2>1. /\ UNCHANGED <<ctx, tableVars, stream, idle, pump, cur, reaping, sweeping>>
        /\ loop' = "reading" /\ reaper' = "running" /\ sock' = TRUE
    BY <1>1 DEF Listen
  <2>2. loop = "none"
    BY DEF Listen, At, NotStarted
  <2> QED
    BY <2>1, <2>2
<1>2. CASE network # "udp"
  BY <1>2, CutInv DEF Listen, UDPInv, UDPTypeOK, udpVars
<1> QED
  BY <1>1, <1>2

\* Every step of ClientRun, and every stuttering step, preserves the invariant.
LEMMA TableStep == ASSUME IInv, [Next]_vars PROVE UDPInv'
<1>0. UDPInv /\ NotStarted
  BY DEF IInv
<1> USE DEF udpVars
<1>1. CASE /\ ctx' \in BOOLEAN /\ UNCHANGED udpVars
  BY <1>0, <1>1, CutInv DEF UDPInv, UDPTypeOK
<1>2. CASE UNCHANGED vars
  BY <1>0, <1>1, <1>2 DEF vars, UDPInv, UDPTypeOK
<1>3. CASE ClientStep
  <2>1. CASE Aborts \/ Watch \/ Return \/ \E p \in Planes : Negotiated(p)
    BY <1>0, <1>1, <2>1 DEF Aborts, Abort, Watch, Return, Negotiated, UDPInv, UDPTypeOK
  <2>2. CASE Listen
    BY <1>0, <2>2, ListenInv
  <2>3. CASE StopForwarder
    BY <1>0, <2>3, CutInv DEF StopForwarder, UDPInv, UDPTypeOK
  <2>4. CASE ClosePlane \/ CloseStack
    BY <1>0, <2>4, CutInv DEF ClosePlane, CloseStack, CutStreams, UDPInv, UDPTypeOK
  <2> QED
    BY <1>0, <1>3, <2>1, <2>2, <2>3, <2>4 DEF ClientStep
<1>4. CASE ProbeEnds \/ Cancel \/ LinkUp \/ LinkCycles \/ HostGoes \/ LinkDies \/ Disconnected
  BY <1>0, <1>1, <1>4 DEF ProbeEnds, Cancel, LinkUp, LinkCycles, HostGoes, LinkDies, Disconnected,
                    UDPInv, UDPTypeOK
<1>5. CASE OpenReturns
  BY <1>0, <1>1, <1>5, LoopInv DEF OpenReturns, UDPInv, UDPTypeOK
<1>6. CASE OpenSucceeds
  BY <1>0, <1>1, <1>6, LoopInv DEF OpenSucceeds, UDPInv, UDPTypeOK
<1>7. CASE PeerCuts
  BY <1>0, <1>7, CutInv DEF PeerCuts, UDPInv, UDPTypeOK
<1>8. CASE UDPGoroutine
  BY <1>0, <1>8, LoopInv, CloseAllInv, PumpInv, ReaperInv
  DEF UDPGoroutine, LoopRuns, PumpRuns, ReaperRuns, UDPWaits
<1>9. CASE TCPGoroutine
  BY <1>0, <1>1, <1>9 DEF TCPGoroutine, UDPInv, UDPTypeOK
<1>10. CASE Finished
  BY <1>0, <1>2, <1>10 DEF Finished
<1> QED
  BY <1>0, <1>2, <1>3, <1>4, <1>5, <1>6, <1>7, <1>8, <1>9, <1>10 DEF Next

\* RunClient starts the read loop, and nothing else does.
LEMMA StartStep == ASSUME IInv, [Next]_vars PROVE NotStarted'
<1> USE DEF NotStarted, udpVars
<1>1. NotStarted
  BY DEF IInv
<1>2. CASE UNCHANGED vars
  BY <1>1, <1>2 DEF vars, runVars
<1>3. CASE ClientStep
  BY <1>1, <1>3 DEF ClientStep, Aborts, Abort, At, Negotiated, Watch, Listen, StopForwarder,
                    ClosePlane, CloseStack, Return
<1>4. CASE ProbeEnds \/ Cancel \/ LinkUp \/ LinkCycles \/ HostGoes \/ LinkDies \/ Disconnected
  BY <1>1, <1>4 DEF ProbeEnds, Cancel, LinkUp, LinkCycles, HostGoes, LinkDies, Disconnected, runVars
<1>5. CASE (OpenReturns \/ OpenSucceeds \/ PeerCuts) /\ UNCHANGED <<runVars, linkVars>>
  BY <1>1, <1>5 DEF OpenReturns, OpenSucceeds, PeerCuts, OpenFails, Opened, runVars
<1>6. CASE UDPGoroutine
  BY <1>1, <1>6
  DEF UDPGoroutine, LoopRuns, ReaperRuns, PumpRuns, UDPWaits, Receive, GetKnown, GetOpens, Written,
      WriteFails, LoopRemoves, LoopResets, CloseAll, Sweep, Drained, PumpCopies, PumpEnds,
      PumpRemoves, PumpResets, GoesIdle, removeIdle, ReaperResets, ReaperEnds, runVars
<1>7. CASE TCPGoroutine
  BY <1>1, <1>7 DEF TCPGoroutine, runVars
<1>8. CASE Finished
  BY <1>2, <1>8 DEF Finished
<1> QED
  BY <1>2, <1>3, <1>4, <1>5, <1>6, <1>7, <1>8 DEF Next

-----------------------------------------------------------------------------
(* Theorems.                                                               *)

\* The inductive invariant of the flow table holds in every reachable state.
THEOREM Invariant == Spec => []IInv
<1>1. Init => IInv
  <2> SUFFICES ASSUME Init PROVE IInv
    OBVIOUS
  <2> USE UDPAssumption DEF Init, UDPInit, Flows, NoFlow, NoAddr
  <2>1. flows \in [Addrs -> 0..MaxFlows] /\ made \in 0..MaxFlows
    OBVIOUS
  <2>2. addr \in [Flows -> Addrs \cup {NoAddr}] /\ cur \in Addrs \cup Flows \cup {NoFlow}
    OBVIOUS
  <2>3. UDPTypeOK
    BY <2>1, <2>2 DEF UDPTypeOK
  <2> QED
    BY <2>3 DEF IInv, NotStarted, UDPInv, Issued, Listed, IdleListed, LoopBusy, TakenOut, StreamsOwned,
                RegisteredNotReset
<1>2. IInv /\ [Next]_vars => IInv'
  BY TableStep, StartStep DEF IInv
<1> QED
  BY <1>1, <1>2, PTL DEF Spec

\* No stream of the UDP forwarder is ever lost between the pump, the read loop, the reaper
\* and closeAll.
THEOREM StreamsAlwaysOwned == Spec => []StreamsOwned
<1>1. IInv => StreamsOwned
  BY DEF IInv, UDPInv
<1> QED
  BY <1>1, Invariant, PTL

\* get never hands out a flow whose stream this side has reset.
THEOREM NeverHandsOutReset == Spec => []RegisteredNotReset
<1>1. IInv => RegisteredNotReset
  BY DEF IInv, UDPInv
<1> QED
  BY <1>1, Invariant, PTL
-----------------------------------------------------------------------------
(* What is left when RunClient returns.                                    *)

\* The types beyond the flow table.
Places ==
  /\ pc \in {"negotiating", "negotiated", "watching", "serving", "closing plane",
             "closing stack", "waiting", "returned"}
  /\ network \in Networks
  /\ plane \in Planes \cup {"none"}
Flags ==
  /\ planeUp \in BOOLEAN /\ stack \in BOOLEAN /\ probe \in BOOLEAN
  /\ watching \in BOOLEAN /\ host \in BOOLEAN
Counts == links \in 0..2 /\ events \in Nat /\ cycles \in 0..MaxCycles
RunTypes == TCPTypeOK /\ Places /\ Flags /\ Counts

\* No flow is made before the read loop runs, the reaper ends with nothing in its hands,
\* closeAll leaves the table empty, and serveLocal returns after the reaper and the pumps.
LoopEnds ==
  /\ loop = "none" => made = 0 /\ reaper = "none"
  /\ reaper # "running" => reaping = {}
  /\ loop \in {"sweeping", "waiting", "returned"} => \A a \in Addrs : flows[a] = NoFlow
  /\ loop = "returned" => reaper = "gone" /\ \A f \in Flows : pump[f] \in {"none", "gone"}

\* acceptLocalConns leaves no connection behind.
AcceptorEnds ==
  acceptor \in {"none", "returned"} => \A c \in Conns : conn[c] \in {"none", "gone"}

\* RunClient closes the watcher, the plane and the stack before it waits, and returns
\* only after the forwarder and the probe.
ClosedInOrder ==
  /\ pc \in {"closing plane", "closing stack", "waiting", "returned"} => ~watching
  /\ pc \in {"closing stack", "waiting", "returned"} => ~planeUp
  /\ pc \in {"waiting", "returned"} => ~stack
  /\ pc = "returned" =>
       loop \in {"none", "returned"} /\ acceptor \in {"none", "returned"} /\ ~probe

RunInv == RunTypes /\ LoopEnds /\ AcceptorEnds /\ ClosedInOrder

\* The steps of RunClient.
LEMMA ClientTypes ==
  ASSUME TCPTypeOK, Places, Flags, Counts, ClientStep
  PROVE  RunTypes'
<1> USE DEF tcpVars, linkVars, At
<1>1. Places'
  BY DEF Places, ClientStep, Aborts, Abort, Negotiated, Watch, Listen, StopForwarder,
         ClosePlane, CloseStack, Return
<1>2. Flags'
  <2>1. CASE \E p \in Planes : Negotiated(p)
    <3>1. PICK p \in Planes : Negotiated(p)
      BY <2>1
    <3>2. probe' \in BOOLEAN
      BY <3>1, Zenon DEF Negotiated
    <3> QED
      BY <3>1, <3>2, Zenon DEF Flags, Negotiated
  <2>2. CASE Aborts
    BY <2>2, Zenon DEF Flags, Aborts, Abort
  <2>3. CASE Watch \/ Listen \/ StopForwarder
    BY <2>3, Zenon DEF Flags, Watch, Listen, StopForwarder
  <2>4. CASE ClosePlane \/ CloseStack \/ Return
    BY <2>4, Zenon DEF Flags, ClosePlane, CloseStack, Return
  <2> QED
    BY <2>1, <2>2, <2>3, <2>4 DEF ClientStep
<1>3. Counts'
  <2>1. /\ links' = links \/ links' = 0
        /\ events' = events \/ events' = 0
        /\ cycles' = cycles
    BY DEF ClientStep, Aborts, Abort, Negotiated, Watch, Listen, StopForwarder, ClosePlane,
           CloseStack, Return
  <2> QED
    BY <2>1 DEF Counts
<1>4. TCPTypeOK'
  <2>1. CASE Listen \/ StopForwarder
    BY <2>1 DEF TCPTypeOK, Listen, StopForwarder
  <2>2. CASE ClosePlane \/ CloseStack
    <3>1. /\ UNCHANGED <<listener, acceptor, conn, copying, local>>
          /\ UNCHANGED tunnel \/ CutStreams
      BY <2>2 DEF ClosePlane, CloseStack
    <3> QED
      BY <3>1 DEF TCPTypeOK, CutStreams
  <2>3. CASE UNCHANGED tcpVars
    BY <2>3 DEF TCPTypeOK
  <2> QED
    BY <2>1, <2>2, <2>3 DEF ClientStep, Aborts, Abort, Negotiated, Watch, Return
<1> QED
  BY <1>1, <1>2, <1>3, <1>4 DEF RunTypes

\* The probe, the context and libp2p's links.
LEMMA LinkTypes ==
  ASSUME TCPTypeOK, Places, Flags, Counts,
         ProbeEnds \/ Cancel \/ LinkUp \/ LinkCycles \/ HostGoes \/ LinkDies \/ Disconnected
  PROVE  RunTypes'
<1> USE DEF tcpVars, runVars, linkVars
<1>1. TCPTypeOK' /\ Places'
  BY DEF TCPTypeOK, Places, ProbeEnds, Cancel, LinkUp, LinkCycles, HostGoes, LinkDies, Disconnected
<1>2. Flags'
  BY Zenon DEF Flags, ProbeEnds, Cancel, LinkUp, LinkCycles, HostGoes, LinkDies, Disconnected
<1>3. Counts'
  BY ClientAssumption
  DEF Counts, ProbeEnds, Cancel, LinkUp, LinkCycles, HostGoes, LinkDies, Disconnected
<1> QED
  BY <1>1, <1>2, <1>3 DEF RunTypes

\* The TCP forwarder.
LEMMA TCPTypes ==
  ASSUME TCPTypeOK,
         \/ \E c \in Conns : StreamRefused(c) \/ StreamOpened(c) \/ ConnRuns(c)
         \/ AcceptorRuns \/ TCPWaits
  PROVE  TCPTypeOK'
<1> USE DEF TCPTypeOK, Directions
<1>1. CASE \E c \in Conns : StreamRefused(c) \/ StreamOpened(c) \/ Accept(c)
  BY <1>1 DEF StreamRefused, StreamOpened, Accept
<1>2. CASE \E c \in Conns, dir \in Directions : CopyEnds(c, dir)
  BY <1>2 DEF CopyEnds
<1>3. CASE \E c \in Conns : PipeReturns(c) \/ LocalCloses(c) \/ RemoteEnds(c)
  BY <1>3 DEF PipeReturns, LocalCloses, RemoteEnds
<1>4. CASE AcceptorRuns
  BY <1>4 DEF AcceptorRuns, AcceptEnds, AcceptReturns
<1> QED
  BY <1>1, <1>2, <1>3, <1>4 DEF ConnRuns, TCPWaits, UpEnds, DownEnds, UpFails, DownFails

LEMMA RunTypesStep == ASSUME RunTypes, [Next]_vars PROVE RunTypes'
<1> USE DEF runVars, linkVars, tcpVars
<1>1. CASE UNCHANGED <<tcpVars, runVars, linkVars>>
  <2>1. TCPTypeOK'
    BY <1>1 DEF RunTypes, TCPTypeOK
  <2>2. Places' /\ Flags' /\ Counts'
    BY <1>1 DEF RunTypes, Places, Flags, Counts
  <2> QED
    BY <2>1, <2>2 DEF RunTypes
<1>2. CASE TCPTypeOK' /\ UNCHANGED <<runVars, linkVars>>
  BY <1>2 DEF RunTypes, Places, Flags, Counts
<1>3. CASE ClientStep
  BY <1>3, ClientTypes DEF RunTypes
<1>4. CASE ProbeEnds \/ Cancel \/ LinkUp \/ LinkCycles \/ HostGoes \/ LinkDies \/ Disconnected
  BY <1>4, LinkTypes DEF RunTypes
<1>5. CASE (OpenReturns \/ OpenSucceeds) /\ UNCHANGED <<runVars, linkVars>>
  BY <1>1, <1>2, <1>5, TCPTypes DEF OpenReturns, OpenSucceeds, RunTypes
<1>6. CASE PeerCuts /\ UNCHANGED <<runVars, linkVars>>
  <2>1. TCPTypeOK'
    BY <1>6 DEF PeerCuts, RunTypes, TCPTypeOK
  <2> QED
    BY <1>2, <1>6, <2>1
<1>7. CASE UDPGoroutine
  BY <1>1, <1>7 DEF UDPGoroutine
<1>8. CASE TCPGoroutine
  BY <1>2, <1>8, TCPTypes DEF TCPGoroutine, RunTypes
<1>9. CASE Finished \/ UNCHANGED vars
  BY <1>1, <1>9 DEF Finished, vars
<1> QED
  BY <1>3, <1>4, <1>5, <1>6, <1>7, <1>8, <1>9 DEF Next

LEMMA LoopEndsStep == ASSUME IInv, LoopEnds, [Next]_vars PROVE LoopEnds'
<1> USE DEF LoopEnds, udpVars, tableVars, NoFlow
<1>0. UDPTypeOK /\ Issued /\ LoopBusy /\ NotStarted
  BY DEF IInv, UDPInv
<1>1. CASE UNCHANGED <<flows, made, pump, loop, reaper, reaping>>
  BY <1>1
<1>2. CASE ClientStep
  <2>1. CASE Listen
    BY <1>0, <1>1, <2>1 DEF Listen, NotStarted, At
  <2> QED
    BY <1>1, <1>2, <2>1 DEF ClientStep, Aborts, Abort, Negotiated, Watch, StopForwarder,
                            ClosePlane, CloseStack, Return
<1>3. CASE ProbeEnds \/ Cancel \/ LinkUp \/ LinkCycles \/ HostGoes \/ LinkDies \/ Disconnected
  BY <1>1, <1>3 DEF ProbeEnds, Cancel, LinkUp, LinkCycles, HostGoes, LinkDies, Disconnected
<1>4. CASE OpenReturns \/ OpenSucceeds \/ PeerCuts
  BY <1>1, <1>4 DEF OpenReturns, OpenSucceeds, PeerCuts, OpenFails, Opened
<1>5. CASE LoopRuns
  BY <1>0, <1>5 DEF LoopRuns, GetKnown, GetOpens, WriteFails, LoopRemoves, LoopResets, CloseAll,
                    Sweep, Drained
<1>6. CASE ReaperRuns
  BY <1>0, <1>6 DEF ReaperRuns, ReaperEnds, ReaperResets
<1>7. CASE \E f \in Flows : PumpRuns(f)
  BY <1>0, <1>7 DEF PumpRuns, PumpEnds, PumpRemoves, PumpResets, remove, Unlist, UDPTypeOK
<1>8. CASE UDPWaits
  BY <1>0, <1>8 DEF UDPWaits, Receive, Written, WriteFails, PumpCopies, GoesIdle, removeIdle, Unlist, UDPTypeOK
<1>9. CASE TCPGoroutine \/ Finished \/ UNCHANGED vars
  BY <1>1, <1>9 DEF TCPGoroutine, Finished, vars
<1> QED
  BY <1>2, <1>3, <1>4, <1>5, <1>6, <1>7, <1>8, <1>9 DEF Next, UDPGoroutine

LEMMA AcceptorEndsStep == ASSUME RunTypes, AcceptorEnds, [Next]_vars PROVE AcceptorEnds'
<1> USE DEF AcceptorEnds, tcpVars
<1>0. TCPTypeOK
  BY DEF RunTypes
<1>1. CASE UNCHANGED <<acceptor, conn>>
  BY <1>1
<1>2. CASE ClientStep
  BY <1>2 DEF ClientStep, Aborts, Abort, Negotiated, Watch, Listen, StopForwarder,
              ClosePlane, CloseStack, Return
<1>3. CASE ProbeEnds \/ Cancel \/ LinkUp \/ LinkCycles \/ HostGoes \/ LinkDies \/ Disconnected
  BY <1>1, <1>3 DEF ProbeEnds, Cancel, LinkUp, LinkCycles, HostGoes, LinkDies, Disconnected
<1>4. CASE OpenReturns \/ OpenSucceeds \/ PeerCuts
  BY <1>0, <1>4 DEF OpenReturns, OpenSucceeds, PeerCuts, StreamRefused, StreamOpened, TCPTypeOK
<1>5. CASE TCPGoroutine
  BY <1>0, <1>5
  DEF TCPGoroutine, AcceptorRuns, AcceptEnds, AcceptReturns, ConnRuns, TCPWaits, Accept, UpEnds,
      DownEnds, UpFails, DownFails, CopyEnds, PipeReturns, LocalCloses, RemoteEnds, TCPTypeOK
<1>6. CASE UDPGoroutine \/ Finished \/ UNCHANGED vars
  BY <1>1, <1>6 DEF UDPGoroutine, Finished, vars
<1> QED
  BY <1>2, <1>3, <1>4, <1>5, <1>6 DEF Next

LEMMA ClosedInOrderStep == ASSUME RunTypes, ClosedInOrder, [Next]_vars PROVE ClosedInOrder'
<1> USE DEF ClosedInOrder, tcpVars, runVars, udpVars
<1>0. planeUp \in BOOLEAN /\ stack \in BOOLEAN /\ probe \in BOOLEAN /\ watching \in BOOLEAN
  BY DEF RunTypes, Flags
<1>1. CASE UNCHANGED <<loop, acceptor, runVars>>
  BY <1>1
<1>2. CASE ClientStep
  <2>1. CASE \E p \in Planes : Negotiated(p)
    BY <2>1 DEF Negotiated, At
  <2>2. CASE Aborts
    BY <2>2 DEF Aborts, Abort, At
  <2>3. CASE Watch \/ Listen
    BY <2>3 DEF Watch, Listen, At
  <2>4. CASE StopForwarder
    BY <2>4 DEF StopForwarder, At
  <2>5. CASE ClosePlane
    BY <1>0, <2>5 DEF ClosePlane, At
  <2>6. CASE CloseStack
    BY <1>0, <2>6 DEF CloseStack, At
  <2>7. CASE Return
    BY <1>0, <2>7 DEF Return, At
  <2> QED
    BY <1>2, <2>1, <2>2, <2>3, <2>4, <2>5, <2>6, <2>7 DEF ClientStep
<1>3. CASE ProbeEnds \/ Cancel \/ LinkUp \/ LinkCycles \/ HostGoes \/ LinkDies \/ Disconnected
  BY <1>0, <1>1, <1>3 DEF ProbeEnds, Cancel, LinkUp, LinkCycles, HostGoes, LinkDies, Disconnected
<1>4. CASE (OpenReturns \/ OpenSucceeds \/ PeerCuts) /\ UNCHANGED <<runVars, linkVars>>
  BY <1>4 DEF OpenReturns, OpenSucceeds, PeerCuts, OpenFails, Opened, StreamRefused, StreamOpened
<1>5. CASE UDPGoroutine
  BY <1>5
  DEF UDPGoroutine, LoopRuns, ReaperRuns, PumpRuns, UDPWaits, Receive, GetKnown, GetOpens, Written,
      WriteFails, LoopRemoves, LoopResets, CloseAll, Sweep, Drained, PumpCopies, PumpEnds,
      PumpRemoves, PumpResets, GoesIdle, removeIdle, ReaperResets, ReaperEnds
<1>6. CASE TCPGoroutine
  BY <1>6
  DEF TCPGoroutine, AcceptorRuns, AcceptEnds, AcceptReturns, ConnRuns, TCPWaits, Accept, UpEnds,
      DownEnds, UpFails, DownFails, CopyEnds, PipeReturns, LocalCloses, RemoteEnds
<1>7. CASE Finished \/ UNCHANGED vars
  BY <1>1, <1>7 DEF Finished, vars
<1> QED
  BY <1>2, <1>3, <1>4, <1>5, <1>6, <1>7 DEF Next

\* A run that has returned left no stream, pump, connection, reaper, probe, watcher, plane
\* or stack behind: a stream still open would have an owner, and none is left.
LEMMA ReturnedIsQuiet == ASSUME IInv, RunInv, pc = "returned" PROVE Quiet
<1> USE DEF IInv, UDPInv, RunInv
<1>1. loop \in {"none", "returned"} /\ acceptor \in {"none", "returned"}
      /\ ~probe /\ ~watching /\ ~planeUp /\ ~stack
  BY DEF ClosedInOrder
<1>2. \A c \in Conns : conn[c] \in {"none", "gone"}
  BY <1>1 DEF AcceptorEnds
<1>3. CASE loop = "none"
  <2>1. made = 0 /\ reaper # "running"
    BY <1>3 DEF LoopEnds
  <2>2. \A f \in Flows : stream[f] = "none" /\ pump[f] = "none"
    BY <2>1, UDPAssumption DEF Issued, Flows
  <2> QED
    BY <1>1, <1>2, <2>1, <2>2 DEF Quiet
<1>4. CASE loop = "returned"
  <2>1. /\ reaper = "gone" /\ reaping = {} /\ sweeping = {}
        /\ \A f \in Flows : pump[f] \in {"none", "gone"}
        /\ \A a \in Addrs : flows[a] = NoFlow
    BY <1>4 DEF LoopEnds, LoopBusy
  <2>2. ASSUME NEW f \in Flows, stream[f] = "open" PROVE FALSE
    <3>1. addr[f] \in Addrs
      BY <2>2, UDPAssumption DEF Issued, Flows, UDPTypeOK
    <3>2. ~Registered(f)
      BY <2>1, <3>1, UDPAssumption DEF Registered, Flows, NoFlow
    <3>3. pump[f] # "resetting"
      BY <2>1
    <3> QED
      BY <1>4, <2>1, <2>2, <3>2, <3>3 DEF StreamsOwned
  <2> QED
    BY <1>1, <1>2, <2>1, <2>2 DEF Quiet
<1> QED
  BY <1>1, <1>3, <1>4

\* The inductive invariant of the run, on top of that of the flow table.
THEOREM RunInvariant == Spec => []RunInv
<1>1. Init => RunInv
  <2> SUFFICES ASSUME Init PROVE RunInv
    OBVIOUS
  <2>1. TCPTypeOK /\ Places
    BY DEF Init, TCPInit, TCPTypeOK, Places, Directions
  <2>2. Flags
    BY Zenon DEF Init, Flags
  <2>3. Counts
    BY ClientAssumption DEF Init, Counts
  <2>4. LoopEnds /\ AcceptorEnds
    BY DEF Init, UDPInit, TCPInit, LoopEnds, AcceptorEnds
  <2>5. ClosedInOrder
    BY DEF Init, ClosedInOrder
  <2> QED
    BY <2>1, <2>2, <2>3, <2>4, <2>5 DEF RunInv, RunTypes
<1>2. IInv /\ RunInv /\ [Next]_vars => RunInv'
  BY RunTypesStep, LoopEndsStep, AcceptorEndsStep, ClosedInOrderStep DEF RunInv
<1> QED
  BY <1>1, <1>2, Invariant, PTL DEF Spec

\* Every variable keeps its type, and when RunClient returns nothing it started is left.
THEOREM ReturnsQuiet == Spec => []TypeOK
<1>1. IInv /\ RunInv => TypeOK
  BY ReturnedIsQuiet DEF TypeOK, IInv, UDPInv, RunInv, RunTypes, Places, Flags, Counts
<1> QED
  BY <1>1, Invariant, RunInvariant, PTL
=============================================================================
