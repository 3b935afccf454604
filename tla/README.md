# A TLA+ model of mtunnel

mtunnel forwards a TCP or UDP port of one machine (the *host*) to another (the
*client*). The two find each other over libp2p. A session then climbs a ladder of
data planes ("tiers"): WireGuard or QUIC over a NAT-punched UDP path, or the libp2p
stream itself, the *floor*. This directory holds TLA+ models of the parts of the
program that are hard to get right, TLC configurations that check them on small
instances, and TLAPS proofs for any size.

Paths below are relative to `src/internal/`.

## The system

| Component | State | Operations | Talks to |
|---|---|---|---|
| Tier selection (`negotiate/negotiate.go`, head of `tunnel/tier.go`) | none: pure functions of two Hellos | `RequiredCascade`, `SharedCascade`, `TierRequired`, `EffectivePunchAttempts`, `probeAgreed` | the ladder, on both sides |
| Negotiation and ladder (`tunnel/tier.go`) | the negotiate stream and its Exchange, the ICE agent, the substrate, the standing rung, the client's result | Hello swap, `punch`, `requestRung`, `set.Dial`/`Serve`, `commitRung`, `serveRung` and its goroutines, the peer watcher | the peer by messages; `SessionManager` by `RegisterTier`; the tiers by calls |
| Host sessions (`tunnel/session.go`, `handlers.go`, `host.go`; `acceptRung`, `streamSet`) | sessions and their stream counts, registered rungs, two wait groups, `closing` | `RegisterTier`, `UnregisterTier`, `BeginStream`, `EndStream`, `Remove`, `Shutdown`, `begin`/`shutdown`, `add`/`closeAll` | every stream handler, every rung, the operator, `RunHost` |
| Flow multiplexer (`flowmux/flowmux.go`) | flow table, accept backlog, pending FINs, tombstones | `OpenStream`, `AcceptStream`, `send`, `close`, `handle`, `maintenance`, `Close` | the peer's mux over datagrams; the UDP forwarder |
| Client run loop (`tunnel/client.go`, `watcher.go`) | the selected plane, the forwarder, the watcher, a probe, the wait group | negotiate, watch, listen, serve; close forwarder, plane and stack; wait | the ladder, the forwarders, libp2p's notifications |
| Control channel (`control/control.go`) | none | LIST, DISCONNECT, SHUTDOWN | `SessionManager`, `RunHost` |
| Tiers (`tier/`, `wireguard/`, `quictun/`) | a device or a QUIC connection on the substrate; an adapter with a closed flag and the evidence that its reader has left | `Dial`, `Serve`, `Close`, `SubstrateAbandoned`; `receive`, `ReadFrom`, `detach`, `abandon` | the substrate, the flow multiplexer |
| Substrate (`nat/deadline.go`) | a pump with its buffers, a read deadline with a generation and a channel | `Read`, `SetReadDeadline`, `expire`, `stop` | ICE below, one tier at a time above |
| NAT punch (`nat/nat.go`) | an ICE agent | `New`, `AddRemote`, `Connect`, `Close` | STUN and the peer (pion) |
| Fragmentation (`quictun/fragment.go`) | a message ID; partial messages and the bytes reserved for them | `Send`, `accept`, `reserve`, `dropExpired`, `Close` | QUIC datagrams below, the flow multiplexer above |
| UDP forwarder (`udp/`) | a table of flows with a pump each, a reaper | `get`, `remove`, `removeIdle`, `closeAll` | the local socket, the plane |
| TCP forwarder (`tcp/`, `transport/`) | a goroutine and two copies per connection | `acceptLocalConns`, `pipe` | the local listener, the plane |
| Stream opening (`p2p/stream.go`) | a notifiee and a channel per call | `OpenStream`, `openDirectStream` | libp2p |
| libp2p set-up (rest of `p2p/`), command line (`cmd/tunnel`) | configuration | token, host, DHT | libraries |

What is hard here: two processes have to stay in step over a stream whose payloads
carry no tag; any wait can expire and any message can be the one that is lost; a
rung, its substrate, the agent that owns it and the handler that owns the agent
have to end in that order; on the host a rung's goroutines, stream handlers, an
operator and a shutdown meet in one lock and two wait groups; the flow multiplexer
opens and closes flows over datagrams that are lost and overtake each other; a rung
gives the substrate on only after its library's reader has let go of it, for which a
deadline is the one lever; on the client four kinds of goroutine take UDP flows out of
one table, and three closes in a row have to unblock all of them.
`PROJECT.json` lists these hazards with the line where each bites.

What makes each part correct:

* selection and ladder: both sides always expect the same kind of message; the
  client uses an upper tier only if the host committed to that one, and the floor
  only if the host did not; no two rungs on one substrate; no rung without its
  agent; nothing left behind; an end for every wait;
* host sessions: a live rung can be reached by DISCONNECT and Shutdown; after a wait
  nothing it waited for exists; shutdown terminates; sessions count their handlers;
* flow multiplexer: the table and what the application holds stay in step; a closed
  flow stays closed; a close reaches the peer; control state stays bounded and dies out;
* substrate: only the deadline last set interrupts a read; the next rung gets a conn
  without a reader or a deadline, or is told it is gone; every close returns;
* client run loop and forwarders: no stream is lost between two goroutines; a cancelled
  run returns and leaves nothing of what it waits for; a host that goes away is noticed;
* fragmentation: what is delivered was sent, and the limits hold.

## The modules

### TierSelection

The functions of `negotiate.go` under their own names; a Hello is a record of
supported tiers, required tier, probe flag and attempts. The WireGuard key and the
certificate fingerprint decide nothing and are left out.

### Ladder (with TierAgreement, MCLadder, Ladder_proofs, LadderLockstep_proofs)

One client and one host. `pc` is where each side is in its handler; each action is
the code between two points where it can block:

| Actions | Code |
|---|---|
| `ClientOpen`, `ClientHello`, `HostAccept`, `HostHello` | `negotiateTierClient`, the negotiate handler of `RunHost`, `negotiateTierHost` |
| `PunchGather`, `PunchInfo`, `PunchCheck`, `PunchOutcome` | `punch` and `punchOnce`, the same on both sides; also `runPunchProbe` |
| `ClientRequest`, `ClientRequestAck`, `ClientDial`, `ClientCommitAck` | `climbCascade`, `requestRung`, `set.Dial`, `commitRung` |
| `HostReceive`, `HostGot`, `HostServe` | `serveUpperTiers` |
| `HostServing`, `HostStopped`, `HostCommit`, `HostNotify`, `HostVerify`, `HostRelease` | `serveRung` |
| `CloseRung`, `StopTier` | its closer goroutine; the accept loop, an operator or a shutdown cancelling `tierCtx` |
| `StreamBreaks`, `Disconnect`, `ClientExit` | libp2p and the end of `RunClient` |

Time is not modelled: a wait with a deadline may end with a context error at any
moment (`ReceiveError`), which is also what leaves a decode in flight
(`abandoned`). ICE, a handshake or a device may fail on either side alone. Closing
a rung may take the substrate with it (`TearDown`). Messages are a kind, a tier and
a flag; the message a broken or left stream cannot carry is dropped.

`TierAgreement` says in four actions what a negotiation promises, without messages.
`AgreementSpec` states that `Ladder` implements it, with `committed` and `cres` as
they are and `floor` as "neither side requires a tier".

### HostSessions (with MCHostSessions, HostSessions_proofs)

Peers, rungs (one per negotiation) and streams are arbitrary sets. One action is one
critical section of `SessionManager.mu` or one step of a goroutine between two of
them; an `entry.stop()` made after the lock is released is a separate step
(`stops`, `CallStop`). A stream is `arrived` (accepted), `added` (in its rung's
streamSet), `dialing` (after BeginStream, while `DialContext` reaches for the local
service under the host's or the rung's context), `serving` (until the forward returns),
`returned`, `gone`; a rung is `negotiating`, `up`, `closed`, `swept`
(closeAll done), `down`. `handlers` and `negotiating` are the two wait groups.
A floor stream may arrive while its client's negotiation still runs on the host or a rung
the client gave up is still registered, since the client may fall back first; a client does not negotiate while it has forwarded connections, as in `RunClient`.

### FlowMux (with FlowMux_proofs, FlowMuxFinished_proofs)

Two muxes and one bag of frames each way: frames are lost and overtake each other
and are not duplicated, as with QUIC datagrams or UDP inside WireGuard. A flow
object is an ID and a generation, so that a second flow under an ID can be told from
the first, as pointers can in Go. `flow.close` is three steps (once, `remove`,
`beginFIN`), creating a flow and offering it are two. `maintenance` is split per
entry. Payloads and the queue inside a flow are left out.

`ExpireTombstone` does not fire while DATA for its ID is under way: `TombstoneTTL`
is a minute, and the model takes that to be longer than a datagram lives. A full table
gives up any of its entries for a new one, as the iteration over a Go map does; `evicted`
remembers whose, and `Met` is the IDs a side has had a flow or a FIN of.

### Substrate (with MCSubstrate, Substrate_proofs)

One punched conn and the rungs that use it in turn, WireGuard and then QUIC.
`deadlineConn` has its pump (`PumpTake`, `PumpRead`, `PumpOffer`, with the buffers
counted), its read deadline (`set`, `expire`: a generation, and the number of the
channel that is current, so that a `Read` parked on an earlier one can be told) and
`stop` (`AgentStops`). A rung is `up`, `joining` (quic-go joins its read loop),
`detaching`, `waiting` (the grace period of `Bind.Close` or `detach`), `draining` and
`ended`, with what its close reported as `verdict`. Of wireguard-go and quic-go there is
one reading goroutine each, which calls `Bind.receive` or `ReadFrom`, and how it treats
the errors these return. A timer or a grace period may end at any moment, and a timer's
callback may outlive its `Stop`. This module justifies `TearDown` of Ladder: a close
ends with the substrate free, or reported as abandoned.

### ClientRun, composed of UDPFlows and TCPConns (with ClientRun_proofs)

`ClientRun` extends both forwarders and runs the one its `network` names. Its `pc` is the
program order of `RunClient`; each early return is an `Abort`. In `UDPFlows` one action
is one critical section of the table's mutex or the call after it (`removeIdle`, then
`ReaperResets`), the mutex is held while a stream is being opened (`Unlocked`), and a
flow object has a number of its own, so that a replacement under the same address can be
told from it. In `TCPConns` a connection has the set of copy directions still running.
The plane decides what closing does: an upper tier's streams end with `ClosePlane`, the
floor's with `CloseStack`. A write of the UDP loop may fail on a stream that stands as well
as on one that has ended, and the loop then takes the flow out and resets it. What
`RunClient` starts and does not wait for, the control reader and the diagnostics, is not
part of `Quiet`. libp2p connections come and go (`LinkUp`, `LinkCycles`) and
each that closes is an event delivered later, to the watcher if it is registered by then.

### Reassembly (with Reassembly_proofs)

The sending half of one codec and the receiving half of the other, with the real
arithmetic of fragment counts and lengths. A payload is the message it came from and its
index. Partial messages are in the order of their creation, so that those past
`partialTTL` are the first `aged`. `WrappedLongAfter` states what makes a wrapping ID
safe at all: going round 2^32 messages takes longer than `partialTTL` and than a
datagram is under way.

### DirectStream

One call of `p2p.OpenStream` in its three connection modes, with the notifiee it
registers, its one-slot channel, its timeout, and direct connections that come and go.

## The runs

| Run | Instance | Shows |
|---|---|---|
| `ladder` | all 16 pairs of modes, attempts 1 and 2, probe on and off on each side; about 430 000 states | `Lockstep`, `CleanHandover`, `AgentOutlivesRung`, `NoRungOnDeadSubstrate`, `ServedUntilStopped`, `NothingLeaks`, `ExchangeNotReused`, the refinement `AgreementSpec`, `ClientDecides` against a host that may stall, `HostReleases` for one that runs |
| `host_safety` | 2 peers, 2 rungs, 2 streams, 1 DISCONNECT; symmetric; about 320 000 states | `LiveRungReachable`, `NoStaleRegistration`, `QuietAfterWait`, `SweptForwardsCut`, `NothingOutlivesStack` |
| `host_liveness` | 1 peer, 2 rungs, 2 streams, no DISCONNECT; about 140 000 states | `ShutdownCompletes`, `StoppedRungUnwinds`, `SessionCountsHandlers` |
| `host_hang` | 1 peer, 2 floor streams, 1 DISCONNECT | violation of `ShutdownCompletes` |
| `flowmux_safety` | 1 flow ID, 2 DATA, 3 frames under way each way; about 560 000 states | `OpenFlowsRegistered`, `NoHiddenFlow`, `OwnIDsNotReused`, `FinishedStaysDead` |
| `flowmux_liveness` | 1 flow ID, 1 DATA, 1 loss, 1 retry | `CloseReachesPeer`, `Quiesces` |
| `flowmux_local` | as `flowmux_safety` | violation of `LocalCloseSticks` |
| `substrate` | WireGuard then QUIC, 2 buffers, deadlines set by quic-go; about 19 000 states | `DeadlineHonoured`, `HandedBackClean`, `StandsAlone`, `CloseReturns`, `PumpReleased` |
| `client` | either network, either plane; 1 source address with 2 flows, 1 connection, 1 link cycle; about 170 000 states | `StreamsOwned`, `RegisteredNotReset`, `ShutdownCompletes`, `WatchedLossNoticed` |
| `client_watch` | tcp, no link cycle | violation of `HostLossNoticed` |
| `direct_stream` | one direct connection made | violation of `OpenStreamReturns` |
| `reassembly` | messages of 3 and 4 bytes in fragments of 2, 3 message IDs, 4 messages, 2 partial messages of 7 bytes; about 150 000 states | `NoMixedMessage` |

Every passing run but `host_liveness` and `flowmux_liveness` also checks its module's `TypeOK`; in `FlowMux` that includes the bounds of the backlog, the pending table and the
tombstones, in `HostSessions` that no session without streams is kept, in `Substrate` the
account of the conn's buffers, in `Reassembly` the limits and the account of reserved
bytes, in `ClientRun` that nothing `RunClient` waits for is left when it returns. Each property
has a mutant of the code in the module it is about (the definitions named
`X_Something` before `X`), under which the property fails.

Bounds. Two attempts are enough for every shape of the retry loop: a first that is
repeated and a last that is not; the ladder has at most two rungs by its definition.
Two rungs of one peer are what replacement needs, a second peer what a wrong eviction
would confuse; two streams are what a count can get wrong, and one DISCONNECT what
separates two sessions of a peer. `MaxRemoves` bounds the DISCONNECTs. In FlowMux one
ID (`MaxID`) allows any number of flow generations under it; two DATA frames
(`MaxData`) give a flow one that starts it and one that comes late; `MaxInFlight`
bounds each channel, a frame too many being lost, and `MaxLoss` the other losses.
One ID never makes tombstones compete. Two IDs (0 and 2, the first two a dialling side
allocates) with one tombstone do, and make three million states with a single DATA frame
(TLC finds `FinishedStaysDead` and `FewFlowsStayDead` to hold there) and more than ten
million with the frames of `flowmux_safety`; evictions are left to the proofs, which have
any number of IDs and tombstones.
Two rungs are the whole cascade of a substrate, and two buffers (`Queue`) let the pump
run ahead of its reader by one and be parked with none free; `MaxSets` bounds the
deadlines quic-go sets for itself. In ClientRun two flows (`MaxFlows`) of one source are
a flow and its replacement, and addresses do not interact otherwise; `MaxCycles` lets
libp2p close one link, or make a second, before the host goes. In Reassembly three IDs
come round within four messages (`MaxSends`), and 7 bytes hold a message of 3 and one of
4 but not two of 4, so that both limits evict. FlowMux and Reassembly may stop when
nothing is under way and nobody sends, and a call of DirectStream when it has returned,
so their runs do not look for deadlock; the others do, and have an explicit end state.

### Fairness

* Ladder: the client's goroutine is scheduled and its deadlines expire
  (`WF(ClientStep)`), and a client whose negotiation failed exits, as `RunClient`
  does. Nothing is assumed of the host in the specification; `HostReleases` is about
  a host that runs (`HostRuns`). That a stream breaks, a peer disconnects or a
  successful client ends is never assumed.
* HostSessions: a goroutine that can run does (`StreamStep`, `RungStep`,
  `ShutdownStep`), and a negotiation under a cancelled context returns, since every
  wait of it takes that context. A dial ends, by its context or its timeout. A forward
  never has to end, not even one whose stream was cut: `tcp/pipe.go` half-closes the local
  connection and waits for its other half. `ShutdownCompletes` and `StoppedRungUnwinds`
  assume nothing of the local services: they say that such a forward, cut and waiting for
  its service for ever (`HeldByService`), is all that can hold a shutdown or a rung.
* FlowMux: the receive loop, the maintenance loop and a close once begun go on.
  `CloseReachesPeer` needs no more; `Quiesces` also takes flows to be found idle
  eventually (`ReapingRuns`).
* Substrate: the pump, the readers, a close once begun and `Agent.Close` go on, and a grace
  period ends (it is a timer). Nobody has to send a datagram, close a rung or set a timer
  off. `CloseReturns` depends on no datagram arriving, nor on none arriving.
* ClientRun: `RunClient` and the forwarder's goroutines go on; a negotiation ends
  (`ClientDecides` of Ladder); `OpenStream` returns once its context is cancelled, as all
  openers do but for the case DirectStream shows (it may also still succeed then:
  `flowmux.OpenStream` does not look at its context); libp2p drops the links of a host that
  is gone and delivers its notifications. A write to a stream that still stands may block
  for as long as it stands. Local applications never have to close: `ShutdownCompletes`
  says that a TCP pipe whose application was sent the end and stays silent for ever
  (`HeldByLocal`) is all that can hold a cancelled run.
* DirectStream: the call goes on where it can, its timeout passes, libp2p delivers.

## What the runs found

* `host_hang`: `EndStream` does not know which session it was counted in. After a
  DISCONNECT, an old handler that is still unwinding takes the count of the session
  the peer's next stream created, the session disappears under a served stream, and
  `Shutdown`, which resets the streams of peers with a session only, waits for that
  stream for ever. Without DISCONNECT, `host_liveness` shows that both the counts and
  the shutdown are right.
* `flowmux_local`: a flow closed by the local application has no tombstone, so late
  DATA of the peer starts it again.
* `client_watch`: the client registers its disconnect watcher after the negotiation and
  does not look at the connection again, so a host lost in between is never noticed.
  `tunnel/tier.go` and `p2p/stream.go` both look again after their own `Notify`. With the
  watcher registered the loss is noticed (`WatchedLossNoticed`).
* `direct_stream`: a direct connection made between `Notify` and the second look fills the
  one slot of `directConnected` from the notifiee, and the send of the caller itself then
  blocks for ever, before the `select` that knows the timeout. On the UDP forwarder the
  flow table's mutex is held across that call.

Met while modelling, without a run of their own:

* `pipe` of `tcp/pipe.go` (line 29) waits for both of its copies. Closing the stack ends the
  stream, and the copy that reads the local connection goes on until the application writes
  or closes, since nobody closes that connection before `pipe` returns: a silent application
  holds `RunClient` in `wg.Wait`, although `tunnel/client.go:162-163` says that closing the
  stack unblocks the pipes on the floor, and `tcp/transport.go:65-66` that a connection is
  piped "until either side closes". The host's forwards wait for its local services in the
  same way. It is the one exception `ShutdownCompletes` names, in both modules.
* In auto mode a session can fail, when the Hello swap or the commit acknowledgement is
  missing, although `tunnel/client.go:88-89` says it "cannot fail the session"; and two
  incompatible forced modes end in an error (`RequiredCascade`), where the repository's
  README (lines 102-103) has them "converge on `libp2p`".
* `BeginStream` labels a new session with the tier registered for the peer
  (`tunnel/session.go:152`), which is not the plane the stream rides while a rung the
  client gave up is still unwinding. Only LIST shows the label.
* When the peer has no datagram support, `start` of `quictun/quictun.go` (line 192) drops
  what `release` returns, and with it `ErrSubstrateAbandoned`; its handshake path says
  "Joined, not discarded". QUIC being the last rung on the substrate, no rung follows
  (`StandsAlone` holds with this path in the model, as verdict `unreported`).

## What is proved

Every invariant of the passing runs, the action property `ExchangeNotReused` and the
refinement `AgreementSpec` are theorems, for every value of the constants that meets the
module's assumption; liveness is left to TLC. Each inductive invariant was
checked with TLC before it was proved.

`HostSessions_proofs` proves, for any sets of peers, rungs, streams and tiers and any
number of DISCONNECTs, `Spec => []P` for `TypeOK`, `LiveRungReachable`,
`NoStaleRegistration`, `QuietAfterWait`, `SweptForwardsCut` and
`NothingOutlivesStack`. It assumes `HostAssumption` only: the floor and the null
value are none of the tiers, rungs, peers or sessions, and `MaxRemoves` is a natural number.

None of the properties is inductive by itself. The invariant `IInv` adds

* `Known`: a rung past "idle" and a stream past "idle" have a peer, and a rung a tier;
* `RegisteredRungs`: what is registered for a peer is a rung of that peer between
  `RegisterTier` and `UnregisterTier` - without it the identity check of
  `UnregisterTier` says nothing about whose slot is cleared;
* `ShutdownOrder`: `closing` is set in every phase after "run", and stops are collected
  only then - it is why a rung that registers late is stopped and why no handler is
  admitted after the wait;
* `QuietStack`: once the stack is closed no negotiation runs.

The proof has one lemma per group of
actions, which follow the groups of variables: steps of a stream, of a rung, and of
the host as a whole. Frame lemmas (`StreamFrame`, `RungFrame`, `HostFrame`) say
which conjuncts a step of a group cannot disturb, type lemmas what it assigns, and
`StepInv` puts the cases of `Next` together.

`SessionsCount` proves `SessionCountsHandlers` for as long as no operator has
disconnected a peer: `Spec => [](removes = 0 => SessionCountsHandlers)`. The hypothesis is
what `host_hang` shows to be needed. `CountInv` says that a session's number is the
cardinality of its peer's handlers, and that a peer without a session has none, so
that `EndStream` finds the session it was counted in.

`Ladder_proofs` proves `TypeOK`, `CleanHandover`, `AgentOutlivesRung`,
`NoRungOnDeadSubstrate`, `ServedUntilStopped`, `NothingLeaks`, `ExchangeNotReused` and that
Ladder implements `TierAgreement`, for any Hellos of the two sides
(`HellosAssumption`). `cascade`, `required` and the number of attempts do not depend on whose
Hello comes first (`CascadeSymmetric`, `AttemptsSymmetric`, `LadderShared`), so both sides
compute one ladder without telling each other. The invariant has three parts.

* `LocalInv` is what a side knows of itself: where its handler is when it has an agent, a
  rung, a result or an abandoned decode. It gives the properties that are about one side.
* `AgreementInv` is what a commit means to the other side: a commit under way, being
  answered or answered finds a client that cannot go back to the floor (`PastCommit`), and
  an acknowledgement names the tier the host has committed. The refinement rests on it.
* `TurnInv` says whose turn it is: at most one attempt is under way or being answered, and
  only while the client waits. `CleanHandover` is inductive only with it: a second attempt
  in flight could be acknowledged after the host began the next rung.

`LadderLockstep_proofs` proves `Lockstep` for any number of punch attempts. The stream has no
message types of its own, so the proof counts: `Sent` and `Read` are the messages of a
side up to its `pc`, and `PaceInv` says that what is under way is the difference,
never more than two. A peer that has climbed leaves the script; `Behind` says
that this side is then certain to follow, because it has the outcome that makes it so.

`FlowMux_proofs` proves `TypeOK` with its bounds, `OpenFlowsRegistered`, `NoHiddenFlow` and
`OwnIDsNotReused` for any number of IDs and any table sizes, where TLC has one ID. That
covers flows that compete for tombstones and pending slots. `MuxAssumption` has the
constants natural and the two tables not empty. The invariant adds

* `Allocation` and `Numbered`: an ID of its own half that a mux has not reached has no flow,
  and flow objects under an ID are numbered as they are made;
* `ClosingShut`: a `remove` still to come belongs to a flow already shut, so the identity
  check keeps it from the flow that came after;
* `OfferedOnce` and `ClosedEmpty`: a flow between its creation and its offer is nobody
  else's, and a mux that shut down registers none.

`ControlInv` has the bounds: what is added to a full table replaces an entry of it.

`FlowMuxFinished_proofs` proves `FinishedStaysDead` for any number of IDs and a tombstone table
of any size: a finished flow comes back only if its tombstone was evicted, which the code
does when the table is full (`flowmux/flowmux.go:404`; 1024 entries by default).
`FromOpened` and `FinShut` say that a FIN is about the one flow its owner opened and
has shut; `Dead` that what it overtook meets a tombstone, an ID of one's own, or cannot
arrive any more, for every finished ID that is not `evicted`. `FewFlowsNeverEvicted` says how
far that exception reaches: while a side has met at most `MaxTombstones` IDs nothing is
evicted and every finished flow stays dead (`FewFlowsStayDead`), however many IDs there are.
Its invariant `RoomInv` is that tombstones and evicted IDs are among the IDs met, and that
an eviction needs one more of them than the table holds. With more flows than that
closed within a `TombstoneTTL` the exception is real.

`Substrate_proofs` proves all four invariants of Substrate, `TypeOK`, `DeadlineHonoured`,
`HandedBackClean` and `StandsAlone`, for any number of buffers, of deadlines and of rungs.
`SubstrateAssumption` says that QUIC, if it is in the cascade, is its last tier, which
is how `cascade` of `negotiate/negotiate.go` has it. `StandsAlone` needs that: a rung
after QUIC would not learn of the substrate `start` gave up without a report (see above).
The invariant has two halves.

* `ConnInv` is about the conn. `BuffersBounded` carries the account of the buffers past
  the end of the pump, which keeps one. `TimersCurrent` says that the callback of the
  current generation is about only while a deadline is still to come; it is what `set`
  establishes by counting the generation up, and what makes the check in `expire` enough.
* `RungInv` is about the rungs. `InTurn` orders them and gives `OneAtATime`;
  `ReadersStand` and `VerdictsLate` say when a rung may have a reader and a verdict;
  `DeadlineOwned` names who answers for a deadline that is set, which is why nobody
  can when all rungs are over and none gave up; `ClosedBySomeone` does the same for a
  closed substrate.

`SetInstalls` is the one lemma about `set`, and the steps follow the actions: pump,
timer, reader, steps that set a deadline, other steps of a rung, agent.

`ClientRun_proofs` proves `StreamsOwned` and `RegisteredNotReset` of the UDP forwarder's
flow table, for any addresses and any number of flows, as invariants of the whole client
run. It assumes what the module declares of its constants, no more. The invariant adds

* `Issued` and `Listed`: flow objects are made one after the other, and the table has a flow
  under its own address. They are what the identity check of `remove` rests on: it takes
  out the flow it is called for and no later one of that source (`RemoveListed`);
* `LoopBusy`: `get` fills a slot that is still empty when `open` returns, since it keeps the
  mutex meanwhile, so no flow is overwritten and left without an owner;
* `TakenOut`: a flow somebody is about to reset is out of the table, and stays out;
* `NotStarted`: before `RunClient` starts the forwarder no read loop runs, so that
  starting it cannot drop flows.

The lemmas follow the goroutines: read loop, `closeAll`, reverse pump, reaper, the cuts
from outside, and `TableStep` puts the disjuncts of `Next` together.

`ReturnsQuiet` proves `TypeOK` of ClientRun, with its promise that nothing is left when
`RunClient` returns, for both networks and from every early return. `RunInv` says who has
ended when: `LoopEnds` (closeAll empties the table, and the read loop returns after the
reaper and the pumps), `AcceptorEnds` (the acceptor after its connections),
`ClosedInOrder` (watcher, plane and stack before the wait). An open stream has an owner by
`StreamsOwned`; with the table empty and the loop, the reaper and the pumps gone
nobody is left to be one, so no stream is open.

`Reassembly_proofs` proves `TypeOK` and `NoMixedMessage`, for any limits, lengths and number of
IDs. `Account` is about the receiver's operations as they nest (evict, reserve, remove):
what is reserved is `Total` of the partial messages, which are incomplete and within the
limits. `Total` is a recursive function, and the prover has no induction over data; its laws
(`TotalConcat`, `TotalRemove`) are proved from the least-number principle
(`LeastNatural`), which takes a set where induction takes an operator. `OneMessage`
is why IDs may wrap: the fragments of an ID that are under way are of one message, and a
partial message that has not aged belongs to the same one. `WrappedLongAfter` keeps it true
when an ID is used again; an aged partial message is dropped before the next
fragment is looked at.

Only model-checked: liveness, which is out of the prover's reach (`ShutdownCompletes` of both
modules, `StoppedRungUnwinds`, `ClientDecides`, `HostReleases`, `CloseReachesPeer`,
`Quiesces`, `CloseReturns`, `PumpReleased`, `WatchedLossNoticed`), and DirectStream, whose one run
shows a violation.

## Not modelled, and the plan

Open: that `Substrate` implements the `TearDown` that Ladder assumes of it, as a
refinement; `HandedBackClean` and `StandsAlone` are what it would rest on.

Left out: the host's `pipeDatagrams`, two copy loops that end each other, which
HostSessions has as a forward; the write deadline of `deadlineConn`, which interrupts
nothing; the wrap of the flow ID after 2^31 flows, a session far longer than the bounds
here allow; the netstack, UAPI text and MTU arithmetic of `wireguard/wireguard.go`, and the
certificates of `quictun/identity.go`, which configure libraries; the byte layout of the
codec and the token, the transport interfaces, logging and diagnostics (formatting
without state), the command line, the DHT and host set-up (library configuration), and
the insides of libp2p, pion, wireguard-go and quic-go, which are seen only through what
this code observes of them.
