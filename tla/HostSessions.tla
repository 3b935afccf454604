---------------------------- MODULE HostSessions ----------------------------
(***************************************************************************)
(* The host's bookkeeping of who is connected over what: SessionManager    *)
(* (internal/tunnel/session.go) together with everything that calls it     *)
(* concurrently - the libp2p data handler, the accept loop and teardown of *)
(* each upper-tier rung (acceptRung, streamSet, serveRung), the negotiate  *)
(* handler group, the operator's DISCONNECT, and RunHost's shutdown.       *)
(*                                                                         *)
(* One action is one critical section of SessionManager.mu or one step of  *)
(* a goroutine between two of them.                                        *)
(***************************************************************************)
EXTENDS Naturals, FiniteSets

CONSTANTS
  Peers,      \* remote peers
  Rungs,      \* negotiations, each of which may stand one upper-tier rung up
  Streams,    \* forwarded connections
  Upper,      \* the upper tiers
  Floor,      \* the libp2p tier, and the plane of its streams
  None,       \* absence of a session, a registration, a peer
  MaxRemoves  \* bound: operator DISCONNECT requests

\* A Session with no streams left does not exist.
Sessions == [tier : Upper \cup {Floor}, streams : Nat \ {0}]

ASSUME HostAssumption ==
  /\ Floor \notin Upper \cup Rungs
  /\ None \notin Upper \cup Rungs \cup Peers \cup {Floor}
  /\ None \notin Sessions
  /\ MaxRemoves \in Nat

VARIABLES
  \* SessionManager
  sess,       \* per peer: the Session (tier and stream count), or None
  tiers,      \* per peer: the registered rung (a *peerTier entry), or None
  closing,    \* Shutdown has begun
  \* forwarded connections
  st,         \* per stream: "idle", "arrived", "added", "dialing", "serving", "returned", "gone"
  speer,      \* per stream: its peer
  plane,      \* per stream: Floor, or the rung it rides
  cut,        \* per stream: reset or closed, so its forward must end
  \* rungs
  rst,        \* per rung: "idle", "negotiating", "up", "closed", "swept", "down"
  rpeer,      \* per rung: its peer
  rtier,      \* per rung: its tier
  stopped,    \* per rung: tierCtx is cancelled
  \* control flow between critical sections
  stops,      \* entry.stop() calls still to be made by Remove or RegisterTier
  shutStops,  \* the stop() calls Shutdown has collected
  shut,       \* RunHost: "run", "stops", "wait", "negotiations", "closed"
  ctxDone,    \* RunHost's context is cancelled
  removes     \* DISCONNECT requests so far

sessionVars == <<sess, tiers, closing>>
streamVars  == <<st, speer, plane, cut>>
rungVars    == <<rst, rpeer, rtier, stopped>>
controlVars == <<stops, shutStops, shut, ctxDone, removes>>
vars == <<sessionVars, streamVars, rungVars, controlVars>>

StreamStates == {"idle", "arrived", "added", "dialing", "serving", "returned", "gone"}
RungStates   == {"idle", "negotiating", "up", "closed", "swept", "down"}
ShutStates   == {"run", "stops", "wait", "negotiations", "closed"}

TypeOK ==
  /\ sess \in [Peers -> Sessions \cup {None}]
  /\ tiers \in [Peers -> Rungs \cup {None}]
  /\ st \in [Streams -> StreamStates]
  /\ speer \in [Streams -> Peers \cup {None}]
  /\ plane \in [Streams -> Rungs \cup {Floor}]
  /\ cut \in [Streams -> BOOLEAN]
  /\ rst \in [Rungs -> RungStates]
  /\ rpeer \in [Rungs -> Peers \cup {None}]
  /\ rtier \in [Rungs -> Upper \cup {None}]
  /\ stopped \in [Rungs -> BOOLEAN]
  /\ stops \subseteq Rungs /\ shutStops \subseteq Rungs
  /\ shut \in ShutStates
  /\ closing \in BOOLEAN /\ ctxDone \in BOOLEAN
  /\ removes \in 0..MaxRemoves

Init ==
  /\ sess = [p \in Peers |-> None]
  /\ tiers = [p \in Peers |-> None]
  /\ closing = FALSE
  /\ st = [s \in Streams |-> "idle"]
  /\ speer = [s \in Streams |-> None]
  /\ plane = [s \in Streams |-> Floor]
  /\ cut = [s \in Streams |-> FALSE]
  /\ rst = [r \in Rungs |-> "idle"]
  /\ rpeer = [r \in Rungs |-> None]
  /\ rtier = [r \in Rungs |-> None]
  /\ stopped = [r \in Rungs |-> FALSE]
  /\ stops = {} /\ shutStops = {}
  /\ shut = "run"
  /\ ctxDone = FALSE
  /\ removes = 0

-----------------------------------------------------------------------------
(* Sets the operations work on.                                            *)

\* The in-flight handlers of SessionManager.handlers: begun and not ended.
handlers == {s \in Streams : st[s] \in {"dialing", "serving", "returned"}}

\* The streams a rung's streamSet holds.
live(r) == {s \in Streams : plane[s] = r /\ st[s] \in {"added", "dialing", "serving"}}

\* The libp2p data streams open on a peer's connections.
floorStreams(ps) == {s \in Streams : /\ plane[s] = Floor
                                     /\ speer[s] \in ps
                                     /\ st[s] \in {"arrived", "dialing", "serving"}}

\* Resetting or closing a stream ends the forward on it.
Cut(ss) == cut' = [s \in Streams |-> cut[s] \/ s \in ss]

\* The negotiate handlers still running (handlerGroup.wg).
negotiating == {r \in Rungs : rst[r] \in {"negotiating", "up", "closed", "swept"}}

-----------------------------------------------------------------------------
(* The negotiate handler: handlerGroup.begin, then a rung that stands.     *)

\* Mutant: handlerGroup.begin without its closing check.
NegotiationBegins_Unguarded(r, p, t) ==
  /\ rst[r] = "idle"
  /\ \A s \in Streams : speer[s] = p => st[s] = "gone"
  /\ rst' = [rst EXCEPT ![r] = "negotiating"]
  /\ rpeer' = [rpeer EXCEPT ![r] = p]
  /\ rtier' = [rtier EXCEPT ![r] = t]
  /\ UNCHANGED <<stopped, sessionVars, streamVars, controlVars>>

\* A client negotiates before any of its forwarded connections exists.
NegotiationBegins(r, p, t) ==
  /\ rst[r] = "idle"
  /\ \A s \in Streams : speer[s] = p => st[s] = "gone"
  /\ shut \notin {"negotiations", "closed"}
  /\ rst' = [rst EXCEPT ![r] = "negotiating"]
  /\ rpeer' = [rpeer EXCEPT ![r] = p]
  /\ rtier' = [rtier EXCEPT ![r] = t]
  /\ UNCHANGED <<stopped, sessionVars, streamVars, controlVars>>

NegotiationFails(r) ==
  /\ rst[r] = "negotiating"
  /\ rst' = [rst EXCEPT ![r] = "down"]
  /\ UNCHANGED <<rpeer, rtier, stopped, sessionVars, streamVars, controlVars>>

\* serveRung starts: tierCtx derives from RunHost's context, and RegisterTier
\* either takes the peer's slot, leaving a displaced entry to be stopped outside
\* the lock, or, while shutting down, stops the newcomer.
RegisterTier(r) ==
  /\ rst[r] = "negotiating"
  /\ rst' = [rst EXCEPT ![r] = "up"]
  /\ \/ /\ closing
        /\ stopped' = [stopped EXCEPT ![r] = TRUE]
        /\ UNCHANGED <<tiers, stops>>
     \/ /\ ~closing
        /\ stopped' = [stopped EXCEPT ![r] = ctxDone]
        /\ tiers' = [tiers EXCEPT ![rpeer[r]] = r]
        /\ stops' = stops \cup ({tiers[rpeer[r]]} \ {None})
  /\ UNCHANGED <<rpeer, rtier, sess, closing, streamVars, shutStops, shut, ctxDone, removes>>

\* An entry.stop() made after its caller left the critical section.
CallStop(r) ==
  /\ r \in stops
  /\ stops' = stops \ {r}
  /\ stopped' = [stopped EXCEPT ![r] = TRUE]
  /\ UNCHANGED <<rst, rpeer, rtier, sessionVars, streamVars, shutStops, shut, ctxDone, removes>>

\* The rung ends by itself: the client moved on, vanished, or the accept loop died.
RungEnds(r) ==
  /\ rst[r] = "up"
  /\ ~stopped[r]
  /\ stopped' = [stopped EXCEPT ![r] = TRUE]
  /\ UNCHANGED <<rst, rpeer, rtier, sessionVars, streamVars, controlVars>>

\* The closer goroutine: first the rung, which ends AcceptStream ...
CloseRung(r) ==
  /\ rst[r] = "up"
  /\ stopped[r]
  /\ rst' = [rst EXCEPT ![r] = "closed"]
  /\ UNCHANGED <<rpeer, rtier, stopped, sessionVars, streamVars, controlVars>>

\* Mutant: the rung is closed and the forwards on it are left alone.
CloseAll_LeavesForwards(r) ==
  /\ rst[r] = "closed"
  /\ rst' = [rst EXCEPT ![r] = "swept"]
  /\ UNCHANGED <<rpeer, rtier, stopped, streamVars, sessionVars, controlVars>>

\* ... then streamSet.closeAll, after which add refuses.
CloseAll(r) ==
  /\ rst[r] = "closed"
  /\ rst' = [rst EXCEPT ![r] = "swept"]
  /\ Cut(live(r))
  /\ UNCHANGED <<rpeer, rtier, stopped, st, speer, plane, sessionVars, controlVars>>

\* Mutant: the entry is evicted by peer alone.
UnregisterTier_ByPeer(r) ==
  /\ rst[r] = "swept"
  /\ \A s \in Streams : plane[s] = r => st[s] = "gone"
  /\ rst' = [rst EXCEPT ![r] = "down"]
  /\ tiers' = [tiers EXCEPT ![rpeer[r]] = None]
  /\ UNCHANGED <<rpeer, rtier, stopped, sess, closing, streamVars, controlVars>>

\* Mutant: serveRung returns without unregistering.
UnregisterTier_Forgotten(r) ==
  /\ rst[r] = "swept"
  /\ \A s \in Streams : plane[s] = r => st[s] = "gone"
  /\ rst' = [rst EXCEPT ![r] = "down"]
  /\ UNCHANGED <<tiers, rpeer, rtier, stopped, sess, closing, streamVars, controlVars>>

\* serving.Wait is over: closer, accept loop and its handlers have all returned.
\* UnregisterTier evicts the entry only if it is still this rung's own.
UnregisterTier(r) ==
  /\ rst[r] = "swept"
  /\ \A s \in Streams : plane[s] = r => st[s] = "gone"
  /\ rst' = [rst EXCEPT ![r] = "down"]
  /\ tiers' = IF tiers[rpeer[r]] = r THEN [tiers EXCEPT ![rpeer[r]] = None] ELSE tiers
  /\ UNCHANGED <<rpeer, rtier, stopped, sess, closing, streamVars, controlVars>>

-----------------------------------------------------------------------------
(* Forwarded connections.                                                  *)

\* A data stream reaches the libp2p handler, which RunHost has not removed yet.
\* The client has finished negotiating; if it fell back, the host may not have
\* noticed: it may still be negotiating, or serve a rung the client gave up.
FloorStreamArrives(s, p) ==
  /\ st[s] = "idle"
  /\ shut = "run"
  /\ st' = [st EXCEPT ![s] = "arrived"]
  /\ speer' = [speer EXCEPT ![s] = p]
  /\ plane' = [plane EXCEPT ![s] = Floor]
  /\ UNCHANGED <<cut, sessionVars, rungVars, controlVars>>

\* acceptRung's AcceptStream; the loop admits one stream at a time.
RungStreamArrives(s, r) ==
  /\ st[s] = "idle"
  /\ rst[r] = "up"
  /\ \A q \in Streams : plane[q] = r => st[q] \notin {"arrived", "added"}
  /\ st' = [st EXCEPT ![s] = "arrived"]
  /\ speer' = [speer EXCEPT ![s] = rpeer[r]]
  /\ plane' = [plane EXCEPT ![s] = r]
  /\ UNCHANGED <<cut, sessionVars, rungVars, controlVars>>

\* Mutant: streamSet.add without its closed check.
AddLive_Unguarded(s) ==
  /\ st[s] = "arrived"
  /\ plane[s] # Floor
  /\ st' = [st EXCEPT ![s] = "added"]
  /\ UNCHANGED <<speer, plane, cut, sessionVars, rungVars, controlVars>>

\* streamSet.add: a stream accepted while the rung is swept is closed instead.
AddLive(s) ==
  /\ st[s] = "arrived"
  /\ plane[s] # Floor
  /\ st' = [st EXCEPT ![s] = IF rst[plane[s]] \in {"up", "closed"} THEN "added" ELSE "gone"]
  /\ UNCHANGED <<speer, plane, cut, sessionVars, rungVars, controlVars>>

\* The tier a new session is recorded with.
sessionTier(p) == IF tiers[p] = None THEN Floor ELSE rtier[tiers[p]]

\* A stream about to be admitted: a floor stream at once, a rung's once it is live.
Admitting(s) == st[s] = (IF plane[s] = Floor THEN "arrived" ELSE "added")

\* Mutant: BeginStream without its closing check.
BeginStream_Unguarded(s) ==
  /\ Admitting(s)
  /\ st' = [st EXCEPT ![s] = "dialing"]
  /\ sess' = [sess EXCEPT ![speer[s]] =
                IF @ = None THEN [tier |-> sessionTier(speer[s]), streams |-> 1]
                            ELSE [tier |-> @.tier, streams |-> @.streams + 1]]
  /\ UNCHANGED <<tiers, closing, speer, plane, cut, rungVars, controlVars>>

\* Mutant: further streams of a connected peer are not counted.
BeginStream_NotCounted(s) ==
  /\ Admitting(s)
  /\ ~closing
  /\ st' = [st EXCEPT ![s] = "dialing"]
  /\ sess' = [sess EXCEPT ![speer[s]] =
                IF @ = None THEN [tier |-> sessionTier(speer[s]), streams |-> 1] ELSE @]
  /\ UNCHANGED <<tiers, closing, speer, plane, cut, rungVars, controlVars>>

\* BeginStream: the first stream of a peer creates its session.
BeginStream(s) ==
  /\ Admitting(s)
  /\ ~closing
  /\ st' = [st EXCEPT ![s] = "dialing"]
  /\ sess' = [sess EXCEPT ![speer[s]] =
                IF @ = None THEN [tier |-> sessionTier(speer[s]), streams |-> 1]
                            ELSE [tier |-> @.tier, streams |-> @.streams + 1]]
  /\ UNCHANGED <<tiers, closing, speer, plane, cut, rungVars, controlVars>>

\* BeginStream refuses once Shutdown has begun; the stream is dropped, and a
\* rung's accept loop returns, which stops the rung.
BeginRefused(s) ==
  /\ Admitting(s)
  /\ closing
  /\ st' = [st EXCEPT ![s] = "gone"]
  /\ stopped' = [r \in Rungs |-> stopped[r] \/ r = plane[s]]
  /\ UNCHANGED <<speer, plane, cut, sessionVars, rst, rpeer, rtier, controlVars>>

\* The context handleHostStream dials the local service under: RunHost's for a floor
\* stream, its rung's for any other.
DialCancelled(s) == IF plane[s] = Floor THEN ctxDone ELSE stopped[plane[s]]

\* The local service is reached; the dial does not look at the stream.
Dialed(s) ==
  /\ st[s] = "dialing"
  /\ ~DialCancelled(s)
  /\ st' = [st EXCEPT ![s] = "serving"]
  /\ UNCHANGED <<speer, plane, cut, sessionVars, rungVars, controlVars>>

\* The service is not there, does not answer in time, or the dial is cancelled.
DialFails(s) ==
  /\ st[s] = "dialing"
  /\ st' = [st EXCEPT ![s] = "returned"]
  /\ UNCHANGED <<speer, plane, cut, sessionVars, rungVars, controlVars>>

\* handleHostStream returns because the connection finished of itself ...
ForwardEnds(s) ==
  /\ st[s] = "serving"
  /\ ~cut[s]
  /\ st' = [st EXCEPT ![s] = "returned"]
  /\ UNCHANGED <<speer, plane, cut, sessionVars, rungVars, controlVars>>

\* ... or because its stream was reset or closed under it.
ForwardCut(s) ==
  /\ st[s] = "serving"
  /\ cut[s]
  /\ st' = [st EXCEPT ![s] = "returned"]
  /\ UNCHANGED <<speer, plane, cut, sessionVars, rungVars, controlVars>>

\* Mutant: the session stays when its last stream ends.
EndStream_KeepsEmpty(s) ==
  /\ st[s] = "returned"
  /\ st' = [st EXCEPT ![s] = "gone"]
  /\ sess' = [sess EXCEPT ![speer[s]] =
                IF @ = None THEN None ELSE [tier |-> @.tier, streams |-> @.streams - 1]]
  /\ UNCHANGED <<tiers, closing, speer, plane, cut, rungVars, controlVars>>

\* EndStream: whatever session the peer has now loses one stream, and goes with
\* its last.
EndStream(s) ==
  /\ st[s] = "returned"
  /\ st' = [st EXCEPT ![s] = "gone"]
  /\ sess' = [sess EXCEPT ![speer[s]] =
                IF @ = None \/ @.streams <= 1 THEN None
                ELSE [tier |-> @.tier, streams |-> @.streams - 1]]
  /\ UNCHANGED <<tiers, closing, speer, plane, cut, rungVars, controlVars>>

-----------------------------------------------------------------------------
(* The operator and the end of the process.                                *)

\* Remove, from a DISCONNECT request: one critical section, then entry.stop().
Remove(p) ==
  /\ removes < MaxRemoves
  /\ shut # "closed"
  /\ removes' = removes + 1
  /\ sess[p] # None
  /\ tiers' = [tiers EXCEPT ![p] = None]
  /\ stops' = stops \cup ({tiers[p]} \ {None})
  /\ Cut(floorStreams({p}))
  /\ sess' = [sess EXCEPT ![p] = None]
  /\ UNCHANGED <<closing, st, speer, plane, rungVars, shutStops, shut, ctxDone>>

\* SIGINT, or a SHUTDOWN request: RunHost's context, and every tierCtx under it.
Cancel ==
  /\ ~ctxDone
  /\ ctxDone' = TRUE
  /\ stopped' = [r \in Rungs |-> stopped[r] \/ rst[r] \in {"up", "closed", "swept"}]
  /\ UNCHANGED <<sessionVars, streamVars, rst, rpeer, rtier, stops, shutStops, shut, removes>>

\* Mutant: Shutdown waits for the libp2p streams without resetting them.
ShutdownBegins_NoReset ==
  /\ shut = "run"
  /\ ctxDone
  /\ shut' = "stops"
  /\ closing' = TRUE
  /\ shutStops' = {tiers[p] : p \in Peers} \ {None}
  /\ tiers' = [p \in Peers |-> None]
  /\ sess' = [p \in Peers |-> None]
  /\ UNCHANGED <<cut, st, speer, plane, rungVars, stops, ctxDone, removes>>

\* Shutdown's critical section.
ShutdownBegins ==
  /\ shut = "run"
  /\ ctxDone
  /\ shut' = "stops"
  /\ closing' = TRUE
  /\ shutStops' = {tiers[p] : p \in Peers} \ {None}
  /\ tiers' = [p \in Peers |-> None]
  /\ Cut(floorStreams({p \in Peers : sess[p] # None}))
  /\ sess' = [p \in Peers |-> None]
  /\ UNCHANGED <<st, speer, plane, rungVars, stops, ctxDone, removes>>

\* Shutdown stops the tiers it collected before it waits for the handlers.
ShutdownStops ==
  /\ shut = "stops"
  /\ shut' = "wait"
  /\ stopped' = [r \in Rungs |-> stopped[r] \/ r \in shutStops]
  /\ shutStops' = {}
  /\ UNCHANGED <<sessionVars, streamVars, rst, rpeer, rtier, stops, ctxDone, removes>>

\* handlers.Wait returns, and negotiations.shutdown closes the handler group.
ShutdownDrained ==
  /\ shut = "wait"
  /\ handlers = {}
  /\ shut' = "negotiations"
  /\ UNCHANGED <<sessionVars, streamVars, rungVars, stops, shutStops, ctxDone, removes>>

\* The negotiate handlers have returned too; p2p.Close takes what is left.
StackCloses ==
  /\ shut = "negotiations"
  /\ negotiating = {}
  /\ shut' = "closed"
  /\ Cut(Streams)
  /\ UNCHANGED <<st, speer, plane, sessionVars, rungVars, stops, shutStops, ctxDone, removes>>

Stopped ==
  /\ shut = "closed"
  /\ UNCHANGED vars

-----------------------------------------------------------------------------
StreamStep(s) ==
  \/ AddLive(s) \/ BeginStream(s) \/ BeginRefused(s)
  \/ Dialed(s) \/ DialFails(s) \/ EndStream(s)
RungStep(r)   == CallStop(r) \/ CloseRung(r) \/ CloseAll(r) \/ UnregisterTier(r)
ShutdownStep  == ShutdownBegins \/ ShutdownStops \/ ShutdownDrained \/ StackCloses

\* A negotiation under a cancelled context returns.
NegotiationAborts(r) == ctxDone /\ NegotiationFails(r)

Next ==
  \/ \E s \in Streams : \/ StreamStep(s) \/ ForwardEnds(s) \/ ForwardCut(s)
                        \/ \E p \in Peers : FloorStreamArrives(s, p)
                        \/ \E r \in Rungs : RungStreamArrives(s, r)
  \/ \E r \in Rungs : \/ RungStep(r) \/ RegisterTier(r) \/ NegotiationFails(r) \/ RungEnds(r)
                      \/ \E p \in Peers, t \in Upper : NegotiationBegins(r, p, t)
  \/ \E p \in Peers : Remove(p)
  \/ Cancel \/ ShutdownStep \/ Stopped

\* Goroutines that can run do; connections need not end by themselves, and nobody
\* need ever ask the host to stop.
Fairness ==
  /\ \A s \in Streams : WF_vars(StreamStep(s))
  /\ \A r \in Rungs : WF_vars(RungStep(r)) /\ WF_vars(NegotiationAborts(r))
  /\ WF_vars(ShutdownStep)

Spec == Init /\ [][Next]_vars /\ Fairness

-----------------------------------------------------------------------------
(* Properties.                                                             *)

handlersOf(p) == {s \in handlers : speer[s] = p}

\* Until shutdown a session counts exactly the handlers its peer has between
\* BeginStream and EndStream, and a peer without a session has none: so the one
\* DISCONNECT comes with the last of them (EndStream).  Operator DISCONNECTs aside.
SessionCountsHandlers ==
  ~closing => \A p \in Peers :
    Cardinality(handlersOf(p)) = IF sess[p] = None THEN 0 ELSE sess[p].streams

\* A rung that nobody has stopped, or is about to stop, is the one registered for
\* its peer: Remove and Shutdown can always reach a live data plane, also when a
\* predecessor unwinds after its replacement registered (UnregisterTier's identity
\* check) or when the rung comes up during shutdown (RegisterTier's closing check).
LiveRungReachable ==
  \A r \in Rungs :
    rst[r] = "up" /\ ~stopped[r] /\ r \notin stops \cup shutStops => tiers[rpeer[r]] = r

\* What is registered for a peer is a rung of that peer whose handler is running.
NoStaleRegistration ==
  \A p \in Peers : tiers[p] # None => tiers[p] \in negotiating /\ rpeer[tiers[p]] = p

\* Once handlers.Wait has returned no handler is running, and none starts: no
\* BeginStream can slip in behind Shutdown.
QuietAfterWait == shut \in {"negotiations", "closed"} => handlers = {}

\* closeAll and a racing accept, in either order, leave no forward on a closed rung
\* that nothing will unblock.
SweptForwardsCut ==
  \A s \in Streams :
    /\ st[s] \in {"added", "dialing", "serving"}
    /\ plane[s] # Floor
    => rst[plane[s]] \in {"up", "closed"} \/ cut[s]

\* The stack is closed only after every negotiate handler, and with it every rung,
\* is gone; no negotiation starts behind it.
NothingOutlivesStack == shut = "closed" => negotiating = {} /\ tiers = [p \in Peers |-> None]

\* A forward whose stream was cut and which has not ended.  A UDP one closes its socket;
\* a TCP one only half-closes the local connection and then waits for the local service
\* to close its half in turn (tcp/pipe.go).
HeldByService(s) == st[s] = "serving" /\ cut[s]

\* A stopped rung unwinds completely, whatever it was carrying; only a forward on it
\* that was cut and waits for its local service for ever can hold it.
StoppedRungUnwinds ==
  \A r \in Rungs :
    <>stopped[r] =>
      <>(rst[r] = "down") \/ <>[](\E s \in Streams : plane[s] = r /\ HeldByService(s))

\* Shutdown "forcibly resets every active one, and waits for their handlers to
\* finish": a cancelled host comes to its end although no forwarded connection need
\* ever finish by itself.  Every stream is cut, so that only a forward waiting for its
\* local service for ever can hold it.
ShutdownCompletes ==
  <>ctxDone => <>(shut = "closed") \/ <>[](\E s \in Streams : HeldByService(s))
=============================================================================
