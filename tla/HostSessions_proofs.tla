------------------------- MODULE HostSessions_proofs -------------------------
(***************************************************************************)
(* Theorems about HostSessions, for any sets of peers, rungs, streams and  *)
(* tiers and any number of operator DISCONNECTs.                           *)
(***************************************************************************)
EXTENDS HostSessions, FiniteSetTheorems, TLAPS

\* A rung that has begun, and a stream that has arrived, belong to a peer.
Known ==
  /\ \A r \in Rungs : rst[r] # "idle" => rpeer[r] \in Peers /\ rtier[r] \in Upper
  /\ \A s \in Streams : st[s] # "idle" => speer[s] \in Peers

\* A registered rung is between RegisterTier and UnregisterTier.
RegisteredRungs ==
  \A p \in Peers : tiers[p] # None =>
    rst[tiers[p]] \in {"up", "closed", "swept"} /\ rpeer[tiers[p]] = p

\* The order of RunHost's shutdown.
ShutdownOrder ==
  /\ shut = "run" => shutStops = {}
  /\ shut # "run" => closing

\* The stack closes behind the last negotiate handler.
QuietStack == shut = "closed" => negotiating = {}

IInv ==
  /\ TypeOK
  /\ Known
  /\ RegisteredRungs
  /\ ShutdownOrder
  /\ LiveRungReachable
  /\ QuietAfterWait
  /\ SweptForwardsCut
  /\ QuietStack

-----------------------------------------------------------------------------
(* The actions by the state they touch.                                    *)

StreamAction(s) ==
  \/ StreamStep(s) \/ ForwardEnds(s) \/ ForwardCut(s)
  \/ \E p \in Peers : FloorStreamArrives(s, p)
  \/ \E r \in Rungs : RungStreamArrives(s, r)

RungAction(r) ==
  \/ RungStep(r) \/ RegisterTier(r) \/ NegotiationFails(r) \/ RungEnds(r)
  \/ \E p \in Peers, t \in Upper : NegotiationBegins(r, p, t)

\* Types are preserved by every step of a forwarded connection.
LEMMA StreamTypes ==
  ASSUME IInv, NEW s \in Streams, StreamAction(s)
  PROVE  TypeOK'
<1> USE HostAssumption DEF IInv, TypeOK, StreamStates, RungStates, ShutStates,
        sessionVars, streamVars, rungVars, controlVars
<1>1. CASE AddLive(s)
  BY <1>1 DEF AddLive
<1>2. CASE BeginStream(s)
  <2> DEFINE p == speer[s]
  <2>1. p \in Peers
    BY <1>2 DEF BeginStream, Admitting, Known
  <2>2. [tier |-> sessionTier(p), streams |-> 1] \in Sessions
    BY <2>1 DEF sessionTier, RegisteredRungs, Known, Sessions
  <2>3. sess[p] # None => [tier |-> sess[p].tier, streams |-> sess[p].streams + 1] \in Sessions
    BY <2>1 DEF Sessions
  <2>4. \E v \in Sessions : sess' = [sess EXCEPT ![p] = v]
    BY <1>2, <2>2, <2>3 DEF BeginStream
  <2>5. sess' \in [Peers -> Sessions \cup {None}]
    BY <2>1, <2>4
  <2> QED
    BY <1>2, <2>5 DEF BeginStream
<1>3. CASE BeginRefused(s)
  BY <1>3 DEF BeginRefused
<1>4. CASE Dialed(s) \/ DialFails(s) \/ ForwardCut(s) \/ ForwardEnds(s)
  BY <1>4 DEF Dialed, DialFails, ForwardCut, ForwardEnds
<1>5. CASE EndStream(s)
  <2> DEFINE p == speer[s]
  <2>1. p \in Peers
    BY <1>5 DEF EndStream, Known
  <2>2. sess[p] # None /\ ~(sess[p].streams <= 1) =>
          [tier |-> sess[p].tier, streams |-> sess[p].streams - 1] \in Sessions
    BY <2>1 DEF Sessions
  <2>3. \E v \in Sessions \cup {None} : sess' = [sess EXCEPT ![p] = v]
    BY <1>5, <2>2 DEF EndStream
  <2>4. sess' \in [Peers -> Sessions \cup {None}]
    BY <2>1, <2>3
  <2> QED
    BY <1>5, <2>4 DEF EndStream
<1>6. ASSUME NEW p \in Peers, FloorStreamArrives(s, p) PROVE TypeOK'
  BY <1>6 DEF FloorStreamArrives
<1>7. ASSUME NEW r \in Rungs, RungStreamArrives(s, r) PROVE TypeOK'
  BY <1>7 DEF RungStreamArrives
<1> QED
  BY <1>1, <1>2, <1>3, <1>4, <1>5, <1>6, <1>7 DEF StreamAction, StreamStep

\* Types are preserved by every step of a rung.
LEMMA RungTypes ==
  ASSUME IInv, NEW r \in Rungs, RungAction(r)
  PROVE  TypeOK'
<1> USE HostAssumption DEF IInv, TypeOK, StreamStates, RungStates, ShutStates,
        sessionVars, streamVars, rungVars, controlVars
<1>1. CASE CallStop(r)
  BY <1>1 DEF CallStop
<1>2. CASE CloseRung(r)
  BY <1>2 DEF CloseRung
<1>3. CASE CloseAll(r)
  BY <1>3 DEF CloseAll, Cut
<1>4. CASE UnregisterTier(r)
  BY <1>4 DEF UnregisterTier
<1>5. CASE RegisterTier(r)
  <2>1. rpeer[r] \in Peers
    BY <1>5 DEF RegisterTier, Known
  <2>2. tiers' \in [Peers -> Rungs \cup {None}] /\ stops' \subseteq Rungs
    BY <1>5, <2>1 DEF RegisterTier
  <2>3. stopped' \in [Rungs -> BOOLEAN]
    BY <1>5 DEF RegisterTier
  <2> QED
    BY <1>5, <2>2, <2>3 DEF RegisterTier
<1>6. CASE NegotiationFails(r)
  BY <1>6 DEF NegotiationFails
<1>7. CASE RungEnds(r)
  BY <1>7 DEF RungEnds
<1>8. ASSUME NEW p \in Peers, NEW t \in Upper, NegotiationBegins(r, p, t) PROVE TypeOK'
  BY <1>8 DEF NegotiationBegins
<1> QED
  BY <1>1, <1>2, <1>3, <1>4, <1>5, <1>6, <1>7, <1>8 DEF RungAction, RungStep

\* The remaining steps: the operator and RunHost.
LEMMA HostTypes ==
  ASSUME IInv, (\E p \in Peers : Remove(p)) \/ Cancel \/ ShutdownStep
  PROVE  TypeOK'
<1> USE HostAssumption DEF IInv, TypeOK, StreamStates, RungStates, ShutStates,
        sessionVars, streamVars, rungVars, controlVars
<1>1. ASSUME NEW p \in Peers, Remove(p) PROVE TypeOK'
  BY <1>1 DEF Remove, Cut
<1>2. CASE Cancel
  BY <1>2 DEF Cancel
<1>3. CASE ShutdownBegins
  BY <1>3 DEF ShutdownBegins, Cut
<1>4. CASE ShutdownStops
  BY <1>4 DEF ShutdownStops
<1>5. CASE ShutdownDrained
  BY <1>5 DEF ShutdownDrained
<1>6. CASE StackCloses
  BY <1>6 DEF StackCloses, Cut
<1> QED
  BY <1>1, <1>2, <1>3, <1>4, <1>5, <1>6 DEF ShutdownStep

-----------------------------------------------------------------------------
(* The other parts of the inductive invariant.                             *)

\* Every step of a forwarded connection leaves the rungs and their registrations
\* alone, except that a refused stream may stop its rung.
LEMMA StreamFrame ==
  ASSUME NEW s \in Streams, StreamAction(s), TypeOK
  PROVE  /\ UNCHANGED <<tiers, closing, rst, rpeer, rtier, stops, shutStops, shut>>
         /\ \A r \in Rungs : stopped[r] => stopped'[r]
<1> USE DEF TypeOK, sessionVars, streamVars, rungVars, controlVars
<1>1. CASE AddLive(s)
  BY <1>1 DEF AddLive
<1>2. CASE BeginStream(s)
  BY <1>2 DEF BeginStream
<1>3. CASE BeginRefused(s)
  BY <1>3 DEF BeginRefused
<1>4. CASE Dialed(s) \/ DialFails(s) \/ ForwardCut(s) \/ ForwardEnds(s)
  BY <1>4 DEF Dialed, DialFails, ForwardCut, ForwardEnds
<1>5. CASE EndStream(s)
  BY <1>5 DEF EndStream
<1>6. CASE \E p \in Peers : FloorStreamArrives(s, p)
  BY <1>6 DEF FloorStreamArrives
<1>7. CASE \E r \in Rungs : RungStreamArrives(s, r)
  BY <1>7 DEF RungStreamArrives
<1> QED
  BY <1>1, <1>2, <1>3, <1>4, <1>5, <1>6, <1>7 DEF StreamAction, StreamStep

\* A rung's steps leave the streams where they are, and only add cuts; shutdown's
\* progress is not theirs.
LEMMA RungFrame ==
  ASSUME NEW r \in Rungs, RungAction(r), TypeOK
  PROVE  /\ UNCHANGED <<st, speer, plane, closing, shutStops, shut>>
         /\ \A s \in Streams : cut[s] => cut'[s]
<1> USE DEF TypeOK, sessionVars, streamVars, rungVars, controlVars
<1>1. CASE CallStop(r)
  BY <1>1 DEF CallStop
<1>2. CASE CloseRung(r)
  BY <1>2 DEF CloseRung
<1>3. CASE CloseAll(r)
  BY <1>3 DEF CloseAll, Cut
<1>4. CASE UnregisterTier(r)
  BY <1>4 DEF UnregisterTier
<1>5. CASE RegisterTier(r)
  BY <1>5 DEF RegisterTier
<1>6. CASE NegotiationFails(r)
  BY <1>6 DEF NegotiationFails
<1>7. CASE RungEnds(r)
  BY <1>7 DEF RungEnds
<1>8. CASE \E p \in Peers, t \in Upper : NegotiationBegins(r, p, t)
  BY <1>8 DEF NegotiationBegins
<1> QED
  BY <1>1, <1>2, <1>3, <1>4, <1>5, <1>6, <1>7, <1>8 DEF RungAction, RungStep

\* The operator's and RunHost's steps move no stream and no rung, and only add cuts
\* and stops.
LEMMA HostFrame ==
  ASSUME (\E p \in Peers : Remove(p)) \/ Cancel \/ ShutdownStep, TypeOK
  PROVE  /\ UNCHANGED <<st, speer, plane, rst, rpeer, rtier>>
         /\ \A s \in Streams : cut[s] => cut'[s]
         /\ \A r \in Rungs : stopped[r] => stopped'[r]
<1> USE DEF TypeOK, sessionVars, streamVars, rungVars, controlVars
<1>1. CASE \E p \in Peers : Remove(p)
  BY <1>1 DEF Remove, Cut
<1>2. CASE Cancel
  BY <1>2 DEF Cancel
<1>3. CASE ShutdownBegins
  BY <1>3 DEF ShutdownBegins, Cut
<1>4. CASE ShutdownStops
  BY <1>4 DEF ShutdownStops
<1>5. CASE ShutdownDrained
  BY <1>5 DEF ShutdownDrained
<1>6. CASE StackCloses
  BY <1>6 DEF StackCloses, Cut
<1> QED
  BY <1>1, <1>2, <1>3, <1>4, <1>5, <1>6 DEF ShutdownStep

\* The disjuncts of Next.
LEMMA NextCases ==
  ASSUME [Next]_vars
  PROVE  \/ \E s \in Streams : StreamAction(s)
         \/ \E r \in Rungs : RungAction(r)
         \/ (\E p \in Peers : Remove(p)) \/ Cancel \/ ShutdownStep
         \/ UNCHANGED vars
BY DEF Next, StreamAction, RungAction, Stopped

\* A stream gets its peer when it arrives and a rung when its negotiation begins.
LEMMA KnownStep ==
  ASSUME IInv, [Next]_vars
  PROVE  Known'
<1> USE DEF IInv, TypeOK, Known
<1>1. ASSUME NEW s \in Streams, StreamAction(s) PROVE Known'
  <2> USE DEF sessionVars, streamVars, rungVars, controlVars
  <2>1. UNCHANGED <<rst, rpeer, rtier>>
    BY <1>1, StreamFrame
  <2>2. CASE StreamStep(s) \/ ForwardEnds(s) \/ ForwardCut(s)
    <3>1. speer' = speer /\ st[s] # "idle" /\ \A q \in Streams : q # s => st'[q] = st[q]
      BY <2>2 DEF StreamStep, AddLive, BeginStream, BeginRefused, Dialed, DialFails,
                  ForwardCut, EndStream, ForwardEnds, Admitting
    <3> QED
      BY <2>1, <3>1
  <2>3. CASE \E p \in Peers : FloorStreamArrives(s, p)
    BY <2>1, <2>3 DEF FloorStreamArrives
  <2>4. CASE \E r \in Rungs : RungStreamArrives(s, r)
    BY <2>1, <2>4 DEF RungStreamArrives
  <2> QED
    BY <1>1, <2>2, <2>3, <2>4 DEF StreamAction
<1>2. ASSUME NEW r \in Rungs, RungAction(r) PROVE Known'
  <2> USE DEF sessionVars, streamVars, rungVars, controlVars
  <2>1. UNCHANGED <<st, speer>>
    BY <1>2, RungFrame
  <2>2. CASE RungStep(r) \/ RegisterTier(r) \/ NegotiationFails(r) \/ RungEnds(r)
    <3>1. UNCHANGED <<rpeer, rtier>> /\ \A q \in Rungs : rst'[q] # "idle" => rst[q] # "idle"
      BY <2>2 DEF RungStep, CallStop, CloseRung, CloseAll, UnregisterTier, RegisterTier,
                  NegotiationFails, RungEnds
    <3> QED
      BY <2>1, <3>1
  <2>3. ASSUME NEW p \in Peers, NEW t \in Upper, NegotiationBegins(r, p, t) PROVE Known'
    BY <2>1, <2>3 DEF NegotiationBegins
  <2> QED
    BY <1>2, <2>2, <2>3 DEF RungAction
<1>3. CASE (\E p \in Peers : Remove(p)) \/ Cancel \/ ShutdownStep
  BY <1>3, HostFrame
<1>4. CASE UNCHANGED vars
  BY <1>4 DEF vars, sessionVars, streamVars, rungVars, controlVars
<1> QED
  BY <1>1, <1>2, <1>3, <1>4, NextCases

\* UnregisterTier is the only way out of {"up", "closed", "swept"}, and it leaves no
\* registration of its rung behind.
LEMMA RegisteredRungsStep ==
  ASSUME IInv, [Next]_vars
  PROVE  RegisteredRungs'
<1> USE HostAssumption DEF IInv, TypeOK, RegisteredRungs
<1>1. ASSUME NEW s \in Streams, StreamAction(s) PROVE RegisteredRungs'
  BY <1>1, StreamFrame
<1>2. ASSUME NEW r \in Rungs, RungAction(r) PROVE RegisteredRungs'
  <2> USE DEF sessionVars, streamVars, rungVars, controlVars
  <2>1. CASE CallStop(r) \/ RungEnds(r)
    BY <2>1 DEF CallStop, RungEnds
  <2>2. CASE CloseRung(r)
    BY <2>2 DEF CloseRung
  <2>3. CASE CloseAll(r)
    BY <2>3 DEF CloseAll
  <2>4. CASE UnregisterTier(r)
    BY <2>4 DEF UnregisterTier
  <2>5. CASE RegisterTier(r)
    BY <2>5 DEF RegisterTier, Known
  <2>6. CASE NegotiationFails(r)
    BY <2>6 DEF NegotiationFails
  <2>7. CASE \E p \in Peers, t \in Upper : NegotiationBegins(r, p, t)
    BY <2>7 DEF NegotiationBegins
  <2> QED
    BY <1>2, <2>1, <2>2, <2>3, <2>4, <2>5, <2>6, <2>7 DEF RungAction, RungStep
<1>3. CASE (\E p \in Peers : Remove(p)) \/ Cancel \/ ShutdownStep
  <2> USE DEF sessionVars, streamVars, rungVars, controlVars
  <2>1. UNCHANGED <<rst, rpeer>>
    BY <1>3, HostFrame
  <2>2. \A p \in Peers : tiers'[p] # None => tiers'[p] = tiers[p]
    <3>1. CASE \E p \in Peers : Remove(p)
      BY <3>1 DEF Remove
    <3>2. CASE ShutdownBegins
      BY <3>2 DEF ShutdownBegins
    <3>3. CASE Cancel \/ ShutdownStops \/ ShutdownDrained \/ StackCloses
      BY <3>3 DEF Cancel, ShutdownStops, ShutdownDrained, StackCloses
    <3> QED
      BY <1>3, <3>1, <3>2, <3>3 DEF ShutdownStep
  <2> QED
    BY <2>1, <2>2
<1>4. CASE UNCHANGED vars
  BY <1>4 DEF vars, sessionVars, streamVars, rungVars, controlVars
<1> QED
  BY <1>1, <1>2, <1>3, <1>4, NextCases

\* Shutdown collects the stops once, after it has set closing.
LEMMA ShutdownOrderStep ==
  ASSUME IInv, [Next]_vars
  PROVE  ShutdownOrder'
<1> USE DEF IInv, TypeOK, ShutdownOrder
<1>1. ASSUME NEW s \in Streams, StreamAction(s) PROVE ShutdownOrder'
  BY <1>1, StreamFrame
<1>2. ASSUME NEW r \in Rungs, RungAction(r) PROVE ShutdownOrder'
  BY <1>2, RungFrame
<1>3. CASE (\E p \in Peers : Remove(p)) \/ Cancel \/ ShutdownStep
  BY <1>3 DEF Remove, Cancel, ShutdownStep, ShutdownBegins, ShutdownStops,
              ShutdownDrained, StackCloses, sessionVars, streamVars, rungVars, controlVars
<1>4. CASE UNCHANGED vars
  BY <1>4 DEF vars, sessionVars, controlVars
<1> QED
  BY <1>1, <1>2, <1>3, <1>4, NextCases

\* A registration is lost only to a caller that is going to stop the rung, to a
\* successor that is, or with the rung.
LEMMA LiveRungStep ==
  ASSUME IInv, [Next]_vars
  PROVE  LiveRungReachable'
<1> USE HostAssumption DEF IInv, TypeOK, LiveRungReachable
<1>1. ASSUME NEW s \in Streams, StreamAction(s) PROVE LiveRungReachable'
  BY <1>1, StreamFrame
<1>2. ASSUME NEW r \in Rungs, RungAction(r) PROVE LiveRungReachable'
  <2> USE DEF sessionVars, streamVars, rungVars, controlVars
  <2>1. CASE CallStop(r) \/ RungEnds(r)
    BY <2>1 DEF CallStop, RungEnds
  <2>2. CASE CloseRung(r)
    BY <2>2 DEF CloseRung
  <2>3. CASE CloseAll(r)
    BY <2>3 DEF CloseAll
  <2>4. CASE UnregisterTier(r)
    BY <2>4 DEF UnregisterTier, Known
  <2>5. CASE RegisterTier(r)
    BY <2>5 DEF RegisterTier, Known
  <2>6. CASE NegotiationFails(r)
    BY <2>6 DEF NegotiationFails
  <2>7. CASE \E p \in Peers, t \in Upper : NegotiationBegins(r, p, t)
    BY <2>7 DEF NegotiationBegins
  <2> QED
    BY <1>2, <2>1, <2>2, <2>3, <2>4, <2>5, <2>6, <2>7 DEF RungAction, RungStep
<1>3. CASE (\E p \in Peers : Remove(p)) \/ Cancel \/ ShutdownStep
  <2> USE DEF sessionVars, streamVars, rungVars, controlVars
  <2>1. CASE \E p \in Peers : Remove(p)
    BY <2>1 DEF Remove, Known
  <2>2. CASE Cancel
    BY <2>2 DEF Cancel
  <2>3. CASE ShutdownBegins
    BY <2>3 DEF ShutdownBegins, ShutdownOrder, Known
  <2>4. CASE ShutdownStops
    BY <2>4 DEF ShutdownStops
  <2>5. CASE ShutdownDrained \/ StackCloses
    BY <2>5 DEF ShutdownDrained, StackCloses
  <2> QED
    BY <1>3, <2>1, <2>2, <2>3, <2>4, <2>5 DEF ShutdownStep
<1>4. CASE UNCHANGED vars
  BY <1>4 DEF vars, sessionVars, streamVars, rungVars, controlVars
<1> QED
  BY <1>1, <1>2, <1>3, <1>4, NextCases

\* The handlers can only shrink once closing is set, and Shutdown goes on from its
\* wait when none is left.
LEMMA QuietAfterWaitStep ==
  ASSUME IInv, [Next]_vars
  PROVE  QuietAfterWait'
<1> USE DEF IInv, TypeOK, QuietAfterWait, handlers
<1>1. ASSUME NEW s \in Streams, StreamAction(s) PROVE QuietAfterWait'
  <2> USE DEF sessionVars, streamVars, rungVars, controlVars
  <2>1. UNCHANGED shut
    BY <1>1, StreamFrame
  <2>2. CASE BeginStream(s)
    BY <2>1, <2>2 DEF BeginStream, ShutdownOrder
  <2>3. CASE \/ AddLive(s) \/ BeginRefused(s) \/ EndStream(s)
             \/ Dialed(s) \/ DialFails(s) \/ ForwardCut(s) \/ ForwardEnds(s)
             \/ \E p \in Peers : FloorStreamArrives(s, p)
             \/ \E r \in Rungs : RungStreamArrives(s, r)
    <3>1. \A q \in Streams : st'[q] \in {"dialing", "serving", "returned"} =>
                               st[q] \in {"dialing", "serving", "returned"}
      BY <2>3 DEF AddLive, BeginRefused, EndStream, Dialed, DialFails, ForwardCut, ForwardEnds,
                  FloorStreamArrives, RungStreamArrives
    <3> QED
      BY <2>1, <3>1
  <2> QED
    BY <1>1, <2>2, <2>3 DEF StreamAction, StreamStep
<1>2. ASSUME NEW r \in Rungs, RungAction(r) PROVE QuietAfterWait'
  BY <1>2, RungFrame
<1>3. CASE (\E p \in Peers : Remove(p)) \/ Cancel \/ ShutdownStep
  <2>1. UNCHANGED st
    BY <1>3, HostFrame
  <2> QED
    BY <1>3, <2>1 DEF Remove, Cancel, ShutdownStep, ShutdownBegins, ShutdownStops,
                      ShutdownDrained, StackCloses, sessionVars, streamVars, controlVars
<1>4. CASE UNCHANGED vars
  BY <1>4 DEF vars, streamVars, controlVars
<1> QED
  BY <1>1, <1>2, <1>3, <1>4, NextCases

\* A stream joins a streamSet only while it is open, and closeAll cuts what it holds.
LEMMA SweptForwardsCutStep ==
  ASSUME IInv, [Next]_vars
  PROVE  SweptForwardsCut'
<1> USE HostAssumption DEF IInv, TypeOK, SweptForwardsCut
<1>1. ASSUME NEW s \in Streams, StreamAction(s) PROVE SweptForwardsCut'
  <2> USE DEF sessionVars, streamVars, rungVars, controlVars
  <2>1. UNCHANGED rst
    BY <1>1, StreamFrame
  <2>2. CASE AddLive(s)
    BY <2>1, <2>2 DEF AddLive
  <2>3. CASE BeginStream(s)
    BY <2>1, <2>3 DEF BeginStream, Admitting
  <2>4. CASE \/ BeginRefused(s) \/ Dialed(s) \/ DialFails(s)
             \/ ForwardCut(s) \/ ForwardEnds(s) \/ EndStream(s)
    BY <2>1, <2>4 DEF BeginRefused, Dialed, DialFails, ForwardCut, ForwardEnds, EndStream
  <2>5. CASE \E p \in Peers : FloorStreamArrives(s, p)
    BY <2>1, <2>5 DEF FloorStreamArrives
  <2>6. CASE \E r \in Rungs : RungStreamArrives(s, r)
    BY <2>1, <2>6 DEF RungStreamArrives
  <2> QED
    BY <1>1, <2>2, <2>3, <2>4, <2>5, <2>6 DEF StreamAction, StreamStep
<1>2. ASSUME NEW r \in Rungs, RungAction(r) PROVE SweptForwardsCut'
  <2> USE DEF sessionVars, streamVars, rungVars, controlVars
  <2>1. UNCHANGED <<st, plane>> /\ \A s \in Streams : cut[s] => cut'[s]
    BY <1>2, RungFrame
  <2>2. CASE CallStop(r) \/ RungEnds(r)
    BY <2>1, <2>2 DEF CallStop, RungEnds
  <2>3. CASE CloseRung(r)
    BY <2>1, <2>3 DEF CloseRung
  <2>4. CASE CloseAll(r)
    BY <2>1, <2>4 DEF CloseAll, Cut, live
  <2>5. CASE UnregisterTier(r)
    BY <2>1, <2>5 DEF UnregisterTier
  <2>6. CASE RegisterTier(r)
    BY <2>1, <2>6 DEF RegisterTier
  <2>7. CASE NegotiationFails(r)
    BY <2>1, <2>7 DEF NegotiationFails
  <2>8. CASE \E p \in Peers, t \in Upper : NegotiationBegins(r, p, t)
    BY <2>1, <2>8 DEF NegotiationBegins
  <2> QED
    BY <1>2, <2>2, <2>3, <2>4, <2>5, <2>6, <2>7, <2>8 DEF RungAction, RungStep
<1>3. CASE (\E p \in Peers : Remove(p)) \/ Cancel \/ ShutdownStep
  BY <1>3, HostFrame
<1>4. CASE UNCHANGED vars
  BY <1>4 DEF vars, streamVars, rungVars
<1> QED
  BY <1>1, <1>2, <1>3, <1>4, NextCases

\* The stack closes when no negotiate handler is left, and begin refuses from then on.
LEMMA QuietStackStep ==
  ASSUME IInv, [Next]_vars
  PROVE  QuietStack'
<1> USE DEF IInv, TypeOK, QuietStack, negotiating
<1>1. ASSUME NEW s \in Streams, StreamAction(s) PROVE QuietStack'
  BY <1>1, StreamFrame
<1>2. ASSUME NEW r \in Rungs, RungAction(r) PROVE QuietStack'
  <2> USE DEF sessionVars, streamVars, rungVars, controlVars
  <2>1. UNCHANGED shut
    BY <1>2, RungFrame
  <2>2. CASE \E p \in Peers, t \in Upper : NegotiationBegins(r, p, t)
    BY <2>1, <2>2 DEF NegotiationBegins
  <2>3. CASE RungStep(r) \/ RegisterTier(r) \/ NegotiationFails(r) \/ RungEnds(r)
    <3>1. \A q \in Rungs : rst'[q] \in {"negotiating", "up", "closed", "swept"} =>
                             rst[q] \in {"negotiating", "up", "closed", "swept"}
      BY <2>3 DEF RungStep, CallStop, CloseRung, CloseAll, UnregisterTier, RegisterTier,
                  NegotiationFails, RungEnds
    <3> QED
      BY <2>1, <3>1
  <2> QED
    BY <1>2, <2>2, <2>3 DEF RungAction
<1>3. CASE (\E p \in Peers : Remove(p)) \/ Cancel \/ ShutdownStep
  <2>1. UNCHANGED rst
    BY <1>3, HostFrame
  <2> QED
    BY <1>3, <2>1 DEF Remove, Cancel, ShutdownStep, ShutdownBegins, ShutdownStops,
                      ShutdownDrained, StackCloses, sessionVars, rungVars, controlVars
<1>4. CASE UNCHANGED vars
  BY <1>4 DEF vars, rungVars, controlVars
<1> QED
  BY <1>1, <1>2, <1>3, <1>4, NextCases

-----------------------------------------------------------------------------
(* The theorems.                                                           *)

\* A host that has just started satisfies the invariant.
LEMMA InitInv == ASSUME Init PROVE IInv
<1> USE HostAssumption DEF Init
<1>1. TypeOK
  <2>1. /\ cut \in [Streams -> BOOLEAN] /\ stopped \in [Rungs -> BOOLEAN]
        /\ closing \in BOOLEAN /\ ctxDone \in BOOLEAN
    OBVIOUS
  <2>2. /\ sess \in [Peers -> Sessions \cup {None}]
        /\ tiers \in [Peers -> Rungs \cup {None}]
    OBVIOUS
  <2>3. /\ st \in [Streams -> StreamStates]
        /\ speer \in [Streams -> Peers \cup {None}]
        /\ plane \in [Streams -> Rungs \cup {Floor}]
    BY DEF StreamStates
  <2>4. /\ rst \in [Rungs -> RungStates]
        /\ rpeer \in [Rungs -> Peers \cup {None}]
        /\ rtier \in [Rungs -> Upper \cup {None}]
    BY DEF RungStates
  <2>5. /\ stops \subseteq Rungs /\ shutStops \subseteq Rungs
        /\ shut \in ShutStates /\ removes \in 0..MaxRemoves
    BY DEF ShutStates
  <2> QED
    BY <2>1, <2>2, <2>3, <2>4, <2>5 DEF TypeOK
<1>2. Known /\ RegisteredRungs /\ ShutdownOrder
  BY DEF Known, RegisteredRungs, ShutdownOrder
<1>3. LiveRungReachable
  BY DEF LiveRungReachable
<1>4. QuietAfterWait /\ QuietStack
  BY DEF QuietAfterWait, QuietStack
<1>5. SweptForwardsCut
  BY DEF SweptForwardsCut
<1> QED
  BY <1>1, <1>2, <1>3, <1>4, <1>5 DEF IInv

\* Every step of any goroutine preserves it.
LEMMA StepInv == ASSUME IInv, [Next]_vars PROVE IInv'
<1>1. TypeOK'
  <2>1. CASE UNCHANGED vars
    BY <2>1 DEF IInv, TypeOK, vars, sessionVars, streamVars, rungVars, controlVars
  <2> QED
    BY <2>1, NextCases, StreamTypes, RungTypes, HostTypes
<1> QED
  BY <1>1, KnownStep, RegisteredRungsStep, ShutdownOrderStep, LiveRungStep,
     QuietAfterWaitStep, SweptForwardsCutStep, QuietStackStep DEF IInv

\* The inductive invariant holds for any number of peers, rungs, streams and removes.
THEOREM Invariant == Spec => []IInv
<1>1. Init => IInv
  BY InitInv
<1>2. IInv /\ [Next]_vars => IInv'
  BY StepInv
<1> QED
  BY <1>1, <1>2, PTL DEF Spec

\* SessionManager's tables keep their shape; in particular no session with an empty
\* stream count is ever kept (EndStream).
THEOREM TypeCorrect == Spec => []TypeOK
<1>1. IInv => TypeOK
  BY DEF IInv
<1> QED
  BY <1>1, Invariant, PTL

\* Remove and Shutdown can reach every live rung, whatever order a rung's successor
\* registers, the rung unwinds, and an operator or the end of the host intervenes in.
THEOREM RungsReachable == Spec => []LiveRungReachable
<1>1. IInv => LiveRungReachable
  BY DEF IInv
<1> QED
  BY <1>1, Invariant, PTL

\* No registration outlives the handler that made it.
THEOREM NoStaleRegistrations == Spec => []NoStaleRegistration
<1>1. IInv => NoStaleRegistration
  BY DEF IInv, RegisteredRungs, NoStaleRegistration, negotiating, TypeOK
<1> QED
  BY <1>1, Invariant, PTL

\* No forwarded connection runs, or begins to, after Shutdown's wait is over.
THEOREM ShutdownQuiet == Spec => []QuietAfterWait
<1>1. IInv => QuietAfterWait
  BY DEF IInv
<1> QED
  BY <1>1, Invariant, PTL

\* No forward is left running on a swept rung with nothing to end it.
THEOREM SweptRungsDrain == Spec => []SweptForwardsCut
<1>1. IInv => SweptForwardsCut
  BY DEF IInv
<1> QED
  BY <1>1, Invariant, PTL

\* The libp2p stack is closed last: no rung, registration or negotiate handler is left.
THEOREM StackClosedLast == Spec => []NothingOutlivesStack
<1>1. IInv => NothingOutlivesStack
  <2> SUFFICES ASSUME IInv, shut = "closed"
               PROVE  negotiating = {} /\ tiers = [p \in Peers |-> None]
    BY DEF NothingOutlivesStack
  <2>1. negotiating = {}
    BY DEF IInv, QuietStack
  <2>2. \A p \in Peers : tiers[p] = None
    BY <2>1 DEF IInv, TypeOK, RegisteredRungs, negotiating
  <2> QED
    BY <2>1, <2>2 DEF IInv, TypeOK
<1> QED
  BY <1>1, Invariant, PTL

-----------------------------------------------------------------------------
(* What a session counts.                                                  *)

\* As long as no operator has intervened, a session counts its peer's handlers.
Counted(p) ==
  /\ IsFiniteSet(handlersOf(p))
  /\ Cardinality(handlersOf(p)) = IF sess[p] = None THEN 0 ELSE sess[p].streams

CountInv == removes = 0 /\ ~closing => \A p \in Peers : Counted(p)

\* A stream that is not a handler, and does not become one, is not counted.
LEMMA HandlersKept ==
  ASSUME IInv, UNCHANGED sess,
         \A s \in Streams : \/ st'[s] \in {"dialing", "serving", "returned"} /\ st[s] \in {"dialing", "serving", "returned"}
                               /\ speer'[s] = speer[s]
                            \/ st'[s] \notin {"dialing", "serving", "returned"} /\ st[s] \notin {"dialing", "serving", "returned"}
  PROVE  \A p \in Peers : Counted(p) => Counted(p)'
<1> TAKE p \in Peers
<1>1. handlersOf(p)' = handlersOf(p)
  BY DEF handlersOf, handlers
<1> QED
  BY <1>1 DEF Counted

\* BeginStream counts one more handler for its peer, and makes the session for the first.
LEMMA BeginCounted ==
  ASSUME IInv, NEW s \in Streams, BeginStream(s), NEW p \in Peers, Counted(p)
  PROVE  Counted(p)'
<1> USE HostAssumption DEF IInv, TypeOK
<1>1. /\ st' = [st EXCEPT ![s] = "dialing"] /\ st[s] \notin {"dialing", "serving", "returned"}
      /\ speer' = speer /\ speer[s] \in Peers
  BY DEF BeginStream, Admitting, Known
<1>2. CASE p # speer[s]
  <2>1. handlersOf(p)' = handlersOf(p)
    BY <1>1, <1>2 DEF handlersOf, handlers
  <2>2. sess'[p] = sess[p]
    BY <1>1, <1>2 DEF BeginStream
  <2> QED BY <2>1, <2>2 DEF Counted
<1>3. CASE p = speer[s]
  <2>1. handlersOf(p)' = handlersOf(p) \cup {s} /\ s \notin handlersOf(p)
    BY <1>1, <1>3 DEF handlersOf, handlers
  <2>2. /\ IsFiniteSet(handlersOf(p)')
        /\ Cardinality(handlersOf(p)') = Cardinality(handlersOf(p)) + 1
    <3>1. IsFiniteSet(handlersOf(p))
      BY DEF Counted
    <3>2. /\ IsFiniteSet(handlersOf(p) \cup {s})
          /\ Cardinality(handlersOf(p) \cup {s}) = Cardinality(handlersOf(p)) + 1
      BY ONLY <2>1, <3>1, FS_AddElement
    <3> QED BY <2>1, <3>2
  <2>3. sess[p] = None => sess'[p] = [tier |-> sessionTier(p), streams |-> 1]
    BY <1>3 DEF BeginStream
  <2>4. sess[p] # None => sess'[p] = [tier |-> sess[p].tier, streams |-> sess[p].streams + 1]
    BY <1>3 DEF BeginStream
  <2>5. sess'[p] # None
    <3>1. sess[p] = None => sessionTier(p) \in Upper \cup {Floor}
      BY DEF sessionTier, RegisteredRungs, Known
    <3>2. sess[p] # None => sess[p] \in Sessions
      BY <1>3
    <3>3. sess'[p] \in Sessions
      BY <2>3, <2>4, <3>1, <3>2 DEF Sessions
    <3> QED BY <3>3
  <2> QED BY <2>2, <2>3, <2>4, <2>5 DEF Counted
<1> QED
  BY <1>2, <1>3

\* EndStream counts one less; the session ends with the last.
LEMMA EndCounted ==
  ASSUME IInv, NEW s \in Streams, EndStream(s), NEW p \in Peers, Counted(p)
  PROVE  Counted(p)'
<1> USE HostAssumption DEF IInv, TypeOK
<1>1. /\ st' = [st EXCEPT ![s] = "gone"] /\ st[s] = "returned"
      /\ speer' = speer /\ speer[s] \in Peers
  BY DEF EndStream, Known
<1>2. CASE p # speer[s]
  <2>1. handlersOf(p)' = handlersOf(p)
    BY <1>1, <1>2 DEF handlersOf, handlers
  <2>2. sess'[p] = sess[p]
    BY <1>1, <1>2 DEF EndStream
  <2> QED BY <2>1, <2>2 DEF Counted
<1>3. CASE p = speer[s]
  <2>1. handlersOf(p)' = handlersOf(p) \ {s} /\ s \in handlersOf(p)
    BY <1>1, <1>3 DEF handlersOf, handlers
  <2>2. /\ IsFiniteSet(handlersOf(p)')
        /\ Cardinality(handlersOf(p)') = Cardinality(handlersOf(p)) - 1
    <3>1. IsFiniteSet(handlersOf(p))
      BY DEF Counted
    <3>2. /\ IsFiniteSet(handlersOf(p) \ {s})
          /\ Cardinality(handlersOf(p) \ {s}) = Cardinality(handlersOf(p)) - 1
      BY ONLY <2>1, <3>1, FS_RemoveElement
    <3> QED BY <2>1, <3>2
  <2>3. Cardinality(handlersOf(p)) # 0
    BY <2>1, FS_EmptySet DEF Counted
  <2>4. sess[p] # None /\ sess[p].streams = Cardinality(handlersOf(p))
    BY <2>3 DEF Counted
  <2>5. sess[p].streams \in Nat \ {0}
    BY <2>4 DEF Sessions
  <2>6. sess[p].streams <= 1 => sess'[p] = None
    BY <1>3 DEF EndStream
  <2>7. ~(sess[p].streams <= 1) => sess'[p] = [tier |-> sess[p].tier, streams |-> sess[p].streams - 1]
    BY <1>3, <2>4 DEF EndStream
  <2>8. ~(sess[p].streams <= 1) => sess'[p] # None
    <3>1. sess[p] \in Sessions
      BY <2>4
    <3>2. ~(sess[p].streams <= 1) => sess'[p] \in Sessions
      BY <2>5, <2>7, <3>1 DEF Sessions
    <3> QED BY <3>2
  <2>9. CASE sess[p].streams <= 1
    BY <2>2, <2>4, <2>5, <2>6, <2>9 DEF Counted
  <2>10. CASE ~(sess[p].streams <= 1)
    BY <2>2, <2>4, <2>5, <2>7, <2>8, <2>10 DEF Counted
  <2> QED BY <2>9, <2>10
<1> QED
  BY <1>2, <1>3

\* CountInv is inductive together with IInv.
LEMMA CountStep ==
  ASSUME IInv, CountInv, [Next]_vars
  PROVE  CountInv'
<1> SUFFICES ASSUME removes' = 0, ~closing' PROVE \A p \in Peers : Counted(p)'
  BY DEF CountInv
<1> USE DEF IInv, TypeOK, sessionVars, streamVars, rungVars, controlVars
<1>1. ASSUME NEW s \in Streams, StreamAction(s) PROVE \A p \in Peers : Counted(p)'
  <2>1. removes = 0 /\ ~closing
    BY <1>1 DEF StreamAction, StreamStep, AddLive, BeginStream, BeginRefused, Dialed, DialFails,
                ForwardCut, ForwardEnds, EndStream, FloorStreamArrives, RungStreamArrives
  <2>2. CASE BeginStream(s) \/ EndStream(s)
    BY <2>1, <2>2, BeginCounted, EndCounted DEF CountInv
  <2>3. CASE \/ AddLive(s) \/ BeginRefused(s) \/ Dialed(s) \/ DialFails(s)
             \/ ForwardCut(s) \/ ForwardEnds(s)
    <3>1. UNCHANGED sess
      BY <2>3 DEF AddLive, BeginRefused, Dialed, DialFails, ForwardCut, ForwardEnds
    <3>2. \A q \in Streams : \/ st'[q] \in {"dialing", "serving", "returned"} /\ st[q] \in {"dialing", "serving", "returned"}
                                /\ speer'[q] = speer[q]
                             \/ st'[q] \notin {"dialing", "serving", "returned"} /\ st[q] \notin {"dialing", "serving", "returned"}
      BY <2>3 DEF AddLive, BeginRefused, Dialed, DialFails, ForwardCut, ForwardEnds, Admitting
    <3> QED BY <2>1, <3>1, <3>2, HandlersKept DEF CountInv
  <2>4. CASE (\E p \in Peers : FloorStreamArrives(s, p)) \/ (\E r \in Rungs : RungStreamArrives(s, r))
    <3>1. UNCHANGED sess
      BY <2>4 DEF FloorStreamArrives, RungStreamArrives
    <3>2. \A q \in Streams : \/ st'[q] \in {"dialing", "serving", "returned"} /\ st[q] \in {"dialing", "serving", "returned"}
                                /\ speer'[q] = speer[q]
                             \/ st'[q] \notin {"dialing", "serving", "returned"} /\ st[q] \notin {"dialing", "serving", "returned"}
      BY <2>4 DEF FloorStreamArrives, RungStreamArrives
    <3> QED BY <2>1, <3>1, <3>2, HandlersKept DEF CountInv
  <2> QED BY <1>1, <2>2, <2>3, <2>4 DEF StreamAction, StreamStep
<1>2. ASSUME UNCHANGED <<st, speer, sess>>, removes = 0, ~closing PROVE \A p \in Peers : Counted(p)'
  BY <1>2, HandlersKept DEF CountInv
<1>3. ASSUME NEW r \in Rungs, RungAction(r) PROVE \A p \in Peers : Counted(p)'
  <2>1. UNCHANGED <<st, speer, sess, removes, closing>>
    BY <1>3 DEF RungAction, RungStep, CallStop, CloseRung, CloseAll, UnregisterTier, RegisterTier,
                NegotiationFails, RungEnds, NegotiationBegins
  <2> QED BY <1>2, <2>1
<1>4. CASE \E p \in Peers : Remove(p)
  <2>1. removes' = removes + 1 /\ removes \in Nat
    BY <1>4, HostAssumption DEF Remove
  <2> QED BY <2>1
<1>5. CASE Cancel \/ ShutdownStep
  <2>1. UNCHANGED <<st, speer, sess, removes, closing>>
    BY <1>5 DEF Cancel, ShutdownStep, ShutdownBegins, ShutdownStops, ShutdownDrained, StackCloses
  <2> QED BY <1>2, <2>1
<1>6. CASE UNCHANGED vars
  BY <1>2, <1>6 DEF vars
<1> QED
  BY <1>1, <1>3, <1>4, <1>5, <1>6, NextCases

\* Until the operator first disconnects a peer, and until shutdown, a session counts
\* exactly the handlers its peer has between BeginStream and EndStream, so that its
\* one DISCONNECT comes with the last of them.
THEOREM SessionsCount == Spec => [](removes = 0 => SessionCountsHandlers)
<1>1. Init => IInv /\ CountInv
  <2> SUFFICES ASSUME Init PROVE CountInv
    BY InitInv
  <2>1. \A p \in Peers : handlersOf(p) = {} /\ sess[p] = None
    BY DEF Init, handlersOf, handlers
  <2> QED BY <2>1, FS_EmptySet DEF CountInv, Counted
<1>2. IInv /\ CountInv /\ [Next]_vars => (IInv /\ CountInv)'
  BY StepInv, CountStep
<1>3. CountInv => (removes = 0 => SessionCountsHandlers)
  BY DEF CountInv, Counted, SessionCountsHandlers
<1> QED
  BY <1>1, <1>2, <1>3, PTL DEF Spec
=============================================================================
