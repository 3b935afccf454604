---------------------------- MODULE DirectStream ----------------------------
(***************************************************************************)
(* One call of p2p.OpenStream (internal/p2p/stream.go), which a forwarder  *)
(* makes for a tunnel stream on the libp2p floor: the attempt over a       *)
(* direct connection, the wait for one under a notifiee of its own, and    *)
(* the fallback to a relayed connection.                                   *)
(*                                                                         *)
(* Beside it libp2p makes and loses direct connections, which are in the   *)
(* peerstore before their notification is delivered.                       *)
(***************************************************************************)
EXTENDS Integers

CONSTANTS
  Modes,    \* the connection modes
  MaxUps    \* bound: direct connections made

VARIABLES
  pc,          \* where the call is
  mode,        \* cfg.ConnectionMode
  result,      \* what it returned
  ctx,         \* its context has been cancelled
  timeout,     \* the timeout of openDirectStream has passed
  registered,  \* its notifiee is registered
  token,       \* tokens in directConnected, a channel of one
  direct,      \* there is a direct connection
  events,      \* Connected notifications yet to be delivered
  ups          \* direct connections made so far

callVars == <<mode, ctx, timeout>>
netVars  == <<direct, events, ups>>
vars == <<pc, result, callVars, registered, token, netVars>>

Init ==
  /\ mode \in Modes
  /\ pc = IF mode = "relay-only" THEN "relay" ELSE "first"
  /\ result = "none"
  /\ ctx = FALSE /\ timeout = FALSE
  /\ registered = FALSE /\ token = 0
  /\ direct \in BOOLEAN /\ events = 0 /\ ups = 0

-----------------------------------------------------------------------------
Returns(r) == pc' = "returned" /\ result' = r

\* openDirectStream returns an error: direct-first goes on to the relay.
DirectFails ==
  IF mode = "direct-first" /\ ~ctx THEN pc' = "relay" /\ UNCHANGED result ELSE Returns("error")

\* NewStream over direct connections only; its timeout is waitCtx's.
FirstStream ==
  /\ pc = "first"
  /\ \/ direct /\ Returns("stream")
     \/ pc' = "check" /\ UNCHANGED result
  /\ UNCHANGED <<callVars, registered, token, netVars>>

Check ==
  /\ pc = "check"
  /\ \/ direct /\ DirectFails
     \/ ~direct /\ pc' = "notify" /\ UNCHANGED result
  /\ UNCHANGED <<callVars, registered, token, netVars>>

Notify ==
  /\ pc = "notify"
  /\ registered' = TRUE
  /\ pc' = "recheck"
  /\ UNCHANGED <<result, callVars, token, netVars>>

\* A connection made before the notifiee was registered is looked for here.
Recheck ==
  /\ pc = "recheck"
  /\ pc' = IF direct THEN "send" ELSE "select"
  /\ UNCHANGED <<result, callVars, registered, token, netVars>>

\* directConnected <- struct{}{}: a send that waits for room in the channel.
SendToken ==
  /\ pc = "send"
  /\ token = 0
  /\ token' = 1
  /\ pc' = "select"
  /\ UNCHANGED <<result, callVars, registered, netVars>>

\* The wait; the deferred StopNotify runs with every return.
Select ==
  /\ pc = "select"
  /\ \/ /\ ctx \/ timeout
        /\ DirectFails
        /\ registered' = FALSE /\ UNCHANGED token
     \/ /\ token = 1
        /\ token' = 0
        /\ \/ pc' = "second" /\ UNCHANGED <<result, registered>>
           \/ timeout /\ DirectFails /\ registered' = FALSE
  /\ UNCHANGED <<callVars, netVars>>

SecondStream ==
  /\ pc = "second"
  /\ \/ direct /\ Returns("stream")
     \/ DirectFails
  /\ registered' = FALSE
  /\ UNCHANGED <<callVars, token, netVars>>

\* NewStream over any connection, within streamOpenTimeout.
RelayStream ==
  /\ pc = "relay"
  /\ Returns("stream") \/ Returns("error")
  /\ UNCHANGED <<callVars, registered, token, netVars>>

CallStep ==
  \/ FirstStream \/ Check \/ Notify \/ Recheck \/ SendToken \/ Select
  \/ SecondStream \/ RelayStream

-----------------------------------------------------------------------------
(* Time, the caller, and libp2p.                                           *)

Timeout ==
  /\ ~timeout /\ pc # "returned"
  /\ timeout' = TRUE
  /\ UNCHANGED <<pc, result, mode, ctx, registered, token, netVars>>

Cancel ==
  /\ ~ctx
  /\ ctx' = TRUE
  /\ UNCHANGED <<pc, result, mode, timeout, registered, token, netVars>>

\* Hole punching succeeds.
DirectUp ==
  /\ ~direct /\ ups < MaxUps
  /\ direct' = TRUE
  /\ events' = events + 1
  /\ ups' = ups + 1
  /\ UNCHANGED <<pc, result, callVars, registered, token>>

DirectDown ==
  /\ direct
  /\ direct' = FALSE
  /\ UNCHANGED <<pc, result, callVars, registered, token, events, ups>>

\* ConnectedF, if it is registered by now: its send never waits.
Connected ==
  /\ events > 0
  /\ events' = events - 1
  /\ token' = IF registered THEN 1 ELSE token
  /\ UNCHANGED <<pc, result, callVars, registered, direct, ups>>

Next == CallStep \/ Timeout \/ Cancel \/ DirectUp \/ DirectDown \/ Connected

\* The call runs whenever it can, its timeout passes, and libp2p delivers.
Spec == Init /\ [][Next]_vars /\ WF_vars(CallStep) /\ WF_vars(Timeout) /\ WF_vars(Connected)

-----------------------------------------------------------------------------
\* streamOpenTimeout "bounds how long opening a tunnel stream may take", and the UDP
\* forwarder keeps its mutex across the call because "ctx is cancelled on shutdown to
\* unblock it" (udp/flow.go): OpenStream always returns.
OpenStreamReturns == <>(pc = "returned")
=============================================================================
