------------------------------ MODULE FlowMux -------------------------------
(***************************************************************************)
(* Two flow multiplexers, one at each end of an unreliable message channel *)
(* (internal/flowmux/flowmux.go): flows named by ID, opened by their first *)
(* DATA, closed by a retried FIN, guarded by tombstones and released when  *)
(* idle.  The channel is a QUIC connection's datagrams or a conn inside a  *)
(* WireGuard tunnel: it loses and reorders, and does not duplicate.        *)
(*                                                                         *)
(* One action is one critical section of Mux.mu with the sends and shuts   *)
(* that follow it; time passes between any two of them.  Payloads and the  *)
(* per-flow packet queue are left out.                                     *)
(***************************************************************************)
EXTENDS Integers, Sequences, FiniteSets, Bags

CONSTANTS
  Openers,        \* the sides that open flows; today the dialling one
  MaxID,          \* bound: the largest flow ID, far below the uint32 wrap
  MaxData,        \* bound: DATA frames sent in all
  MaxLoss,        \* bound: frames the channel loses on the way
  MaxInFlight,    \* bound: frames under way to one side; a further one is lost at once
  Backlog,        \* inboundBacklog
  FINRetryCount,  \* retransmissions after the initial FIN
  MaxPending,
  MaxTombstones

Side == {"dialing", "accepting"}
Peer(m) == IF m = "dialing" THEN "accepting" ELSE "dialing"

ASSUME MuxAssumption ==
  /\ Openers \subseteq Side
  /\ {MaxID, MaxData, MaxLoss, MaxInFlight, Backlog, FINRetryCount} \subseteq Nat
  /\ {MaxPending, MaxTombstones} \subseteq Nat \ {0}

IDs == 0..MaxID

\* A flow object: the gen-th one a side has made for an ID.  Generation 0 is none.
Flow(k, g) == <<k, g>>
Flows  == IDs \X (Nat \ {0})
NoFlow == <<0, 0>>

\* Absence of an entry in the pending table.
NoFIN == -1

Frame(kind, k) == [kind |-> kind, id |-> k]
Frames == [kind : {"DATA", "FIN", "FIN_ACK"}, id : IDs]

VARIABLES
  next,      \* the next ID a side allocates
  table,     \* Mux.flows: the generation registered under each ID, 0 for none
  gens,      \* how many flow objects a side has made for an ID (history)
  shut,      \* the flow objects whose once has fired
  inbound,   \* peer-initiated flows waiting for AcceptStream
  held,      \* the flow objects the application has been given
  closing,   \* local closes under way, with what is left of them
  offering,  \* the fresh flow the receive loop has yet to offer
  pending,   \* per ID: retries of its unacknowledged FIN, or NoFIN
  tombs,     \* Mux.tombstones
  closed,    \* Mux.closed
  ended,     \* the receive loop has returned
  chan,      \* frames under way to each side
  sent,      \* DATA frames sent so far
  lost,      \* frames lost so far
  finished,  \* IDs a side has handled a FIN for (history)
  evicted    \* IDs whose last tombstone made room for another (history)

vars == <<next, table, gens, shut, inbound, held, closing, offering, pending,
          tombs, closed, ended, chan, sent, lost, finished, evicted>>

\* Control state is bounded whatever the peer sends.
TypeOK ==
  /\ next \in [Side -> Nat]
  /\ table \in [Side -> [IDs -> Nat]]
  /\ gens \in [Side -> [IDs -> Nat]]
  /\ \A m \in Side : shut[m] \subseteq Flows /\ held[m] \subseteq Flows
  /\ \A m \in Side : inbound[m] \in Seq(Flows) /\ Len(inbound[m]) <= Backlog
  /\ \A m \in Side : closing[m] \subseteq Flows \X {"remove", "fin"}
  /\ offering \in [Side -> Flows \cup {NoFlow}]
  /\ pending \in [Side -> [IDs -> NoFIN..FINRetryCount]]
  /\ \A m \in Side : Cardinality({k \in IDs : pending[m][k] # NoFIN}) <= MaxPending
  /\ \A m \in Side : tombs[m] \subseteq IDs /\ Cardinality(tombs[m]) <= MaxTombstones
  /\ closed \in [Side -> BOOLEAN] /\ ended \in [Side -> BOOLEAN]
  /\ \A m \in Side : IsABag(chan[m]) /\ BagToSet(chan[m]) \subseteq Frames
  /\ sent \in 0..MaxData
  /\ lost \in 0..MaxLoss
  /\ finished \in [Side -> SUBSET IDs] /\ evicted \in [Side -> SUBSET IDs]

Init ==
  /\ next = [m \in Side |-> IF m = "dialing" THEN 0 ELSE 1]
  /\ table = [m \in Side |-> [k \in IDs |-> 0]]
  /\ gens = [m \in Side |-> [k \in IDs |-> 0]]
  /\ shut = [m \in Side |-> {}]
  /\ inbound = [m \in Side |-> <<>>]
  /\ held = [m \in Side |-> {}]
  /\ closing = [m \in Side |-> {}]
  /\ offering = [m \in Side |-> NoFlow]
  /\ pending = [m \in Side |-> [k \in IDs |-> NoFIN]]
  /\ tombs = [m \in Side |-> {}]
  /\ closed = [m \in Side |-> FALSE]
  /\ ended = [m \in Side |-> FALSE]
  /\ chan = [m \in Side |-> EmptyBag]
  /\ sent = 0
  /\ lost = 0
  /\ finished = [m \in Side |-> {}]
  /\ evicted = [m \in Side |-> {}]

tableVars   == <<next, table, gens>>
appVars     == <<inbound, held, closing>>
controlVars == <<pending, tombs, finished, evicted>>
lifeVars    == <<closed, ended>>

-----------------------------------------------------------------------------
One(kind, k) == SetToBag({Frame(kind, k)})

\* A channel with one more frame.
Carrying(ch, kind, k) == IF BagCardinality(ch) < MaxInFlight THEN ch (+) One(kind, k) ELSE ch

Send(m, kind, k) == chan' = [chan EXCEPT ![Peer(m)] = Carrying(@, kind, k)]
Arrived(m, kind, k) == BagIn(Frame(kind, k), chan[m])
Take(m, kind, k) == chan' = [chan EXCEPT ![m] = @ (-) One(kind, k)]

\* The half of the ID space a side allocates from.
Own(m, k) == (k % 2 = 0) = (m = "dialing")

pendingIDs(m) == {k \in IDs : pending[m][k] # NoFIN}

\* addTombstoneLocked: any entry may be the one evicted to make room.
addTombstone(S, k) ==
  IF k \in S \/ Cardinality(S) < MaxTombstones THEN {S \cup {k}}
  ELSE {(S \ {evict}) \cup {k} : evict \in S}

\* Remembering an ID, and which one it cost.
Tombstone(m, k) ==
  \E T \in addTombstone(tombs[m], k) :
    /\ tombs' = [tombs EXCEPT ![m] = T]
    /\ evicted' = [evicted EXCEPT ![m] = (@ \cup (tombs[m] \ T)) \ {k}]

\* Registering a new flow object under an ID.
NewFlow(m, k) ==
  /\ gens' = [gens EXCEPT ![m][k] = @ + 1]
  /\ table' = [table EXCEPT ![m][k] = gens[m][k] + 1]

\* Mutant: eviction by ID alone.
Unregister_ByID(m, f) == table' = [table EXCEPT ![m][f[1]] = 0]

\* Mux.remove: only if f is still the flow registered under its ID.
Unregister(m, f) ==
  table' = IF table[m][f[1]] = f[2] THEN [table EXCEPT ![m][f[1]] = 0] ELSE table

-----------------------------------------------------------------------------
(* The application's side of a flow.                                       *)

OpenStream(m) ==
  LET k == next[m] IN
  /\ m \in Openers
  /\ ~closed[m]
  /\ k <= MaxID
  /\ next' = [next EXCEPT ![m] = @ + 2]
  /\ NewFlow(m, k)
  /\ held' = [held EXCEPT ![m] = @ \cup {Flow(k, gens[m][k] + 1)}]
  /\ UNCHANGED <<shut, inbound, closing, offering, controlVars, lifeVars, chan, sent, lost>>

\* AcceptStream, which also hands over what is left in the backlog at the end.
AcceptStream(m) ==
  /\ inbound[m] # <<>>
  /\ held' = [held EXCEPT ![m] = @ \cup {Head(inbound[m])}]
  /\ inbound' = [inbound EXCEPT ![m] = Tail(@)]
  /\ UNCHANGED <<tableVars, shut, closing, offering, controlVars, lifeVars, chan, sent, lost>>

\* flow.send looks at its own closed channel, never at the table.
SendData(m, f) ==
  /\ f \in held[m] \ shut[m]
  /\ sent < MaxData
  /\ sent' = sent + 1
  /\ Send(m, "DATA", f[1])
  /\ UNCHANGED <<tableVars, shut, appVars, offering, controlVars, lifeVars, lost>>

\* flow.close, in three steps: whoever fires once first goes on to remove the flow,
Close(m, f) ==
  /\ f \in held[m] \ shut[m]
  /\ shut' = [shut EXCEPT ![m] = @ \cup {f}]
  /\ closing' = [closing EXCEPT ![m] = @ \cup {<<f, "remove">>}]
  /\ UNCHANGED <<tableVars, inbound, held, offering, controlVars, lifeVars, chan, sent, lost>>

\* ... Mux.remove ...
Remove(m, f) ==
  /\ <<f, "remove">> \in closing[m]
  /\ Unregister(m, f)
  /\ closing' = [closing EXCEPT ![m] = (@ \ {<<f, "remove">>}) \cup {<<f, "fin">>}]
  /\ UNCHANGED <<next, gens, shut, inbound, held, offering, controlVars, lifeVars, chan, sent, lost>>

\* ... and beginFIN, which sends the FIN even when it finds no slot to retry from.
beginFIN(m, f) ==
  LET k == f[1] IN
  /\ <<f, "fin">> \in closing[m]
  /\ pending' = IF ~closed[m] /\ Cardinality(pendingIDs(m)) < MaxPending
                THEN [pending EXCEPT ![m][k] = 0] ELSE pending
  /\ Send(m, "FIN", k)
  /\ closing' = [closing EXCEPT ![m] = @ \ {<<f, "fin">>}]
  /\ UNCHANGED <<tableVars, shut, inbound, held, offering, tombs, finished, evicted, lifeVars, sent, lost>>

-----------------------------------------------------------------------------
(* The receive loop.                                                       *)

Receiving(m) == ~ended[m] /\ offering[m] = NoFlow

\* Mutant: a FIN leaves no tombstone.
takeAndTombstone_OnlyTake(m, k) ==
  /\ shut' = [shut EXCEPT ![m] = @ \cup ({Flow(k, table[m][k])} \ {Flow(k, 0)})]
  /\ table' = [table EXCEPT ![m][k] = 0]
  /\ UNCHANGED <<tombs, evicted>>

\* The flow under the ID, if any, leaves the table, and the ID is remembered.
takeAndTombstone(m, k) ==
  /\ Tombstone(m, k)
  /\ shut' = [shut EXCEPT ![m] = @ \cup ({Flow(k, table[m][k])} \ {Flow(k, 0)})]
  /\ table' = [table EXCEPT ![m][k] = 0]

\* Mutant: a FIN is answered with a FIN.
HandleFIN_AnswersFIN(m, k) ==
  /\ Receiving(m)
  /\ Arrived(m, "FIN", k)
  /\ takeAndTombstone(m, k)
  /\ chan' = [chan EXCEPT ![m] = @ (-) One("FIN", k), ![Peer(m)] = Carrying(@, "FIN", k)]
  /\ finished' = [finished EXCEPT ![m] = @ \cup {k}]
  /\ UNCHANGED <<next, gens, appVars, offering, pending, lifeVars, sent, lost>>

\* A FIN for any ID, known or not, on an open mux or a closed one, is remembered
\* and acknowledged.
HandleFIN(m, k) ==
  /\ Receiving(m)
  /\ Arrived(m, "FIN", k)
  /\ takeAndTombstone(m, k)
  /\ chan' = [chan EXCEPT ![m] = @ (-) One("FIN", k), ![Peer(m)] = Carrying(@, "FIN_ACK", k)]
  /\ finished' = [finished EXCEPT ![m] = @ \cup {k}]
  /\ UNCHANGED <<next, gens, appVars, offering, pending, lifeVars, sent, lost>>

HandleFINAck(m, k) ==
  /\ Receiving(m)
  /\ Arrived(m, "FIN_ACK", k)
  /\ Take(m, "FIN_ACK", k)
  /\ pending' = [pending EXCEPT ![m][k] = NoFIN]
  /\ UNCHANGED <<tableVars, shut, appVars, offering, tombs, finished, evicted, lifeVars, sent, lost>>

\* Mutant: lookupOrCreate without the namespace check.
Creates_AnyID(m, k) == ~closed[m] /\ table[m][k] = 0 /\ k \notin tombs[m]

\* Whether lookupOrCreate makes a flow for DATA naming k.
Creates(m, k) == ~closed[m] /\ table[m][k] = 0 /\ k \notin tombs[m] /\ ~Own(m, k)

\* DATA reaches the flow it names, starts it, or is dropped.
HandleData(m, k) ==
  /\ Receiving(m)
  /\ Arrived(m, "DATA", k)
  /\ Take(m, "DATA", k)
  /\ \/ /\ Creates(m, k)
        /\ NewFlow(m, k)
        /\ offering' = [offering EXCEPT ![m] = Flow(k, gens[m][k] + 1)]
     \/ /\ ~Creates(m, k)
        /\ UNCHANGED <<gens, table, offering>>
  /\ UNCHANGED <<next, shut, appVars, controlVars, lifeVars, sent, lost>>

\* Mutant: a flow nobody can accept stays registered.
Offer_KeepsDropped(m) ==
  LET f == offering[m] IN
  /\ f # NoFlow
  /\ offering' = [offering EXCEPT ![m] = NoFlow]
  /\ inbound' = IF Len(inbound[m]) < Backlog THEN [inbound EXCEPT ![m] = Append(@, f)] ELSE inbound
  /\ UNCHANGED <<table, next, gens, shut, held, closing, controlVars, lifeVars, chan, sent, lost>>

\* A fresh flow is queued for AcceptStream, or forgotten when the backlog is full.
Offer(m) ==
  LET f == offering[m] IN
  /\ f # NoFlow
  /\ offering' = [offering EXCEPT ![m] = NoFlow]
  /\ \/ /\ Len(inbound[m]) < Backlog
        /\ inbound' = [inbound EXCEPT ![m] = Append(@, f)]
        /\ UNCHANGED table
     \/ /\ Len(inbound[m]) >= Backlog
        /\ Unregister(m, f)
        /\ UNCHANGED inbound
  /\ UNCHANGED <<next, gens, shut, held, closing, controlVars, lifeVars, chan, sent, lost>>

-----------------------------------------------------------------------------
(* Maintenance.  A pass over several due entries is as many passes over    *)
(* one each.                                                               *)

\* TombstoneTTL is a minute, longer than any datagram stays under way.
ExpireTombstone(m, k) ==
  /\ ~closed[m]
  /\ k \in tombs[m]
  /\ ~Arrived(m, "DATA", k)
  /\ tombs' = [tombs EXCEPT ![m] = @ \ {k}]
  /\ UNCHANGED <<tableVars, shut, appVars, offering, pending, finished, evicted, lifeVars, chan, sent, lost>>

\* Mutant: the initial FIN counted as a retry.
RetryFIN_OneShort(m, k) ==
  /\ ~closed[m]
  /\ pending[m][k] # NoFIN
  /\ \/ /\ pending[m][k] + 1 >= FINRetryCount
        /\ pending' = [pending EXCEPT ![m][k] = NoFIN]
        /\ UNCHANGED chan
     \/ /\ pending[m][k] + 1 < FINRetryCount
        /\ pending' = [pending EXCEPT ![m][k] = @ + 1]
        /\ Send(m, "FIN", k)
  /\ UNCHANGED <<tableVars, shut, appVars, offering, tombs, finished, evicted, lifeVars, sent, lost>>

\* Mutant: retries are counted and never given up.
RetryFIN_Forever(m, k) ==
  /\ ~closed[m]
  /\ pending[m][k] # NoFIN
  /\ pending' = [pending EXCEPT ![m][k] = @ + 1]
  /\ Send(m, "FIN", k)
  /\ UNCHANGED <<tableVars, shut, appVars, offering, tombs, finished, evicted, lifeVars, sent, lost>>

RetryFIN(m, k) ==
  /\ ~closed[m]
  /\ pending[m][k] # NoFIN
  /\ \/ /\ pending[m][k] >= FINRetryCount
        /\ pending' = [pending EXCEPT ![m][k] = NoFIN]
        /\ UNCHANGED chan
     \/ /\ pending[m][k] < FINRetryCount
        /\ pending' = [pending EXCEPT ![m][k] = @ + 1]
        /\ Send(m, "FIN", k)
  /\ UNCHANGED <<tableVars, shut, appVars, offering, tombs, finished, evicted, lifeVars, sent, lost>>

\* A flow idle for IdleTimeout is closed as if by a FIN, and the peer told.
ReapIdle(m, k) ==
  /\ ~closed[m]
  /\ table[m][k] # 0
  /\ table' = [table EXCEPT ![m][k] = 0]
  /\ shut' = [shut EXCEPT ![m] = @ \cup {Flow(k, table[m][k])}]
  /\ Tombstone(m, k)
  /\ pending' = IF Cardinality(pendingIDs(m)) < MaxPending
                THEN [pending EXCEPT ![m][k] = 0] ELSE pending
  /\ Send(m, "FIN", k)
  /\ UNCHANGED <<next, gens, appVars, offering, finished, lifeVars, sent, lost>>

-----------------------------------------------------------------------------
(* The end of a mux, and the channel.                                      *)

\* shutAll, with maintenance already stopped.
shutAll(m) ==
  /\ closed' = [closed EXCEPT ![m] = TRUE]
  /\ shut' = [shut EXCEPT ![m] = @ \cup {Flow(k, table[m][k]) : k \in {i \in IDs : table[m][i] # 0}}]
  /\ table' = [table EXCEPT ![m] = [k \in IDs |-> 0]]
  /\ pending' = [pending EXCEPT ![m] = [k \in IDs |-> NoFIN]]
  /\ tombs' = [tombs EXCEPT ![m] = {}]

\* Close leaves the receive loop running: only the channel can end it.
MuxClose(m) ==
  /\ ~closed[m]
  /\ shutAll(m)
  /\ UNCHANGED <<next, gens, appVars, offering, finished, evicted, ended, chan, sent, lost>>

\* Recv returns an error.
RecvFails(m) ==
  /\ Receiving(m)
  /\ shutAll(m)
  /\ ended' = [ended EXCEPT ![m] = TRUE]
  /\ UNCHANGED <<next, gens, appVars, offering, finished, evicted, chan, sent, lost>>

Lose(m, fr) ==
  /\ BagIn(fr, chan[m])
  /\ lost < MaxLoss
  /\ lost' = lost + 1
  /\ chan' = [chan EXCEPT ![m] = @ (-) SetToBag({fr})]
  /\ UNCHANGED <<tableVars, shut, appVars, offering, controlVars, lifeVars, sent>>

-----------------------------------------------------------------------------
Handle(m) == \E k \in IDs : HandleFIN(m, k) \/ HandleFINAck(m, k) \/ HandleData(m, k)
CloseStep(m) == \E c \in closing[m] : Remove(m, c[1]) \/ beginFIN(m, c[1])

Next ==
  \E m \in Side :
    \/ OpenStream(m) \/ AcceptStream(m)
    \/ \E f \in held[m] : SendData(m, f) \/ Close(m, f)
    \/ CloseStep(m) \/ Handle(m) \/ Offer(m)
    \/ \E k \in IDs : ExpireTombstone(m, k) \/ RetryFIN(m, k) \/ ReapIdle(m, k)
    \/ MuxClose(m) \/ RecvFails(m)
    \/ \E fr \in BagToSet(chan[m]) : Lose(m, fr)

\* The receive and maintenance loops run and a close once begun goes on.  That a
\* flow is ever found idle is not assumed.
Fairness ==
  \A m \in Side :
    /\ WF_vars(CloseStep(m)) /\ WF_vars(Handle(m)) /\ WF_vars(Offer(m))
    /\ \A k \in IDs : WF_vars(ExpireTombstone(m, k)) /\ WF_vars(RetryFIN(m, k))

Spec == Init /\ [][Next]_vars /\ Fairness

-----------------------------------------------------------------------------
(* Properties.                                                             *)

\* A flow the application holds, or is about to be given, and that nothing has
\* shut, is the one registered under its ID: what arrives for it reaches it, and
\* FIN, idle reaping and shutAll can all still release its reader.  Late closes of
\* an earlier flow do not evict it (Mux.remove's identity check).
OpenFlowsRegistered ==
  \A m \in Side : \A f \in (held[m] \cup {inbound[m][i] : i \in DOMAIN inbound[m]}) \ shut[m] :
    table[m][f[1]] = f[2]

\* Conversely no flow is registered that nobody has or will be given: one dropped
\* at a full backlog can be started afresh by the peer's next DATA.
NoHiddenFlow ==
  \A m \in Side, k \in IDs : table[m][k] # 0 =>
    Flow(k, table[m][k]) \in held[m] \cup {offering[m]} \cup {inbound[m][i] : i \in DOMAIN inbound[m]}

\* An ID a side allocates names one flow for ever: late DATA for a flow its opener
\* has closed never makes a second (lookupOrCreate's namespace check).
OwnIDsNotReused == \A m \in Side, k \in IDs : Own(m, k) => gens[m][k] <= 1

\* Once a side has handled the FIN for an ID there is no flow under it again: DATA
\* the FIN overtook stays dead for as long as it can be under way.  The one way back
\* is that a full table evicted the ID's tombstone for another's (addTombstoneLocked).
FinishedStaysDead == \A m \in Side : \A k \in finished[m] \ evicted[m] : table[m][k] = 0

\* ... which takes more flows than the table has room for: until a side has met more
\* than MaxTombstones IDs, no finished flow comes back at all.
Met(m) == {k \in IDs : gens[m][k] # 0} \cup finished[m]
FewFlowsStayDead ==
  \A m \in Side :
    Cardinality(Met(m)) <= MaxTombstones => \A k \in finished[m] : table[m][k] = 0

\* A close with a pending slot reaches the peer without the help of idle reaping
\* as long as the channel loses no more frames than there are retransmissions.
CloseReachesPeer ==
  \A m \in Side, k \in IDs :
    pending[m][k] # NoFIN ~> table[Peer(m)][k] = 0 \/ closed[m]

\* Control traffic dies out: once flows are found idle, an open mux comes to hold no
\* flow, no pending FIN and no tombstone, however many frames are lost.
ReapingRuns == \A m \in Side, k \in IDs : WF_vars(ReapIdle(m, k))
Quiesces ==
  ReapingRuns => <>[](\A m \in Side : /\ table[m] = [k \in IDs |-> 0]
                                      /\ pendingIDs(m) = {}
                                      /\ tombs[m] = {} \/ closed[m])

\* Config.TombstoneTTL "keeps a recently closed peer flow from being resurrected by
\* late DATA", also one the application closed on this side.
LocalCloseSticks ==
  \A m \in Side : \A c \in closing[m] : table[m][c[1][1]] \in {0, c[1][2]}
=============================================================================
