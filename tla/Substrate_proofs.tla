-------------------------- MODULE Substrate_proofs ---------------------------
(***************************************************************************)
(* Theorems about Substrate, for any cascade that ends with QUIC, any      *)
(* number of buffers and any number of deadlines.                          *)
(***************************************************************************)
EXTENDS Substrate, TLAPS

\* Every buffer is somewhere, also once the pump has stopped with one in its hands.
BuffersBounded == free + packets <= Queue

\* The callback of the current generation exists only for a deadline still to come.
TimersCurrent == limit # "future" => gen \notin timers

\* A rung has begun only after every rung above it has ended, none of them reporting the
\* substrate given up.
InTurn ==
  \A q, r \in Rungs : q < r /\ phase[r] # "idle" => phase[q] = "ended" /\ verdict[q] # "abandoned"

\* A rung reads from its start until its close is over.
ReadersStand ==
  \A r \in Rungs : phase[r] \in {"idle", "ended"} => reader[r] \in {"none", "out"}

\* A rung's verdict is given when its close has waited for the reader.
VerdictsLate ==
  \A r \in Rungs :
    /\ verdict[r] # "none" => phase[r] \in {"draining", "ended"}
    /\ verdict[r] = "unreported" => IsQUIC(r)

GivenUp(r) == verdict[r] \in {"abandoned", "unreported"}

\* Somebody answers for a deadline that is set: a QUIC transport, a close that is still
\* interrupting its reader, or one that gave the substrate up.
Setter(r) == (phase[r] = "up" /\ IsQUIC(r)) \/ phase[r] \in {"joining", "waiting"} \/ GivenUp(r)
DeadlineOwned == limit # "none" => \E r \in Rungs : Setter(r)

\* The substrate is closed by its owner, after the last rung, or by a rung giving it up.
ClosedBySomeone ==
  /\ done => \A r \in Rungs : phase[r] \in {"idle", "ended"}
  /\ open \/ done \/ \E r \in Rungs : GivenUp(r)

\* The conn: its pump, its buffers and its deadline.
ConnInv == TypeOK /\ BuffersBounded /\ DeadlineHonoured /\ TimersCurrent

\* The rungs on it.
RungInv == InTurn /\ ReadersStand /\ VerdictsLate /\ DeadlineOwned /\ ClosedBySomeone

IInv == ConnInv /\ RungInv

-----------------------------------------------------------------------------
(* The actions by the state they touch.                                    *)

PumpAction == PumpStep \/ PumpRead

\* Steps that install a deadline.
SetAction(r) ==
  \/ \E t \in {"none", "future"} : QUICSetsDeadline(r, t)
  \/ BeginClose(r) \/ TransportJoined(r) \/ Interrupt(r) \/ HandBack(r)

\* Steps of a rung that leave the deadline alone.
RungAction(r) == Start(r) \/ StartFails(r) \/ Abandon(r) \/ Closed(r)

AgentAction == AgentStops \/ AgentCloses

\* What set installs keeps the types of the deadline, and is what it says: no timer
\* callback of an earlier generation counts for it (deadlineConn.set).
LEMMA SetInstalls ==
  ASSUME TypeOK, TimersCurrent, NEW t \in {"none", "future", "past"}, set(t)
  PROVE  /\ gen' \in Nat /\ chan' \in Nat
         /\ expired' \subseteq 0..chan'
         /\ timers' \subseteq 1..gen'
         /\ limit' \in {"none", "future", "past"}
         /\ DeadlineHonoured' /\ TimersCurrent'
<1>1. gen \in Nat /\ chan \in Nat /\ expired \subseteq 0..chan /\ timers \subseteq 1..gen
  BY DEF TypeOK
<1>2. gen' = gen + 1 /\ limit' = t /\ chan' \in Nat /\ chan <= chan'
  BY <1>1 DEF set
<1>3. gen + 1 \notin timers
  BY <1>1
<1>4. timers' \subseteq timers \cup {gen + 1} /\ (gen + 1 \in timers' <=> t = "future")
  BY <1>1, <1>3 DEF set
<1>5. expired' \subseteq 0..chan' /\ (chan' \in expired' <=> t = "past")
  BY <1>1 DEF set, fired
<1>6. timers' \subseteq 1..gen'
  BY <1>1, <1>2, <1>4
<1>7. DeadlineHonoured' /\ TimersCurrent'
  BY <1>2, <1>4, <1>5 DEF DeadlineHonoured, TimersCurrent, fired
<1> QED
  BY <1>1, <1>2, <1>5, <1>6, <1>7

\* withDeadlines establishes the invariant.
LEMMA InitInv == ASSUME Init PROVE IInv
<1> USE SubstrateAssumption
<1>1. TypeOK
  <2>1. free \in 0..Queue /\ packets \in 0..Queue /\ sets \in 0..MaxSets /\ BuffersConserved
    BY DEF Init, BuffersConserved
  <2>2. expired \subseteq 0..chan /\ timers \subseteq 1..gen /\ gen \in Nat /\ chan \in Nat
    BY DEF Init
  <2> QED
    BY <2>1, <2>2 DEF Init, TypeOK, Errors
<1>2. BuffersBounded /\ DeadlineHonoured /\ TimersCurrent
  BY DEF Init, BuffersBounded, DeadlineHonoured, TimersCurrent, fired
<1>3. RungInv
  BY DEF Init, RungInv, InTurn, ReadersStand, VerdictsLate, DeadlineOwned, ClosedBySomeone, GivenUp
<1> QED
  BY <1>1, <1>2, <1>3 DEF IInv, ConnInv

-----------------------------------------------------------------------------
(* The conn.                                                               *)

\* The pump keeps the account of its buffers and touches nothing else.
LEMMA PumpInv == ASSUME IInv, PumpAction PROVE IInv'
<1> USE SubstrateAssumption DEF IInv, ConnInv
<1>1. UNCHANGED <<done, open, deadlineVars, sets, rungVars, readerVars>>
  BY DEF PumpAction, PumpStep, PumpTake, PumpRead, PumpReadEnds, PumpOffer
<1>2. /\ pump' \in {"take", "read", "offer", "stopped"}
      /\ free' \in 0..Queue /\ packets' \in 0..Queue
      /\ readErr' \in {"none", "closed", "failed"}
      /\ BuffersConserved' /\ BuffersBounded'
  <2> USE DEF TypeOK, BuffersConserved, BuffersBounded, PumpStops
  <2>1. CASE PumpTake  BY <2>1 DEF PumpTake
  <2>2. CASE PumpRead  BY <2>2 DEF PumpRead
  <2>3. CASE PumpReadEnds  BY <2>3 DEF PumpReadEnds
  <2>4. CASE PumpOffer  BY <2>4 DEF PumpOffer
  <2> QED  BY <2>1, <2>2, <2>3, <2>4 DEF PumpAction, PumpStep
<1>3. TypeOK'
  BY <1>1, <1>2 DEF TypeOK, deadlineVars, rungVars, readerVars
<1>4. DeadlineHonoured' /\ TimersCurrent'
  BY <1>1 DEF DeadlineHonoured, TimersCurrent, fired, deadlineVars
<1>5. RungInv'
  BY <1>1 DEF RungInv, InTurn, ReadersStand, VerdictsLate, DeadlineOwned, ClosedBySomeone,
              Setter, GivenUp, deadlineVars, rungVars, readerVars
<1> QED
  BY <1>2, <1>3, <1>4, <1>5

\* A timer callback fires the deadline of its own generation or nothing.
LEMMA ExpireInv == ASSUME IInv, NEW g \in timers, expire(g) PROVE IInv'
<1> USE DEF IInv, ConnInv
<1>1. UNCHANGED <<connVars, open, gen, chan, limit, sets, rungVars, readerVars>>
      /\ timers' = timers \ {g}
      /\ expired' = IF gen = g THEN expired \cup {chan} ELSE expired
  BY DEF expire
<1>2. TypeOK'
  BY <1>1 DEF TypeOK, BuffersConserved, connVars, rungVars, readerVars
<1>3. BuffersBounded'
  BY <1>1 DEF BuffersBounded, connVars
<1>4. DeadlineHonoured' /\ TimersCurrent'
  BY <1>1 DEF DeadlineHonoured, TimersCurrent, fired
<1>5. RungInv'
  BY <1>1 DEF RungInv, InTurn, ReadersStand, VerdictsLate, DeadlineOwned, ClosedBySomeone,
              Setter, GivenUp, connVars, rungVars, readerVars
<1> QED
  BY <1>2, <1>3, <1>4, <1>5

-----------------------------------------------------------------------------
(* The readers.                                                            *)

\* A reading goroutine takes datagrams and errors and gives buffers back; only a rung
\* that stands, or is being closed, has one that moves.
LEMMA ReaderInv == ASSUME IInv, NEW r \in Rungs, ReaderStep(r) PROVE IInv'
<1> USE DEF IInv, ConnInv
<1>1. UNCHANGED <<pump, readErr, done, open, deadlineVars, sets, rungVars>>
  BY DEF ReaderStep, CallRead, ReadParks, ReadTakes, ReadReleased, Delivered, ReceiveFails,
         ReadFromFails, connVars
<1>2. /\ free' \in 0..Queue /\ packets' \in 0..Queue
      /\ BuffersConserved' /\ BuffersBounded'
  <2>1. CASE UNCHANGED <<free, packets>>
    BY <1>1, <2>1 DEF TypeOK, BuffersConserved, BuffersBounded
  <2>2. CASE ReadTakes(r)
    BY <1>1, <2>2, SubstrateAssumption DEF ReadTakes, TypeOK, BuffersConserved, BuffersBounded
  <2> QED
    BY <2>1, <2>2 DEF ReaderStep, CallRead, ReadParks, ReadReleased, Delivered, ReceiveFails,
                      ReadFromFails, connVars
<1>3. /\ reader' \in [Rungs -> {"none", "enter", "reading", "parked", "failed", "got", "out"}]
      /\ on' \in [Rungs -> Nat]
      /\ err' \in [Rungs -> Errors]
      /\ exited' \in [Rungs -> BOOLEAN]
  <2> USE DEF TypeOK, Reader, ReadFails, ReportsClosed, Errors
  <2>1. CASE CallRead(r)  BY <2>1 DEF CallRead
  <2>2. CASE ReadParks(r)  BY <2>2 DEF ReadParks
  <2>3. CASE ReadTakes(r)  BY <2>3 DEF ReadTakes
  <2>4. CASE ReadReleased(r)  BY <2>4 DEF ReadReleased
  <2>5. CASE Delivered(r)  BY <2>5 DEF Delivered
  <2>6. CASE ReceiveFails(r)  BY <2>6 DEF ReceiveFails
  <2>7. CASE ReadFromFails(r)  BY <2>7 DEF ReadFromFails
  <2> QED  BY <2>1, <2>2, <2>3, <2>4, <2>5, <2>6, <2>7 DEF ReaderStep
<1>4. TypeOK'
  BY <1>1, <1>2, <1>3 DEF TypeOK, deadlineVars, rungVars
<1>5. DeadlineHonoured' /\ TimersCurrent'
  BY <1>1 DEF DeadlineHonoured, TimersCurrent, fired, deadlineVars
<1>6. reader[r] \notin {"none", "out"} /\ \A q \in Rungs \ {r} : reader'[q] = reader[q]
  BY DEF ReaderStep, CallRead, ReadParks, ReadTakes, ReadReleased, Delivered, ReceiveFails,
         ReadFromFails, Reader, ReadFails, ReportsClosed, TypeOK
<1>7. ReadersStand'
  BY <1>1, <1>6 DEF RungInv, ReadersStand, rungVars
<1>8. RungInv'
  BY <1>1, <1>7 DEF RungInv, InTurn, VerdictsLate, DeadlineOwned, ClosedBySomeone,
              Setter, GivenUp, deadlineVars, rungVars
<1> QED
  BY <1>2, <1>4, <1>5, <1>8

-----------------------------------------------------------------------------
(* The rungs.                                                              *)

\* A rung that moves is the only one that is neither to come nor over.
LEMMA OneAtATime ==
  ASSUME InTurn, NEW q \in Rungs, NEW r \in Rungs,
         phase[q] \notin {"idle", "ended"}, phase[r] \notin {"idle", "ended"}
  PROVE  q = r
<1>1. q \in Int /\ r \in Int
  BY SubstrateAssumption DEF Rungs
<1> QED
  BY <1>1 DEF InTurn

\* Closing a rung sets and lifts deadlines, and hands the substrate back with none.
LEMMA SetInv == ASSUME IInv, NEW r \in Rungs, SetAction(r) PROVE IInv'
<1> USE DEF IInv, ConnInv
<1>1. UNCHANGED <<connVars, open, readerVars>>
  BY DEF SetAction, QUICSetsDeadline, BeginClose, TransportJoined, Interrupt, HandBack
<1>2. \/ UNCHANGED deadlineVars
      \/ \E t \in {"none", "future", "past"} : set(t)
  BY DEF SetAction, QUICSetsDeadline, BeginClose, TransportJoined, Interrupt, HandBack
<1>3. /\ gen' \in Nat /\ chan' \in Nat
      /\ expired' \subseteq 0..chan'
      /\ timers' \subseteq 1..gen'
      /\ limit' \in {"none", "future", "past"}
      /\ DeadlineHonoured' /\ TimersCurrent'
  <2>1. CASE UNCHANGED deadlineVars
    BY <2>1 DEF TypeOK, DeadlineHonoured, TimersCurrent, fired, deadlineVars
  <2>2. CASE \E t \in {"none", "future", "past"} : set(t)
    BY <2>2, SetInstalls
  <2> QED  BY <1>2, <2>1, <2>2
<1>4. /\ sets' \in 0..MaxSets
      /\ phase' \in [Rungs -> {"idle", "up", "joining", "detaching", "waiting", "draining", "ended"}]
      /\ verdict' \in [Rungs -> {"none", "clean", "abandoned", "unreported"}]
  <2>1. CASE \E t \in {"none", "future"} : QUICSetsDeadline(r, t)
    BY <2>1, SubstrateAssumption DEF QUICSetsDeadline, TypeOK, rungVars
  <2>2. CASE BeginClose(r)
    BY <2>2 DEF BeginClose, Move, TypeOK
  <2>3. CASE TransportJoined(r) \/ Interrupt(r) \/ HandBack(r)
    BY <2>3 DEF TransportJoined, Interrupt, HandBack, Move, Report, TypeOK
  <2> QED  BY <2>1, <2>2, <2>3 DEF SetAction
<1>5. TypeOK' /\ BuffersBounded'
  BY <1>1, <1>3, <1>4 DEF TypeOK, BuffersConserved, BuffersBounded, connVars, readerVars
<1>6. /\ phase[r] \in {"up", "joining", "detaching", "waiting"}
      /\ phase'[r] \in {"up", "joining", "detaching", "waiting", "draining"}
      /\ \A q \in Rungs \ {r} : phase'[q] = phase[q] /\ verdict'[q] = verdict[q]
      /\ verdict'[r] = verdict[r] \/ (verdict'[r] = "clean" /\ phase'[r] = "draining")
  BY DEF SetAction, QUICSetsDeadline, BeginClose, TransportJoined, Interrupt, HandBack, Move, Report,
         TypeOK, rungVars
<1>7. verdict[r] = "none"
  BY <1>6 DEF RungInv, VerdictsLate, TypeOK
<1>8. InTurn'
  BY <1>6, <1>7 DEF RungInv, InTurn
<1>9. ReadersStand' /\ VerdictsLate'
  BY <1>1, <1>6, <1>7 DEF RungInv, ReadersStand, VerdictsLate, readerVars
<1>10. DeadlineOwned'
  <2>1. CASE \E t \in {"none", "future"} : QUICSetsDeadline(r, t)
    BY <2>1 DEF QUICSetsDeadline, DeadlineOwned, Setter, rungVars
  <2>2. CASE BeginClose(r) /\ IsQUIC(r)
    <3>1. phase'[r] = "joining"
      BY <2>2 DEF BeginClose, Move, TypeOK
    <3> QED  BY <3>1 DEF DeadlineOwned, Setter
  <2>3. CASE BeginClose(r) /\ ~IsQUIC(r)
    <3>1. limit' = limit
      BY <2>3 DEF BeginClose, deadlineVars
    <3>2. ASSUME NEW q \in Rungs, Setter(q) PROVE Setter(q)'
      BY <2>3, <1>6, <1>7, <3>2 DEF Setter, GivenUp, BeginClose
    <3> QED  BY <3>1, <3>2 DEF RungInv, DeadlineOwned
  <2>4. CASE TransportJoined(r) \/ HandBack(r)
    BY <2>4 DEF TransportJoined, HandBack, set, DeadlineOwned
  <2>5. CASE Interrupt(r)
    <3>1. phase'[r] = "waiting"
      BY <2>5 DEF Interrupt, Move, TypeOK
    <3> QED  BY <3>1 DEF DeadlineOwned, Setter
  <2> QED  BY <2>1, <2>2, <2>3, <2>4, <2>5 DEF SetAction
<1>11. ClosedBySomeone'
  BY <1>1, <1>6, <1>7 DEF RungInv, ClosedBySomeone, GivenUp, connVars
<1> QED
  BY <1>3, <1>5, <1>8, <1>9, <1>10, <1>11 DEF RungInv

\* A rung starts behind rungs that are over, ends with its reader out, and is the one to
\* answer for a substrate it closed.
LEMMA RungsInv == ASSUME IInv, NEW r \in Rungs, RungAction(r) PROVE IInv'
<1> USE DEF IInv, ConnInv
<1>1. UNCHANGED <<connVars, deadlineVars, sets>>
  BY DEF RungAction, Start, StartFails, Abandon, Closed
<1>2. /\ open' \in BOOLEAN
      /\ phase' \in [Rungs -> {"idle", "up", "joining", "detaching", "waiting", "draining", "ended"}]
      /\ verdict' \in [Rungs -> {"none", "clean", "abandoned", "unreported"}]
      /\ reader' \in [Rungs -> {"none", "enter", "reading", "parked", "failed", "got", "out"}]
      /\ UNCHANGED <<on, err, exited>>
  BY DEF RungAction, Start, StartFails, Abandon, Closed, Move, Report, Reader, TypeOK, rungVars,
         readerVars
<1>3. TypeOK' /\ BuffersBounded' /\ DeadlineHonoured' /\ TimersCurrent'
  BY <1>1, <1>2 DEF TypeOK, BuffersConserved, BuffersBounded, DeadlineHonoured, TimersCurrent, fired,
                    connVars, deadlineVars
<1>4. \A q \in Rungs \ {r} : phase'[q] = phase[q] /\ verdict'[q] = verdict[q] /\ reader'[q] = reader[q]
  BY DEF RungAction, Start, StartFails, Abandon, Closed, Move, Report, Reader, TypeOK, rungVars,
         readerVars
<1>5. r \in Int /\ \A q \in Rungs : q \in Int /\ q >= 1
  BY SubstrateAssumption DEF Rungs
<1>6. CASE Start(r)
  <2>1. /\ phase[r] = "idle" /\ phase'[r] = "up" /\ reader'[r] = "enter" /\ verdict' = verdict
        /\ ~done /\ open' = open
        /\ \A q \in Rungs : q < r => phase[q] = "ended" /\ verdict[q] # "abandoned"
    BY <1>6, <1>5 DEF Start, CanStart, Move, Reader, TypeOK, Rungs
  <2>2. InTurn'
    BY <1>4, <1>5, <2>1 DEF RungInv, InTurn
  <2>3. ReadersStand' /\ VerdictsLate'
    BY <1>4, <2>1 DEF RungInv, ReadersStand, VerdictsLate
  <2>4. DeadlineOwned'
    BY <1>1, <1>4, <2>1 DEF RungInv, DeadlineOwned, Setter, GivenUp, deadlineVars
  <2>5. ClosedBySomeone'
    BY <1>1, <2>1 DEF RungInv, ClosedBySomeone, GivenUp, connVars
  <2> QED  BY <1>3, <2>2, <2>3, <2>4, <2>5 DEF RungInv
<1>7. CASE StartFails(r)
  <2>1. /\ phase[r] = "idle" /\ phase'[r] = "ended" /\ reader' = reader /\ verdict'[r] = "clean"
        /\ ~done /\ open' = open
        /\ \A q \in Rungs : q < r => phase[q] = "ended" /\ verdict[q] # "abandoned"
    BY <1>7, <1>5 DEF StartFails, CanStart, Move, Report, TypeOK, Rungs, readerVars
  <2>2. InTurn'
    BY <1>4, <1>5, <2>1 DEF RungInv, InTurn
  <2>3. ReadersStand' /\ VerdictsLate' /\ verdict[r] = "none"
    BY <1>4, <2>1 DEF RungInv, ReadersStand, VerdictsLate
  <2>4. DeadlineOwned'
    BY <1>1, <1>4, <2>1, <2>3 DEF RungInv, DeadlineOwned, Setter, GivenUp, deadlineVars
  <2>5. ClosedBySomeone'
    BY <1>1, <1>4, <2>1, <2>3 DEF RungInv, ClosedBySomeone, GivenUp, connVars
  <2> QED  BY <1>3, <2>2, <2>3, <2>4, <2>5 DEF RungInv
<1>8. CASE Abandon(r)
  <2>1. /\ phase[r] = "waiting" /\ phase'[r] = "draining" /\ reader' = reader /\ GivenUp(r)'
        /\ verdict'[r] = "unreported" => IsQUIC(r)
    BY <1>8 DEF Abandon, Move, Report, GivenUp, TypeOK, readerVars
  <2>2. InTurn'
    BY <1>4, <1>5, <2>1 DEF RungInv, InTurn
  <2>3. ReadersStand' /\ VerdictsLate'
    BY <1>4, <2>1 DEF RungInv, ReadersStand, VerdictsLate
  <2>4. DeadlineOwned'
    BY <2>1 DEF DeadlineOwned, Setter
  <2>5. ClosedBySomeone'
    BY <1>1, <1>4, <2>1 DEF RungInv, ClosedBySomeone, connVars
  <2> QED  BY <1>3, <2>2, <2>3, <2>4, <2>5 DEF RungInv
<1>9. CASE Closed(r)
  <2>1. /\ phase[r] = "draining" /\ phase'[r] = "ended" /\ reader' = reader /\ reader[r] = "out"
        /\ verdict' = verdict /\ open' = open
    BY <1>9 DEF Closed, Move, TypeOK, readerVars
  <2>2. InTurn'
    BY <1>4, <1>5, <2>1 DEF RungInv, InTurn
  <2>3. ReadersStand' /\ VerdictsLate'
    BY <1>4, <2>1 DEF RungInv, ReadersStand, VerdictsLate
  <2>4. DeadlineOwned'
    BY <1>1, <1>4, <2>1 DEF RungInv, DeadlineOwned, Setter, GivenUp, deadlineVars
  <2>5. ClosedBySomeone'
    BY <1>1, <1>4, <2>1 DEF RungInv, ClosedBySomeone, GivenUp, connVars
  <2> QED  BY <1>3, <2>2, <2>3, <2>4, <2>5 DEF RungInv
<1> QED
  BY <1>6, <1>7, <1>8, <1>9 DEF RungAction

\* The agent closes the substrate behind the last rung.
LEMMA AgentInv == ASSUME IInv, AgentAction PROVE IInv'
<1> USE DEF IInv, ConnInv
<1>1. UNCHANGED <<pump, free, packets, readErr, deadlineVars, sets, rungVars, readerVars>>
      /\ done' = TRUE /\ open' \in {open, FALSE}
      /\ \A r \in Rungs : phase[r] \in {"idle", "ended"}
  BY DEF AgentAction, AgentStops, AgentCloses, connVars, RungInv, ClosedBySomeone
<1>2. TypeOK' /\ BuffersBounded' /\ DeadlineHonoured' /\ TimersCurrent'
  BY <1>1 DEF TypeOK, BuffersConserved, BuffersBounded, DeadlineHonoured, TimersCurrent, fired,
              deadlineVars, rungVars, readerVars
<1>3. RungInv'
  BY <1>1 DEF RungInv, InTurn, ReadersStand, VerdictsLate, DeadlineOwned, ClosedBySomeone,
              Setter, GivenUp, deadlineVars, rungVars, readerVars
<1> QED
  BY <1>2, <1>3

\* Every step, and every stuttering step, preserves the invariant.
LEMMA StepInv == IInv /\ [Next]_vars => IInv'
<1> SUFFICES ASSUME IInv, [Next]_vars PROVE IInv'
  OBVIOUS
<1>1. CASE UNCHANGED vars
  BY <1>1 DEF IInv, ConnInv, RungInv, TypeOK, BuffersConserved, BuffersBounded, DeadlineHonoured,
    TimersCurrent, fired, InTurn, ReadersStand, VerdictsLate, DeadlineOwned, ClosedBySomeone,
    Setter, GivenUp, vars, connVars, deadlineVars, rungVars, readerVars
<1>2. CASE PumpStep \/ PumpRead
  BY <1>2, PumpInv DEF PumpAction
<1>3. CASE \E g \in timers : expire(g)
  BY <1>3, ExpireInv
<1>4. ASSUME NEW r \in Rungs, ReaderStep(r) PROVE IInv'
  BY <1>4, ReaderInv
<1>5. ASSUME NEW r \in Rungs, SetAction(r) PROVE IInv'
  BY <1>5, SetInv
<1>6. ASSUME NEW r \in Rungs, RungAction(r) PROVE IInv'
  BY <1>6, RungsInv
<1>7. CASE AgentStops \/ AgentCloses
  BY <1>7, AgentInv DEF AgentAction
<1>8. CASE Finished
  BY <1>1, <1>8 DEF Finished
<1> QED
  BY <1>1, <1>2, <1>3, <1>4, <1>5, <1>6, <1>7, <1>8 DEF Next, CloseStep, SetAction, RungAction

-----------------------------------------------------------------------------
(* Theorems.                                                               *)

\* The inductive invariant holds in every reachable state, whatever the cascade, the
\* number of buffers and of deadlines.
THEOREM Invariant == Spec => []IInv
<1>1. Init => IInv
  BY InitInv
<1> QED
  BY <1>1, StepInv, PTL DEF Spec

\* Every variable keeps its type and no buffer of the conn is ever lost or made: consume
\* and the pump never block on the channel they return a buffer to.
THEOREM TypeCorrect == Spec => []TypeOK
<1>1. IInv => TypeOK
  BY DEF IInv, ConnInv
<1> QED
  BY <1>1, Invariant, PTL

\* Only the deadline last set interrupts reads, however many timers were set and stopped
\* before it and are still to run (deadlineConn.set and expire).
THEOREM DeadlinesHonoured == Spec => []DeadlineHonoured
<1>1. IInv => DeadlineHonoured
  BY DEF IInv, ConnInv
<1> QED
  BY <1>1, Invariant, PTL

\* The substrate passes from rung to rung without a reader and, unless it was given up,
\* without a deadline or a timer that could still fire one.
THEOREM HandoversClean == Spec => []HandedBackClean
<1>1. ASSUME IInv PROVE HandedBackClean
  <2> SUFFICES ASSUME \A r \in Rungs : phase[r] \in {"idle", "ended"}
               PROVE  /\ \A r \in Rungs : reader[r] \in {"none", "out"}
                      /\ (\A r \in Rungs : verdict[r] \in {"none", "clean"}) =>
                           ~fired /\ gen \notin timers
    BY DEF HandedBackClean
  <2>1. \A r \in Rungs : reader[r] \in {"none", "out"}
    BY <1>1 DEF IInv, RungInv, ReadersStand
  <2>2. ASSUME \A r \in Rungs : verdict[r] \in {"none", "clean"} PROVE ~fired /\ gen \notin timers
    <3>1. limit = "none"
      BY <1>1, <2>2 DEF IInv, RungInv, DeadlineOwned, Setter, GivenUp
    <3> QED
      BY <1>1, <3>1 DEF IInv, ConnInv, DeadlineHonoured, TimersCurrent
  <2> QED
    BY <2>1, <2>2
<1> QED
  BY <1>1, Invariant, PTL

\* A rung stands only on an open substrate that nobody else reads: one that was given up
\* is known to the cascade, or was given up by QUIC, after which no rung comes.
THEOREM RungsStandAlone == Spec => []StandsAlone
<1>1. ASSUME IInv PROVE StandsAlone
  <2> SUFFICES ASSUME NEW r \in Rungs, phase[r] = "up"
               PROVE  open /\ \A q \in Rungs \ {r} : reader[q] \in {"none", "out"}
    BY DEF StandsAlone
  <2>1. \A q \in Rungs : q \in Int /\ 1 <= q /\ q <= Len(Cascade)
    BY SubstrateAssumption DEF Rungs
  <2>2. ASSUME NEW q \in Rungs, q # r PROVE phase[q] \in {"idle", "ended"}
    BY <1>1, <2>1, <2>2, OneAtATime DEF IInv, RungInv
  <2>3. ASSUME NEW q \in Rungs, GivenUp(q) PROVE FALSE
    <3>1. phase[q] \in {"draining", "ended"} /\ q # r
      BY <1>1, <2>3 DEF IInv, RungInv, VerdictsLate, GivenUp
    <3>2. q < r
      BY <1>1, <2>1, <3>1 DEF IInv, RungInv, InTurn
    <3>3. verdict[q] = "unreported"
      BY <1>1, <2>3, <3>2 DEF IInv, RungInv, InTurn, GivenUp
    <3>4. q = Len(Cascade)
      BY <1>1, <2>3, <3>3, SubstrateAssumption DEF IInv, RungInv, VerdictsLate, IsQUIC, Rungs
    <3> QED
      BY <2>1, <3>2, <3>4
  <2>4. open
    BY <1>1, <2>3 DEF IInv, RungInv, ClosedBySomeone
  <2> QED
    BY <1>1, <2>2, <2>4 DEF IInv, RungInv, ReadersStand
<1> QED
  BY <1>1, Invariant, PTL
=============================================================================
