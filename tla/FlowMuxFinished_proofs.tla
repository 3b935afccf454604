----------------------- MODULE FlowMuxFinished_proofs ------------------------
(***************************************************************************)
(* A flow whose FIN has been handled stays dead, for any number of IDs and *)
(* of flows on either side, any losses and a tombstone table of any size,  *)
(* unless its tombstone is evicted for another; and a side evicts none     *)
(* before it has met more IDs than the table has entries.                  *)
(***************************************************************************)
EXTENDS FlowMux_proofs

\* What tells of a flow of m's ID k: the peer has one, is to be given its DATA or
\* closes it, or m has been told that it is closed.
Known(m, k) ==
  \/ gens[Peer(m)][k] # 0
  \/ Frame("DATA", k) \in DOMAIN chan[Peer(m)]
  \/ pending[Peer(m)][k] # NoFIN
  \/ Frame("FIN", k) \in DOMAIN chan[m]
  \/ k \in finished[m]

\* ... which happens only after m opened it.
FromOpened(m) == \A k \in IDs : Own(m, k) /\ Known(m, k) => gens[m][k] # 0

\* m's FIN for ID k is due, under way or handled.
FinSent(m, k) ==
  \/ pending[m][k] # NoFIN
  \/ Frame("FIN", k) \in DOMAIN chan[Peer(m)]
  \/ k \in finished[Peer(m)]

\* ... which happens only after m shut the one flow it opened under k.
FinShut(m) == \A k \in IDs : Own(m, k) /\ FinSent(m, k) => Flow(k, 1) \in shut[m]

\* What the FIN overtook meets a tombstone, if it can still arrive at all.
DeadAt(m, k) ==
  \/ closed[m]
  \/ /\ table[m][k] = 0
     /\ Own(m, k) \/ k \in tombs[m] \/ Frame("DATA", k) \notin DOMAIN chan[m]

Dead(m) == \A k \in finished[m] \ evicted[m] : DeadAt(m, k)

FinInv == \A m \in Side : FromOpened(m) /\ FinShut(m) /\ Dead(m)

-----------------------------------------------------------------------------
\* A frame is its kind and its ID.
LEMMA FrameParts ==
  \A a, b, k, i : Frame(a, k) = Frame(b, i) => a = b /\ k = i
BY DEF Frame

\* What a step must show: it brings up no ID its owner has not opened, sends no FIN
\* for a flow that is not shut and brings no finished flow to life.
LEMMA FinStep ==
  ASSUME FinInv,
         \A x \in Side : \A k \in IDs : gens[x][k] # 0 => gens'[x][k] # 0,
         \A x \in Side : shut[x] \subseteq shut'[x],
         \A x \in Side : \A k \in IDs :
           Own(x, k) /\ Known(x, k)' => Known(x, k) \/ gens'[x][k] # 0,
         \A x \in Side : \A k \in IDs :
           Own(x, k) /\ FinSent(x, k)' => FinSent(x, k) \/ Flow(k, 1) \in shut'[x],
         \A x \in Side : \A k \in finished'[x] \ evicted'[x] : DeadAt(x, k)'
  PROVE  FinInv'
<1> SUFFICES ASSUME NEW x \in Side PROVE FromOpened(x)' /\ FinShut(x)' /\ Dead(x)'
  BY DEF FinInv
<1>1. FromOpened(x)'
  BY DEF FinInv, FromOpened, Own
<1>2. FinShut(x)'
  BY DEF FinInv, FinShut, Own
<1>3. Dead(x)'
  BY DEF Dead
<1> QED
  BY <1>1, <1>2, <1>3

\* A step that makes no flow, sends nothing and forgets no tombstone.
LEMMA FinQuiet ==
  ASSUME FinInv, ControlTypes, UNCHANGED <<gens, finished, evicted, tombs, closed>>,
         \A x \in Side : shut[x] \subseteq shut'[x],
         \A x \in Side, k \in IDs : table'[x][k] = table[x][k] \/ table'[x][k] = 0,
         \A x \in Side, k \in IDs : pending'[x][k] # NoFIN => pending[x][k] # NoFIN,
         \A x \in Side : DOMAIN chan'[x] \subseteq DOMAIN chan[x]
  PROVE  FinInv'
<1>1. ASSUME NEW x \in Side, NEW k \in IDs PROVE Known(x, k)' => Known(x, k)
  BY Sides DEF Known
<1>2. ASSUME NEW x \in Side, NEW k \in IDs PROVE FinSent(x, k)' => FinSent(x, k)
  BY Sides DEF FinSent
<1>3. ASSUME NEW x \in Side, NEW k \in finished'[x] \ evicted'[x] PROVE DeadAt(x, k)'
  <2>1. DeadAt(x, k) /\ k \in IDs
    BY <1>3 DEF FinInv, Dead, ControlTypes
  <2> QED BY <2>1 DEF DeadAt, Own
<1> QED
  BY <1>1, <1>2, <1>3, FinStep

\* A flow its side has made names an ID the side has a generation of, and one flow of
\* an own ID is its first.
LEMMA FlowMade ==
  ASSUME IInv, NEW m \in Side, NEW f \in Given(m) \cup shut[m]
  PROVE  /\ f[1] \in IDs /\ gens[m][f[1]] # 0
         /\ Own(m, f[1]) => f = Flow(f[1], 1)
<1>1. Types /\ TableInv(m)
  BY DEF IInv
<1>2. f \in Flows
  BY <1>1 DEF Types, Given, Queued
<1>3. f[1] \in IDs /\ f[2] \in Nat /\ f[2] # 0 /\ f = Flow(f[1], f[2])
  BY <1>2, FlowParts
<1>4. gens[m][f[1]] \in Nat /\ f[2] <= gens[m][f[1]]
  BY <1>1, <1>3 DEF Types, TableInv, Numbered
<1>5. Own(m, f[1]) => gens[m][f[1]] <= 1
  BY <1>1, <1>3 DEF TableInv, OwnOnce
<1>6. Own(m, f[1]) => f[2] = 1
  BY <1>3, <1>4, <1>5
<1> QED
  BY <1>3, <1>4, <1>6

\* A flow the table names is one its side has made.
LEMMA Registered ==
  ASSUME IInv, NEW m \in Side, NEW k \in IDs, table[m][k] # 0
  PROVE  gens[m][k] # 0 /\ (Own(m, k) => Flow(k, table[m][k]) = Flow(k, 1))
<1>1. Flow(k, table[m][k]) \in Given(m)
  BY DEF IInv, TableInv, RegisteredGiven
<1>2. Flow(k, table[m][k])[1] = k
  BY FlowParts
<1> QED
  BY <1>1, <1>2, FlowMade

\* An ID being allocated is one nobody has been told of, let alone finished.
LEMMA FinOpenStream ==
  ASSUME IInv, ControlTypes, FinInv, NEW m \in Side, OpenStream(m)
  PROVE  FinInv'
<1> DEFINE k == next[m]
<1>1. Types /\ TableInv(m)
  BY DEF IInv
<1>2. k \in IDs /\ Own(m, k) /\ gens[m][k] = 0
  <2>1. k \in IDs
    BY <1>1, MuxAssumption DEF OpenStream, IDs, Types
  <2>2. Own(m, k)
    BY <1>1 DEF TableInv, Allocation, Own
  <2>3. k >= next[m]
    BY <1>1 DEF Types
  <2> QED BY <1>1, <2>1, <2>2, <2>3 DEF TableInv, Allocation
<1>3. /\ gens' = [gens EXCEPT ![m][k] = gens[m][k] + 1]
      /\ table' = [table EXCEPT ![m][k] = gens[m][k] + 1]
      /\ UNCHANGED <<shut, pending, tombs, finished, evicted, closed, chan>>
  BY DEF OpenStream, NewFlow, controlVars, lifeVars
<1> HIDE DEF k
<1>4. \A x \in Side, i \in IDs : x # m \/ i # k => gens'[x][i] = gens[x][i] /\ table'[x][i] = table[x][i]
  BY <1>1, <1>3 DEF Types
<1>5. gens'[m][k] # 0
  BY <1>1, <1>2, <1>3 DEF Types
<1>6. ASSUME NEW x \in Side, NEW i \in IDs, Own(x, i), Known(x, i)'
      PROVE  Known(x, i) \/ gens'[x][i] # 0
  <2>1. Peer(x) # m \/ i # k
    BY <1>2, <1>6, Sides
  <2>2. gens'[Peer(x)][i] = gens[Peer(x)][i]
    BY <1>4, <2>1, Sides
  <2> QED BY <1>3, <1>6, <2>2 DEF Known
<1>7. ASSUME NEW x \in Side, NEW i \in IDs PROVE FinSent(x, i)' => FinSent(x, i)
  BY <1>3 DEF FinSent
<1>8. ASSUME NEW x \in Side, NEW i \in finished'[x] \ evicted'[x] PROVE DeadAt(x, i)'
  <2>1. DeadAt(x, i) /\ i \in IDs /\ i \in finished[x]
    BY <1>3, <1>8 DEF FinInv, Dead, ControlTypes
  <2>2. ~(x = m /\ i = k)
    BY <1>2, <2>1 DEF FinInv, FromOpened, Known
  <2>3. table'[x][i] = table[x][i]
    BY <1>4, <2>1, <2>2
  <2> QED BY <1>3, <2>1, <2>3 DEF DeadAt, Own
<1> QED
  BY <1>3, <1>4, <1>5, <1>6, <1>7, <1>8, FinStep

\* Whoever still sends DATA for its own ID has not shut the flow, so that no FIN of it
\* has been handled.
LEMMA FinSendData ==
  ASSUME IInv, ControlTypes, FinInv, NEW m \in Side, NEW f, SendData(m, f)
  PROVE  FinInv'
<1> DEFINE k == f[1]
<1>1. /\ f \in held[m] /\ f \notin shut[m] /\ Send(m, "DATA", k)
      /\ UNCHANGED <<table, gens, shut, pending, tombs, finished, evicted, closed>>
  BY DEF SendData, tableVars, controlVars, lifeVars
<1>2. k \in IDs /\ gens[m][k] # 0 /\ (Own(m, k) => f = Flow(k, 1))
  BY <1>1, FlowMade DEF Given
<1> HIDE DEF k
<1>3. /\ DOMAIN chan'[m] \subseteq DOMAIN chan[m]
      /\ DOMAIN chan'[Peer(m)] \subseteq DOMAIN chan[Peer(m)] \cup {Frame("DATA", k)}
  BY <1>1, <1>2, Sending
<1>4. ASSUME NEW x \in Side, NEW i \in IDs, Known(x, i)'
      PROVE  Known(x, i) \/ gens'[x][i] # 0
  <2>1. CASE x = m
    BY <1>1, <1>2, <1>3, <1>4, <2>1, FrameParts DEF Known
  <2>2. CASE x = Peer(m)
    BY <1>1, <1>3, <1>4, <2>2, FrameParts, Sides DEF Known
  <2> QED BY <2>1, <2>2, Sides
<1>5. ASSUME NEW x \in Side, NEW i \in IDs PROVE FinSent(x, i)' => FinSent(x, i)
  <2>1. Frame("FIN", i) \in DOMAIN chan'[Peer(x)] => Frame("FIN", i) \in DOMAIN chan[Peer(x)]
    BY <1>3, FrameParts, Sides
  <2> QED BY <1>1, <2>1 DEF FinSent
<1>6. ASSUME NEW x \in Side, NEW i \in finished'[x] \ evicted'[x] PROVE DeadAt(x, i)'
  <2>1. DeadAt(x, i) /\ i \in IDs /\ i \in finished[x]
    BY <1>1, <1>6 DEF FinInv, Dead, ControlTypes
  <2>2. CASE x = m
    BY <1>1, <1>3, <2>1, <2>2 DEF DeadAt, Own
  <2>3. CASE x = Peer(m) /\ i # k
    BY <1>1, <1>3, <2>1, <2>3, FrameParts DEF DeadAt, Own
  <2>4. CASE x = Peer(m) /\ i = k
    <3>1. FinSent(m, k)
      BY <2>1, <2>4 DEF FinSent
    <3>2. ~Own(m, k)
      BY <1>1, <1>2, <3>1 DEF FinInv, FinShut
    <3>3. Own(x, i)
      BY <1>2, <2>4, <3>2, Sides
    <3> QED BY <1>1, <2>1, <3>3 DEF DeadAt, Own
  <2> QED BY <2>2, <2>3, <2>4, Sides
<1> QED
  BY <1>1, <1>4, <1>5, <1>6, FinStep

\* A tombstone that goes is evicted, and an evicted one comes back with the flow gone.
Remembered(x) ==
  /\ tombs[x] \subseteq tombs'[x] \cup evicted'[x]
  /\ \A i \in evicted[x] \ evicted'[x] : i \in tombs'[x] /\ table'[x][i] = 0

LEMMA NothingForgotten ==
  ASSUME UNCHANGED <<tombs, evicted>>
  PROVE  \A x \in Side : Remembered(x)
BY DEF Remembered

LEMMA TombstoneRemembers ==
  ASSUME Types, ControlInv, NEW m \in Side, NEW k \in IDs, Tombstone(m, k),
         table' = [table EXCEPT ![m][k] = 0]
  PROVE  /\ \A x \in Side : Remembered(x)
         /\ k \in tombs'[m] /\ k \notin evicted'[m] /\ table'[m][k] = 0
<1>0. ControlTypes /\ Cardinality(tombs[m]) <= MaxTombstones
  BY DEF ControlInv, Bounded
<1>1. PICK T \in addTombstone(tombs[m], k) :
        /\ tombs' = [tombs EXCEPT ![m] = T]
        /\ evicted' = [evicted EXCEPT ![m] = (@ \cup (tombs[m] \ T)) \ {k}]
  BY DEF Tombstone
<1>2. k \in T
  BY <1>0, <1>1, TombstoneAdded DEF ControlTypes
<1>3. tombs'[m] = T /\ tombs'[Peer(m)] = tombs[Peer(m)]
  BY <1>0, <1>1, Sides DEF ControlTypes
<1>4. /\ evicted'[m] = (evicted[m] \cup (tombs[m] \ T)) \ {k}
      /\ evicted'[Peer(m)] = evicted[Peer(m)]
  BY <1>0, <1>1, Sides DEF ControlTypes
<1>5. table'[m][k] = 0
  BY DEF Types
<1>6. Remembered(m) /\ Remembered(Peer(m))
  BY <1>2, <1>3, <1>4, <1>5 DEF Remembered
<1> QED
  BY <1>2, <1>3, <1>4, <1>5, <1>6, Sides

\* A step of m that sends a FIN for k, and may have it retried, and does little else.
LEMMA FinSendFIN ==
  ASSUME IInv, ControlTypes, FinInv, NEW m \in Side, NEW k \in IDs, Send(m, "FIN", k),
         UNCHANGED <<gens, finished, closed>>,
         \A x \in Side : shut[x] \subseteq shut'[x] /\ Remembered(x),
         \A x \in Side, i \in IDs : table'[x][i] = table[x][i] \/ table'[x][i] = 0,
         \A x \in Side, i \in IDs : x # m \/ i # k => pending'[x][i] = pending[x][i],
         Known(Peer(m), k), Own(m, k) => FinSent(m, k) \/ Flow(k, 1) \in shut'[m]
  PROVE  FinInv'
<1>1. /\ DOMAIN chan'[m] \subseteq DOMAIN chan[m]
      /\ DOMAIN chan'[Peer(m)] \subseteq DOMAIN chan[Peer(m)] \cup {Frame("FIN", k)}
  BY Sending
<1>2. ASSUME NEW x \in Side, NEW i \in IDs, Own(x, i), Known(x, i)' PROVE Known(x, i)
  <2>1. CASE x = m
    BY <1>1, <1>2, <2>1, FrameParts, Sides DEF Known
  <2>2. CASE x = Peer(m) /\ i = k
    BY <2>2
  <2>3. CASE x = Peer(m) /\ i # k
    BY <1>1, <1>2, <2>3, FrameParts, Sides DEF Known
  <2> QED BY <2>1, <2>2, <2>3, Sides
<1>3. ASSUME NEW x \in Side, NEW i \in IDs, Own(x, i), FinSent(x, i)'
      PROVE  FinSent(x, i) \/ Flow(i, 1) \in shut'[x]
  <2>1. CASE x = m /\ i = k
    BY <1>3, <2>1
  <2>2. CASE x = m /\ i # k
    BY <1>1, <1>3, <2>2, FrameParts DEF FinSent
  <2>3. CASE x = Peer(m)
    BY <1>1, <1>3, <2>3, Sides DEF FinSent
  <2> QED BY <2>1, <2>2, <2>3, Sides
<1>4. ASSUME NEW x \in Side, NEW i \in finished'[x] \ evicted'[x] PROVE DeadAt(x, i)'
  <2>1. i \in IDs /\ i \in finished[x]
    BY <1>4 DEF ControlTypes
  <2>2. CASE i \in evicted[x]
    BY <1>4, <2>2 DEF Remembered, DeadAt
  <2>3. CASE i \notin evicted[x]
    <3>1. DeadAt(x, i)
      BY <2>1, <2>3 DEF FinInv, Dead
    <3>2. Frame("DATA", i) \in DOMAIN chan'[x] => Frame("DATA", i) \in DOMAIN chan[x]
      BY <1>1, FrameParts, Sides
    <3> QED BY <1>4, <2>1, <3>1, <3>2 DEF DeadAt, Own, Remembered
  <2> QED BY <2>2, <2>3
<1> QED
  BY <1>2, <1>3, <1>4, FinStep

\* A close sends its FIN after shutting the flow.
LEMMA FinBeginFIN ==
  ASSUME IInv, ControlTypes, FinInv, NEW m \in Side, NEW f, beginFIN(m, f)
  PROVE  FinInv'
<1> DEFINE k == f[1]
<1>1. /\ <<f, "fin">> \in closing[m] /\ Send(m, "FIN", k)
      /\ UNCHANGED <<table, gens, shut, tombs, finished, evicted, closed>>
      /\ pending' = pending \/ pending' = [pending EXCEPT ![m][k] = 0]
  BY DEF beginFIN, tableVars, lifeVars
<1>2. f \in shut[m]
  <2>1. <<f, "fin">>[1] \in shut[m]
    BY <1>1 DEF IInv, TableInv, ClosingShut
  <2> QED BY <2>1
<1>3. k \in IDs /\ gens[m][k] # 0 /\ (Own(m, k) => f = Flow(k, 1))
  BY <1>2, FlowMade
<1>4. Known(Peer(m), k)
  BY <1>3, Sides DEF Known
<1>5. \A x \in Side, i \in IDs : x # m \/ i # k => pending'[x][i] = pending[x][i]
  BY <1>1, <1>3 DEF ControlTypes
<1> HIDE DEF k
<1> QED
  BY <1>1, <1>2, <1>3, <1>4, <1>5, NothingForgotten, FinSendFIN

\* A retry repeats a FIN already due.
LEMMA FinRetryFIN ==
  ASSUME IInv, ControlTypes, FinInv, NEW m \in Side, NEW k \in IDs, RetryFIN(m, k)
  PROVE  FinInv'
<1>1. UNCHANGED <<table, gens, shut, tombs, finished, evicted, closed>> /\ pending[m][k] # NoFIN
  BY DEF RetryFIN, tableVars, lifeVars
<1>2. CASE pending' = [pending EXCEPT ![m][k] = NoFIN] /\ UNCHANGED chan
  <2>1. \A x \in Side, i \in IDs : pending'[x][i] # NoFIN => pending[x][i] # NoFIN
    BY <1>2 DEF ControlTypes
  <2> QED BY <1>1, <1>2, <2>1, FinQuiet
<1>3. CASE pending' = [pending EXCEPT ![m][k] = @ + 1] /\ Send(m, "FIN", k)
  <2>1. \A x \in Side, i \in IDs : x # m \/ i # k => pending'[x][i] = pending[x][i]
    BY <1>3 DEF ControlTypes
  <2>2. Known(Peer(m), k) /\ FinSent(m, k)
    BY <1>1, Sides DEF Known, FinSent
  <2> QED BY <1>1, <1>3, <2>1, <2>2, NothingForgotten, FinSendFIN
<1> QED
  BY <1>2, <1>3 DEF RetryFIN

\* Reaping sends its FIN with the flow already shut.
LEMMA FinReapIdle ==
  ASSUME IInv, ControlInv, FinInv, NEW m \in Side, NEW k \in IDs, ReapIdle(m, k)
  PROVE  FinInv'
<1>0. Types /\ ControlTypes
  BY DEF IInv, ControlInv
<1>1. /\ table[m][k] # 0 /\ table' = [table EXCEPT ![m][k] = 0]
      /\ shut' = [shut EXCEPT ![m] = @ \cup {Flow(k, table[m][k])}]
      /\ pending' = pending \/ pending' = [pending EXCEPT ![m][k] = 0]
      /\ Send(m, "FIN", k) /\ UNCHANGED <<gens, finished, closed>>
  BY DEF ReapIdle, lifeVars
<1>2. \A x \in Side : Remembered(x)
  BY <1>0, <1>1, TombstoneRemembers DEF ReapIdle
<1>4. \A x \in Side : shut[x] \subseteq shut'[x] /\ Remembered(x)
  BY <1>0, <1>1, <1>2 DEF Types
<1>5. gens[m][k] # 0 /\ (Own(m, k) => Flow(k, 1) \in shut'[m])
  BY <1>0, <1>1, Registered DEF Types
<1>6. Known(Peer(m), k)
  BY <1>5, Sides DEF Known
<1>7. \A x \in Side, i \in IDs : table'[x][i] = table[x][i] \/ table'[x][i] = 0
  BY <1>0, <1>1 DEF Types
<1>8. \A x \in Side, i \in IDs : x # m \/ i # k => pending'[x][i] = pending[x][i]
  BY <1>0, <1>1 DEF ControlTypes
<1> QED
  BY <1>0, <1>1, <1>4, <1>5, <1>6, <1>7, <1>8, FinSendFIN

\* A FIN that arrives is one its sender has sent; it leaves a tombstone.
LEMMA FinHandleFIN ==
  ASSUME IInv, ControlInv, FinInv, NEW m \in Side, NEW k \in IDs, HandleFIN(m, k)
  PROVE  FinInv'
<1>0. Types /\ ControlTypes
  BY DEF IInv, ControlInv
<1>1. /\ Frame("FIN", k) \in DOMAIN chan[m] /\ table' = [table EXCEPT ![m][k] = 0]
      /\ shut' = [shut EXCEPT ![m] = @ \cup ({Flow(k, table[m][k])} \ {Flow(k, 0)})]
      /\ finished' = [finished EXCEPT ![m] = @ \cup {k}]
      /\ UNCHANGED <<gens, pending, closed>>
  BY DEF HandleFIN, takeAndTombstone, lifeVars, Arrived, BagIn, BagToSet
<1>2. (\A x \in Side : Remembered(x)) /\ k \in tombs'[m] /\ table'[m][k] = 0
  BY <1>0, <1>1, TombstoneRemembers DEF HandleFIN, takeAndTombstone
<1>4. \A x \in Side : shut[x] \subseteq shut'[x]
  BY <1>0, <1>1 DEF Types
<1>5. /\ DOMAIN chan'[m] \subseteq DOMAIN chan[m]
      /\ DOMAIN chan'[Peer(m)] \subseteq DOMAIN chan[Peer(m)] \cup {Frame("FIN_ACK", k)}
  BY <1>0, Answering
<1>6. \A x \in Side, i \in IDs, kind \in {"DATA", "FIN"} :
        Frame(kind, i) \in DOMAIN chan'[x] => Frame(kind, i) \in DOMAIN chan[x]
  BY <1>5, FrameParts, Sides
<1>7. \A x \in Side : \A i \in finished'[x] : i \in finished[x] \/ (x = m /\ i = k)
  BY <1>0, <1>1 DEF ControlTypes
<1>8. ASSUME NEW x \in Side, NEW i \in IDs, Known(x, i)' PROVE Known(x, i)
  BY <1>1, <1>6, <1>7, <1>8, Sides DEF Known
<1>9. ASSUME NEW x \in Side, NEW i \in IDs, FinSent(x, i)' PROVE FinSent(x, i)
  BY <1>1, <1>6, <1>7, <1>9, Sides DEF FinSent
<1>10. ASSUME NEW x \in Side, NEW i \in finished'[x] \ evicted'[x] PROVE DeadAt(x, i)'
  <2>1. CASE x = m /\ i = k
    BY <1>2, <2>1 DEF DeadAt
  <2>2. CASE i \in finished[x] /\ i \in evicted[x]
    BY <1>2, <1>10, <2>2 DEF DeadAt, Remembered
  <2>3. CASE i \in finished[x] /\ i \notin evicted[x]
    <3>1. DeadAt(x, i) /\ i \in IDs
      BY <1>0, <2>3 DEF FinInv, Dead, ControlTypes
    <3>2. table'[x][i] = table[x][i] \/ table'[x][i] = 0
      BY <1>0, <1>1, <3>1 DEF Types
    <3> QED BY <1>1, <1>2, <1>6, <1>10, <3>1, <3>2 DEF DeadAt, Own, Remembered
  <2> QED BY <1>7, <1>10, <2>1, <2>2, <2>3
<1> QED
  BY <1>1, <1>4, <1>8, <1>9, <1>10, FinStep

\* DATA for a finished ID that can still arrive meets the tombstone.
LEMMA FinHandleData ==
  ASSUME IInv, ControlTypes, FinInv, NEW m \in Side, NEW k \in IDs, HandleData(m, k)
  PROVE  FinInv'
<1>0. Types
  BY DEF IInv
<1>1. /\ Frame("DATA", k) \in DOMAIN chan[m]
      /\ UNCHANGED <<shut, pending, tombs, finished, evicted, closed>>
  BY DEF HandleData, Arrived, BagIn, BagToSet, controlVars, lifeVars
<1>2. \A x \in Side : DOMAIN chan'[x] \subseteq DOMAIN chan[x]
  BY Taking DEF HandleData, Take, One
<1>3. CASE ~Creates(m, k)
  <2>1. UNCHANGED <<gens, table>>
    BY <1>3 DEF HandleData
  <2> QED BY <1>1, <1>2, <2>1, FinQuiet
<1>4. CASE Creates(m, k)
  <2>1. /\ gens' = [gens EXCEPT ![m][k] = gens[m][k] + 1]
        /\ table' = [table EXCEPT ![m][k] = gens[m][k] + 1]
        /\ ~closed[m] /\ k \notin tombs[m] /\ ~Own(m, k)
    BY <1>4 DEF HandleData, NewFlow, Creates
  <2>2. \A x \in Side, i \in IDs : x # m \/ i # k => gens'[x][i] = gens[x][i] /\ table'[x][i] = table[x][i]
    BY <1>0, <2>1 DEF Types
  <2>3. gens'[m][k] # 0
    BY <1>0, <2>1 DEF Types
  <2>4. ASSUME NEW x \in Side, NEW i \in IDs, Known(x, i)' PROVE Known(x, i)
    <3>1. CASE x = Peer(m) /\ i = k
      BY <1>1, <3>1, Sides DEF Known
    <3>2. CASE ~(x = Peer(m) /\ i = k)
      <4>1. gens'[Peer(x)][i] = gens[Peer(x)][i]
        BY <2>2, <3>2, Sides
      <4> QED BY <1>1, <1>2, <2>4, <4>1, Sides DEF Known
    <3> QED BY <3>1, <3>2
  <2>5. ASSUME NEW x \in Side, NEW i \in IDs, FinSent(x, i)' PROVE FinSent(x, i)
    BY <1>1, <1>2, <2>5, Sides DEF FinSent
  <2>6. ASSUME NEW x \in Side, NEW i \in finished'[x] \ evicted'[x] PROVE DeadAt(x, i)'
    <3>1. DeadAt(x, i) /\ i \in IDs
      BY <1>1, <2>6 DEF FinInv, Dead, ControlTypes
    <3>2. ~(x = m /\ i = k)
      BY <1>1, <2>1, <3>1 DEF DeadAt
    <3>3. table'[x][i] = table[x][i]
      BY <2>2, <3>1, <3>2
    <3> QED BY <1>1, <1>2, <3>1, <3>3 DEF DeadAt, Own
  <2> QED BY <1>1, <2>2, <2>3, <2>4, <2>5, <2>6, FinStep
<1> QED
  BY <1>3, <1>4

\* A tombstone expires after the last DATA it guards against.
LEMMA FinExpire ==
  ASSUME ControlTypes, FinInv, NEW m \in Side, NEW k \in IDs, ExpireTombstone(m, k)
  PROVE  FinInv'
<1>1. /\ Frame("DATA", k) \notin DOMAIN chan[m] /\ tombs' = [tombs EXCEPT ![m] = @ \ {k}]
      /\ UNCHANGED <<table, gens, shut, pending, finished, evicted, closed, chan>>
  BY DEF ExpireTombstone, Arrived, BagIn, BagToSet, tableVars, lifeVars
<1>2. \A x \in Side : \A i \in tombs[x] : i \in tombs'[x] \/ (x = m /\ i = k)
  BY <1>1 DEF ControlTypes
<1>3. ASSUME NEW x \in Side, NEW i \in IDs
      PROVE  (Known(x, i)' => Known(x, i)) /\ (FinSent(x, i)' => FinSent(x, i))
  BY <1>1 DEF Known, FinSent
<1>4. ASSUME NEW x \in Side, NEW i \in finished'[x] \ evicted'[x] PROVE DeadAt(x, i)'
  <2>1. DeadAt(x, i)
    BY <1>1, <1>4 DEF FinInv, Dead
  <2> QED BY <1>1, <1>2, <2>1 DEF DeadAt, Own
<1> QED
  BY <1>1, <1>3, <1>4, FinStep

\* A closed mux makes no flows, so that it needs no tombstones.
LEMMA FinShutAll ==
  ASSUME IInv, ControlTypes, FinInv, NEW m \in Side, shutAll(m), UNCHANGED <<gens, finished, evicted, chan>>
  PROVE  FinInv'
<1>0. Types
  BY DEF IInv
<1>1. /\ \A x \in Side : shut[x] \subseteq shut'[x]
      /\ \A x \in Side : x # m => tombs'[x] = tombs[x] /\ table'[x] = table[x] /\ closed'[x] = closed[x]
      /\ closed'[m]
      /\ \A x \in Side, i \in IDs : pending'[x][i] # NoFIN => pending[x][i] # NoFIN
  BY <1>0 DEF shutAll, Types, ControlTypes
<1>2. ASSUME NEW x \in Side, NEW i \in IDs
      PROVE  (Known(x, i)' => Known(x, i)) /\ (FinSent(x, i)' => FinSent(x, i))
  BY <1>1, Sides DEF Known, FinSent
<1>3. ASSUME NEW x \in Side, NEW i \in finished'[x] \ evicted'[x] PROVE DeadAt(x, i)'
  <2>1. DeadAt(x, i)
    BY <1>3 DEF FinInv, Dead
  <2> QED BY <1>1, <2>1 DEF DeadAt, Own
<1> QED
  BY <1>1, <1>2, <1>3, FinStep

\* AcceptStream, Close, Remove and Offer touch the application's side alone.
LEMMA FinApplication ==
  ASSUME IInv, ControlTypes, FinInv, NEW m \in Side,
         \/ AcceptStream(m) \/ Offer(m)
         \/ \E f : Close(m, f) \/ Remove(m, f)
  PROVE  FinInv'
<1>0. Types
  BY DEF IInv
<1>1. UNCHANGED <<gens, finished, evicted, tombs, closed, pending, chan>>
  BY DEF AcceptStream, Offer, Close, Remove, tableVars, controlVars, lifeVars
<1>2. \A x \in Side : shut[x] \subseteq shut'[x]
  <2>1. ASSUME NEW f, Close(m, f) PROVE \A x \in Side : shut[x] \subseteq shut'[x]
    BY <1>0, <2>1 DEF Close, Types
  <2>2. ASSUME NEW f, Remove(m, f) PROVE UNCHANGED shut
    BY <2>2 DEF Remove
  <2>3. ASSUME AcceptStream(m) \/ Offer(m) PROVE UNCHANGED shut
    BY <2>3 DEF AcceptStream, Offer
  <2> QED BY <2>1, <2>2, <2>3
<1>3. \A x \in Side, k \in IDs : table'[x][k] = table[x][k] \/ table'[x][k] = 0
  <2>1. ASSUME NEW f \in Flows, Unregister(m, f)
        PROVE  \A x \in Side, k \in IDs : table'[x][k] = table[x][k] \/ table'[x][k] = 0
    <3>1. /\ table'[Peer(m)] = table[Peer(m)]
          /\ \A k \in IDs : table'[m][k] = table[m][k] \/ table'[m][k] = 0
      BY <1>0, <2>1, Unregistered
    <3> QED BY <3>1, Sides
  <2>2. CASE AcceptStream(m) \/ \E f : Close(m, f)
    BY <2>2 DEF AcceptStream, Close, tableVars
  <2>3. CASE Offer(m)
    <3>1. offering[m] \in Flows
      BY <1>0, <2>3 DEF Offer, Types
    <3> QED BY <2>1, <2>3, <3>1 DEF Offer
  <2>4. ASSUME NEW f, Remove(m, f)
        PROVE  \A x \in Side, k \in IDs : table'[x][k] = table[x][k] \/ table'[x][k] = 0
    <3>1. <<f, "remove">> \in Flows \X {"remove", "fin"}
      BY <1>0, <2>4 DEF Remove, Types
    <3> QED BY <2>1, <2>4, <3>1 DEF Remove
  <2> QED BY <2>2, <2>3, <2>4
<1> QED
  BY <1>1, <1>2, <1>3, FinQuiet

\* FinInv is inductive together with the other two.
LEMMA FinNext ==
  ASSUME IInv, ControlInv, FinInv, [Next]_vars
  PROVE  FinInv'
<1>0. ControlTypes
  BY DEF ControlInv
<1>1. CASE UNCHANGED vars
  BY <1>0, <1>1, FinQuiet DEF vars
<1>2. CASE Next
  <2>1. PICK m \in Side :
          \/ OpenStream(m) \/ AcceptStream(m)
          \/ \E f \in held[m] : SendData(m, f) \/ Close(m, f)
          \/ CloseStep(m) \/ Handle(m) \/ Offer(m)
          \/ \E k \in IDs : ExpireTombstone(m, k) \/ RetryFIN(m, k) \/ ReapIdle(m, k)
          \/ MuxClose(m) \/ RecvFails(m)
          \/ \E fr \in BagToSet(chan[m]) : Lose(m, fr)
    BY <1>2 DEF Next
  <2>2. CASE OpenStream(m)
    BY <1>0, <2>2, FinOpenStream
  <2>3. CASE AcceptStream(m) \/ Offer(m)
    BY <1>0, <2>3, FinApplication
  <2>4. ASSUME NEW f, Close(m, f) \/ Remove(m, f) PROVE FinInv'
    BY <1>0, <2>4, FinApplication
  <2>5. ASSUME NEW f, SendData(m, f) \/ beginFIN(m, f) PROVE FinInv'
    BY <1>0, <2>5, FinSendData, FinBeginFIN
  <2>6. ASSUME NEW k \in IDs, HandleFIN(m, k) \/ HandleData(m, k) PROVE FinInv'
    BY <1>0, <2>6, FinHandleFIN, FinHandleData
  <2>7. ASSUME NEW k \in IDs, HandleFINAck(m, k) PROVE FinInv'
    <3>1. UNCHANGED <<table, gens, shut, tombs, finished, evicted, closed>>
      BY <2>7 DEF HandleFINAck, tableVars, lifeVars
    <3>2. \A x \in Side : DOMAIN chan'[x] \subseteq DOMAIN chan[x]
      BY <1>0, <2>7, Taking DEF HandleFINAck, Take, One
    <3>3. \A x \in Side, i \in IDs : pending'[x][i] # NoFIN => pending[x][i] # NoFIN
      BY <1>0, <2>7 DEF HandleFINAck, ControlTypes
    <3> QED BY <1>0, <3>1, <3>2, <3>3, FinQuiet
  <2>8. ASSUME NEW k \in IDs, ExpireTombstone(m, k) \/ RetryFIN(m, k) \/ ReapIdle(m, k) PROVE FinInv'
    BY <1>0, <2>8, FinExpire, FinRetryFIN, FinReapIdle
  <2>9. CASE MuxClose(m) \/ RecvFails(m)
    BY <1>0, <2>9, FinShutAll DEF MuxClose, RecvFails
  <2>10. ASSUME NEW fr, Lose(m, fr) PROVE FinInv'
    <3>1. UNCHANGED <<table, gens, shut, tombs, finished, evicted, closed, pending>>
      BY <2>10 DEF Lose, tableVars, controlVars, lifeVars
    <3>2. \A x \in Side : DOMAIN chan'[x] \subseteq DOMAIN chan[x]
      BY <1>0, <2>10, Taking DEF Lose
    <3> QED BY <1>0, <3>1, <3>2, FinQuiet
  <2> QED
    BY <2>1, <2>2, <2>3, <2>4, <2>5, <2>6, <2>7, <2>8, <2>9, <2>10 DEF CloseStep, Handle
<1> QED
  BY <1>1, <1>2

\* It holds of two muxes that have just been made.
LEMMA FinInit ==
  ASSUME Init
  PROVE  FinInv
<1>1. ASSUME NEW x \in Side, NEW k \in IDs PROVE ~Known(x, k) /\ ~FinSent(x, k)
  BY Sides DEF Init, Known, FinSent, EmptyBag, SetToBag
<1>2. ASSUME NEW x \in Side PROVE finished[x] = {}
  BY DEF Init
<1> QED
  BY <1>1, <1>2 DEF FinInv, FromOpened, FinShut, Dead

-----------------------------------------------------------------------------
(* Eviction.                                                               *)

\* A side remembers, or has evicted, only IDs it has met, and it has evicted one only
\* after meeting more of them than the table holds.
Room(m) ==
  /\ tombs[m] \cup evicted[m] \subseteq Met(m)
  /\ evicted[m] # {} => Cardinality(Met(m)) > MaxTombstones

RoomInv == \A m \in Side : Room(m)

\* What a side has met is a table's worth of IDs, and is never unmet.
LEMMA MetGrows ==
  ASSUME IInv, ControlInv, ControlInv', NEW m \in Side,
         \A k \in IDs : gens[m][k] # 0 => gens'[m][k] # 0,
         finished[m] \subseteq finished'[m]
  PROVE  /\ Met(m) \subseteq Met(m)' /\ Met(m)' \in SUBSET IDs
         /\ Cardinality(Met(m)) \in Nat /\ Cardinality(Met(m)') \in Nat
         /\ Cardinality(Met(m)) <= Cardinality(Met(m)')
<1>1. Met(m) \in SUBSET IDs /\ Met(m)' \in SUBSET IDs /\ Met(m) \in SUBSET Met(m)'
  BY DEF Met, ControlInv, ControlTypes
<1>2. Cardinality(Met(m)) \in Nat
  BY <1>1, TableSize
<1>3. /\ Cardinality(Met(m)') \in Nat
      /\ \A T \in SUBSET Met(m)' : Cardinality(T) <= Cardinality(Met(m)')
  BY <1>1, TableSize
<1> QED
  BY <1>1, <1>2, <1>3

\* A side that adds no tombstone evicts none.
LEMMA RoomQuiet ==
  ASSUME IInv, ControlInv, ControlInv', NEW m \in Side, Room(m),
         \A k \in IDs : gens[m][k] # 0 => gens'[m][k] # 0,
         finished[m] \subseteq finished'[m],
         tombs'[m] \subseteq tombs[m], evicted'[m] = evicted[m]
  PROVE  Room(m)'
<1>1. /\ Met(m) \subseteq Met(m)' /\ Cardinality(Met(m)) \in Nat /\ Cardinality(Met(m)') \in Nat
      /\ Cardinality(Met(m)) <= Cardinality(Met(m)')
  BY MetGrows
<1>2. tombs'[m] \cup evicted'[m] \subseteq Met(m)'
  BY <1>1 DEF Room
<1>3. evicted'[m] # {} => Cardinality(Met(m)') > MaxTombstones
  BY <1>1, MuxAssumption DEF Room
<1> QED
  BY <1>2, <1>3 DEF Room

\* A tombstone added to a full table is of one ID more than it holds.
LEMMA RoomTombstone ==
  ASSUME IInv, ControlInv, ControlInv', NEW m \in Side, NEW k \in IDs, Room(m), Tombstone(m, k),
         \A i \in IDs : gens[m][i] # 0 => gens'[m][i] # 0,
         finished[m] \subseteq finished'[m], k \in Met(m)'
  PROVE  Room(m)'
<1>0. ControlTypes /\ Cardinality(tombs[m]) <= MaxTombstones
  BY DEF ControlInv, Bounded
<1>1. PICK T \in addTombstone(tombs[m], k) :
        /\ tombs' = [tombs EXCEPT ![m] = T]
        /\ evicted' = [evicted EXCEPT ![m] = (@ \cup (tombs[m] \ T)) \ {k}]
  BY DEF Tombstone
<1>2. tombs'[m] = T /\ evicted'[m] = (evicted[m] \cup (tombs[m] \ T)) \ {k}
  BY <1>0, <1>1 DEF ControlTypes
<1>3. T \subseteq tombs[m] \cup {k}
  BY <1>1 DEF addTombstone
<1>4. /\ Met(m) \subseteq Met(m)' /\ Met(m)' \in SUBSET IDs
      /\ Cardinality(Met(m)) \in Nat /\ Cardinality(Met(m)') \in Nat
      /\ Cardinality(Met(m)) <= Cardinality(Met(m)')
  BY MetGrows
<1>5. tombs'[m] \cup evicted'[m] \subseteq Met(m)'
  BY <1>2, <1>3, <1>4 DEF Room
<1>6. ASSUME evicted'[m] # {} PROVE Cardinality(Met(m)') > MaxTombstones
  <2>1. CASE evicted[m] # {}
    BY <1>4, <2>1, MuxAssumption DEF Room
  <2>2. CASE T # tombs[m] \cup {k}
    <3>1. k \notin tombs[m] /\ Cardinality(tombs[m]) >= MaxTombstones
      BY <1>0, <1>1, <2>2, TombstoneAdded DEF ControlTypes
    <3>2. IsFiniteSet(tombs[m]) /\ Cardinality(tombs[m]) \in Nat
      BY <1>0, TableSize DEF ControlTypes
    <3>3. Cardinality(tombs[m] \cup {k}) = Cardinality(tombs[m]) + 1
      BY <3>1, <3>2, FS_AddElement
    <3>4. tombs[m] \cup {k} \in SUBSET Met(m)'
      BY <1>4 DEF Room
    <3>5. Cardinality(tombs[m] \cup {k}) <= Cardinality(Met(m)')
      BY <1>4, <3>4, TableSize
    <3> QED BY <1>4, <3>1, <3>2, <3>3, <3>5, MuxAssumption
  <2>3. CASE evicted[m] = {} /\ T = tombs[m] \cup {k}
    BY <1>2, <1>6, <2>3
  <2> QED BY <2>1, <2>2, <2>3
<1> QED
  BY <1>5, <1>6 DEF Room

\* A step of one side leaves the other's tombstones alone.
LEMMA RoomNext ==
  ASSUME IInv, ControlInv, ControlInv', RoomInv, [Next]_vars
  PROVE  RoomInv'
<1>0. Types /\ ControlTypes
  BY DEF IInv, ControlInv
<1>1. ASSUME \A x \in Side, k \in IDs : gens[x][k] # 0 => gens'[x][k] # 0,
             \A x \in Side : tombs'[x] \subseteq tombs[x], UNCHANGED <<finished, evicted>>
      PROVE  RoomInv'
  BY <1>1, RoomQuiet DEF RoomInv
<1>2. ASSUME NEW m \in Side, NEW k \in IDs, Tombstone(m, k), UNCHANGED gens,
             \A x \in Side : finished[x] \subseteq finished'[x], k \in Met(m)'
      PROVE  RoomInv'
  <2>1. Room(m)'
    BY <1>2, RoomTombstone DEF RoomInv
  <2>2. tombs'[Peer(m)] = tombs[Peer(m)] /\ evicted'[Peer(m)] = evicted[Peer(m)]
    BY <1>2, Sides DEF Tombstone
  <2>3. Room(Peer(m))'
    BY <1>2, <2>2, RoomQuiet, Sides DEF RoomInv
  <2> QED BY <2>1, <2>3, Sides DEF RoomInv
<1>3. ASSUME NEW m \in Side, NEW k \in IDs, NewFlow(m, k), UNCHANGED <<tombs, finished, evicted>>
      PROVE  RoomInv'
  <2>1. \A x \in Side, i \in IDs : gens[x][i] # 0 => gens'[x][i] # 0
    BY <1>0, <1>3 DEF NewFlow, Types
  <2> QED BY <1>1, <1>3, <2>1
<1>4. CASE UNCHANGED <<gens, tombs, finished, evicted>>
  BY <1>1, <1>4
<1>5. CASE UNCHANGED vars
  BY <1>4, <1>5 DEF vars
<1>6. CASE Next
  <2>1. PICK m \in Side :
          \/ OpenStream(m) \/ AcceptStream(m)
          \/ \E f \in held[m] : SendData(m, f) \/ Close(m, f)
          \/ CloseStep(m) \/ Handle(m) \/ Offer(m)
          \/ \E k \in IDs : ExpireTombstone(m, k) \/ RetryFIN(m, k) \/ ReapIdle(m, k)
          \/ MuxClose(m) \/ RecvFails(m)
          \/ \E fr \in BagToSet(chan[m]) : Lose(m, fr)
    BY <1>6 DEF Next
  <2>2. CASE OpenStream(m)
    <3>1. next[m] \in IDs
      BY <1>0, <2>2, MuxAssumption DEF OpenStream, IDs, Types
    <3> QED BY <1>3, <2>2, <3>1 DEF OpenStream, controlVars
  <2>3. CASE AcceptStream(m) \/ Offer(m)
    BY <1>4, <2>3 DEF AcceptStream, Offer, tableVars, controlVars
  <2>4. ASSUME NEW f, SendData(m, f) \/ Close(m, f) \/ Remove(m, f) \/ beginFIN(m, f) PROVE RoomInv'
    BY <1>4, <2>4 DEF SendData, Close, Remove, beginFIN, tableVars, controlVars
  <2>5. ASSUME NEW k \in IDs, HandleFIN(m, k) PROVE RoomInv'
    <3>1. Tombstone(m, k) /\ UNCHANGED gens /\ finished' = [finished EXCEPT ![m] = @ \cup {k}]
      BY <2>5 DEF HandleFIN, takeAndTombstone
    <3>2. (\A x \in Side : finished[x] \subseteq finished'[x]) /\ k \in finished'[m]
      BY <1>0, <3>1 DEF ControlTypes
    <3> QED BY <1>2, <3>1, <3>2 DEF Met
  <2>6. ASSUME NEW k \in IDs, ReapIdle(m, k) PROVE RoomInv'
    <3>1. Tombstone(m, k) /\ UNCHANGED <<gens, finished>> /\ table[m][k] # 0
      BY <2>6 DEF ReapIdle
    <3>2. gens[m][k] # 0
      BY <3>1, Registered
    <3> QED BY <1>2, <3>1, <3>2 DEF Met
  <2>7. ASSUME NEW k \in IDs, HandleFINAck(m, k) \/ RetryFIN(m, k) PROVE RoomInv'
    BY <1>4, <2>7 DEF HandleFINAck, RetryFIN, tableVars
  <2>8. ASSUME NEW k \in IDs, HandleData(m, k) PROVE RoomInv'
    BY <1>3, <1>4, <2>8 DEF HandleData, controlVars
  <2>9. ASSUME NEW k \in IDs, ExpireTombstone(m, k) PROVE RoomInv'
    <3>1. /\ tombs' = [tombs EXCEPT ![m] = @ \ {k}] /\ UNCHANGED <<gens, finished, evicted>>
      BY <2>9 DEF ExpireTombstone, tableVars
    <3>2. \A x \in Side : tombs'[x] \subseteq tombs[x]
      BY <1>0, <3>1 DEF ControlTypes
    <3> QED BY <1>1, <3>1, <3>2
  <2>10. CASE MuxClose(m) \/ RecvFails(m)
    <3>1. /\ tombs' = [tombs EXCEPT ![m] = {}] /\ UNCHANGED <<gens, finished, evicted>>
      BY <2>10 DEF MuxClose, RecvFails, shutAll
    <3>2. \A x \in Side : tombs'[x] \subseteq tombs[x]
      BY <1>0, <3>1 DEF ControlTypes
    <3> QED BY <1>1, <3>1, <3>2
  <2>11. ASSUME NEW fr, Lose(m, fr) PROVE RoomInv'
    BY <1>4, <2>11 DEF Lose, tableVars, controlVars
  <2> QED
    BY <2>1, <2>2, <2>3, <2>4, <2>5, <2>6, <2>7, <2>8, <2>9, <2>10, <2>11 DEF CloseStep, Handle
<1> QED
  BY <1>5, <1>6

-----------------------------------------------------------------------------
\* The four invariants together.
LEMMA FinishedInvariant == Spec => [](IInv /\ ControlInv /\ FinInv /\ RoomInv)
<1>1. Init => IInv /\ ControlInv /\ FinInv /\ RoomInv
  BY IInvInit, ControlInit, FinInit DEF Init, RoomInv, Room
<1>2. ASSUME IInv, ControlInv, FinInv, RoomInv, [Next]_vars
      PROVE  IInv' /\ ControlInv' /\ FinInv' /\ RoomInv'
  BY <1>2, IInvNext, ControlNext, FinNext, RoomNext
<1> QED
  BY <1>1, <1>2, PTL DEF Spec

\* A finished flow whose tombstone was not evicted is gone.
LEMMA FinishedGone ==
  ASSUME IInv, ControlInv, FinInv, NEW m \in Side, NEW k \in finished[m] \ evicted[m]
  PROVE  table[m][k] = 0
<1>1. DeadAt(m, k) /\ k \in IDs
  BY DEF FinInv, Dead, ControlInv, ControlTypes
<1> QED
  BY <1>1 DEF DeadAt, IInv, TableInv, ClosedEmpty

\* Once a side has handled the FIN for an ID there is no flow under it again, DATA the
\* FIN overtook included (takeAndTombstone, lookupOrCreate), whatever the size of the
\* table, unless the tombstone was evicted from a full one (addTombstoneLocked).
THEOREM FinishedFlowsStayDead == Spec => []FinishedStaysDead
<1>1. IInv /\ ControlInv /\ FinInv => FinishedStaysDead
  BY FinishedGone DEF FinishedStaysDead
<1> QED
  BY <1>1, FinishedInvariant, PTL

\* A side that has met no more IDs than the table has entries has evicted none: its
\* finished flows all stay dead, however many IDs there are (addTombstoneLocked makes
\* room for an ID only when the table is full of others).
THEOREM FewFlowsNeverEvicted == Spec => []FewFlowsStayDead
<1>1. IInv /\ ControlInv /\ FinInv /\ RoomInv => FewFlowsStayDead
  <2> SUFFICES ASSUME IInv, ControlInv, FinInv, RoomInv, NEW m \in Side,
                      Cardinality(Met(m)) <= MaxTombstones, NEW k \in finished[m]
               PROVE  table[m][k] = 0
    BY DEF FewFlowsStayDead
  <2>1. Met(m) \in SUBSET IDs
    BY DEF Met, ControlInv, ControlTypes
  <2>2. Cardinality(Met(m)) \in Nat /\ MaxTombstones \in Nat
    BY <2>1, TableSize, MuxAssumption
  <2>3. evicted[m] = {}
    BY <2>2 DEF RoomInv, Room
  <2> QED BY <2>3, FinishedGone
<1> QED
  BY <1>1, FinishedInvariant, PTL
=============================================================================
