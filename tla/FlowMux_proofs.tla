--------------------------- MODULE FlowMux_proofs ----------------------------
(***************************************************************************)
(* Theorems about FlowMux, for any number of IDs, any sizes of the backlog *)
(* and of the control tables, any number of retransmissions and any        *)
(* losses.                                                                 *)
(***************************************************************************)
EXTENDS FlowMux, FiniteSetTheorems, TLAPS

Queued(m) == {inbound[m][i] : i \in DOMAIN inbound[m]}

\* The flow objects somebody has or is about to have.
Given(m) == held[m] \cup Queued(m) \cup ({offering[m]} \ {NoFlow})

\* The tables and what the application has of them.
Types ==
  /\ next \in [Side -> Nat]
  /\ table \in [Side -> [IDs -> Nat]]
  /\ gens \in [Side -> [IDs -> Nat]]
  /\ shut \in [Side -> SUBSET Flows]
  /\ held \in [Side -> SUBSET Flows]
  /\ inbound \in [Side -> Seq(Flows)]
  /\ closing \in [Side -> SUBSET (Flows \X {"remove", "fin"})]
  /\ offering \in [Side -> Flows \cup {NoFlow}]
  /\ closed \in [Side -> BOOLEAN]

\* A side allocates from its own half, in order: an ID not reached yet has no flow.
Allocation(m) ==
  /\ (next[m] % 2 = 0) = (m = "dialing")
  /\ \A k \in IDs : Own(m, k) /\ k >= next[m] => gens[m][k] = 0

\* Flow objects are made one after the other.
Numbered(m) ==
  /\ \A k \in IDs : table[m][k] <= gens[m][k]
  /\ \A f \in Given(m) \cup shut[m] : f[2] <= gens[m][f[1]]

\* A close that has begun has shut its flow.
ClosingShut(m) == \A c \in closing[m] : c[1] \in shut[m]

\* A flow that is yet to be offered is nobody's.
OfferedOnce(m) == offering[m] # NoFlow => offering[m] \notin held[m] \cup Queued(m)

\* OpenFlowsRegistered, for a flow yet to be offered as well.
OpenRegistered(m) == \A f \in Given(m) \ shut[m] : table[m][f[1]] = f[2]

\* NoHiddenFlow on one side.
RegisteredGiven(m) == \A k \in IDs : table[m][k] # 0 => Flow(k, table[m][k]) \in Given(m)

\* OwnIDsNotReused on one side.
OwnOnce(m) == \A k \in IDs : Own(m, k) => gens[m][k] <= 1

\* A closed mux registers nothing.
ClosedEmpty(m) == closed[m] => \A k \in IDs : table[m][k] = 0

TableInv(m) ==
  /\ Allocation(m) /\ Numbered(m) /\ ClosingShut(m) /\ OfferedOnce(m)
  /\ OpenRegistered(m) /\ RegisteredGiven(m) /\ OwnOnce(m) /\ ClosedEmpty(m)

IInv == Types /\ \A m \in Side : TableInv(m)

\* The frames under way to one side: a bag.
Channel == UNION {[S -> Nat \ {0}] : S \in SUBSET Frames}

\* The control tables, the channel and the counters.
ControlTypes ==
  /\ pending \in [Side -> [IDs -> NoFIN..FINRetryCount]]
  /\ tombs \in [Side -> SUBSET IDs]
  /\ finished \in [Side -> SUBSET IDs]
  /\ evicted \in [Side -> SUBSET IDs]
  /\ ended \in [Side -> BOOLEAN]
  /\ chan \in [Side -> Channel]
  /\ sent \in 0..MaxData
  /\ lost \in 0..MaxLoss

Bounded(m) ==
  /\ Len(inbound[m]) <= Backlog
  /\ Cardinality(pendingIDs(m)) <= MaxPending
  /\ Cardinality(tombs[m]) <= MaxTombstones

ControlInv == ControlTypes /\ \A m \in Side : Bounded(m)

-----------------------------------------------------------------------------
(* Facts about sides, flows, queues, tables and bags.                      *)

\* The two sides, and the two halves of the ID space.
LEMMA Sides ==
  /\ "dialing" \in Side /\ "accepting" \in Side
  /\ \A m \in Side : Peer(m) \in Side /\ Peer(m) # m /\ Peer(Peer(m)) = m
  /\ \A m \in Side, n \in Side : n = m \/ n = Peer(m)
  /\ \A m \in Side, k \in IDs : Own(m, k) <=> ~Own(Peer(m), k)
BY DEF Side, Peer, Own

\* A flow object is an ID and a generation, and none of them is NoFlow.
LEMMA FlowParts ==
  /\ NoFlow \notin Flows
  /\ \A f \in Flows : f[1] \in IDs /\ f[2] \in Nat /\ f[2] # 0 /\ f = Flow(f[1], f[2])
  /\ \A k \in IDs, g \in Nat : g # 0 => Flow(k, g) \in Flows
  /\ \A k, g : Flow(k, g)[1] = k /\ Flow(k, g)[2] = g
BY DEF Flows, Flow, NoFlow, IDs

\* The peer-initiated flows in the backlog, when one more is queued.
LEMMA QueueAppend ==
  ASSUME NEW s \in Seq(Flows), NEW f \in Flows
  PROVE  /\ Append(s, f) \in Seq(Flows) /\ Len(Append(s, f)) = Len(s) + 1
         /\ {Append(s, f)[i] : i \in DOMAIN Append(s, f)} = {s[i] : i \in DOMAIN s} \cup {f}
<1>1. Append(s, f) \in Seq(Flows) /\ Len(Append(s, f)) = Len(s) + 1
  OBVIOUS
<1>2. DOMAIN s = 1..Len(s) /\ DOMAIN Append(s, f) = 1..(Len(s) + 1) /\ Len(s) \in Nat
  OBVIOUS
<1>3. \A i \in 1..Len(s) : Append(s, f)[i] = s[i]
  OBVIOUS
<1>4. Append(s, f)[Len(s) + 1] = f
  OBVIOUS
<1>5. \A i \in 1..(Len(s) + 1) : i \in 1..Len(s) \/ i = Len(s) + 1
  BY <1>2
<1>6. 1..Len(s) \subseteq 1..(Len(s) + 1) /\ Len(s) + 1 \in 1..(Len(s) + 1)
  BY <1>2
<1> QED
  BY <1>1, <1>2, <1>3, <1>4, <1>5, <1>6

\* ... and when AcceptStream takes the first.
LEMMA QueueTail ==
  ASSUME NEW s \in Seq(Flows), s # <<>>
  PROVE  /\ Tail(s) \in Seq(Flows) /\ Head(s) \in Flows /\ Len(Tail(s)) = Len(s) - 1
         /\ {s[i] : i \in DOMAIN s} = {Tail(s)[i] : i \in DOMAIN Tail(s)} \cup {Head(s)}
<1>1. /\ Tail(s) \in Seq(Flows) /\ Head(s) \in Flows /\ Len(Tail(s)) = Len(s) - 1
      /\ Len(s) \in Nat /\ Len(s) > 0 /\ Head(s) = s[1]
  OBVIOUS
<1>2. DOMAIN s = 1..Len(s) /\ DOMAIN Tail(s) = 1..(Len(s) - 1)
  OBVIOUS
<1>3. \A i \in 1..(Len(s) - 1) : Tail(s)[i] = s[i + 1]
  OBVIOUS
<1>4. \A i \in 1..Len(s) : i = 1 \/ (i - 1 \in 1..(Len(s) - 1) /\ Tail(s)[i - 1] = s[i])
  <2> SUFFICES ASSUME NEW i \in 1..Len(s), i # 1
               PROVE  i - 1 \in 1..(Len(s) - 1) /\ Tail(s)[i - 1] = s[i]
    OBVIOUS
  <2>1. i - 1 \in 1..(Len(s) - 1) /\ (i - 1) + 1 = i
    BY <1>1
  <2> QED BY <1>3, <2>1
<1>5. 1 \in 1..Len(s) /\ \A i \in 1..(Len(s) - 1) : i + 1 \in 1..Len(s)
  BY <1>1
<1>6. \A i \in DOMAIN s : s[i] \in {Tail(s)[j] : j \in DOMAIN Tail(s)} \cup {Head(s)}
  BY <1>1, <1>2, <1>4
<1>7. \A j \in DOMAIN Tail(s) : Tail(s)[j] \in {s[i] : i \in DOMAIN s}
  BY <1>2, <1>3, <1>5
<1>8. Head(s) \in {s[i] : i \in DOMAIN s}
  BY <1>1, <1>2, <1>5
<1> QED
  BY <1>1, <1>6, <1>7, <1>8

\* A table of IDs is finite, and grows by one entry at a time.
LEMMA TableSize ==
  ASSUME NEW S \in SUBSET IDs
  PROVE  /\ IsFiniteSet(S) /\ Cardinality(S) \in Nat
         /\ \A T \in SUBSET S : Cardinality(T) <= Cardinality(S)
         /\ \A k : Cardinality(S \cup {k}) <= Cardinality(S) + 1
<1>1. IsFiniteSet(IDs)
  BY FS_Interval, MuxAssumption DEF IDs
<1>2. IsFiniteSet(S) /\ Cardinality(S) \in Nat
  BY <1>1, FS_Subset, FS_CardinalityType
<1>3. \A T \in SUBSET S : Cardinality(T) <= Cardinality(S)
  BY <1>2, FS_Subset
<1>4. \A k : Cardinality(S \cup {k}) <= Cardinality(S) + 1
  BY <1>2, FS_AddElement
<1> QED
  BY <1>2, <1>3, <1>4

\* Making room for a tombstone keeps the table within its size, and takes one from it
\* only when it is full.
LEMMA TombstoneAdded ==
  ASSUME NEW S \in SUBSET IDs, NEW k \in IDs, NEW T \in addTombstone(S, k),
         Cardinality(S) <= MaxTombstones
  PROVE  /\ T \in SUBSET IDs /\ k \in T /\ Cardinality(T) <= MaxTombstones
         /\ T = S \cup {k} \/ (k \notin S /\ Cardinality(S) >= MaxTombstones)
<1>0. MaxTombstones \in Nat /\ MaxTombstones # 0 /\ Cardinality(S) \in Nat
  BY MuxAssumption, TableSize
<1>1. CASE k \in S
  <2> T = S /\ S \cup {k} = S
    BY <1>1 DEF addTombstone
  <2> QED BY <1>1
<1>2. CASE k \notin S /\ Cardinality(S) < MaxTombstones
  <2>1. T = S \cup {k}
    BY <1>2 DEF addTombstone
  <2>2. Cardinality(T) \in Nat /\ Cardinality(T) <= Cardinality(S) + 1
    BY <2>1, TableSize
  <2> QED BY <1>0, <1>2, <2>1, <2>2
<1>3. CASE k \notin S /\ ~(Cardinality(S) < MaxTombstones)
  <2>1. PICK evict \in S : T = (S \ {evict}) \cup {k}
    BY <1>3 DEF addTombstone
  <2>2. Cardinality(S \ {evict}) = Cardinality(S) - 1
    BY FS_RemoveElement, TableSize
  <2>3. Cardinality(T) \in Nat /\ Cardinality(T) <= Cardinality(S \ {evict}) + 1
    BY <2>1, TableSize
  <2> QED BY <1>0, <1>3, <2>1, <2>2, <2>3
<1> QED
  BY <1>1, <1>2, <1>3

\* A table of FINs, when one entry is written.
LEMMA PendingWritten ==
  ASSUME NEW p \in [IDs -> NoFIN..FINRetryCount], NEW k \in IDs, NEW v \in NoFIN..FINRetryCount,
         NEW P, P = {i \in IDs : p[i] # NoFIN},
         NEW Q, Q = {i \in IDs : [p EXCEPT ![k] = v][i] # NoFIN}
  PROVE  /\ (v = NoFIN \/ p[k] # NoFIN) => Cardinality(Q) <= Cardinality(P)
         /\ Cardinality(Q) <= Cardinality(P) + 1
         /\ Cardinality(P) \in Nat /\ Cardinality(Q) \in Nat
<1>1. P \in SUBSET IDs /\ Q \in SUBSET IDs /\ Q \subseteq P \cup {k}
  OBVIOUS
<1>2. (v = NoFIN \/ p[k] # NoFIN) => Q \subseteq P
  OBVIOUS
<1>3. P \cup {k} \in SUBSET IDs
  BY <1>1
<1>4. Cardinality(P) \in Nat /\ Cardinality(Q) \in Nat /\ Cardinality(P \cup {k}) \in Nat
  BY <1>1, <1>3, TableSize
<1>5. Cardinality(P \cup {k}) <= Cardinality(P) + 1 /\ Cardinality(Q) <= Cardinality(P \cup {k})
  BY <1>1, <1>3, TableSize
<1>6. (v = NoFIN \/ p[k] # NoFIN) => Cardinality(Q) <= Cardinality(P)
  BY <1>1, <1>2, TableSize
<1>7. Cardinality(Q) <= Cardinality(P) + 1
  BY <1>4, <1>5
<1> QED
  BY <1>4, <1>6, <1>7

\* A channel is a bag of frames.
LEMMA ChannelParts ==
  \A b : b \in Channel <=> DOMAIN b \subseteq Frames /\ b \in [DOMAIN b -> Nat \ {0}]
BY DEF Channel

\* A channel with one more frame, or one less.
LEMMA ChannelSteps ==
  ASSUME NEW b \in Channel, NEW kind \in {"DATA", "FIN", "FIN_ACK"}, NEW k \in IDs
  PROVE  /\ Carrying(b, kind, k) \in Channel
         /\ DOMAIN Carrying(b, kind, k) \subseteq DOMAIN b \cup {Frame(kind, k)}
         /\ \A fr : /\ b (-) SetToBag({fr}) \in Channel
                    /\ DOMAIN (b (-) SetToBag({fr})) \subseteq DOMAIN b
<1>0. DOMAIN b \subseteq Frames /\ b \in [DOMAIN b -> Nat \ {0}]
  BY ChannelParts
<1>1. Frame(kind, k) \in Frames
  BY DEF Frame, Frames
<1>2. LET c == Carrying(b, kind, k)
      IN  /\ DOMAIN c \subseteq Frames /\ c \in [DOMAIN c -> Nat \ {0}]
          /\ DOMAIN c \subseteq DOMAIN b \cup {Frame(kind, k)}
  <2> DEFINE D == DOMAIN b \cup {Frame(kind, k)}
             d == [e \in D |-> (IF e \in DOMAIN b THEN b[e] ELSE 0)
                                + (IF e \in {Frame(kind, k)} THEN 1 ELSE 0)]
  <2>1. DOMAIN d = D /\ \A e \in D : d[e] \in Nat \ {0}
    BY <1>0
  <2>2. d \in [D -> Nat \ {0}]
    BY <2>1
  <2>3. DOMAIN One(kind, k) = {Frame(kind, k)} /\ \A e \in {Frame(kind, k)} : One(kind, k)[e] = 1
    BY DEF One, SetToBag
  <2>4. b (+) One(kind, k) = d
    BY <2>3 DEF (+)
  <2> HIDE DEF d
  <2>5. Carrying(b, kind, k) = d \/ Carrying(b, kind, k) = b
    BY <2>4 DEF Carrying
  <2> QED BY <1>0, <1>1, <2>1, <2>2, <2>5
<1>3. ASSUME NEW fr
      PROVE  LET c == b (-) SetToBag({fr})
             IN  /\ DOMAIN c \subseteq Frames /\ c \in [DOMAIN c -> Nat \ {0}]
                 /\ DOMAIN c \subseteq DOMAIN b
  <2> DEFINE B == [e \in DOMAIN b |-> IF e \in DOMAIN SetToBag({fr}) THEN b[e] - SetToBag({fr})[e]
                                                                     ELSE b[e]]
             D == {e \in DOMAIN B : B[e] > 0}
             c == [e \in D |-> B[e]]
  <2>1. b (-) SetToBag({fr}) = c
    BY DEF (-)
  <2>2. DOMAIN SetToBag({fr}) = {fr} /\ \A e \in {fr} : SetToBag({fr})[e] = 1
    BY DEF SetToBag
  <2>3. D \subseteq DOMAIN b /\ \A e \in D : B[e] \in Nat \ {0}
    BY <1>0, <2>2
  <2>4. c \in [D -> Nat \ {0}] /\ DOMAIN c = D
    BY <2>3
  <2> QED BY <1>0, <2>1, <2>3, <2>4
<1> QED
  BY <1>2, <1>3, ChannelParts

-----------------------------------------------------------------------------
(* The tables and the application's flows: IInv, one lemma per action.     *)

\* A step leaves the tables of n alone.
Same(n) ==
  /\ next'[n] = next[n] /\ table'[n] = table[n] /\ gens'[n] = gens[n] /\ shut'[n] = shut[n]
  /\ held'[n] = held[n] /\ inbound'[n] = inbound[n] /\ closing'[n] = closing[n]
  /\ offering'[n] = offering[n] /\ closed'[n] = closed[n]

\* A side whose tables a step leaves alone keeps its invariant.
LEMMA Untouched ==
  ASSUME NEW n \in Side, TableInv(n), Same(n)
  PROVE  TableInv(n)'
<1>1. Queued(n)' = Queued(n)
  BY DEF Same, Queued
<1>2. Given(n)' = Given(n)
  BY <1>1 DEF Same, Given
<1>3. Allocation(n)' /\ OwnOnce(n)' /\ ClosedEmpty(n)' /\ ClosingShut(n)'
  BY DEF Same, TableInv, Allocation, OwnOnce, ClosedEmpty, ClosingShut, Own
<1>4. Numbered(n)' /\ OpenRegistered(n)' /\ RegisteredGiven(n)'
  BY <1>2 DEF Same, TableInv, Numbered, OpenRegistered, RegisteredGiven
<1>5. OfferedOnce(n)'
  BY <1>1 DEF Same, TableInv, OfferedOnce
<1> QED
  BY <1>3, <1>4, <1>5 DEF TableInv

\* A step of one side has that side to account for.
LEMMA OneSide ==
  ASSUME IInv, NEW m \in Side, Types', Same(Peer(m)), TableInv(m)'
  PROVE  IInv'
<1>1. TableInv(Peer(m))'
  BY Untouched, Sides DEF IInv
<1>2. \A n \in Side : n = m \/ n = Peer(m)
  BY Sides
<1> QED
  BY <1>1, <1>2 DEF IInv

\* Evicting a flow changes its own entry, and only if the entry names it.
LEMMA Unregistered ==
  ASSUME Types, NEW m \in Side, NEW f \in Flows, Unregister(m, f)
  PROVE  /\ table' \in [Side -> [IDs -> Nat]] /\ table'[Peer(m)] = table[Peer(m)]
         /\ \A i \in IDs : table'[m][i] = IF i = f[1] /\ table[m][i] = f[2] THEN 0 ELSE table[m][i]
<1> USE DEF Types
<1>1. f[1] \in IDs /\ f[2] \in Nat
  BY FlowParts
<1>2. table' \in [Side -> [IDs -> Nat]] /\ table'[Peer(m)] = table[Peer(m)]
  BY <1>1, Sides DEF Unregister
<1>3. \A i \in IDs : table'[m][i] = IF i = f[1] /\ table[m][i] = f[2] THEN 0 ELSE table[m][i]
  BY <1>1 DEF Unregister
<1> QED
  BY <1>2, <1>3

\* A new ID has never been used: the flow is its first.
LEMMA IInvOpenStream ==
  ASSUME IInv, NEW m \in Side, OpenStream(m)
  PROVE  IInv'
<1> DEFINE k == next[m]
           f == Flow(k, 1)
<1> USE DEF Types
<1>1. Types /\ TableInv(m)
  BY DEF IInv
<1>2. k \in IDs /\ Own(m, k) /\ gens[m][k] = 0
  <2>1. k \in IDs
    BY <1>1, MuxAssumption DEF OpenStream, IDs
  <2>2. Own(m, k)
    BY <1>1 DEF TableInv, Allocation, Own
  <2>3. k >= next[m]
    BY <1>1
  <2> QED BY <1>1, <2>1, <2>2, <2>3 DEF TableInv, Allocation
<1>3. f \in Flows /\ f[1] = k /\ f[2] = 1
  BY <1>2, FlowParts
<1>4. /\ next' = [next EXCEPT ![m] = @ + 2]
      /\ gens' = [gens EXCEPT ![m][k] = 1]
      /\ table' = [table EXCEPT ![m][k] = 1]
      /\ held' = [held EXCEPT ![m] = @ \cup {f}]
      /\ UNCHANGED <<shut, inbound, closing, offering, closed>> /\ ~closed[m]
  BY <1>1, <1>2 DEF OpenStream, NewFlow, lifeVars
<1>5. Types'
  BY <1>1, <1>2, <1>3, <1>4
<1>6. Same(Peer(m))
  BY <1>1, <1>4, Sides DEF Same
<1>7. Given(m)' = Given(m) \cup {f} /\ Queued(m)' = Queued(m) /\ held'[m] = held[m] \cup {f}
  BY <1>1, <1>4 DEF Given, Queued
<1>8. \A i \in IDs : /\ table'[m][i] = IF i = k THEN 1 ELSE table[m][i]
                     /\ gens'[m][i] = IF i = k THEN 1 ELSE gens[m][i]
  BY <1>1, <1>2, <1>4
<1>9. \A g \in Given(m) \cup shut[m] : g \in Flows /\ g[1] \in IDs /\ g[1] # k
  <2> SUFFICES ASSUME NEW g \in Given(m) \cup shut[m]
               PROVE  g \in Flows /\ g[1] \in IDs /\ g[1] # k
    OBVIOUS
  <2>1. g \in Flows
    BY <1>1 DEF Given, Queued
  <2>2. g[1] \in IDs /\ g[2] \in Nat /\ g[2] # 0
    BY <2>1, FlowParts
  <2>3. g[2] <= gens[m][g[1]]
    BY <1>1 DEF TableInv, Numbered
  <2> QED BY <1>2, <2>1, <2>2, <2>3
<1> HIDE DEF k, f
<1>10. Allocation(m)'
  <2>1. next'[m] = next[m] + 2 /\ next[m] \in Nat
    BY <1>1, <1>4
  <2>2. (next'[m] % 2 = 0) = (m = "dialing")
    BY <1>1, <2>1 DEF TableInv, Allocation
  <2>3. ASSUME NEW i \in IDs, Own(m, i), i >= next'[m] PROVE gens'[m][i] = 0
    <3>1. i \in Nat /\ i # k /\ i >= next[m]
      BY <2>1, <2>3 DEF IDs, k
    <3> QED BY <1>1, <1>8, <2>3, <3>1 DEF TableInv, Allocation
  <2> QED BY <2>2, <2>3 DEF Allocation, Own
<1>11. Numbered(m)'
  BY <1>1, <1>3, <1>4, <1>7, <1>8, <1>9, <1>2 DEF TableInv, Numbered
<1>12. ClosingShut(m)' /\ ClosedEmpty(m)'
  BY <1>1, <1>4 DEF TableInv, ClosingShut, ClosedEmpty
<1>13. OfferedOnce(m)'
  <2>1. offering[m] # NoFlow => offering[m] \in Given(m)
    BY DEF Given
  <2>2. offering[m] # NoFlow => offering[m] # f
    BY <1>3, <1>9, <2>1
  <2> QED BY <1>1, <1>4, <1>7, <2>2 DEF TableInv, OfferedOnce
<1>14. OpenRegistered(m)'
  BY <1>1, <1>2, <1>3, <1>4, <1>7, <1>8, <1>9 DEF TableInv, OpenRegistered
<1>15. RegisteredGiven(m)'
  BY <1>1, <1>4, <1>7, <1>8 DEF TableInv, RegisteredGiven, f
<1>16. OwnOnce(m)'
  <2> SUFFICES ASSUME NEW i \in IDs, Own(m, i) PROVE gens'[m][i] <= 1
    BY DEF OwnOnce, Own
  <2>1. gens[m][i] <= 1
    BY <1>1 DEF TableInv, OwnOnce
  <2>2. gens'[m][i] = 1 \/ gens'[m][i] = gens[m][i]
    BY <1>8
  <2> QED BY <2>1, <2>2
<1> QED
  BY <1>5, <1>6, <1>10, <1>11, <1>12, <1>13, <1>14, <1>15, <1>16, OneSide DEF TableInv, IInv

\* The first flow of the backlog becomes the application's.
LEMMA IInvAcceptStream ==
  ASSUME IInv, NEW m \in Side, AcceptStream(m)
  PROVE  IInv'
<1> USE DEF Types
<1>1. Types /\ TableInv(m)
  BY DEF IInv
<1>2. /\ inbound[m] # <<>>
      /\ held' = [held EXCEPT ![m] = @ \cup {Head(inbound[m])}]
      /\ inbound' = [inbound EXCEPT ![m] = Tail(@)]
      /\ UNCHANGED <<next, table, gens, shut, closing, offering, closed>>
  BY DEF AcceptStream, tableVars, lifeVars
<1>3. /\ Tail(inbound[m]) \in Seq(Flows) /\ Head(inbound[m]) \in Flows
      /\ Queued(m) = {Tail(inbound[m])[i] : i \in DOMAIN Tail(inbound[m])} \cup {Head(inbound[m])}
  BY <1>1, <1>2, QueueTail DEF Queued
<1>4. Types'
  BY <1>1, <1>2, <1>3
<1>5. Same(Peer(m))
  BY <1>1, <1>2, Sides DEF Same
<1>6. Queued(m) = Queued(m)' \cup {Head(inbound[m])} /\ held'[m] = held[m] \cup {Head(inbound[m])}
  BY <1>1, <1>2, <1>3 DEF Queued
<1>7. Given(m)' = Given(m) /\ held'[m] \cup Queued(m)' = held[m] \cup Queued(m)
  BY <1>2, <1>6 DEF Given
<1>8. Allocation(m)' /\ OwnOnce(m)' /\ ClosedEmpty(m)' /\ ClosingShut(m)'
  BY <1>1, <1>2 DEF TableInv, Allocation, OwnOnce, ClosedEmpty, ClosingShut, Own
<1>9. Numbered(m)' /\ OpenRegistered(m)' /\ RegisteredGiven(m)'
  BY <1>1, <1>2, <1>7 DEF TableInv, Numbered, OpenRegistered, RegisteredGiven
<1>10. OfferedOnce(m)'
  BY <1>1, <1>2, <1>7 DEF TableInv, OfferedOnce
<1> QED
  BY <1>4, <1>5, <1>8, <1>9, <1>10, OneSide DEF TableInv

\* A close shuts the flow and leaves it registered until Mux.remove.
LEMMA IInvClose ==
  ASSUME IInv, NEW m \in Side, NEW f, Close(m, f)
  PROVE  IInv'
<1> USE DEF Types
<1>1. Types /\ TableInv(m)
  BY DEF IInv
<1>2. /\ f \in held[m] /\ f \in Flows
      /\ shut' = [shut EXCEPT ![m] = @ \cup {f}]
      /\ closing' = [closing EXCEPT ![m] = @ \cup {<<f, "remove">>}]
      /\ UNCHANGED <<next, table, gens, inbound, held, offering, closed>>
  BY <1>1 DEF Close, tableVars, lifeVars
<1>3. Types'
  BY <1>1, <1>2
<1>4. Same(Peer(m))
  BY <1>1, <1>2, Sides DEF Same
<1>5. Given(m)' = Given(m) /\ Queued(m)' = Queued(m) /\ f \in Given(m)
  BY <1>2 DEF Given, Queued
<1>6. shut'[m] = shut[m] \cup {f} /\ closing'[m] = closing[m] \cup {<<f, "remove">>}
  BY <1>1, <1>2
<1>7. Allocation(m)' /\ OwnOnce(m)' /\ ClosedEmpty(m)'
  BY <1>1, <1>2 DEF TableInv, Allocation, OwnOnce, ClosedEmpty, Own
<1>8. ClosingShut(m)'
  BY <1>1, <1>6 DEF TableInv, ClosingShut
<1>9. Numbered(m)' /\ OpenRegistered(m)' /\ RegisteredGiven(m)'
  BY <1>1, <1>2, <1>5, <1>6 DEF TableInv, Numbered, OpenRegistered, RegisteredGiven
<1>10. OfferedOnce(m)'
  BY <1>1, <1>2, <1>5 DEF TableInv, OfferedOnce
<1> QED
  BY <1>3, <1>4, <1>7, <1>8, <1>9, <1>10, OneSide DEF TableInv

\* Mux.remove evicts its own flow, which is shut, and nobody else's.
LEMMA IInvRemove ==
  ASSUME IInv, NEW m \in Side, NEW f, Remove(m, f)
  PROVE  IInv'
<1> USE DEF Types
<1>1. Types /\ TableInv(m)
  BY DEF IInv
<1>2. /\ <<f, "remove">> \in closing[m]
      /\ closing' = [closing EXCEPT ![m] = (@ \ {<<f, "remove">>}) \cup {<<f, "fin">>}]
      /\ UNCHANGED <<next, gens, shut, inbound, held, offering, closed>>
      /\ Unregister(m, f)
  BY DEF Remove, lifeVars
<1>3. f \in Flows /\ f[1] \in IDs /\ f[2] \in Nat /\ f \in shut[m]
  <2>1. <<f, "remove">> \in Flows \X {"remove", "fin"}
    BY <1>1, <1>2
  <2>2. f \in Flows
    BY <2>1
  <2>3. <<f, "remove">>[1] \in shut[m]
    BY <1>1, <1>2 DEF TableInv, ClosingShut
  <2> QED BY <2>2, <2>3, FlowParts
<1>4. table' \in [Side -> [IDs -> Nat]] /\ table'[Peer(m)] = table[Peer(m)]
  BY <1>1, <1>2, <1>3, Unregistered
<1>5. \A i \in IDs : table'[m][i] = IF i = f[1] /\ table[m][i] = f[2] THEN 0 ELSE table[m][i]
  BY <1>1, <1>2, <1>3, Unregistered
<1>6. /\ closing' \in [Side -> SUBSET (Flows \X {"remove", "fin"})]
      /\ closing'[Peer(m)] = closing[Peer(m)]
      /\ \A c \in closing'[m] : c \in closing[m] \/ c[1] = f
  <2>1. <<f, "fin">> \in Flows \X {"remove", "fin"} /\ <<f, "fin">>[1] = f
    BY <1>3
  <2>2. closing'[m] = (closing[m] \ {<<f, "remove">>}) \cup {<<f, "fin">>}
    BY <1>1, <1>2
  <2> QED BY <1>1, <1>2, <2>1, <2>2, Sides
<1>7. Types'
  BY <1>1, <1>2, <1>4, <1>6
<1>8. Same(Peer(m))
  BY <1>2, <1>4, <1>6 DEF Same
<1>9. Given(m)' = Given(m) /\ Queued(m)' = Queued(m)
  BY <1>2 DEF Given, Queued
<1>10. Allocation(m)' /\ OwnOnce(m)'
  BY <1>1, <1>2 DEF TableInv, Allocation, OwnOnce, Own
<1>11. ClosedEmpty(m)'
  BY <1>1, <1>2, <1>5 DEF TableInv, ClosedEmpty
<1>12. ClosingShut(m)'
  BY <1>1, <1>2, <1>3, <1>6 DEF TableInv, ClosingShut
<1>13. Numbered(m)'
  <2>1. \A i \in IDs : gens[m][i] \in Nat
    BY <1>1
  <2>2. \A i \in IDs : table'[m][i] <= gens[m][i]
    <3> TAKE i \in IDs
    <3>1. table[m][i] <= gens[m][i]
      BY <1>1 DEF TableInv, Numbered
    <3>2. table'[m][i] = 0 \/ table'[m][i] = table[m][i]
      BY <1>5
    <3> QED BY <2>1, <3>1, <3>2
  <2> QED BY <1>1, <1>2, <1>9, <2>2 DEF TableInv, Numbered
<1>14. RegisteredGiven(m)'
  BY <1>1, <1>5, <1>9 DEF TableInv, RegisteredGiven
<1>15. OpenRegistered(m)'
  <2> SUFFICES ASSUME NEW g \in Given(m) \ shut[m]
               PROVE  table'[m][g[1]] = g[2]
    BY <1>2, <1>9 DEF OpenRegistered
  <2>1. g \in Flows
    BY <1>1 DEF Given, Queued
  <2>2. g[1] \in IDs /\ table[m][g[1]] = g[2]
    BY <1>1, <2>1, FlowParts DEF TableInv, OpenRegistered
  <2>3. ~(g[1] = f[1] /\ g[2] = f[2])
    BY <1>3, <2>1, FlowParts
  <2> QED BY <1>5, <2>2, <2>3
<1>16. OfferedOnce(m)'
  BY <1>1, <1>2, <1>9 DEF TableInv, OfferedOnce
<1> QED
  BY <1>7, <1>8, <1>10, <1>11, <1>12, <1>13, <1>14, <1>15, <1>16, OneSide DEF TableInv

\* A FIN, or idleness, takes the flow registered under an ID, if any, and shuts it.
LEMMA IInvTake ==
  ASSUME IInv, NEW m \in Side, NEW k \in IDs,
         table' = [table EXCEPT ![m][k] = 0],
         shut' = [shut EXCEPT ![m] = @ \cup ({Flow(k, table[m][k])} \ {Flow(k, 0)})],
         UNCHANGED <<next, gens, held, inbound, closing, offering, closed>>
  PROVE  IInv'
<1> USE DEF Types
<1>1. Types /\ TableInv(m)
  BY DEF IInv
<1>2. /\ \A g \in shut'[m] : g \in shut[m] \/ (table[m][k] # 0 /\ g = Flow(k, table[m][k]))
      /\ shut[m] \subseteq shut'[m]
      /\ table[m][k] # 0 => Flow(k, table[m][k]) \in shut'[m]
  <2>1. table[m][k] # 0 => Flow(k, table[m][k]) # Flow(k, 0)
    BY FlowParts
  <2> QED BY <1>1, <2>1
<1>3. \A g \in shut'[m] : g \in Flows
  BY <1>1, <1>2, FlowParts
<1>4. Types'
  <2>1. shut' \in [Side -> SUBSET Flows]
    BY <1>1, <1>3, Sides
  <2> QED BY <1>1, <2>1
<1>5. Same(Peer(m))
  BY <1>1, Sides DEF Same
<1>6. \A i \in IDs : table'[m][i] = IF i = k THEN 0 ELSE table[m][i]
  BY <1>1
<1>7. Given(m)' = Given(m) /\ Queued(m)' = Queued(m)
  BY DEF Given, Queued
<1>8. Allocation(m)' /\ OwnOnce(m)'
  BY <1>1 DEF TableInv, Allocation, OwnOnce, Own
<1>9. ClosedEmpty(m)' /\ ClosingShut(m)'
  BY <1>1, <1>2, <1>6 DEF TableInv, ClosedEmpty, ClosingShut
<1>10. Numbered(m)'
  <2>1. ASSUME NEW i \in IDs PROVE table'[m][i] <= gens'[m][i]
    <3>1. table[m][i] <= gens[m][i] /\ gens[m][i] \in Nat
      BY <1>1 DEF TableInv, Numbered
    <3>2. table'[m][i] = 0 \/ table'[m][i] = table[m][i]
      BY <1>6
    <3> QED BY <3>1, <3>2
  <2>2. ASSUME NEW g \in Given(m) \cup shut'[m] PROVE g[2] <= gens[m][g[1]]
    <3>1. CASE g \in Given(m) \cup shut[m]
      BY <1>1, <3>1 DEF TableInv, Numbered
    <3>2. CASE g = Flow(k, table[m][k])
      BY <1>1, <3>2, FlowParts DEF TableInv, Numbered
    <3> QED BY <1>2, <2>2, <3>1, <3>2
  <2> QED BY <1>7, <2>1, <2>2 DEF Numbered
<1>11. RegisteredGiven(m)'
  BY <1>1, <1>6, <1>7 DEF TableInv, RegisteredGiven
<1>12. OpenRegistered(m)'
  <2> SUFFICES ASSUME NEW g \in Given(m), g \notin shut'[m]
               PROVE  table'[m][g[1]] = g[2]
    BY <1>7 DEF OpenRegistered
  <2>1. g \in Flows
    BY <1>1 DEF Given, Queued
  <2>2. g[1] \in IDs /\ g[2] # 0 /\ g = Flow(g[1], g[2]) /\ table[m][g[1]] = g[2]
    BY <1>1, <1>2, <2>1, FlowParts DEF TableInv, OpenRegistered
  <2>3. g[1] # k
    BY <1>2, <2>2
  <2> QED BY <1>6, <2>2, <2>3
<1>13. OfferedOnce(m)'
  BY <1>1, <1>7 DEF TableInv, OfferedOnce
<1> QED
  BY <1>4, <1>5, <1>8, <1>9, <1>10, <1>11, <1>12, <1>13, OneSide DEF TableInv

\* A FIN shuts what is registered under its ID, and the ID is free.
LEMMA IInvHandleFIN ==
  ASSUME IInv, NEW m \in Side, NEW k \in IDs, HandleFIN(m, k)
  PROVE  IInv'
BY IInvTake DEF HandleFIN, takeAndTombstone, appVars, lifeVars

\* So does idleness.
LEMMA IInvReapIdle ==
  ASSUME IInv, NEW m \in Side, NEW k \in IDs, ReapIdle(m, k)
  PROVE  IInv'
<1>1. {Flow(k, table[m][k])} \ {Flow(k, 0)} = {Flow(k, table[m][k])}
  BY FlowParts DEF ReapIdle
<1> QED
  BY <1>1, IInvTake DEF ReapIdle, appVars, lifeVars

\* DATA makes a flow only where none is registered and only in the peer's half.
LEMMA IInvCreate ==
  ASSUME IInv, NEW m \in Side, NEW k \in IDs, Creates(m, k), offering[m] = NoFlow,
         NewFlow(m, k), offering' = [offering EXCEPT ![m] = Flow(k, gens[m][k] + 1)],
         UNCHANGED <<next, shut, held, inbound, closing, closed>>
  PROVE  IInv'
<1> DEFINE n == gens[m][k] + 1
           f == Flow(k, n)
<1> USE DEF Types
<1>1. Types /\ TableInv(m)
  BY DEF IInv
<1>2. ~closed[m] /\ table[m][k] = 0 /\ ~Own(m, k)
  BY DEF Creates
<1>3. n \in Nat /\ n # 0 /\ n = gens[m][k] + 1 /\ f \in Flows /\ f[1] = k /\ f[2] = n /\ f # NoFlow
  BY <1>1, FlowParts
<1>4. /\ gens' = [gens EXCEPT ![m][k] = n] /\ table' = [table EXCEPT ![m][k] = n]
      /\ offering' = [offering EXCEPT ![m] = f]
  BY <1>1 DEF NewFlow
<1> HIDE DEF n, f
<1>5. Types'
  BY <1>1, <1>3, <1>4
<1>6. Same(Peer(m))
  BY <1>1, <1>4, Sides DEF Same
<1>7. Given(m)' = Given(m) \cup {f} /\ Queued(m)' = Queued(m) /\ offering'[m] = f
  BY <1>1, <1>3, <1>4 DEF Given, Queued
<1>8. \A i \in IDs : /\ table'[m][i] = IF i = k THEN n ELSE table[m][i]
                     /\ gens'[m][i] = IF i = k THEN n ELSE gens[m][i]
  BY <1>1, <1>4
<1>9. \A g \in Given(m) \cup shut[m] : g \in Flows /\ g[1] \in IDs /\ g[2] \in Nat /\ g[2] # 0
  BY <1>1, FlowParts DEF Given, Queued
<1>10. Allocation(m)' /\ OwnOnce(m)'
  <2>1. ASSUME NEW i \in IDs, Own(m, i) PROVE gens'[m][i] = gens[m][i]
    BY <1>2, <1>8, <2>1
  <2> QED BY <1>1, <2>1 DEF TableInv, Allocation, OwnOnce, Own
<1>11. Numbered(m)'
  <2>1. ASSUME NEW i \in IDs PROVE table'[m][i] <= gens'[m][i]
    <3>1. table[m][i] <= gens[m][i]
      BY <1>1 DEF TableInv, Numbered
    <3> QED BY <1>3, <1>8, <3>1
  <2>2. ASSUME NEW g \in Given(m) \cup shut[m] PROVE g[2] <= gens'[m][g[1]]
    <3>1. g[1] \in IDs /\ g[2] \in Nat /\ g[2] <= gens[m][g[1]] /\ gens[m][g[1]] \in Nat
      BY <1>1, <1>9 DEF TableInv, Numbered
    <3>2. gens'[m][g[1]] = gens[m][g[1]] \/ (g[1] = k /\ gens'[m][g[1]] = gens[m][g[1]] + 1)
      BY <1>3, <1>8, <3>1
    <3> QED BY <3>1, <3>2
  <2>3. f[2] <= gens'[m][f[1]]
    BY <1>3, <1>8
  <2> QED BY <1>7, <2>1, <2>2, <2>3 DEF Numbered
<1>12. ClosingShut(m)' /\ ClosedEmpty(m)'
  BY <1>1, <1>2 DEF TableInv, ClosingShut, ClosedEmpty
<1>13. OfferedOnce(m)'
  <2>1. f \notin Given(m)
    BY <1>1, <1>3 DEF TableInv, Numbered
  <2> QED BY <1>7, <2>1 DEF OfferedOnce, Given
<1>14. OpenRegistered(m)'
  <2>1. ASSUME NEW g \in Given(m) \ shut[m] PROVE table'[m][g[1]] = g[2]
    <3>1. table[m][g[1]] = g[2] /\ g[2] # 0 /\ g[1] \in IDs
      BY <1>1, <1>9 DEF TableInv, OpenRegistered
    <3> QED BY <1>2, <1>8, <3>1
  <2>2. table'[m][f[1]] = f[2]
    BY <1>3, <1>8
  <2> QED BY <1>7, <2>1, <2>2 DEF OpenRegistered
<1>15. RegisteredGiven(m)'
  BY <1>1, <1>7, <1>8 DEF TableInv, RegisteredGiven, f
<1> QED
  BY <1>5, <1>6, <1>10, <1>11, <1>12, <1>13, <1>14, <1>15, OneSide DEF TableInv

\* A step that leaves the tables and the flows alone, or finishes a close.
LEMMA IInvUntouched ==
  ASSUME IInv, UNCHANGED <<next, table, gens, shut, held, inbound, offering, closed>>,
         closing' \in [Side -> SUBSET (Flows \X {"remove", "fin"})],
         \A n \in Side : closing'[n] \subseteq closing[n]
  PROVE  IInv'
<1>1. Types'
  BY DEF IInv, Types
<1>2. ASSUME NEW n \in Side PROVE TableInv(n)'
  <2>1. Given(n)' = Given(n) /\ Queued(n)' = Queued(n)
    BY DEF Given, Queued
  <2>2. Allocation(n)' /\ OwnOnce(n)' /\ ClosedEmpty(n)' /\ ClosingShut(n)'
    BY DEF IInv, TableInv, Allocation, OwnOnce, ClosedEmpty, ClosingShut, Own
  <2>3. Numbered(n)' /\ OpenRegistered(n)' /\ RegisteredGiven(n)'
    BY <2>1 DEF IInv, TableInv, Numbered, OpenRegistered, RegisteredGiven
  <2>4. OfferedOnce(n)'
    BY <2>1 DEF IInv, TableInv, OfferedOnce
  <2> QED BY <2>2, <2>3, <2>4 DEF TableInv
<1> QED
  BY <1>1, <1>2 DEF IInv

\* DATA makes a flow, or changes nothing here.
LEMMA IInvHandleData ==
  ASSUME IInv, NEW m \in Side, NEW k \in IDs, HandleData(m, k)
  PROVE  IInv'
<1>1. CASE Creates(m, k)
  BY <1>1, IInvCreate DEF HandleData, Receiving, appVars, lifeVars
<1>2. CASE ~Creates(m, k)
  <2>1. UNCHANGED <<next, table, gens, shut, held, inbound, closing, offering, closed>>
    BY <1>2 DEF HandleData, appVars, lifeVars
  <2> QED BY <2>1, IInvUntouched DEF IInv, Types
<1> QED
  BY <1>1, <1>2

\* The fresh flow is queued, or evicted before anybody was given it.
LEMMA IInvOffer ==
  ASSUME IInv, NEW m \in Side, Offer(m)
  PROVE  IInv'
<1> DEFINE f == offering[m]
<1> USE DEF Types
<1>1. Types /\ TableInv(m)
  BY DEF IInv
<1>2. /\ f # NoFlow /\ offering' = [offering EXCEPT ![m] = NoFlow]
      /\ UNCHANGED <<next, gens, shut, held, closing, closed>>
  BY DEF Offer, lifeVars
<1>3. f \in Flows /\ f[1] \in IDs /\ f[2] \in Nat /\ f \in Given(m) /\ f \notin held[m] \cup Queued(m)
  BY <1>1, <1>2, FlowParts DEF Given, TableInv, OfferedOnce
<1> HIDE DEF f
<1>4. CASE inbound' = [inbound EXCEPT ![m] = Append(@, f)] /\ UNCHANGED table
  <2>1. Append(inbound[m], f) \in Seq(Flows) /\ inbound'[m] = Append(inbound[m], f)
    BY <1>1, <1>3, <1>4, QueueAppend
  <2>2. Queued(m)' = Queued(m) \cup {f}
    <3>1. inbound[m] \in Seq(Flows) /\ f \in Flows
      BY <1>1, <1>3
    <3> HIDE DEF Types
    <3>2. {Append(inbound[m], f)[i] : i \in DOMAIN Append(inbound[m], f)}
            = {inbound[m][i] : i \in DOMAIN inbound[m]} \cup {f}
      BY <3>1, QueueAppend, Zenon
    <3> QED BY <2>1, <3>2 DEF Queued
  <2>3. Types'
    BY <1>1, <1>2, <1>4, <2>1
  <2>4. Same(Peer(m))
    BY <1>1, <1>2, <1>4, Sides DEF Same
  <2>5. Given(m)' = Given(m) /\ offering'[m] = NoFlow
    BY <1>1, <1>2, <2>2 DEF Given, f
  <2>6. Allocation(m)' /\ OwnOnce(m)' /\ ClosedEmpty(m)' /\ ClosingShut(m)'
    BY <1>1, <1>2, <1>4 DEF TableInv, Allocation, OwnOnce, ClosedEmpty, ClosingShut, Own
  <2>7. Numbered(m)' /\ OpenRegistered(m)' /\ RegisteredGiven(m)'
    BY <1>1, <1>2, <1>4, <2>5 DEF TableInv, Numbered, OpenRegistered, RegisteredGiven
  <2>8. OfferedOnce(m)'
    BY <2>5 DEF OfferedOnce
  <2> QED BY <2>3, <2>4, <2>6, <2>7, <2>8, OneSide DEF TableInv
<1>5. CASE Unregister(m, f) /\ UNCHANGED inbound
  <2>1. /\ table' \in [Side -> [IDs -> Nat]] /\ table'[Peer(m)] = table[Peer(m)]
        /\ \A i \in IDs : table'[m][i] = IF i = f[1] /\ table[m][i] = f[2] THEN 0 ELSE table[m][i]
    BY <1>1, <1>3, <1>5, Unregistered
  <2>2. Types'
    BY <1>1, <1>2, <1>5, <2>1
  <2>3. Same(Peer(m))
    BY <1>1, <1>2, <1>5, <2>1, Sides DEF Same
  <2>4. offering'[m] = NoFlow /\ Queued(m)' = Queued(m)
    BY <1>1, <1>2, <1>5 DEF Queued
  <2>5. Given(m)' = Given(m) \ {f}
    BY <1>2, <1>3, <2>4 DEF Given, f
  <2>6. Allocation(m)' /\ OwnOnce(m)'
    BY <1>1, <1>2 DEF TableInv, Allocation, OwnOnce, Own
  <2>7. ClosedEmpty(m)' /\ ClosingShut(m)'
    BY <1>1, <1>2, <2>1 DEF TableInv, ClosedEmpty, ClosingShut
  <2>8. Numbered(m)'
    <3>1. ASSUME NEW i \in IDs PROVE table'[m][i] <= gens'[m][i]
      <4>1. table[m][i] <= gens[m][i] /\ gens[m][i] \in Nat
        BY <1>1 DEF TableInv, Numbered
      <4>2. table'[m][i] = 0 \/ table'[m][i] = table[m][i]
        BY <2>1
      <4> QED BY <1>2, <4>1, <4>2
    <3> QED BY <1>1, <1>2, <2>5, <3>1 DEF TableInv, Numbered
  <2>9. RegisteredGiven(m)'
    <3> SUFFICES ASSUME NEW i \in IDs, table'[m][i] # 0
                 PROVE  Flow(i, table'[m][i]) \in Given(m) \ {f}
      BY <2>5 DEF RegisteredGiven
    <3>1. table'[m][i] = table[m][i] /\ ~(i = f[1] /\ table[m][i] = f[2])
      BY <2>1
    <3>2. Flow(i, table[m][i]) # f
      BY <3>1, FlowParts
    <3> QED BY <1>1, <3>1, <3>2 DEF TableInv, RegisteredGiven
  <2>10. OpenRegistered(m)'
    <3> SUFFICES ASSUME NEW g \in Given(m) \ shut[m], g # f
                 PROVE  table'[m][g[1]] = g[2]
      BY <1>2, <2>5 DEF OpenRegistered
    <3>1. g \in Flows
      BY <1>1 DEF Given, Queued
    <3>2. g[1] \in IDs /\ table[m][g[1]] = g[2]
      BY <1>1, <3>1, FlowParts DEF TableInv, OpenRegistered
    <3>3. ~(g[1] = f[1] /\ g[2] = f[2])
      BY <1>3, <3>1, FlowParts
    <3> QED BY <2>1, <3>2, <3>3
  <2>11. OfferedOnce(m)'
    BY <2>4 DEF OfferedOnce
  <2> QED BY <2>2, <2>3, <2>6, <2>7, <2>8, <2>9, <2>10, <2>11, OneSide DEF TableInv
<1> QED
  BY <1>4, <1>5 DEF Offer, f

\* shutAll shuts whatever is registered.
LEMMA IInvShutAll ==
  ASSUME IInv, NEW m \in Side, shutAll(m),
         UNCHANGED <<next, gens, held, inbound, closing, offering>>
  PROVE  IInv'
<1> DEFINE R == {Flow(k, table[m][k]) : k \in {i \in IDs : table[m][i] # 0}}
<1> USE DEF Types
<1>1. Types /\ TableInv(m)
  BY DEF IInv
<1>2. /\ closed' = [closed EXCEPT ![m] = TRUE]
      /\ shut' = [shut EXCEPT ![m] = @ \cup R]
      /\ table' = [table EXCEPT ![m] = [k \in IDs |-> 0]]
  BY DEF shutAll
<1>3. R \subseteq Flows /\ \A g \in R : g[1] \in IDs /\ g[2] = table[m][g[1]]
  BY <1>1, FlowParts
<1>4. \A k \in IDs : table[m][k] # 0 => Flow(k, table[m][k]) \in R
  OBVIOUS
<1> HIDE DEF R
<1>5. Types'
  BY <1>1, <1>2, <1>3
<1>6. Same(Peer(m))
  BY <1>1, <1>2, Sides DEF Same
<1>7. shut'[m] = shut[m] \cup R /\ \A i \in IDs : table'[m][i] = 0
  BY <1>1, <1>2
<1>8. Given(m)' = Given(m) /\ Queued(m)' = Queued(m)
  BY DEF Given, Queued
<1>9. Allocation(m)' /\ OwnOnce(m)'
  BY <1>1 DEF TableInv, Allocation, OwnOnce, Own
<1>10. ClosedEmpty(m)' /\ ClosingShut(m)' /\ RegisteredGiven(m)'
  BY <1>1, <1>7 DEF TableInv, ClosedEmpty, ClosingShut, RegisteredGiven
<1>11. Numbered(m)'
  <2>1. \A i \in IDs : table'[m][i] <= gens[m][i]
    BY <1>1, <1>7
  <2>2. \A g \in Given(m) \cup shut[m] \cup R : g[2] <= gens[m][g[1]]
    BY <1>1, <1>3 DEF TableInv, Numbered
  <2> QED BY <1>7, <1>8, <2>1, <2>2 DEF Numbered
<1>12. OpenRegistered(m)'
  <2> SUFFICES ASSUME NEW g \in Given(m), g \notin shut[m] \cup R
               PROVE  FALSE
    BY <1>7, <1>8 DEF OpenRegistered
  <2>1. g \in Flows
    BY <1>1 DEF Given, Queued
  <2>2. g[1] \in IDs /\ g[2] # 0 /\ g = Flow(g[1], g[2]) /\ table[m][g[1]] = g[2]
    BY <1>1, <2>1, FlowParts DEF TableInv, OpenRegistered
  <2> QED BY <1>4, <2>2
<1>13. OfferedOnce(m)'
  BY <1>1, <1>8 DEF TableInv, OfferedOnce
<1> QED
  BY <1>5, <1>6, <1>9, <1>10, <1>11, <1>12, <1>13, OneSide DEF TableInv

\* IInv is inductive.
LEMMA IInvNext ==
  ASSUME IInv, [Next]_vars
  PROVE  IInv'
<1>1. ASSUME UNCHANGED <<next, table, gens, shut, held, inbound, closing, offering, closed>>
      PROVE  IInv'
  BY <1>1, IInvUntouched DEF IInv, Types
<1>2. CASE UNCHANGED vars
  BY <1>1, <1>2 DEF vars
<1>3. CASE Next
  <2>1. PICK m \in Side :
          \/ OpenStream(m) \/ AcceptStream(m)
          \/ \E f \in held[m] : SendData(m, f) \/ Close(m, f)
          \/ CloseStep(m) \/ Handle(m) \/ Offer(m)
          \/ \E k \in IDs : ExpireTombstone(m, k) \/ RetryFIN(m, k) \/ ReapIdle(m, k)
          \/ MuxClose(m) \/ RecvFails(m)
          \/ \E fr \in BagToSet(chan[m]) : Lose(m, fr)
    BY <1>3 DEF Next
  <2>2. CASE OpenStream(m) \/ AcceptStream(m) \/ Offer(m)
    BY <2>2, IInvOpenStream, IInvAcceptStream, IInvOffer
  <2>3. ASSUME NEW f, SendData(m, f) \/ Close(m, f) PROVE IInv'
    BY <2>3, <1>1, IInvClose DEF SendData, tableVars, appVars, lifeVars
  <2>4. ASSUME NEW f, Remove(m, f) PROVE IInv'
    BY <2>4, IInvRemove
  <2>5. ASSUME NEW f, beginFIN(m, f) PROVE IInv'
    <3>1. /\ UNCHANGED <<next, table, gens, shut, held, inbound, offering, closed>>
          /\ closing' = [closing EXCEPT ![m] = @ \ {<<f, "fin">>}]
      BY <2>5 DEF beginFIN, tableVars, lifeVars
    <3>2. closing' \in [Side -> SUBSET (Flows \X {"remove", "fin"})]
      BY <3>1 DEF IInv, Types
    <3>3. \A n \in Side : closing'[n] \subseteq closing[n]
      BY <3>1 DEF IInv, Types
    <3> QED BY <3>1, <3>2, <3>3, IInvUntouched
  <2>6. ASSUME NEW k \in IDs, HandleFIN(m, k) \/ HandleFINAck(m, k) \/ HandleData(m, k) PROVE IInv'
    BY <2>6, <1>1, IInvHandleFIN, IInvHandleData DEF HandleFINAck, tableVars, appVars, lifeVars
  <2>7. ASSUME NEW k \in IDs, ExpireTombstone(m, k) \/ RetryFIN(m, k) \/ ReapIdle(m, k) PROVE IInv'
    BY <2>7, <1>1, IInvReapIdle DEF ExpireTombstone, RetryFIN, tableVars, appVars, lifeVars
  <2>8. CASE MuxClose(m) \/ RecvFails(m)
    BY <2>8, IInvShutAll DEF MuxClose, RecvFails, appVars
  <2>9. ASSUME NEW fr, Lose(m, fr) PROVE IInv'
    BY <2>9, <1>1 DEF Lose, tableVars, appVars, lifeVars
  <2> QED
    BY <2>1, <2>2, <2>3, <2>4, <2>5, <2>6, <2>7, <2>8, <2>9 DEF CloseStep, Handle
<1> QED
  BY <1>2, <1>3

\* It holds of two muxes that have just been made.
LEMMA IInvInit ==
  ASSUME Init
  PROVE  IInv
<1>1. Types
  BY DEF Init, Types
<1>2. ASSUME NEW m \in Side PROVE Queued(m) = {} /\ Given(m) = {}
  BY DEF Init, Queued, Given
<1>3. ASSUME NEW m \in Side PROVE TableInv(m)
  <2>1. Allocation(m) /\ OwnOnce(m)
    BY DEF Init, Allocation, OwnOnce, Side
  <2>2. Numbered(m) /\ OfferedOnce(m) /\ OpenRegistered(m) /\ RegisteredGiven(m)
    BY <1>2 DEF Init, Numbered, OfferedOnce, OpenRegistered, RegisteredGiven
  <2>3. ClosingShut(m) /\ ClosedEmpty(m)
    BY DEF Init, ClosingShut, ClosedEmpty
  <2> QED BY <2>1, <2>2, <2>3 DEF TableInv
<1> QED
  BY <1>1, <1>3 DEF IInv

\* The tables of both sides and the flows the application holds stay in step, for any
\* number of IDs and whatever the channel delivers, delays or loses.
THEOREM Invariant == Spec => []IInv
<1>1. Init => IInv
  BY IInvInit
<1>2. IInv /\ [Next]_vars => IInv'
  BY IInvNext
<1> QED
  BY <1>1, <1>2, PTL DEF Spec

\* A flow the application holds and nothing has shut is the one its ID leads to, so
\* that DATA, FIN, idle reaping and shutAll all still reach it (flow.deliver, remove).
THEOREM HeldFlowsReachable == Spec => []OpenFlowsRegistered
<1>1. IInv => OpenFlowsRegistered
  BY DEF IInv, TableInv, OpenRegistered, Given, Queued, OpenFlowsRegistered, Types
<1> QED
  BY <1>1, Invariant, PTL

\* No flow is registered that nobody has or will be given (Mux.offer's eviction).
THEOREM NoFlowHidden == Spec => []NoHiddenFlow
<1>1. IInv => NoHiddenFlow
  BY DEF IInv, TableInv, RegisteredGiven, Given, Queued, NoHiddenFlow
<1> QED
  BY <1>1, Invariant, PTL

\* A side makes one flow for each ID it allocates and never a second
\* (lookupOrCreate's namespace check).
THEOREM OwnIDsUsedOnce == Spec => []OwnIDsNotReused
<1>1. IInv => OwnIDsNotReused
  BY DEF IInv, TableInv, OwnOnce, OwnIDsNotReused
<1> QED
  BY <1>1, Invariant, PTL

-----------------------------------------------------------------------------
(* The control tables, the channel and the counters: ControlInv.           *)

\* Sending puts at most the one frame on the way, and only towards the peer.
LEMMA Sending ==
  ASSUME ControlTypes, NEW m \in Side, NEW kind \in {"DATA", "FIN", "FIN_ACK"}, NEW k \in IDs,
         Send(m, kind, k)
  PROVE  /\ chan' \in [Side -> Channel] /\ DOMAIN chan'[m] \subseteq DOMAIN chan[m]
         /\ DOMAIN chan'[Peer(m)] \subseteq DOMAIN chan[Peer(m)] \cup {Frame(kind, k)}
<1>1. Peer(m) \in Side /\ Peer(m) # m /\ chan \in [Side -> Channel]
  BY Sides DEF ControlTypes
<1>2. chan' = [chan EXCEPT ![Peer(m)] = Carrying(chan[Peer(m)], kind, k)]
  BY DEF Send
<1>3. chan[Peer(m)] \in Channel
  BY <1>1
<1>4. /\ Carrying(chan[Peer(m)], kind, k) \in Channel
      /\ DOMAIN Carrying(chan[Peer(m)], kind, k) \subseteq DOMAIN chan[Peer(m)] \cup {Frame(kind, k)}
  BY <1>3, ChannelSteps
<1> QED
  BY <1>1, <1>2, <1>4

\* Taking a frame, or losing one, puts none on the way.
LEMMA Taking ==
  ASSUME ControlTypes, NEW m \in Side, NEW fr, chan' = [chan EXCEPT ![m] = @ (-) SetToBag({fr})]
  PROVE  /\ chan' \in [Side -> Channel]
         /\ \A n \in Side : DOMAIN chan'[n] \subseteq DOMAIN chan[n]
<1>1. chan \in [Side -> Channel] /\ chan[m] \in Channel
  BY DEF ControlTypes
<1>2. 0 \in IDs
  BY MuxAssumption DEF IDs
<1>3. chan[m] (-) SetToBag({fr}) \in Channel /\ DOMAIN (chan[m] (-) SetToBag({fr})) \subseteq DOMAIN chan[m]
  BY <1>1, <1>2, ChannelSteps
<1> QED
  BY <1>1, <1>3

\* A FIN is taken and its answer sent.
LEMMA Answering ==
  ASSUME ControlTypes, NEW m \in Side, NEW k \in IDs, HandleFIN(m, k)
  PROVE  /\ chan' \in [Side -> Channel] /\ DOMAIN chan'[m] \subseteq DOMAIN chan[m]
         /\ DOMAIN chan'[Peer(m)] \subseteq DOMAIN chan[Peer(m)] \cup {Frame("FIN_ACK", k)}
<1> DEFINE a == chan[m] (-) SetToBag({Frame("FIN", k)})
           b == Carrying(chan[Peer(m)], "FIN_ACK", k)
<1>1. Peer(m) \in Side /\ Peer(m) # m /\ chan \in [Side -> Channel]
  BY Sides DEF ControlTypes
<1>2. chan' = [chan EXCEPT ![m] = a, ![Peer(m)] = b]
  BY <1>1 DEF HandleFIN, One
<1>3. chan[m] \in Channel /\ chan[Peer(m)] \in Channel
  BY <1>1
<1>4. a \in Channel /\ DOMAIN a \subseteq DOMAIN chan[m]
  BY <1>3, ChannelSteps
<1>5. b \in Channel /\ DOMAIN b \subseteq DOMAIN chan[Peer(m)] \cup {Frame("FIN_ACK", k)}
  BY <1>3, ChannelSteps
<1> HIDE DEF a, b
<1> QED
  BY <1>1, <1>2, <1>4, <1>5

\* The two tables, and the backlog, of the side a step is about.
LEMMA OneSideBounded ==
  ASSUME ControlInv, NEW m \in Side, ControlTypes', Bounded(m)',
         pending'[Peer(m)] = pending[Peer(m)], tombs'[Peer(m)] = tombs[Peer(m)],
         inbound'[Peer(m)] = inbound[Peer(m)]
  PROVE  ControlInv'
<1>1. Bounded(Peer(m))'
  <2>1. pendingIDs(Peer(m))' = pendingIDs(Peer(m))
    BY DEF pendingIDs
  <2> QED BY <2>1, Sides DEF ControlInv, Bounded
<1>2. \A n \in Side : n = m \/ n = Peer(m)
  BY Sides
<1> QED
  BY <1>1, <1>2 DEF ControlInv

\* A step that leaves the tables alone.
LEMMA TablesAlone ==
  ASSUME ControlInv, UNCHANGED <<pending, tombs, inbound, ended, finished, evicted>>,
         chan' \in [Side -> Channel], sent' \in 0..MaxData, lost' \in 0..MaxLoss
  PROVE  ControlInv'
BY DEF ControlInv, ControlTypes, Bounded, pendingIDs

\* One entry of the FIN table is written; a new one only below the limit.
LEMMA PendingStep ==
  ASSUME ControlInv, NEW m \in Side, NEW k \in IDs, NEW v \in NoFIN..FINRetryCount,
         pending' = [pending EXCEPT ![m][k] = v],
         v = NoFIN \/ pending[m][k] # NoFIN \/ Cardinality(pendingIDs(m)) < MaxPending
  PROVE  /\ pending' \in [Side -> [IDs -> NoFIN..FINRetryCount]]
         /\ pending'[Peer(m)] = pending[Peer(m)]
         /\ Cardinality(pendingIDs(m))' <= MaxPending
<1>1. pending \in [Side -> [IDs -> NoFIN..FINRetryCount]] /\ Cardinality(pendingIDs(m)) <= MaxPending
  BY DEF ControlInv, ControlTypes, Bounded
<1>2. pending[m] \in [IDs -> NoFIN..FINRetryCount] /\ pending'[m] = [pending[m] EXCEPT ![k] = v]
  BY <1>1
<1>3. pendingIDs(m) = {i \in IDs : pending[m][i] # NoFIN}
  BY DEF pendingIDs
<1>4. pendingIDs(m)' = {i \in IDs : [pending[m] EXCEPT ![k] = v][i] # NoFIN}
  BY <1>2 DEF pendingIDs
<1>5. /\ (v = NoFIN \/ pending[m][k] # NoFIN) => Cardinality(pendingIDs(m)') <= Cardinality(pendingIDs(m))
      /\ Cardinality(pendingIDs(m)') <= Cardinality(pendingIDs(m)) + 1
      /\ Cardinality(pendingIDs(m)) \in Nat /\ Cardinality(pendingIDs(m)') \in Nat
  BY <1>2, <1>3, <1>4, PendingWritten
<1>6. MaxPending \in Nat
  BY MuxAssumption
<1>7. Cardinality(pendingIDs(m)') <= MaxPending
  BY <1>1, <1>5, <1>6
<1> QED
  BY <1>1, <1>7, Sides

\* 0 retries is an entry like any other.
LEMMA RetryRange == 0 \in NoFIN..FINRetryCount /\ NoFIN \in NoFIN..FINRetryCount
BY MuxAssumption DEF NoFIN

\* Accepting shortens the backlog.
LEMMA ControlAcceptStream ==
  ASSUME IInv, ControlInv, NEW m \in Side, AcceptStream(m)
  PROVE  ControlInv'
<1>1. /\ inbound[m] \in Seq(Flows) /\ inbound[m] # <<>> /\ inbound'[m] = Tail(inbound[m])
      /\ inbound'[Peer(m)] = inbound[Peer(m)]
  BY Sides DEF IInv, Types, AcceptStream
<1>2. Len(inbound'[m]) = Len(inbound[m]) - 1 /\ Len(inbound[m]) \in Nat
  BY <1>1, QueueTail
<1>3. UNCHANGED <<pending, tombs, finished, evicted, ended, chan, sent, lost>>
  BY DEF AcceptStream, controlVars, lifeVars
<1>4. Bounded(m)'
  <2>1. pendingIDs(m)' = pendingIDs(m)
    BY <1>3 DEF pendingIDs
  <2>2. Len(inbound'[m]) <= Backlog
    BY <1>2, MuxAssumption DEF ControlInv, Bounded
  <2> QED BY <1>3, <2>1, <2>2 DEF ControlInv, Bounded
<1> QED
  BY <1>1, <1>3, <1>4, OneSideBounded DEF ControlInv, ControlTypes

\* Offering lengthens it only while there is room.
LEMMA ControlOffer ==
  ASSUME IInv, ControlInv, NEW m \in Side, Offer(m)
  PROVE  ControlInv'
<1>1. UNCHANGED <<pending, tombs, finished, evicted, ended, chan, sent, lost>>
  BY DEF Offer, controlVars, lifeVars
<1>2. CASE UNCHANGED inbound
  BY <1>1, <1>2, TablesAlone DEF ControlInv, ControlTypes
<1>3. CASE Len(inbound[m]) < Backlog /\ inbound' = [inbound EXCEPT ![m] = Append(@, offering[m])]
  <2>1. /\ inbound[m] \in Seq(Flows) /\ inbound'[m] = Append(inbound[m], offering[m])
        /\ inbound'[Peer(m)] = inbound[Peer(m)] /\ offering[m] \in Flows
    BY <1>3, Sides DEF IInv, Types, Offer
  <2>2. Len(inbound'[m]) = Len(inbound[m]) + 1 /\ Len(inbound[m]) \in Nat
    BY <2>1, QueueAppend
  <2>3. Bounded(m)'
    BY <1>1, <1>3, <2>2, MuxAssumption DEF ControlInv, Bounded, pendingIDs
  <2> QED BY <1>1, <2>1, <2>3, OneSideBounded DEF ControlInv, ControlTypes
<1> QED
  BY <1>2, <1>3 DEF Offer

\* A FIN adds a tombstone, at the cost of another when the table is full.
LEMMA ControlHandleFIN ==
  ASSUME ControlInv, NEW m \in Side, NEW k \in IDs, HandleFIN(m, k)
  PROVE  ControlInv'
<1>1. UNCHANGED <<pending, inbound, ended, sent, lost>> /\ finished' = [finished EXCEPT ![m] = @ \cup {k}]
  BY DEF HandleFIN, appVars, lifeVars
<1>2. PICK T \in addTombstone(tombs[m], k) :
        /\ tombs' = [tombs EXCEPT ![m] = T]
        /\ evicted' = [evicted EXCEPT ![m] = (@ \cup (tombs[m] \ T)) \ {k}]
  BY DEF HandleFIN, takeAndTombstone, Tombstone
<1>3. tombs[m] \in SUBSET IDs /\ Cardinality(tombs[m]) <= MaxTombstones
  BY DEF ControlInv, ControlTypes, Bounded
<1>4. T \in SUBSET IDs /\ Cardinality(T) <= MaxTombstones
  BY <1>2, <1>3, TombstoneAdded
<1>5. tombs' \in [Side -> SUBSET IDs] /\ tombs'[m] = T /\ tombs'[Peer(m)] = tombs[Peer(m)]
  BY <1>2, <1>4, Sides DEF ControlInv, ControlTypes
<1>6. chan' \in [Side -> Channel]
  BY Answering DEF ControlInv
<1>7. ControlTypes'
  <2>1. evicted' \in [Side -> SUBSET IDs]
    BY <1>2 DEF ControlInv, ControlTypes
  <2> QED BY <1>1, <1>5, <1>6, <2>1 DEF ControlInv, ControlTypes
<1>8. Bounded(m)'
  BY <1>1, <1>4, <1>5 DEF ControlInv, Bounded, pendingIDs
<1> QED
  BY <1>1, <1>5, <1>7, <1>8, OneSideBounded

\* An acknowledgement frees a pending slot.
LEMMA ControlHandleFINAck ==
  ASSUME ControlInv, NEW m \in Side, NEW k \in IDs, HandleFINAck(m, k)
  PROVE  ControlInv'
<1>1. UNCHANGED <<tombs, inbound, ended, finished, evicted, sent, lost>>
  BY DEF HandleFINAck, appVars, lifeVars
<1>2. /\ pending' \in [Side -> [IDs -> NoFIN..FINRetryCount]]
      /\ pending'[Peer(m)] = pending[Peer(m)]
      /\ Cardinality(pendingIDs(m))' <= MaxPending
  BY PendingStep, RetryRange DEF HandleFINAck
<1>3. chan' \in [Side -> Channel]
  BY Taking DEF HandleFINAck, Take, One, ControlInv
<1>4. ControlTypes' /\ Bounded(m)'
  BY <1>1, <1>2, <1>3 DEF ControlInv, ControlTypes, Bounded
<1> QED
  BY <1>1, <1>2, <1>4, OneSideBounded

\* A close takes a pending slot only if there is one.
LEMMA ControlBeginFIN ==
  ASSUME IInv, ControlInv, NEW m \in Side, NEW f, beginFIN(m, f)
  PROVE  ControlInv'
<1>1. UNCHANGED <<tombs, inbound, ended, finished, evicted, sent, lost>>
  BY DEF beginFIN, lifeVars
<1>2. f[1] \in IDs
  <2>1. <<f, "fin">> \in Flows \X {"remove", "fin"}
    BY DEF beginFIN, IInv, Types
  <2> QED BY <2>1, FlowParts
<1>3. chan' \in [Side -> Channel]
  BY <1>2, Sending DEF beginFIN, ControlInv
<1>4. CASE pending' = pending
  BY <1>1, <1>3, <1>4, TablesAlone DEF ControlInv, ControlTypes
<1>5. CASE Cardinality(pendingIDs(m)) < MaxPending /\ pending' = [pending EXCEPT ![m][f[1]] = 0]
  <2>1. /\ pending' \in [Side -> [IDs -> NoFIN..FINRetryCount]]
        /\ pending'[Peer(m)] = pending[Peer(m)]
        /\ Cardinality(pendingIDs(m))' <= MaxPending
    BY <1>2, <1>5, PendingStep, RetryRange
  <2>2. ControlTypes' /\ Bounded(m)'
    BY <1>1, <1>3, <2>1 DEF ControlInv, ControlTypes, Bounded
  <2> QED BY <1>1, <2>1, <2>2, OneSideBounded
<1> QED
  BY <1>4, <1>5 DEF beginFIN

\* Expiry frees a tombstone.
LEMMA ControlExpire ==
  ASSUME ControlInv, NEW m \in Side, NEW k \in IDs, ExpireTombstone(m, k)
  PROVE  ControlInv'
<1>1. UNCHANGED <<pending, inbound, ended, finished, evicted, chan, sent, lost>>
      /\ tombs' = [tombs EXCEPT ![m] = @ \ {k}]
  BY DEF ExpireTombstone, appVars, lifeVars
<1>2. tombs[m] \in SUBSET IDs /\ Cardinality(tombs[m]) <= MaxTombstones
  BY DEF ControlInv, ControlTypes, Bounded
<1>3. Cardinality(tombs[m] \ {k}) <= MaxTombstones
  <2>1. tombs[m] \ {k} \in SUBSET tombs[m]
    OBVIOUS
  <2>2. Cardinality(tombs[m] \ {k}) <= Cardinality(tombs[m]) /\ Cardinality(tombs[m]) \in Nat
    BY <1>2, <2>1, TableSize
  <2>3. Cardinality(tombs[m] \ {k}) \in Nat
    BY <1>2, TableSize
  <2> QED BY <1>2, <2>2, <2>3, MuxAssumption
<1>4. tombs' \in [Side -> SUBSET IDs] /\ tombs'[m] = tombs[m] \ {k} /\ tombs'[Peer(m)] = tombs[Peer(m)]
  BY <1>1, Sides DEF ControlInv, ControlTypes
<1>5. ControlTypes' /\ Bounded(m)'
  BY <1>1, <1>3, <1>4 DEF ControlInv, ControlTypes, Bounded, pendingIDs
<1> QED
  BY <1>1, <1>4, <1>5, OneSideBounded

\* A retry is counted up to FINRetryCount, then given up.
LEMMA ControlRetryFIN ==
  ASSUME ControlInv, NEW m \in Side, NEW k \in IDs, RetryFIN(m, k)
  PROVE  ControlInv'
<1>1. UNCHANGED <<tombs, inbound, ended, finished, evicted, sent, lost>> /\ pending[m][k] # NoFIN
  BY DEF RetryFIN, appVars, lifeVars
<1>2. PICK v \in NoFIN..FINRetryCount : pending' = [pending EXCEPT ![m][k] = v]
  <2>1. pending[m][k] \in NoFIN..FINRetryCount /\ pending[m][k] # NoFIN /\ FINRetryCount \in Nat
    BY <1>1, MuxAssumption DEF ControlInv, ControlTypes
  <2>2. pending[m][k] < FINRetryCount => pending[m][k] + 1 \in NoFIN..FINRetryCount
    BY <2>1 DEF NoFIN
  <2> QED BY <2>2, RetryRange DEF RetryFIN
<1>3. /\ pending' \in [Side -> [IDs -> NoFIN..FINRetryCount]]
      /\ pending'[Peer(m)] = pending[Peer(m)]
      /\ Cardinality(pendingIDs(m))' <= MaxPending
  BY <1>1, <1>2, PendingStep
<1>4. chan' \in [Side -> Channel]
  BY Sending DEF RetryFIN, ControlInv, ControlTypes
<1>5. ControlTypes' /\ Bounded(m)'
  BY <1>1, <1>3, <1>4 DEF ControlInv, ControlTypes, Bounded
<1> QED
  BY <1>1, <1>3, <1>5, OneSideBounded

\* Reaping takes a tombstone and, if there is one, a pending slot.
LEMMA ControlReapIdle ==
  ASSUME ControlInv, NEW m \in Side, NEW k \in IDs, ReapIdle(m, k)
  PROVE  ControlInv'
<1>1. UNCHANGED <<inbound, ended, finished, sent, lost>>
  BY DEF ReapIdle, appVars, lifeVars
<1>2. PICK T \in addTombstone(tombs[m], k) :
        /\ tombs' = [tombs EXCEPT ![m] = T]
        /\ evicted' = [evicted EXCEPT ![m] = (@ \cup (tombs[m] \ T)) \ {k}]
  BY DEF ReapIdle, Tombstone
<1>3. tombs[m] \in SUBSET IDs /\ Cardinality(tombs[m]) <= MaxTombstones
  BY DEF ControlInv, ControlTypes, Bounded
<1>4. T \in SUBSET IDs /\ Cardinality(T) <= MaxTombstones
  BY <1>2, <1>3, TombstoneAdded
<1>5. tombs' \in [Side -> SUBSET IDs] /\ tombs'[m] = T /\ tombs'[Peer(m)] = tombs[Peer(m)]
  BY <1>2, <1>4, Sides DEF ControlInv, ControlTypes
<1>6. chan' \in [Side -> Channel]
  BY Sending DEF ReapIdle, ControlInv
<1>7. /\ pending' \in [Side -> [IDs -> NoFIN..FINRetryCount]]
      /\ pending'[Peer(m)] = pending[Peer(m)]
      /\ Cardinality(pendingIDs(m))' <= MaxPending
  <2>1. CASE pending' = pending
    BY <2>1 DEF ControlInv, ControlTypes, Bounded, pendingIDs
  <2>2. CASE Cardinality(pendingIDs(m)) < MaxPending /\ pending' = [pending EXCEPT ![m][k] = 0]
    BY <2>2, PendingStep, RetryRange
  <2> QED BY <2>1, <2>2 DEF ReapIdle
<1>8. ControlTypes' /\ Bounded(m)'
  <2>1. evicted' \in [Side -> SUBSET IDs]
    BY <1>2 DEF ControlInv, ControlTypes
  <2> QED BY <1>1, <1>4, <1>5, <1>6, <1>7, <2>1 DEF ControlInv, ControlTypes, Bounded
<1> QED
  BY <1>1, <1>5, <1>7, <1>8, OneSideBounded

\* shutAll empties both tables.
LEMMA ControlShutAll ==
  ASSUME ControlInv, NEW m \in Side, shutAll(m), ended' \in [Side -> BOOLEAN],
         UNCHANGED <<inbound, finished, evicted, chan, sent, lost>>
  PROVE  ControlInv'
<1>1. /\ pending' = [pending EXCEPT ![m] = [k \in IDs |-> NoFIN]]
      /\ tombs' = [tombs EXCEPT ![m] = {}]
  BY DEF shutAll
<1>2. /\ pending' \in [Side -> [IDs -> NoFIN..FINRetryCount]] /\ tombs' \in [Side -> SUBSET IDs]
      /\ pending'[Peer(m)] = pending[Peer(m)] /\ tombs'[Peer(m)] = tombs[Peer(m)]
      /\ tombs'[m] = {} /\ \A k \in IDs : pending'[m][k] = NoFIN
  BY <1>1, RetryRange, Sides DEF ControlInv, ControlTypes
<1>3. pendingIDs(m)' = {}
  BY <1>2 DEF pendingIDs
<1>4. Cardinality({}) = 0
  BY FS_EmptySet
<1>5. Bounded(m)'
  BY <1>2, <1>3, <1>4, MuxAssumption DEF ControlInv, Bounded
<1>6. ControlTypes'
  BY <1>2 DEF ControlInv, ControlTypes
<1> QED
  BY <1>2, <1>5, <1>6, OneSideBounded

\* ControlInv is inductive together with IInv.
LEMMA ControlNext ==
  ASSUME IInv, ControlInv, [Next]_vars
  PROVE  ControlInv'
<1>0. ControlTypes /\ Types
  BY DEF ControlInv, IInv
<1>1. CASE UNCHANGED vars
  BY <1>0, <1>1, TablesAlone DEF vars, ControlTypes
<1>2. CASE Next
  <2>1. PICK m \in Side :
          \/ OpenStream(m) \/ AcceptStream(m)
          \/ \E f \in held[m] : SendData(m, f) \/ Close(m, f)
          \/ CloseStep(m) \/ Handle(m) \/ Offer(m)
          \/ \E k \in IDs : ExpireTombstone(m, k) \/ RetryFIN(m, k) \/ ReapIdle(m, k)
          \/ MuxClose(m) \/ RecvFails(m)
          \/ \E fr \in BagToSet(chan[m]) : Lose(m, fr)
    BY <1>2 DEF Next
  <2>2. CASE OpenStream(m)
    <3>1. UNCHANGED <<inbound, pending, tombs, finished, evicted, ended, chan, sent, lost>>
      BY <2>2 DEF OpenStream, controlVars, lifeVars
    <3> QED BY <1>0, <3>1, TablesAlone DEF ControlTypes
  <2>3. CASE AcceptStream(m) \/ Offer(m)
    BY <2>3, ControlAcceptStream, ControlOffer
  <2>4. ASSUME NEW f \in held[m], SendData(m, f) PROVE ControlInv'
    <3>1. f[1] \in IDs
      BY <1>0, FlowParts DEF Types
    <3>2. chan' \in [Side -> Channel]
      BY <1>0, <2>4, <3>1, Sending DEF SendData
    <3>3. sent' \in 0..MaxData
      BY <1>0, <2>4, MuxAssumption DEF SendData, ControlTypes
    <3>4. UNCHANGED <<inbound, pending, tombs, finished, evicted, ended, lost>>
      BY <2>4 DEF SendData, appVars, controlVars, lifeVars
    <3> QED BY <1>0, <3>2, <3>3, <3>4, TablesAlone DEF ControlTypes
  <2>5. ASSUME NEW f, Close(m, f) \/ Remove(m, f) PROVE ControlInv'
    <3>1. UNCHANGED <<inbound, pending, tombs, finished, evicted, ended, chan, sent, lost>>
      BY <2>5 DEF Close, Remove, controlVars, lifeVars
    <3> QED BY <1>0, <3>1, TablesAlone DEF ControlTypes
  <2>6. ASSUME NEW f, beginFIN(m, f) PROVE ControlInv'
    BY <2>6, ControlBeginFIN
  <2>7. ASSUME NEW k \in IDs, HandleFIN(m, k) \/ HandleFINAck(m, k) PROVE ControlInv'
    BY <2>7, ControlHandleFIN, ControlHandleFINAck
  <2>8. ASSUME NEW k \in IDs, HandleData(m, k) PROVE ControlInv'
    <3>1. chan' \in [Side -> Channel]
      BY <1>0, <2>8, Taking DEF HandleData, Take, One
    <3>2. UNCHANGED <<inbound, pending, tombs, finished, evicted, ended, sent, lost>>
      BY <2>8 DEF HandleData, appVars, controlVars, lifeVars
    <3> QED BY <1>0, <3>1, <3>2, TablesAlone DEF ControlTypes
  <2>9. ASSUME NEW k \in IDs, ExpireTombstone(m, k) \/ RetryFIN(m, k) \/ ReapIdle(m, k)
        PROVE  ControlInv'
    BY <2>9, ControlExpire, ControlRetryFIN, ControlReapIdle
  <2>10. CASE MuxClose(m) \/ RecvFails(m)
    <3>1. shutAll(m) /\ UNCHANGED <<inbound, finished, evicted, chan, sent, lost>>
      BY <2>10 DEF MuxClose, RecvFails, appVars
    <3>2. ended' \in [Side -> BOOLEAN]
      BY <1>0, <2>10 DEF MuxClose, RecvFails, ControlTypes
    <3> QED BY <3>1, <3>2, ControlShutAll
  <2>11. ASSUME NEW fr, Lose(m, fr) PROVE ControlInv'
    <3>1. chan' \in [Side -> Channel]
      BY <1>0, <2>11, Taking DEF Lose
    <3>2. UNCHANGED <<inbound, pending, tombs, finished, evicted, ended, sent>>
      BY <2>11 DEF Lose, appVars, controlVars, lifeVars
    <3>3. lost' \in 0..MaxLoss
      BY <1>0, <2>11, MuxAssumption DEF Lose, ControlTypes
    <3> QED BY <1>0, <3>1, <3>2, <3>3, TablesAlone DEF ControlTypes
  <2> QED
    BY <2>1, <2>2, <2>3, <2>4, <2>5, <2>6, <2>7, <2>8, <2>9, <2>10, <2>11 DEF CloseStep, Handle
<1> QED
  BY <1>1, <1>2

\* It holds of two muxes that have just been made.
LEMMA ControlInit ==
  ASSUME Init
  PROVE  ControlInv
<1>1. EmptyBag \in Channel
  <2>1. EmptyBag \in [{} -> Nat \ {0}]
    BY DEF EmptyBag, SetToBag
  <2> QED BY <2>1 DEF Channel
<1>2. ControlTypes
  BY <1>1, RetryRange, MuxAssumption DEF Init, ControlTypes
<1>3. ASSUME NEW m \in Side PROVE Bounded(m)
  <2>1. pendingIDs(m) = {} /\ tombs[m] = {} /\ Len(inbound[m]) = 0
    BY DEF Init, pendingIDs
  <2>2. Cardinality({}) = 0
    BY FS_EmptySet
  <2> QED BY <2>1, <2>2, MuxAssumption DEF Bounded
<1> QED
  BY <1>2, <1>3 DEF ControlInv

\* Control state stays bounded whatever the peer sends: both tables, the backlog and the
\* retries of every FIN (addTombstoneLocked, beginFIN, maintenance).
THEOREM TypeCorrect == Spec => []TypeOK
<1>1. Init => IInv /\ ControlInv
  BY IInvInit, ControlInit
<1>2. IInv /\ ControlInv /\ [Next]_vars => (IInv /\ ControlInv)'
  BY IInvNext, ControlNext
<1>3. IInv /\ ControlInv => TypeOK
  <2> SUFFICES ASSUME IInv, ControlInv PROVE TypeOK
    OBVIOUS
  <2>1. ASSUME NEW m \in Side PROVE IsABag(chan[m]) /\ BagToSet(chan[m]) \subseteq Frames
    BY ChannelParts DEF ControlInv, ControlTypes, IsABag, BagToSet
  <2>2. \A m \in Side : /\ Cardinality({k \in IDs : pending[m][k] # NoFIN}) <= MaxPending
                        /\ Cardinality(tombs[m]) <= MaxTombstones /\ Len(inbound[m]) <= Backlog
    BY DEF ControlInv, Bounded, pendingIDs
  <2> QED BY <2>1, <2>2 DEF TypeOK, IInv, Types, ControlInv, ControlTypes
<1> QED
  BY <1>1, <1>2, <1>3, PTL DEF Spec
=============================================================================
