------------------------ MODULE LadderLockstep_proofs ------------------------
(***************************************************************************)
(* The negotiate stream of Ladder carries untyped payloads; what makes     *)
(* each of them readable is that both sides count alike.  This module      *)
(* proves Lockstep for any number of punch attempts: the two sides of the  *)
(* punch are at most two messages apart, and they agree on whether an      *)
(* attempt landed before either of them climbs.                            *)
(***************************************************************************)
EXTENDS Ladder_proofs, Integers

-----------------------------------------------------------------------------
(* The punch, message by message.                                          *)

BeforePC == {"start", "idle", "hello"}
OverPC   == {"done", "ended"}
Punching(s) == pc[s] \in BeforePC \cup PunchPC
Over(s)     == pc[s] \in OverPC
Climbing(s) == ~Punching(s) /\ ~Over(s)

Waiting(s) == Len(chan[s])

\* For a side that has sent its outcome: the attempt landed on both sides, as far
\* as the peer's outcome has arrived.
Landed(s) == landed[s] /\ Waiting(s) >= 1 /\ chan[s][1].flag

\* What the peer sends after its credentials: its outcome, if there can be a retry.
AfterInfo(s) == IF AttemptsOf(s) = 1 THEN "attempt" ELSE "outcome"

\* The peer is never more than two messages ahead; what the first and the second
\* message under way must be.
First(s) ==
  CASE pc[s] \in BeforePC -> "hello"
    [] pc[s] \in {"gather", "info"} -> "info"
    [] pc[s] = "check" -> AfterInfo(s)
    [] OTHER -> "outcome"

Second(s) ==
  CASE pc[s] \in BeforePC -> "info"
    [] pc[s] \in {"gather", "info"} -> AfterInfo(s)
    [] OTHER -> IF Landed(s) THEN "attempt" ELSE "info"

InScript(s) ==
  /\ Punching(s) =>
       /\ Waiting(s) <= (IF pc[s] = "check" THEN 1 ELSE 2)
       /\ Waiting(s) >= 1 => chan[s][1].type = First(s)
       /\ Waiting(s) = 2 => chan[s][2].type = Second(s)
  /\ Climbing(s) => \A j \in 1..Waiting(s) : chan[s][j].type = "attempt"

\* How many messages a side that has not climbed yet has sent and read.
Sent(s) ==
  CASE pc[s] \in {"start", "idle"} -> 0
    [] pc[s] = "hello" -> 1
    [] pc[s] = "gather" -> 2 * tries[s] - 1
    [] pc[s] \in {"info", "check"} -> 2 * tries[s]
    [] OTHER -> 2 * tries[s] + 1

Read(s) ==
  CASE pc[s] \in BeforePC -> 0
    [] pc[s] \in {"gather", "info"} -> 2 * tries[s] - 1
    [] OTHER -> 2 * tries[s]

TriesInv(s) ==
  /\ pc[s] \in BeforePC => tries[s] = 0
  /\ pc[s] \in PunchPC => 1 <= tries[s] /\ tries[s] <= AttemptsOf(s)
  /\ pc[s] = "outcome" => AttemptsOf(s) # 1
  /\ end[s] # "open" => Over(s)

\* Both sides are in the negotiation and nothing sent is lost.
Live == ~broken /\ \A s \in Side : ~Over(s)

\* Against a peer that has not climbed, what was sent and not read is under way; a peer
\* in a later attempt knows that this one has not landed, and an outcome under way is
\* the one its sender acts on.
InStep(s) ==
  /\ Read(s) + Waiting(s) = Sent(Peer(s))
  /\ pc[s] = "outcome" /\ tries[Peer(s)] > tries[s] => ~Landed(s)
  /\ pc[Peer(s)] = "outcome" =>
       \A j \in 1..Waiting(s) :
         chan[s][j].type = "outcome" => chan[s][j].flag = landed[Peer(s)]

\* A side whose peer has climbed is about to follow.
Behind(s) ==
  \/ pc[s] = "info" /\ Waiting(s) >= 1 /\ AttemptsOf(s) = 1
  \/ pc[s] = "check" /\ AttemptsOf(s) = 1
  \/ pc[s] = "outcome" /\ Landed(s)

PaceInv(s) ==
  Live /\ Punching(s) =>
    /\ ~Climbing(Peer(s)) => InStep(s)
    /\ Climbing(Peer(s)) => Behind(s)

StreamInv == \A s \in Side : TriesInv(s) /\ InScript(s) /\ PaceInv(s)

-----------------------------------------------------------------------------
(* The two sides, and the stream between them.                             *)

\* What is known of a side and its peer whatever they do.
LEMMA Pair ==
  ASSUME TypeOK, NEW s \in Side, NEW p \in Side, p # s
  PROVE  /\ Peer(s) = p /\ Peer(p) = s /\ \A t \in Side : t = s \/ t = p
         /\ AttemptsOf(s) = AttemptsOf(p) /\ AttemptsOf(s) \in Nat /\ AttemptsOf(s) >= 1
         /\ Waiting(s) \in Nat /\ Waiting(p) \in Nat
         /\ tries[s] \in Nat /\ tries[p] \in Nat
         /\ landed[s] \in BOOLEAN /\ landed[p] \in BOOLEAN
         /\ chan[s] # <<>> => Waiting(s) >= 1 /\ Head(chan[s]) = chan[s][1]
<1>1. Peer(s) = p /\ Peer(p) = s /\ \A t \in Side : t = s \/ t = p
  BY DEF Peer, Side
<1>2. /\ AttemptsOf("client") = AttemptsOf("host")
      /\ \A t \in Side : AttemptsOf(t) \in Nat /\ AttemptsOf(t) >= 1
  BY LadderShared DEF TypeOK
<1>3. AttemptsOf(s) = AttemptsOf(p)
  BY <1>2 DEF Side
<1>4. chan[s] \in Seq(Messages) /\ chan[p] \in Seq(Messages)
  BY DEF TypeOK
<1>5. tries[s] \in Nat /\ tries[p] \in Nat /\ landed[s] \in BOOLEAN /\ landed[p] \in BOOLEAN
  BY DEF TypeOK
<1>6. Waiting(s) \in Nat /\ Waiting(p) \in Nat
  BY <1>4 DEF Waiting
<1>7. chan[s] # <<>> => Waiting(s) >= 1 /\ Head(chan[s]) = chan[s][1]
  BY <1>4 DEF Waiting
<1> QED
  BY <1>1, <1>2, <1>3, <1>5, <1>6, <1>7

\* A message on its way to a peer that is there to read it.
Told(s, m) ==
  /\ Waiting(Peer(s))' = Waiting(Peer(s)) + 1
  /\ chan'[Peer(s)][Waiting(Peer(s)) + 1] = m
  /\ \A j \in 1..Waiting(Peer(s)) : chan'[Peer(s)][j] = chan[Peer(s)][j]
  /\ chan'[s] = chan[s]

\* A send reaches the peer unless the stream is broken or the peer has left it.
LEMMA Telling ==
  ASSUME TypeOK, NEW s \in Side, NEW m \in Messages, Send(s, m)
  PROVE  \/ UNCHANGED chan /\ (broken \/ end[Peer(s)] # "open")
         \/ Told(s, m) /\ ~broken /\ end[Peer(s)] = "open"
<1>1. Peer(s) \in Side /\ chan[Peer(s)] \in Seq(Messages)
  BY DEF TypeOK, Side, Peer
<1>2. CASE broken \/ end[Peer(s)] # "open"
  BY <1>2 DEF Send
<1>3. CASE ~broken /\ end[Peer(s)] = "open"
  <2>1. chan'[s] = chan[s] /\ chan'[Peer(s)] = Append(chan[Peer(s)], m)
    BY <1>3, SendTo
  <2>2. Told(s, m)
    BY <1>1, <2>1 DEF Told, Waiting
  <2> QED
    BY <1>3, <2>2
<1> QED
  BY <1>2, <1>3

\* A message read.
Took(s) ==
  /\ Waiting(s)' = Waiting(s) - 1
  /\ \A j \in 1..(Waiting(s) - 1) : chan'[s][j] = chan[s][j + 1]
  /\ chan'[Peer(s)] = chan[Peer(s)]

\* A read takes the first message.
LEMMA Taking ==
  ASSUME TypeOK, NEW s \in Side, chan[s] # <<>>, Take(s)
  PROVE  Took(s) /\ Waiting(s) >= 1 /\ Head(chan[s]) = chan[s][1]
<1>1. chan[s] \in Seq(Messages)
  BY DEF TypeOK
<1>2. chan'[s] = Tail(chan[s]) /\ chan'[Peer(s)] = chan[Peer(s)]
  BY TakeFrom
<1>3. Waiting(s)' = Waiting(s) - 1 /\ \A j \in 1..(Waiting(s) - 1) : chan'[s][j] = chan[s][j + 1]
  BY <1>1, <1>2 DEF Waiting
<1>4. Waiting(s) >= 1 /\ Head(chan[s]) = chan[s][1]
  BY <1>1 DEF Waiting
<1> QED
  BY <1>2, <1>3, <1>4 DEF Took

\* A step that leaves a side where it is.
Still(p) ==
  /\ pc'[p] = pc[p] /\ tries'[p] = tries[p] /\ landed'[p] = landed[p] /\ end'[p] = end[p]

\* Such a side's part of the invariant, when nothing is sent to it.
LEMMA StillScript ==
  ASSUME UNCHANGED hello, NEW p \in Side, Still(p), chan'[p] = chan[p], InScript(p)
  PROVE  InScript(p)'
<1>1. AttemptsOf(p)' = AttemptsOf(p)
  BY HelloFixed
<1> QED
  BY <1>1 DEF InScript, Still, Waiting, Punching, Climbing, Over, First, Second, AfterInfo, Landed

\* Its count of attempts, when it stays where it is.
LEMMA StillTries ==
  ASSUME UNCHANGED hello, NEW p \in Side, Still(p), TriesInv(p)
  PROVE  TriesInv(p)'
<1>1. AttemptsOf(p)' = AttemptsOf(p)
  BY HelloFixed
<1> QED
  BY <1>1 DEF TriesInv, Still, Over

\* Where two sides in the punch can be, given how many messages they have exchanged.
LEMMA BeforeHello ==
  ASSUME TypeOK, NEW s \in Side, NEW p \in Side, p # s, TriesInv(s), TriesInv(p),
         InStep(p), Punching(p), pc[s] \in {"start", "idle"}
  PROVE  pc[p] \in BeforePC /\ Waiting(p) = 0
<1>1. Waiting(p) \in Nat /\ tries[p] \in Nat /\ Peer(p) = s
  BY Pair
<1>2. Read(p) + Waiting(p) = 0
  BY <1>1 DEF InStep, Sent
<1> QED
  BY <1>1, <1>2 DEF Read, TriesInv, Punching, BeforePC, PunchPC

\* Against a side that begins an attempt the peer is at most that attempt behind.
LEMMA AtGather ==
  ASSUME TypeOK, NEW s \in Side, NEW p \in Side, p # s, TriesInv(s), TriesInv(p),
         InStep(p), InStep(s), InScript(p), Punching(p), pc[s] = "gather"
  PROVE  \/ pc[p] \in BeforePC /\ Waiting(p) = 1
         \/ pc[p] \in {"gather", "info"} /\ Waiting(p) = 0
         \/ pc[p] = "outcome" /\ Waiting(p) = 1 /\ ~Landed(p)
<1>1. /\ Waiting(p) \in Nat /\ tries[p] \in Nat /\ Peer(p) = s
      /\ Waiting(s) \in Nat /\ tries[s] \in Nat /\ Peer(s) = p
  BY Pair
<1>2. /\ Read(p) + Waiting(p) = 2 * tries[s] - 1
      /\ 2 * tries[s] - 1 + Waiting(s) = Sent(p) /\ tries[s] >= 1
  BY <1>1 DEF InStep, Sent, Read, TriesInv, BeforePC, PunchPC
<1>3. Waiting(p) <= (IF pc[p] = "check" THEN 1 ELSE 2)
  BY DEF InScript
<1>4. CASE pc[p] \in BeforePC
  BY <1>1, <1>2, <1>3, <1>4 DEF Read, Sent, BeforePC
<1>5. CASE pc[p] \in {"gather", "info"}
  BY <1>1, <1>2, <1>3, <1>5 DEF Read, Sent, BeforePC
<1>6. CASE pc[p] = "check"
  BY <1>1, <1>2, <1>3, <1>6 DEF Read, Sent, BeforePC
<1>7. CASE pc[p] = "outcome"
  BY <1>1, <1>2, <1>3, <1>7 DEF Read, Sent, BeforePC, InStep
<1> QED
  BY <1>4, <1>5, <1>6, <1>7 DEF Punching, PunchPC

\* A side that checks connectivity is in the same attempt as its peer.
LEMMA AtCheck ==
  ASSUME TypeOK, NEW s \in Side, NEW p \in Side, p # s, TriesInv(s), TriesInv(p),
         InStep(p), InStep(s), InScript(p), InScript(s), Punching(p), pc[s] = "check"
  PROVE  /\ \/ pc[p] = "info" /\ Waiting(p) = 1
            \/ pc[p] \in {"check", "outcome"} /\ Waiting(p) = 0
         /\ tries[p] = tries[s]
<1>1. /\ Waiting(p) \in Nat /\ tries[p] \in Nat /\ Peer(p) = s
      /\ Waiting(s) \in Nat /\ tries[s] \in Nat /\ Peer(s) = p
  BY Pair
<1>2. /\ Read(p) + Waiting(p) = 2 * tries[s]
      /\ 2 * tries[s] + Waiting(s) = Sent(p) /\ tries[s] >= 1
  BY <1>1 DEF InStep, Sent, Read, TriesInv, BeforePC, PunchPC
<1>3. Waiting(p) <= (IF pc[p] = "check" THEN 1 ELSE 2) /\ Waiting(s) <= 1
  BY DEF InScript, Punching, PunchPC
<1>4. CASE pc[p] \in BeforePC
  BY <1>1, <1>2, <1>3, <1>4 DEF Read, Sent, BeforePC
<1>5. CASE pc[p] \in {"gather", "info"}
  BY <1>1, <1>2, <1>3, <1>5 DEF Read, Sent, BeforePC
<1>6. CASE pc[p] = "check"
  BY <1>1, <1>2, <1>3, <1>6 DEF Read, Sent, BeforePC
<1>7. CASE pc[p] = "outcome"
  BY <1>1, <1>2, <1>3, <1>7 DEF Read, Sent, BeforePC
<1> QED
  BY <1>4, <1>5, <1>6, <1>7 DEF Punching, PunchPC

\* A side that has its peer's outcome.
LEMMA AtOutcome ==
  ASSUME TypeOK, NEW s \in Side, NEW p \in Side, p # s, TriesInv(s), TriesInv(p),
         InStep(p), InStep(s), InScript(p), Punching(p), pc[s] = "outcome", Waiting(s) >= 1
  PROVE  \/ pc[p] = "outcome" /\ Waiting(p) = 1 /\ tries[p] = tries[s]
         \/ tries[p] > tries[s]
<1>1. /\ Waiting(p) \in Nat /\ tries[p] \in Nat /\ Peer(p) = s
      /\ Waiting(s) \in Nat /\ tries[s] \in Nat /\ Peer(s) = p
  BY Pair
<1>2. /\ Read(p) + Waiting(p) = 2 * tries[s] + 1
      /\ 2 * tries[s] + Waiting(s) = Sent(p) /\ tries[s] >= 1
  BY <1>1 DEF InStep, Sent, Read, TriesInv, BeforePC, PunchPC
<1>4. CASE pc[p] \in BeforePC
  BY <1>1, <1>2, <1>4 DEF Read, Sent, BeforePC
<1>5. CASE pc[p] \in {"gather", "info", "check"}
  BY <1>1, <1>2, <1>5 DEF Read, Sent, BeforePC
<1>7. CASE pc[p] = "outcome"
  BY <1>1, <1>2, <1>7 DEF Read, Sent, BeforePC
<1> QED
  BY <1>4, <1>5, <1>7 DEF Punching, PunchPC

-----------------------------------------------------------------------------
(* The steps of the punch.                                                 *)

\* The sides' clocks run on while both are there: nothing brings a side back.
LEMMA WasLive ==
  ASSUME NEW s \in Side, NEW p \in Side, p # s, Still(p), ~Over(s), broken => broken'
  PROVE  Live' => Live
<1>1. \A t \in Side : t = s \/ t = p
  BY DEF Side
<1> QED
  BY <1>1 DEF Live, Still, Over

\* A side in the punch sends its next message.
LEMMA PunchSays ==
  ASSUME TypeOK, StreamInv, UNCHANGED <<hello, broken>>,
         NEW s \in Side, NEW p \in Side, p # s, Still(p),
         end'[s] = end[s], tries'[s] = tries[s], NEW m \in Messages, Send(s, m),
         \/ pc[s] \in {"start", "idle"} /\ pc'[s] = "hello" /\ m.type = "hello"
         \/ pc[s] = "gather" /\ pc'[s] = "info" /\ m.type = "info"
         \/ /\ pc[s] = "check" /\ pc'[s] = "outcome" /\ m.type = "outcome"
            /\ AttemptsOf(s) # 1 /\ landed'[s] = m.flag
  PROVE  StreamInv'
<1>0. /\ Peer(s) = p /\ Peer(p) = s /\ \A t \in Side : t = s \/ t = p
      /\ AttemptsOf(s) = AttemptsOf(p) /\ AttemptsOf(s) \in Nat /\ AttemptsOf(s) >= 1
      /\ Waiting(s) \in Nat /\ Waiting(p) \in Nat /\ tries[s] \in Nat /\ tries[p] \in Nat
      /\ AttemptsOf(s)' = AttemptsOf(s) /\ AttemptsOf(p)' = AttemptsOf(p)
  BY Pair, HelloFixed
<1>1. /\ TriesInv(s) /\ InScript(s) /\ PaceInv(s) /\ TriesInv(p) /\ InScript(p) /\ PaceInv(p)
      /\ ~Over(s) /\ Punching(s) /\ ~Climbing(s)
  BY DEF StreamInv, Over, OverPC, Punching, PunchPC, BeforePC, Climbing
<1>2. Live => Punching(p) /\ ~Climbing(p) /\ InStep(s) /\ InStep(p)
  BY <1>0, <1>1 DEF PaceInv, Behind, Climbing, Live
<1>3. \/ UNCHANGED chan /\ (broken \/ end[p] # "open")
      \/ Told(s, m) /\ ~broken /\ end[p] = "open"
  BY <1>0, Telling
<1>4. chan'[s] = chan[s] /\ Waiting(s)' = Waiting(s)
  BY <1>3 DEF Told, Waiting
<1>5. TriesInv(s)' /\ TriesInv(p)'
  <2>1. TriesInv(s)'
    BY <1>0, <1>1 DEF TriesInv, Over, OverPC, BeforePC, PunchPC
  <2> QED
    BY <1>1, <2>1, StillTries
<1>6. InScript(s)'
  BY <1>0, <1>1, <1>4 DEF InScript, Punching, Climbing, First, Second, AfterInfo, BeforePC, PunchPC
<1>7. ASSUME Live, Told(s, m)
      PROVE  InScript(p)' /\ PaceInv(p)' /\ PaceInv(s)'
  <2>1. /\ Waiting(p)' = Waiting(p) + 1 /\ chan'[p][Waiting(p) + 1] = m
        /\ \A j \in 1..Waiting(p) : chan'[p][j] = chan[p][j]
        /\ Punching(p) /\ ~Climbing(p) /\ InStep(s) /\ InStep(p)
        /\ Punching(p)' /\ ~Climbing(p)' /\ Punching(s)' /\ ~Climbing(s)'
    BY <1>0, <1>2, <1>7 DEF Told, Punching, Climbing, Still, PunchPC, BeforePC
  <2>2. CASE pc[s] \in {"start", "idle"} /\ pc'[s] = "hello" /\ m.type = "hello"
    <3>1. pc[p] \in BeforePC /\ Waiting(p) = 0
      BY <1>1, <2>1, <2>2, BeforeHello
    <3>2. InScript(p)'
      BY <2>1, <2>2, <3>1 DEF InScript, Still, First, BeforePC
    <3>3. InStep(p)' /\ InStep(s)'
      BY <1>0, <1>4, <2>1, <2>2, <3>1 DEF InStep, Sent, Read, Still, BeforePC
    <3> QED
      BY <1>0, <2>1, <3>2, <3>3 DEF PaceInv
  <2>3. CASE pc[s] = "gather" /\ pc'[s] = "info" /\ m.type = "info"
    <3>1. \/ pc[p] \in BeforePC /\ Waiting(p) = 1
          \/ pc[p] \in {"gather", "info"} /\ Waiting(p) = 0
          \/ pc[p] = "outcome" /\ Waiting(p) = 1 /\ ~Landed(p)
      BY <1>1, <2>1, <2>3, AtGather
    <3>2. pc[p] = "outcome" => (Landed(p)' <=> Landed(p))
      BY <1>0, <2>1, <3>1 DEF Landed, Still, BeforePC
    <3>3. InScript(p)'
      BY <1>0, <1>1, <2>1, <2>3, <3>1, <3>2 DEF InScript, Still, First, Second, BeforePC
    <3>4. InStep(p)'
      <4>1. Sent(s)' = Sent(s) + 1 /\ Read(p)' = Read(p)
        BY <1>0, <2>3 DEF Sent, Read, Still, BeforePC
      <4>2. Read(p) \in Int /\ Sent(s) \in Int
        BY <1>0 DEF Read, Sent
      <4> QED
        BY <1>0, <2>1, <2>3, <3>1, <3>2, <4>1, <4>2 DEF InStep, Still, BeforePC
    <3>5. InStep(s)'
      <4>1. Read(s)' = Read(s) /\ Sent(p)' = Sent(p)
        BY <1>0, <2>3 DEF Sent, Read, Still, BeforePC
      <4> QED
        BY <1>0, <1>4, <2>1, <2>3, <4>1 DEF InStep, Still
    <3> QED
      BY <1>0, <2>1, <3>3, <3>4, <3>5 DEF PaceInv
  <2>4. CASE /\ pc[s] = "check" /\ pc'[s] = "outcome" /\ m.type = "outcome"
             /\ AttemptsOf(s) # 1 /\ landed'[s] = m.flag
    <3>1. /\ \/ pc[p] = "info" /\ Waiting(p) = 1
             \/ pc[p] \in {"check", "outcome"} /\ Waiting(p) = 0
          /\ tries[p] = tries[s]
      BY <1>1, <2>1, <2>4, AtCheck
    <3>2. InScript(p)'
      BY <1>0, <1>1, <2>1, <2>4, <3>1 DEF InScript, Still, First, Second, BeforePC, AfterInfo
    <3>3. InStep(p)'
      <4>1. Sent(s)' = Sent(s) + 1 /\ Read(p)' = Read(p)
        BY <1>0, <2>4 DEF Sent, Read, Still, BeforePC
      <4>2. Read(p) \in Int /\ Sent(s) \in Int
        BY <1>0 DEF Read, Sent
      <4>3. \A j \in 1..Waiting(p)' : chan'[p][j].type = "outcome" => chan'[p][j].flag = landed'[s]
        BY <1>0, <1>1, <2>1, <2>4, <3>1 DEF InScript, First, BeforePC
      <4> QED
        BY <1>0, <2>1, <2>4, <3>1, <4>1, <4>2, <4>3 DEF InStep, Still, BeforePC
    <3>4. InStep(s)'
      <4>1. Read(s)' = Read(s) /\ Sent(p)' = Sent(p)
        BY <1>0, <2>4 DEF Sent, Read, Still, BeforePC
      <4> QED
        BY <1>0, <1>4, <2>1, <2>4, <3>1, <4>1 DEF InStep, Still
    <3> QED
      BY <1>0, <2>1, <3>2, <3>3, <3>4 DEF PaceInv
  <2> QED
    BY <2>2, <2>3, <2>4
<1>8. InScript(p)'
  <2>1. CASE UNCHANGED chan
    BY <1>1, <2>1, StillScript
  <2>2. CASE Told(s, m) /\ ~broken /\ Over(p)
    BY <2>2 DEF InScript, Over, OverPC, Punching, PunchPC, BeforePC, Climbing, Still
  <2>3. CASE Told(s, m) /\ ~broken /\ ~Over(p)
    BY <1>0, <1>1, <1>7, <2>3 DEF Live
  <2> QED
    BY <1>3, <2>1, <2>2, <2>3
<1>9. Live' => Live /\ Told(s, m)
  <2>1. Live' => Live
    BY <1>1, WasLive
  <2> QED
    BY <1>0, <1>1, <1>3, <2>1 DEF Live, TriesInv
<1>10. PaceInv(s)' /\ PaceInv(p)'
  BY <1>7, <1>9 DEF PaceInv
<1> QED
  BY <1>0, <1>5, <1>6, <1>8, <1>10 DEF StreamInv

\* A side in the punch reads its next message and stays in it.
LEMMA PunchHears ==
  ASSUME TypeOK, StreamInv, UNCHANGED <<hello, broken>>,
         NEW s \in Side, NEW p \in Side, p # s, Still(p),
         end'[s] = end[s], chan[s] # <<>>, Take(s),
         \/ pc[s] = "hello" /\ pc'[s] = "gather" /\ tries'[s] = 1
         \/ pc[s] = "info" /\ pc'[s] = "check" /\ tries'[s] = tries[s]
         \/ /\ pc[s] = "outcome" /\ pc'[s] = "gather" /\ tries'[s] = tries[s] + 1
            /\ tries[s] < AttemptsOf(s) /\ ~Landed(s)
  PROVE  StreamInv'
<1>0. /\ Peer(s) = p /\ Peer(p) = s /\ \A t \in Side : t = s \/ t = p
      /\ AttemptsOf(s) = AttemptsOf(p) /\ AttemptsOf(s) \in Nat /\ AttemptsOf(s) >= 1
      /\ Waiting(s) \in Nat /\ Waiting(p) \in Nat /\ tries[s] \in Nat /\ tries[p] \in Nat
      /\ landed[s] \in BOOLEAN /\ landed[p] \in BOOLEAN
      /\ AttemptsOf(s)' = AttemptsOf(s) /\ AttemptsOf(p)' = AttemptsOf(p)
  BY Pair, HelloFixed
<1>1. /\ TriesInv(s) /\ InScript(s) /\ PaceInv(s) /\ TriesInv(p) /\ InScript(p) /\ PaceInv(p)
      /\ ~Over(s) /\ Punching(s) /\ ~Climbing(s) /\ Punching(s)' /\ ~Climbing(s)'
  BY DEF StreamInv, Over, OverPC, Punching, PunchPC, BeforePC, Climbing
<1>2. /\ Waiting(s)' = Waiting(s) - 1 /\ Waiting(s) >= 1
      /\ \A j \in 1..(Waiting(s) - 1) : chan'[s][j] = chan[s][j + 1]
      /\ chan'[p] = chan[p] /\ Waiting(p)' = Waiting(p)
  BY <1>0, Taking DEF Took, Waiting
<1>3. TriesInv(s)' /\ TriesInv(p)'
  <2>1. TriesInv(s)'
    BY <1>0, <1>1 DEF TriesInv, Over, OverPC, BeforePC, PunchPC
  <2> QED
    BY <1>1, <2>1, StillTries
<1>4. InScript(p)'
  BY <1>1, <1>2, StillScript
<1>5. InScript(s)'
  <2>1. Waiting(s) <= 2 /\ (Waiting(s) = 2 => chan'[s][1] = chan[s][2])
    BY <1>0, <1>1, <1>2 DEF InScript
  <2> QED
    BY <1>0, <1>1, <1>2, <2>1 DEF InScript, First, Second, AfterInfo, BeforePC
<1>6. ASSUME Live PROVE PaceInv(s)' /\ PaceInv(p)'
  <2>1. CASE Climbing(p)
    <3>1. Behind(s)
      BY <1>0, <1>1, <1>6, <2>1 DEF PaceInv
    <3>2. pc[s] = "info" /\ pc'[s] = "check" /\ AttemptsOf(s) = 1
      BY <3>1 DEF Behind
    <3>3. Climbing(p)' /\ ~Punching(p)' /\ Behind(s)'
      BY <1>0, <2>1, <3>2 DEF Behind, Climbing, Punching, Over, Still
    <3> QED
      BY <1>0, <3>3 DEF PaceInv
  <2>2. CASE ~Climbing(p)
    <3>1. Punching(p) /\ InStep(s) /\ InStep(p) /\ ~Climbing(p)'
      BY <1>0, <1>1, <1>6, <2>2 DEF PaceInv, Climbing, Live, Punching, Over, Still
    <3>2. InStep(s)'
      <4>1. Read(s)' = Read(s) + 1 /\ Sent(p)' = Sent(p)
        BY <1>0 DEF Read, Sent, Still, BeforePC
      <4>2. Read(s) \in Int /\ Sent(p) \in Int
        BY <1>0 DEF Read, Sent
      <4>3. pc'[s] # "outcome"
        OBVIOUS
      <4>4. pc'[p] = "outcome" => \A j \in 1..Waiting(s)' :
              chan'[s][j].type = "outcome" => chan'[s][j].flag = landed'[p]
        <5> SUFFICES ASSUME pc'[p] = "outcome", NEW j \in 1..Waiting(s)', chan'[s][j].type = "outcome"
                     PROVE  chan'[s][j].flag = landed'[p]
          OBVIOUS
        <5>1. j + 1 \in 1..Waiting(s) /\ chan'[s][j] = chan[s][j + 1]
          BY <1>0, <1>2
        <5> QED
          BY <1>0, <3>1, <5>1 DEF InStep, Still
      <4> QED
        BY <1>0, <1>2, <3>1, <4>1, <4>2, <4>3, <4>4 DEF InStep
    <3>3. pc[p] = "outcome" /\ tries'[s] > tries[p] => ~Landed(p)
      <4>1. CASE pc[s] = "hello" /\ tries'[s] = 1
        BY <1>0, <1>1, <4>1 DEF TriesInv, PunchPC
      <4>2. CASE tries'[s] = tries[s]
        BY <1>0, <3>1, <4>2 DEF InStep
      <4>3. CASE pc[s] = "outcome" /\ tries'[s] = tries[s] + 1 /\ ~Landed(s)
        <5> SUFFICES ASSUME pc[p] = "outcome", tries'[s] > tries[p] PROVE ~Landed(p)
          OBVIOUS
        <5>1. Waiting(p) = 1 /\ tries[p] = tries[s]
          BY <1>0, <1>1, <1>2, <3>1, <4>3, AtOutcome
        <5>2. chan[p][1].type = "outcome" /\ chan[s][1].type = "outcome"
          BY <1>1, <1>2, <4>3, <5>1 DEF InScript, First, BeforePC, Punching, PunchPC
        <5>3. chan[p][1].flag = landed[s] /\ chan[s][1].flag = landed[p]
          BY <1>0, <1>2, <3>1, <4>3, <5>1, <5>2 DEF InStep
        <5> QED
          BY <1>0, <1>2, <4>3, <5>1, <5>3 DEF Landed
      <4> QED
        BY <4>1, <4>2, <4>3
    <3>4. InStep(p)'
      <4>1. Sent(s)' = Sent(s) /\ Read(p)' = Read(p)
        <5>1. Read(p)' = Read(p)
          BY DEF Read, Still
        <5>2. CASE pc[s] = "hello" /\ pc'[s] = "gather" /\ tries'[s] = 1
          BY <5>1, <5>2 DEF Sent
        <5>3. CASE pc[s] = "info" /\ pc'[s] = "check" /\ tries'[s] = tries[s]
          BY <5>1, <5>3 DEF Sent
        <5>4. CASE pc[s] = "outcome" /\ pc'[s] = "gather" /\ tries'[s] = tries[s] + 1
          BY <1>0, <5>1, <5>4 DEF Sent
        <5> QED
          BY <5>2, <5>3, <5>4
      <4>2. Landed(p)' <=> Landed(p)
        BY <1>2 DEF Landed, Still
      <4> QED
        BY <1>0, <1>2, <3>1, <3>3, <4>1, <4>2 DEF InStep, Still
    <3> QED
      BY <1>0, <1>1, <3>1, <3>2, <3>4 DEF PaceInv
  <2> QED
    BY <2>1, <2>2
<1>7. PaceInv(s)' /\ PaceInv(p)'
  BY <1>1, <1>6, WasLive DEF PaceInv
<1> QED
  BY <1>0, <1>3, <1>4, <1>5, <1>7 DEF StreamInv

\* A side leaves the punch for the climb.
LEMMA PunchLands ==
  ASSUME TypeOK, StreamInv, UNCHANGED <<hello, broken>>,
         NEW s \in Side, NEW p \in Side, p # s, Still(p),
         end'[s] = end[s], pc'[s] \in {"request", "recv"},
         \/ pc[s] = "check" /\ AttemptsOf(s) = 1 /\ UNCHANGED chan
         \/ pc[s] = "outcome" /\ Landed(s) /\ chan[s] # <<>> /\ Take(s)
  PROVE  StreamInv'
<1>0. /\ Peer(s) = p /\ Peer(p) = s /\ \A t \in Side : t = s \/ t = p
      /\ AttemptsOf(s) = AttemptsOf(p) /\ AttemptsOf(s) \in Nat /\ AttemptsOf(s) >= 1
      /\ Waiting(s) \in Nat /\ Waiting(p) \in Nat /\ tries[s] \in Nat /\ tries[p] \in Nat
      /\ landed[s] \in BOOLEAN /\ landed[p] \in BOOLEAN
      /\ AttemptsOf(s)' = AttemptsOf(s) /\ AttemptsOf(p)' = AttemptsOf(p)
  BY Pair, HelloFixed
<1>1. /\ TriesInv(s) /\ InScript(s) /\ PaceInv(s) /\ TriesInv(p) /\ InScript(p) /\ PaceInv(p)
      /\ ~Over(s) /\ Punching(s) /\ ~Climbing(s) /\ ~Punching(s)' /\ Climbing(s)' /\ ~Over(s)'
  BY DEF StreamInv, Over, OverPC, Punching, PunchPC, BeforePC, Climbing
<1>2. chan'[p] = chan[p] /\ Waiting(p)' = Waiting(p)
  BY <1>0, Taking DEF Took, Waiting
<1>3. TriesInv(s)' /\ TriesInv(p)'
  <2>1. TriesInv(s)'
    BY <1>1 DEF TriesInv, Over, OverPC, BeforePC, PunchPC
  <2> QED
    BY <1>1, <2>1, StillTries
<1>4. InScript(p)'
  BY <1>1, <1>2, StillScript
<1>5. InScript(s)'
  <2>1. CASE pc[s] = "check" /\ AttemptsOf(s) = 1 /\ UNCHANGED chan
    <3>1. \A j \in 1..Waiting(s) : chan[s][j].type = "attempt"
      BY <1>0, <1>1, <2>1 DEF InScript, First, AfterInfo, BeforePC
    <3> QED
      BY <1>1, <2>1, <3>1 DEF InScript, Waiting
  <2>2. CASE pc[s] = "outcome" /\ Landed(s) /\ chan[s] # <<>> /\ Take(s)
    <3>1. /\ Waiting(s)' = Waiting(s) - 1 /\ Waiting(s) >= 1 /\ Waiting(s) <= 2
          /\ \A j \in 1..(Waiting(s) - 1) : chan'[s][j] = chan[s][j + 1]
      BY <1>1, <2>2, Taking DEF Took, InScript
    <3>2. Waiting(s) = 2 => chan[s][2].type = "attempt"
      BY <1>1, <2>2 DEF InScript, Second, BeforePC
    <3>3. \A j \in 1..Waiting(s)' : chan'[s][j].type = "attempt"
      BY <1>0, <3>1, <3>2
    <3> QED
      BY <1>1, <3>3 DEF InScript
  <2> QED
    BY <2>1, <2>2
<1>6. ASSUME Live, Punching(p) PROVE Behind(p)
  <2>1. InStep(s) /\ InStep(p)
    BY <1>0, <1>1, <1>6 DEF PaceInv, Climbing
  <2>2. CASE pc[s] = "check" /\ AttemptsOf(s) = 1
    <3>1. \/ pc[p] = "info" /\ Waiting(p) = 1
          \/ pc[p] \in {"check", "outcome"} /\ Waiting(p) = 0
      BY <1>1, <1>6, <2>1, <2>2, AtCheck
    <3>2. pc[p] # "outcome"
      BY <1>0, <1>1, <2>2 DEF TriesInv
    <3> QED
      BY <1>0, <2>2, <3>1, <3>2 DEF Behind
  <2>3. CASE pc[s] = "outcome" /\ Landed(s)
    <3>1. Waiting(s) >= 1 /\ chan[s][1].flag /\ landed[s]
      BY <2>3 DEF Landed
    <3>2. pc[p] = "outcome" /\ Waiting(p) = 1
      <4>1. ~(tries[p] > tries[s])
        BY <1>0, <2>1, <2>3 DEF InStep
      <4> QED
        BY <1>1, <1>6, <2>1, <2>3, <3>1, <4>1, AtOutcome
    <3>3. chan[p][1].type = "outcome" /\ chan[s][1].type = "outcome"
      BY <1>1, <1>6, <2>3, <3>1, <3>2 DEF InScript, First, BeforePC
    <3>4. chan[p][1].flag = landed[s] /\ chan[s][1].flag = landed[p]
      <4>1. 1 \in 1..Waiting(s) /\ 1 \in 1..Waiting(p)
        BY <1>0, <3>1, <3>2
      <4>2. chan[s][1].flag = landed[p]
        BY <1>0, <2>1, <3>2, <3>3, <4>1 DEF InStep
      <4>3. chan[p][1].flag = landed[s]
        BY <1>0, <2>1, <2>3, <3>3, <4>1 DEF InStep
      <4> QED
        BY <4>2, <4>3
    <3> QED
      BY <1>0, <3>1, <3>2, <3>4 DEF Behind, Landed
  <2> QED
    BY <2>2, <2>3
<1>7. PaceInv(s)' /\ PaceInv(p)'
  <2>1. Behind(p)' <=> Behind(p)
    BY <1>0, <1>2 DEF Behind, Landed, Still
  <2>2. Punching(p)' <=> Punching(p)
    BY DEF Punching, Still
  <2> QED
    BY <1>0, <1>1, <1>6, <2>1, <2>2, WasLive DEF PaceInv
<1> QED
  BY <1>0, <1>3, <1>4, <1>5, <1>7 DEF StreamInv

-----------------------------------------------------------------------------
(* The climb, the ends of the handlers, and what moves neither side.       *)

\* An attempt reaches a side that is about to climb, or has.
LEMMA AttemptFits ==
  ASSUME TypeOK, StreamInv, UNCHANGED hello,
         NEW s \in Side, NEW p \in Side, p # s, Still(p),
         Live, Climbing(s), AttemptsTo(p) = {},
         NEW m \in Messages, m.type = "attempt", Told(s, m)
  PROVE  InScript(p)' /\ (Behind(p) => Behind(p)')
<1>0. /\ Peer(s) = p /\ Peer(p) = s /\ Waiting(p) \in Nat
      /\ AttemptsOf(p)' = AttemptsOf(p)
  BY Pair, HelloFixed
<1>1. InScript(p) /\ (Punching(p) => Behind(p)) /\ ~Over(p)
  BY <1>0 DEF StreamInv, PaceInv, Live
<1>2. /\ Waiting(p)' = Waiting(p) + 1 /\ chan'[p][Waiting(p) + 1] = m
      /\ \A j \in 1..Waiting(p) : chan'[p][j] = chan[p][j]
  BY <1>0 DEF Told
<1>3. \A j \in 1..Waiting(p) : chan[p][j].type # "attempt"
  <2>1. chan[p] \in Seq(Messages)
    BY DEF TypeOK
  <2>2. DOMAIN chan[p] = 1..Waiting(p)
    BY <2>1 DEF Waiting
  <2> QED
    BY <2>2 DEF AttemptsTo, Flight
<1>4. Behind(p) => Behind(p)'
  BY <1>0, <1>2 DEF Behind, Landed, Still
<1>5. CASE Climbing(p)
  <2>1. ~Punching(p)' /\ Climbing(p)'
    BY <1>5 DEF Climbing, Punching, Over, Still
  <2>2. \A j \in 1..Waiting(p)' : chan'[p][j].type = "attempt"
    BY <1>0, <1>1, <1>2, <1>5 DEF InScript
  <2> QED
    BY <1>4, <2>1, <2>2 DEF InScript
<1>6. CASE Punching(p)
  <2>0. Punching(p)' /\ ~Climbing(p)' /\ Behind(p)
    BY <1>1, <1>6 DEF Climbing, Punching, Still
  <2>1. CASE pc[p] = "info" /\ Waiting(p) >= 1 /\ AttemptsOf(p) = 1
    <3>1. Waiting(p) = 1
      BY <1>0, <1>1, <1>3, <1>6, <2>1 DEF InScript, Second, AfterInfo, BeforePC
    <3>2. InScript(p)'
      BY <1>0, <1>1, <1>2, <1>6, <2>0, <2>1, <3>1
      DEF InScript, First, Second, AfterInfo, BeforePC, Still
    <3> QED
      BY <1>4, <3>2
  <2>2. CASE pc[p] = "check" /\ AttemptsOf(p) = 1
    <3>1. Waiting(p) = 0
      BY <1>0, <1>1, <1>3, <1>6, <2>2 DEF InScript, First, AfterInfo, BeforePC
    <3>2. InScript(p)'
      BY <1>0, <1>2, <2>0, <2>2, <3>1 DEF InScript, First, AfterInfo, BeforePC, Still
    <3> QED
      BY <1>4, <3>2
  <2>3. CASE pc[p] = "outcome" /\ Landed(p)
    <3>1. Waiting(p) >= 1 /\ chan[p][1].flag /\ landed[p]
      BY <2>3 DEF Landed
    <3>2. Waiting(p) = 1
      BY <1>0, <1>1, <1>3, <1>6, <2>3, <3>1 DEF InScript, Second, BeforePC
    <3>3. Landed(p)'
      BY <1>2, <3>1, <3>2 DEF Landed, Still
    <3>4. InScript(p)'
      BY <1>0, <1>1, <1>2, <1>6, <2>0, <2>3, <3>2, <3>3 DEF InScript, First, Second, BeforePC, Still
    <3> QED
      BY <1>4, <3>4
  <2> QED
    BY <2>0, <2>1, <2>2, <2>3 DEF Behind
<1> QED
  BY <1>1, <1>5, <1>6 DEF Climbing

\* What a step of a climbing side may do to the stream.
ClimbOp(s) ==
  \/ UNCHANGED chan
  \/ chan[s] # <<>> /\ Take(s)
  \/ \E m \in Messages : m.type = "attempt" /\ Send(s, m) /\ AttemptsTo(Peer(s)) = {}

\* Whatever a climbing side does, its peer reads what it expects.
LEMMA ClimbScript ==
  ASSUME TypeOK, StreamInv, UNCHANGED <<hello, broken>>,
         NEW s \in Side, NEW p \in Side, p # s, Still(p), Climbing(s), ClimbOp(s)
  PROVE  /\ InScript(p)'
         /\ Live /\ Behind(p) => Behind(p)'
<1>0. Peer(s) = p /\ Peer(p) = s /\ AttemptsOf(p)' = AttemptsOf(p)
  BY Pair, HelloFixed
<1>1. CASE chan'[p] = chan[p]
  <2>1. InScript(p)'
    BY <1>1, StillScript DEF StreamInv
  <2> QED
    BY <1>0, <1>1, <2>1 DEF Behind, Landed, Still, Waiting
<1>2. CASE UNCHANGED chan
  BY <1>1, <1>2
<1>3. CASE chan[s] # <<>> /\ Take(s)
  BY <1>0, <1>1, <1>3, Taking DEF Took
<1>4. ASSUME NEW m \in Messages, m.type = "attempt", Send(s, m), AttemptsTo(p) = {}
      PROVE  InScript(p)' /\ (Live /\ Behind(p) => Behind(p)')
  <2>1. CASE Told(s, m) /\ ~broken
    <3>1. CASE Over(p)
      BY <3>1 DEF Over, OverPC, InScript, Punching, Climbing, PunchPC, BeforePC, Still, Behind
    <3>2. CASE ~Over(p)
      <4>1. Live
        BY <1>0, <2>1, <3>2, Pair DEF Live, Climbing
      <4> QED
        BY <1>4, <2>1, <4>1, AttemptFits
    <3> QED
      BY <3>1, <3>2
  <2> QED
    BY <1>2, <1>4, <2>1, Telling
<1> QED
  BY <1>0, <1>2, <1>3, <1>4 DEF ClimbOp

\* A side climbs on.
LEMMA ClimbsOn ==
  ASSUME TypeOK, StreamInv, UNCHANGED <<hello, broken>>,
         NEW s \in Side, NEW p \in Side, p # s, Still(p), end'[s] = end[s],
         Climbing(s), Climbing(s)', ClimbOp(s)
  PROVE  StreamInv'
<1>0. Peer(s) = p /\ Peer(p) = s /\ \A t \in Side : t = s \/ t = p
  BY Pair
<1>1. TriesInv(s)' /\ TriesInv(p)'
  <2>1. TriesInv(s)'
    BY DEF StreamInv, TriesInv, Climbing, Punching, PunchPC
  <2> QED
    BY <2>1, StillTries DEF StreamInv
<1>2. InScript(p)' /\ (Live /\ Behind(p) => Behind(p)')
  BY ClimbScript
<1>3. InScript(s)'
  <2>0. \A j \in 1..Waiting(s) : chan[s][j].type = "attempt"
    BY DEF StreamInv, InScript
  <2>1. CASE chan'[s] = chan[s]
    BY <2>0, <2>1 DEF InScript, Waiting, Climbing
  <2>2. CASE chan[s] # <<>> /\ Take(s)
    <3>1. /\ Waiting(s)' = Waiting(s) - 1 /\ Waiting(s) \in Nat
          /\ \A j \in 1..(Waiting(s) - 1) : chan'[s][j] = chan[s][j + 1]
      BY <2>2, Taking, Pair DEF Took
    <3>2. \A j \in 1..(Waiting(s) - 1) : j + 1 \in 1..Waiting(s)
      BY <3>1
    <3> QED
      BY <2>0, <3>1, <3>2 DEF InScript, Climbing
  <2> QED
    BY <2>1, <2>2, SendTo DEF ClimbOp
<1>4. PaceInv(s)'
  BY DEF PaceInv, Climbing
<1>5. PaceInv(p)'
  <2>1. Live' => Live
    BY WasLive DEF Climbing
  <2>2. Live /\ Punching(p) => Behind(p)
    BY <1>0 DEF StreamInv, PaceInv
  <2>3. Punching(p)' <=> Punching(p)
    BY DEF Punching, Still
  <2> QED
    BY <1>0, <1>2, <2>1, <2>2, <2>3 DEF PaceInv
<1> QED
  BY <1>0, <1>1, <1>2, <1>3, <1>4, <1>5 DEF StreamInv

\* A side's handler ends.
LEMMA SideEnds ==
  ASSUME TypeOK, StreamInv, UNCHANGED <<hello, broken>>,
         NEW s \in Side, NEW p \in Side, p # s, Still(p), Over(s)',
         \/ UNCHANGED chan
         \/ chan[s] # <<>> /\ Take(s)
         \/ Climbing(s) /\ ClimbOp(s)
  PROVE  StreamInv'
<1>0. Peer(s) = p /\ Peer(p) = s /\ \A t \in Side : t = s \/ t = p
  BY Pair
<1>1. ~Live'
  BY DEF Live
<1>2. TriesInv(s)' /\ TriesInv(p)'
  <2>1. TriesInv(s)'
    BY DEF TriesInv, Over, OverPC, BeforePC, PunchPC
  <2> QED
    BY <2>1, StillTries DEF StreamInv
<1>3. InScript(s)'
  BY DEF InScript, Over, OverPC, Punching, Climbing, PunchPC, BeforePC
<1>4. InScript(p)'
  <2>1. CASE chan'[p] = chan[p]
    BY <2>1, StillScript DEF StreamInv
  <2>2. CASE UNCHANGED chan
    BY <2>1, <2>2
  <2>3. CASE chan[s] # <<>> /\ Take(s)
    BY <1>0, <2>1, <2>3, Taking DEF Took
  <2>4. CASE Climbing(s) /\ ClimbOp(s)
    BY <2>4, ClimbScript
  <2> QED
    BY <2>2, <2>3, <2>4
<1> QED
  BY <1>0, <1>1, <1>2, <1>3, <1>4 DEF StreamInv, PaceInv

\* A step of neither side's handler.
LEMMA NeitherMoves ==
  ASSUME StreamInv, UNCHANGED <<hello, pc, chan, end, tries, landed>>, broken => broken'
  PROVE  StreamInv'
<1>1. \A t \in Side : Still(t) /\ AttemptsOf(t)' = AttemptsOf(t) /\ Peer(t) \in Side
  BY HelloFixed DEF Still, Side, Peer
<1>2. \A t \in Side : TriesInv(t)' /\ InScript(t)'
  BY <1>1, StillTries, StillScript DEF StreamInv
<1>3. Live' => Live
  BY DEF Live, Over
<1>4. ASSUME NEW t \in Side PROVE PaceInv(t)'
  <2>1. (InStep(t) => InStep(t)') /\ (Behind(t) => Behind(t)')
    BY <1>1 DEF InStep, Behind, Landed, Waiting, Read, Sent
  <2>2. (Punching(t)' <=> Punching(t)) /\ (Climbing(Peer(t))' <=> Climbing(Peer(t)))
    BY DEF Punching, Climbing, Over
  <2> QED
    BY <1>3, <2>1, <2>2 DEF StreamInv, PaceInv
<1> QED
  BY <1>2, <1>4 DEF StreamInv

-----------------------------------------------------------------------------
(* Every step keeps the two sides in lockstep.                             *)

\* Swapping Hellos.
LEMMA StartsStream ==
  ASSUME IInv, StreamInv, ClientOpen \/ ClientHello \/ HostAccept \/ HostHello
  PROVE  StreamInv'
<1>0. TypeOK /\ "client" \in Side /\ "host" \in Side /\ Msg("hello", NoTier, FALSE) \in Messages
  BY DEF IInv, LocalInv, Side, Msg, Messages
<1>1. CASE ClientOpen
  <2>1. /\ Still("host") /\ UNCHANGED <<hello, broken>> /\ end'["client"] = end["client"]
        /\ tries'["client"] = tries["client"]
    BY <1>0, <1>1 DEF ClientOpen, Still, TypeOK, Goto, punchVars, envVars
  <2>2. CASE Goto("client", "done") /\ UNCHANGED chan
    <3>1. Over("client")'
      BY <1>0, <2>2 DEF Over, OverPC, Goto, TypeOK
    <3> QED
      BY <1>0, <2>1, <2>2, <3>1, SideEnds
  <2>3. CASE Goto("client", "hello") /\ Send("client", Msg("hello", NoTier, FALSE))
    <3>1. pc["client"] = "start" /\ pc'["client"] = "hello"
      BY <1>0, <1>1, <2>3 DEF ClientOpen, Goto, TypeOK
    <3> QED
      BY <1>0, <2>1, <2>3, <3>1, PunchSays DEF Msg
  <2> QED
    BY <1>1, <2>2, <2>3 DEF ClientOpen
<1>2. CASE ClientHello
  <2>0. UNCHANGED <<hello, broken>> /\ UNCHANGED landed /\ pc["client"] = "hello"
    BY <1>2 DEF ClientHello, envVars
  <2>1. CASE Goto("client", "done")
    <3>1. Over("client")'
      BY <1>0, <2>1 DEF Over, OverPC, Goto, TypeOK
    <3>2. Still("host")
      BY <1>0, <1>2, <2>0, <2>1 DEF ClientHello, Still, TypeOK, Goto, Leave
    <3>3. UNCHANGED chan \/ (chan["client"] # <<>> /\ Take("client"))
      BY <1>2 DEF ClientHello, Arrived
    <3> QED
      BY <1>0, <2>0, <3>1, <3>2, <3>3, SideEnds
  <2>2. CASE /\ Arrived("client", "hello") /\ Take("client") /\ Goto("client", "gather")
             /\ tries' = [tries EXCEPT !["client"] = 1] /\ UNCHANGED end
    <3>1. Still("host") /\ pc'["client"] = "gather" /\ tries'["client"] = 1
      BY <1>0, <2>0, <2>2 DEF Still, TypeOK, Goto
    <3> QED
      BY <1>0, <2>0, <2>2, <3>1, PunchHears DEF Arrived
  <2> QED
    BY <1>2, <2>1, <2>2 DEF ClientHello
<1>3. CASE HostAccept
  <2>1. /\ UNCHANGED <<hello, broken>> /\ UNCHANGED <<tries, landed>> /\ pc["host"] = "idle"
    BY <1>3 DEF HostAccept, punchVars, envVars
  <2>2. CASE Goto("host", "ended") /\ Leave("host", "reset") /\ UNCHANGED chan
    <3>1. Over("host")' /\ Still("client")
      BY <1>0, <2>1, <2>2 DEF Over, OverPC, Goto, TypeOK, Still, Leave
    <3> QED
      BY <1>0, <2>1, <2>2, <3>1, SideEnds
  <2>3. CASE Goto("host", "hello") /\ Send("host", Msg("hello", NoTier, FALSE)) /\ UNCHANGED end
    <3>1. Still("client") /\ pc'["host"] = "hello"
      BY <1>0, <2>1, <2>3 DEF Goto, TypeOK, Still
    <3> QED
      BY <1>0, <2>1, <2>3, <3>1, PunchSays DEF Msg
  <2> QED
    BY <1>3, <2>2, <2>3 DEF HostAccept
<1>4. CASE HostHello
  <2>0. UNCHANGED <<hello, broken>> /\ UNCHANGED landed /\ pc["host"] = "hello"
    BY <1>4 DEF HostHello, envVars
  <2>1. CASE Goto("host", "ended")
    <3>1. Over("host")'
      BY <1>0, <2>1 DEF Over, OverPC, Goto, TypeOK
    <3>2. Still("client")
      BY <1>0, <1>4, <2>0, <2>1 DEF HostHello, Still, TypeOK, Goto, Leave
    <3>3. UNCHANGED chan \/ (chan["host"] # <<>> /\ Take("host"))
      BY <1>4 DEF HostHello, Arrived
    <3> QED
      BY <1>0, <2>0, <3>1, <3>2, <3>3, SideEnds
  <2>2. CASE /\ Arrived("host", "hello") /\ Take("host") /\ Goto("host", "gather")
             /\ tries' = [tries EXCEPT !["host"] = 1] /\ UNCHANGED end
    <3>1. Still("client") /\ pc'["host"] = "gather" /\ tries'["host"] = 1
      BY <1>0, <2>0, <2>2 DEF Still, TypeOK, Goto
    <3> QED
      BY <1>0, <2>0, <2>2, <3>1, PunchHears DEF Arrived
  <2> QED
    BY <1>4, <2>1, <2>2 DEF HostHello
<1> QED
  BY <1>1, <1>2, <1>3, <1>4

\* punch ends: its side climbs, or its handler is over.
LEMMA PunchReturnsTo ==
  ASSUME TypeOK, NEW s \in Side, NEW p \in Side, p # s, NEW ok \in BOOLEAN, PunchReturns(s, ok)
  PROVE  /\ pc'[p] = pc[p] /\ end'[p] = end[p]
         /\ \/ Over(s)'
            \/ ok /\ ~Probing(s) /\ pc'[s] \in {"request", "recv"} /\ end'[s] = end[s]
<1>1. pc \in [Side -> ClientPC \cup HostPC] /\ end \in [Side -> {"open", "closed", "reset"}]
  BY DEF TypeOK
<1>2. CASE Goto(s, "done") \/ Goto(s, "ended")
  <2>1. Over(s)' /\ pc'[p] = pc[p]
    BY <1>1, <1>2 DEF Goto, Over, OverPC
  <2>2. end'[p] = end[p]
    BY <1>1 DEF PunchReturns, Leave, ClientFellShort
  <2> QED
    BY <2>1, <2>2
<1>3. CASE ok /\ ~Probing(s) /\ UNCHANGED end /\ (Goto(s, "request") \/ Goto(s, "recv"))
  BY <1>1, <1>3 DEF Goto
<1> QED
  BY <1>2, <1>3 DEF PunchReturns, ClientFellShort, Side

\* The punch.
LEMMA PunchStreams ==
  ASSUME IInv, StreamInv, NEW s \in Side, Punch(s)
  PROVE  StreamInv'
<1> DEFINE p == Peer(s)
<1>0. /\ TypeOK /\ p \in Side /\ p # s
      /\ pc \in [Side -> ClientPC \cup HostPC] /\ landed \in [Side -> BOOLEAN]
      /\ tries \in [Side -> Nat] /\ UNCHANGED <<hello, broken>>
  BY DEF IInv, LocalInv, Side, Peer, TypeOK, Punch, PunchGather, PunchInfo, PunchCheck, PunchOutcome,
     envVars
<1> HIDE DEF p
<1>1. CASE PunchGather(s)
  <2>1. PICK ok \in BOOLEAN : landed' = [landed EXCEPT ![s] = ok] /\ Send(s, Msg("info", NoTier, ok))
    BY <1>1 DEF PunchGather
  <2>2. /\ Still(p) /\ end'[s] = end[s] /\ tries'[s] = tries[s]
        /\ pc[s] = "gather" /\ pc'[s] = "info"
    BY <1>0, <1>1, <2>1 DEF PunchGather, Goto, Still
  <2>3. Msg("info", NoTier, ok) \in Messages /\ Msg("info", NoTier, ok).type = "info"
    BY DEF Msg, Messages
  <2> QED
    BY <1>0, <2>1, <2>2, <2>3, PunchSays
<1>2. CASE PunchInfo(s)
  <2>1. CASE /\ Arrived(s, "info") /\ Take(s) /\ Goto(s, "check")
             /\ landed' = [landed EXCEPT ![s] = @ /\ Head(chan[s]).flag] /\ UNCHANGED <<end, tries>>
    <3>1. /\ Still(p) /\ end'[s] = end[s] /\ tries'[s] = tries[s]
          /\ pc[s] = "info" /\ pc'[s] = "check"
      BY <1>0, <1>2, <2>1 DEF PunchInfo, Goto, Still
    <3> QED
      BY <1>0, <2>1, <3>1, PunchHears DEF Arrived
  <2>2. CASE PunchReturns(s, FALSE) /\ UNCHANGED <<chan, landed, tries>>
    <3>1. Over(s)' /\ Still(p)
      BY <1>0, <2>2, PunchReturnsTo DEF Still
    <3> QED
      BY <1>0, <2>2, <3>1, SideEnds
  <2> QED
    BY <1>2, <2>1, <2>2 DEF PunchInfo
<1>3. CASE PunchCheck(s)
  <2>1. PICK ok \in ConnectOutcomes(s) :
          /\ landed' = [landed EXCEPT ![s] = ok]
          /\ IF AttemptsOf(s) = 1
             THEN PunchReturns(s, ok) /\ UNCHANGED chan
             ELSE /\ IF ok THEN UNCHANGED agent ELSE CloseAgent(s)
                  /\ Send(s, Msg("outcome", NoTier, ok))
                  /\ Goto(s, "outcome")
                  /\ UNCHANGED <<end, cres>>
    BY <1>3 DEF PunchCheck
  <2>2. ok \in BOOLEAN /\ UNCHANGED tries /\ pc[s] = "check"
    BY <1>3 DEF ConnectOutcomes, PunchCheck
  <2>3. landed'[p] = landed[p] /\ landed'[s] = ok
    BY <1>0, <2>1
  <2>4. CASE AttemptsOf(s) = 1
    <3>1. PunchReturns(s, ok) /\ UNCHANGED chan
      BY <2>1, <2>4
    <3>2. /\ Still(p)
          /\ Over(s)' \/ (pc'[s] \in {"request", "recv"} /\ end'[s] = end[s])
      BY <1>0, <2>2, <2>3, <3>1, PunchReturnsTo DEF Still
    <3>3. CASE Over(s)'
      BY <1>0, <3>1, <3>2, <3>3, SideEnds
    <3>4. CASE pc'[s] \in {"request", "recv"} /\ end'[s] = end[s]
      BY <1>0, <2>2, <2>4, <3>1, <3>2, <3>4, PunchLands
    <3> QED
      BY <3>2, <3>3, <3>4
  <2>5. CASE AttemptsOf(s) # 1
    <3>1. /\ Still(p) /\ end'[s] = end[s] /\ tries'[s] = tries[s] /\ pc'[s] = "outcome"
          /\ Send(s, Msg("outcome", NoTier, ok))
      BY <1>0, <2>1, <2>2, <2>3, <2>5 DEF Goto, Still
    <3>2. /\ Msg("outcome", NoTier, ok) \in Messages /\ Msg("outcome", NoTier, ok).type = "outcome"
          /\ Msg("outcome", NoTier, ok).flag = ok
      BY <2>2 DEF Msg, Messages
    <3> QED
      BY <1>0, <2>2, <2>3, <2>5, <3>1, <3>2, PunchSays
  <2> QED
    BY <2>4, <2>5
<1>4. CASE PunchOutcome(s)
  <2>0. UNCHANGED landed /\ pc[s] = "outcome" /\ AttemptsOf(s) # 1
    BY <1>4 DEF PunchOutcome, StreamInv, TriesInv
  <2>1. CASE SwapError(s, "outcome") /\ PunchReturns(s, FALSE) /\ UNCHANGED <<chan, tries>>
    <3>1. Over(s)' /\ Still(p)
      BY <1>0, <2>0, <2>1, PunchReturnsTo DEF Still
    <3> QED
      BY <1>0, <2>1, <3>1, SideEnds
  <2>2. CASE /\ Arrived(s, "outcome") /\ Take(s)
             /\ \/ /\ PunchReturns(s, landed[s] /\ Head(chan[s]).flag) /\ UNCHANGED tries
                \/ /\ ~(landed[s] /\ Head(chan[s]).flag) /\ tries[s] < AttemptsOf(s)
                   /\ tries' = [tries EXCEPT ![s] = @ + 1] /\ Goto(s, "gather") /\ UNCHANGED end
    <3>0. /\ chan[s] # <<>> /\ (landed[s] /\ Head(chan[s]).flag) \in BOOLEAN
          /\ Landed(s) <=> landed[s] /\ Head(chan[s]).flag
      <4>1. chan[s] # <<>> /\ Head(chan[s]).flag \in BOOLEAN
        BY <1>0, <2>2, HeadMessage DEF Arrived
      <4>2. Waiting(s) >= 1 /\ Head(chan[s]) = chan[s][1]
        BY <1>0, <4>1, Pair
      <4> QED
        BY <1>0, <4>1, <4>2 DEF Landed
    <3>1. CASE PunchReturns(s, landed[s] /\ Head(chan[s]).flag) /\ UNCHANGED tries
      <4>1. /\ Still(p)
            /\ \/ Over(s)'
               \/ Landed(s) /\ pc'[s] \in {"request", "recv"} /\ end'[s] = end[s]
        BY <1>0, <2>0, <3>0, <3>1, PunchReturnsTo DEF Still
      <4>2. CASE Over(s)'
        BY <1>0, <2>2, <3>0, <4>1, <4>2, SideEnds
      <4>3. CASE Landed(s) /\ pc'[s] \in {"request", "recv"} /\ end'[s] = end[s]
        BY <1>0, <2>0, <2>2, <3>0, <4>1, <4>3, PunchLands
      <4> QED
        BY <4>1, <4>2, <4>3
    <3>2. CASE /\ ~(landed[s] /\ Head(chan[s]).flag) /\ tries[s] < AttemptsOf(s)
               /\ tries' = [tries EXCEPT ![s] = @ + 1] /\ Goto(s, "gather") /\ UNCHANGED end
      <4>1. Still(p) /\ end'[s] = end[s] /\ tries'[s] = tries[s] + 1 /\ pc'[s] = "gather"
        BY <1>0, <2>0, <3>2 DEF Goto, Still
      <4> QED
        BY <1>0, <2>0, <2>2, <3>0, <3>2, <4>1, PunchHears
    <3> QED
      BY <2>2, <3>1, <3>2
  <2> QED
    BY <1>4, <2>1, <2>2 DEF PunchOutcome
<1> QED
  BY <1>1, <1>2, <1>3, <1>4 DEF Punch

\* A step of a side's climb.
LEMMA ClimbStream ==
  ASSUME TypeOK, StreamInv, UNCHANGED <<hello, broken, tries, landed>>,
         NEW s \in Side, NEW p \in Side, p # s, Climbing(s), ClimbOp(s),
         NEW l \in ClimbPC \cup {"recv", "got", "serve"} \cup ServeRungPC \cup OverPC, Goto(s, l),
         end'[p] = end[p], end'[s] = end[s] \/ l \in OverPC
  PROVE  StreamInv'
<1>1. pc'[s] = l /\ Still(p)
  BY DEF Goto, TypeOK, Still
<1>2. CASE l \in OverPC
  BY <1>1, <1>2, SideEnds DEF Over
<1>3. CASE l \notin OverPC
  <2>1. Climbing(s)'
    BY <1>1, <1>3 DEF Climbing, Punching, Over, OverPC, BeforePC, PunchPC, ClimbPC, ServeRungPC
  <2> QED
    BY <1>1, <1>3, <2>1, ClimbsOn
<1> QED
  BY <1>2, <1>3

\* The client's walk.
LEMMA ClientClimbStream ==
  ASSUME IInv, StreamInv, ClientRequest \/ ClientRequestAck \/ ClientDial \/ ClientCommitAck
  PROVE  StreamInv'
<1>0. /\ TypeOK /\ TurnInv /\ ClientInv /\ "client" \in Side /\ "host" \in Side
      /\ Peer("client") = "host"
  BY DEF IInv, LocalInv, ClientSide, Side, Peer
<1>1. pc["client"] \in ClimbPC /\ UNCHANGED <<hello, broken, tries, landed>>
  BY DEF ClientRequest, ClientRequestAck, ClientDial, ClientCommitAck, ClimbPC, envVars, punchVars
<1>2. Climbing("client")
  BY <1>1 DEF Climbing, Punching, Over, OverPC, BeforePC, PunchPC, ClimbPC
<1>3. ClimbOp("client")
  <2>1. pc["client"] \in {"request", "dial"} => AttemptsTo("host") = {}
    BY <1>0 DEF TurnInv
  <2>2. CASE ClientRequest
    <3>1. /\ RungLeft => Attempt(ClientRung, FALSE) \in Messages
          /\ Attempt("libp2p", FALSE) \in Messages /\ \A t : Attempt(t, FALSE).type = "attempt"
      BY <1>0, ClientLadder DEF Messages, Msg, Attempt, Upper, Tiers
    <3> QED
      BY <1>0, <2>1, <2>2, <3>1 DEF ClientRequest, ClimbOp
  <2>3. CASE ClientDial
    <3>1. Attempt(rung["client"], TRUE) \in Messages /\ Attempt(rung["client"], TRUE).type = "attempt"
      BY <1>0, <2>3 DEF ClientDial, ClientInv, Messages, Msg, Attempt, Upper
    <3> QED
      BY <1>0, <2>1, <2>3, <3>1 DEF ClientDial, ClimbOp
  <2>4. CASE ClientRequestAck \/ ClientCommitAck
    BY <2>4 DEF ClientRequestAck, ClientCommitAck, ClimbOp, Arrived
  <2> QED
    BY <2>2, <2>3, <2>4
<1>4. \E l \in ClimbPC \cup {"done"} :
        Goto("client", l) /\ (UNCHANGED end \/ (l = "done" /\ \E how : Leave("client", how)))
  BY DEF ClientRequest, ClientRequestAck, ClientDial, ClientCommitAck, ClimbPC, ClientFellShort
<1>5. PICK l \in ClimbPC \cup {"done"} :
        Goto("client", l) /\ (UNCHANGED end \/ (l = "done" /\ \E how : Leave("client", how)))
  BY <1>4
<1>6. end'["host"] = end["host"] /\ (end'["client"] = end["client"] \/ l \in OverPC)
  BY <1>0, <1>5 DEF Leave, TypeOK, OverPC
<1> QED
  BY <1>0, <1>1, <1>2, <1>3, <1>5, <1>6, ClimbStream DEF OverPC

\* The host's loop.
LEMMA HostClimbStream ==
  ASSUME IInv, StreamInv,
         \/ HostReceive \/ HostGot \/ HostServe \/ HostServing \/ HostStopped
         \/ HostCommit \/ HostNotify \/ HostVerify \/ HostRelease
  PROVE  StreamInv'
<1> DEFINE PCs == {"recv", "got", "serve"} \cup ServeRungPC
<1>0. /\ TypeOK /\ TurnInv /\ HostInv /\ "client" \in Side /\ "host" \in Side
      /\ Peer("host") = "client"
  BY DEF IInv, LocalInv, HostSide, Side, Peer
<1>1. pc["host"] \in PCs /\ UNCHANGED <<hello, broken, tries, landed>>
  BY DEF HostReceive, HostGot, HostServe, HostServing, HostStopped, HostCommit, HostNotify, HostVerify,
     HostRelease, ServeRungPC, envVars, punchVars
<1>2. Climbing("host")
  BY <1>1 DEF Climbing, Punching, Over, OverPC, BeforePC, PunchPC, ServeRungPC
<1>3. ClimbOp("host")
  <2>1. pc["host"] \in {"got", "commit"} => AttemptsTo("client") = {}
    BY <1>0 DEF TurnInv, HostTurn
  <2>2. CASE HostGot
    <3>1. Attempt(pending.tier, FALSE) \in Messages /\ Attempt(pending.tier, FALSE).type = "attempt"
      BY <1>0 DEF TypeOK, Messages, Msg, Attempt
    <3> QED
      BY <1>0, <2>1, <2>2, <3>1 DEF HostGot, ClimbOp
  <2>3. CASE HostCommit
    <3>1. Attempt(active, TRUE) \in Messages /\ Attempt(active, TRUE).type = "attempt"
      BY <1>0 DEF TypeOK, Messages, Msg, Attempt, Upper
    <3> QED
      BY <1>0, <2>1, <2>3, <3>1 DEF HostCommit, ClimbOp
  <2>4. CASE HostReceive \/ HostServing
    BY <2>4 DEF HostReceive, HostServing, ClimbOp, Arrived
  <2>5. CASE HostServe \/ HostStopped \/ HostNotify \/ HostVerify \/ HostRelease
    BY <2>5 DEF HostServe, HostStopped, HostNotify, HostVerify, HostRelease, ClimbOp
  <2> QED
    BY <2>2, <2>3, <2>4, <2>5
<1>4. \E l \in PCs \cup {"ended"} :
        Goto("host", l) /\ (UNCHANGED end \/ (l = "ended" /\ Leave("host", "closed")))
  <2>1. CASE HostReturns
    BY <2>1 DEF HostReturns
  <2>2. CASE HostReceive \/ HostGot \/ HostServe \/ HostServing
    BY <2>1, <2>2 DEF HostReceive, HostGot, HostServe, HostServing, ServeRungPC
  <2>3. CASE HostStopped \/ HostCommit \/ HostNotify \/ HostVerify \/ HostRelease
    BY <2>1, <2>3 DEF HostStopped, HostCommit, HostNotify, HostVerify, HostRelease, ServeRungPC
  <2> QED
    BY <2>2, <2>3
<1>5. PICK l \in PCs \cup {"ended"} :
        Goto("host", l) /\ (UNCHANGED end \/ (l = "ended" /\ Leave("host", "closed")))
  BY <1>4
<1>6. end'["client"] = end["client"] /\ (end'["host"] = end["host"] \/ l \in OverPC)
  BY <1>0, <1>5 DEF Leave, TypeOK, OverPC
<1> QED
  BY <1>0, <1>1, <1>2, <1>3, <1>5, <1>6, ClimbStream DEF OverPC

\* The stream invariant holds before the first Hello.
LEMMA InitStream == Init => StreamInv
<1> SUFFICES ASSUME Init, NEW s \in Side PROVE TriesInv(s) /\ InScript(s) /\ PaceInv(s)
  BY DEF StreamInv
<1>1. /\ pc[s] \in {"start", "idle"} /\ pc[Peer(s)] \in {"start", "idle"} /\ chan[s] = <<>>
      /\ tries[s] = 0 /\ end[s] = "open"
  BY DEF Init, Side, Peer
<1>2. Waiting(s) = 0
  BY <1>1 DEF Waiting
<1>3. TriesInv(s)
  BY <1>1 DEF TriesInv, PunchPC
<1>4. InScript(s)
  BY <1>1, <1>2 DEF InScript, Climbing, Punching, BeforePC
<1>5. InStep(s) /\ ~Climbing(Peer(s))
  BY <1>1, <1>2 DEF InStep, Read, Sent, BeforePC, Climbing, Punching
<1> QED
  BY <1>3, <1>4, <1>5 DEF PaceInv

\* Every step of either side and of their surroundings keeps it.
LEMMA NextStream == IInv /\ StreamInv /\ [Next]_vars => StreamInv'
<1> SUFFICES ASSUME IInv, StreamInv, [Next]_vars PROVE StreamInv'
  OBVIOUS
<1>1. CASE ClientOpen \/ ClientHello \/ HostAccept \/ HostHello
  BY <1>1, StartsStream
<1>2. ASSUME NEW s \in Side, Punch(s) PROVE StreamInv'
  BY <1>2, PunchStreams
<1>3. CASE ClientRequest \/ ClientRequestAck \/ ClientDial \/ ClientCommitAck
  BY <1>3, ClientClimbStream
<1>4. CASE \/ HostReceive \/ HostGot \/ HostServe \/ HostServing \/ HostStopped
           \/ HostCommit \/ HostNotify \/ HostVerify \/ HostRelease
  BY <1>4, HostClimbStream
<1>5. CASE CloseRung \/ StopTier \/ StreamBreaks \/ Disconnect \/ ClientExit \/ Terminated \/ UNCHANGED vars
  <2>1. UNCHANGED <<hello, pc, chan, end, tries, landed>> /\ (broken => broken')
    BY <1>5 DEF CloseRung, StopTier, StreamBreaks, Disconnect, LosePeer, ClientExit, Terminated, vars,
       punchVars, envVars
  <2> QED
    BY <2>1, NeitherMoves
<1> QED
  BY <1>1, <1>2, <1>3, <1>4, <1>5 DEF Next, ClientStep, HostStep, Side

\* The stream carries, at every moment, what its two readers are about to expect.
THEOREM StreamInvariant == Spec => []StreamInv
BY Invariant, InitStream, NextStream, PTL DEF Spec

\* The stream invariant says what stands first in the stream.
LEMMA StreamLockstep == TypeOK /\ StreamInv => Lockstep
<1> SUFFICES ASSUME TypeOK, StreamInv, NEW s \in Side, Awaits(s) # "nothing", chan[s] # <<>>
             PROVE  Head(chan[s]).type = Awaits(s)
  BY DEF Lockstep, Arrived
<1>1. InScript(s) /\ Waiting(s) \in Nat /\ Waiting(s) >= 1 /\ Head(chan[s]) = chan[s][1]
  <2>1. Peer(s) \in Side /\ Peer(s) # s
    BY DEF Peer, Side
  <2> QED
    BY <2>1, Pair DEF StreamInv
<1>2. CASE pc[s] \in {"hello", "info", "outcome"}
  BY <1>1, <1>2 DEF InScript, First, Punching, BeforePC, PunchPC, Awaits
<1>3. CASE pc[s] \in {"reqack", "commitack", "recv", "serving"}
  BY <1>1, <1>3 DEF InScript, Climbing, Punching, Over, OverPC, BeforePC, PunchPC, Awaits
<1> QED
  BY <1>2, <1>3 DEF Awaits

\* Lockstep for any number of punch attempts, any ladder and any failure of one side:
\* no side of the negotiate stream ever decodes a message as one it is not.
THEOREM InLockstep == Spec => []Lockstep
BY TypeCorrect, StreamInvariant, StreamLockstep, PTL
=============================================================================
