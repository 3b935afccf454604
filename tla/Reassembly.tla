----------------------------- MODULE Reassembly -----------------------------
(***************************************************************************)
(* The datagram codec of the QUIC tier (internal/quictun/fragment.go): a   *)
(* flowmux message is cut into QUIC DATAGRAMs by Send and put together     *)
(* again by accept, over a channel that loses, duplicates and reorders.    *)
(*                                                                         *)
(* The state is the sending half of one codec and the receiving half of    *)
(* its peer's.  A payload is the message it was cut from and its index;    *)
(* lengths are counted in bytes.  The partial messages are kept in the     *)
(* order of their creation, so that those past partialTTL are a prefix.    *)
(***************************************************************************)
EXTENDS Integers, Sequences, FiniteSetsExt

CONSTANTS
  Lengths,             \* the lengths of the messages the flow mux sends
  FragmentPayload,     \* datagramFragmentPayload
  MaxMessage,          \* maxDatagramMessage
  MaxPartialMessages,  \* maxPartialMessages
  MaxPartialBytes,     \* maxPartialBytes
  IDs,                 \* the message IDs are 0..IDs-1 (uint32)
  MaxSends             \* bound: messages sent

ASSUME ReassemblyAssumption ==
  /\ FragmentPayload \in Nat \ {0}
  /\ Lengths \subseteq Nat
  /\ MaxMessage \in Nat /\ MaxMessage <= MaxPartialBytes
  /\ MaxPartialMessages \in Nat \ {0} /\ MaxPartialBytes \in Nat
  /\ IDs \in Nat \ {0} /\ MaxSends \in Nat

VARIABLES
  nextID,     \* the sender's nextID
  sent,       \* the messages given to Send, each with its ID and its length
  flight,     \* the fragments on their way, as <<message, index>>
  partial,    \* the receiver's incomplete messages, oldest first
  aged,       \* how many of them are past partialTTL
  reserved,   \* the bytes reserved for them
  closed,     \* the receiver's codec is closed
  returned    \* what Recv returned in the last step: the payloads it put together

sendVars == <<nextID, sent>>
tableVars == <<partial, aged, reserved, closed>>
vars == <<sendVars, flight, tableVars, returned>>

None == <<>>

\* The number of fragments of a message, at least one.
Count(total) == IF total = 0 THEN 1 ELSE (total + FragmentPayload - 1) \div FragmentPayload
PayloadLen(index, total) ==
  IF (index + 1) * FragmentPayload <= total THEN FragmentPayload
  ELSE total - index * FragmentPayload

\* The header and the payload of fragment index of message m.
Fragment(m, index) ==
  [id |-> sent[m].id, index |-> index, count |-> Count(sent[m].len), total |-> sent[m].len,
   len |-> PayloadLen(index, sent[m].len), payload |-> <<m, index>>]

validFragment(f) ==
  /\ f.total <= MaxMessage /\ f.index \in 0..f.count - 1
  /\ f.count = Count(f.total)
  /\ f.len = PayloadLen(f.index, f.total)

\* The bytes the partial messages of tab need.
Total(tab) ==
  LET upTo[n \in 0..Len(tab)] == IF n = 0 THEN 0 ELSE upTo[n - 1] + tab[n].total
  IN  upTo[Len(tab)]

\* Types; the limits hold; what is reserved is what the partial messages need, through
\* completion, eviction, expiry and Close; and no complete message is held back.
TypeOK ==
  /\ nextID \in 0..IDs - 1
  /\ sent \in Seq([id : 0..IDs - 1, len : Lengths])
  /\ \A x \in flight : x[1] \in DOMAIN sent /\ x[2] \in 0..Count(sent[x[1]].len) - 1
  /\ aged \in 0..Len(partial)
  /\ closed \in BOOLEAN
  /\ Len(partial) <= MaxPartialMessages
  /\ reserved = Total(partial) /\ reserved <= MaxPartialBytes
  /\ \A k \in DOMAIN partial : \E i \in DOMAIN partial[k].parts : partial[k].parts[i] = None

Init ==
  /\ nextID = 0 /\ sent = <<>>
  /\ flight = {}
  /\ partial = <<>> /\ aged = 0 /\ reserved = 0 /\ closed = FALSE
  /\ returned = None

-----------------------------------------------------------------------------
(* Send.  The fragments are passed to QUIC one after the other, until one  *)
(* is refused; senders share only nextID.  Since the network reorders,     *)
(* all that matters is which fragments get through.                        *)

\* Going once round the IDs takes longer than partialTTL and than any datagram is on
\* its way: 2^32 messages.
WrappedLongAfter(id) ==
  /\ \A x \in flight : sent[x[1]].id # id
  /\ \A k \in DOMAIN partial : partial[k].id = id => k <= aged

\* A message over the limit is refused.  The fragments not in through are refused by
\* QUIC or lost.
Send(len, through) ==
  LET id == (nextID + 1) % IDs
      m  == Len(sent) + 1
  IN
  /\ len <= MaxMessage
  /\ Len(sent) < MaxSends
  /\ WrappedLongAfter(id)
  /\ nextID' = id
  /\ sent' = Append(sent, [id |-> id, len |-> len])
  /\ flight' = flight \cup {<<m, i>> : i \in through}
  /\ returned' = None
  /\ UNCHANGED tableVars

-----------------------------------------------------------------------------
(* The receiver, under its mutex.  c is the partial messages and the       *)
(* bytes reserved for them.                                                *)

\* Mutant: the bytes stay reserved.
remove_KeepsBytes(c, first, last) ==
  [tab |-> SubSeq(c.tab, 1, first - 1) \o SubSeq(c.tab, last + 1, Len(c.tab)), res |-> c.res]

\* remove, for the partial messages first..last.
remove(c, first, last) ==
  [tab |-> SubSeq(c.tab, 1, first - 1) \o SubSeq(c.tab, last + 1, Len(c.tab)),
   res |-> c.res - Total(SubSeq(c.tab, first, last))]

\* Mutant: partial messages are only ever evicted.
dropExpired_Never(c) == c

dropExpired(c) == remove(c, 1, aged)

Fits(c, total) == Len(c.tab) < MaxPartialMessages /\ c.res + total <= MaxPartialBytes

\* The oldest go until the new one fits, as a message within MaxMessage does in the end.
reserve(c, total) ==
  remove(c, 1, Min({n \in 0..Len(c.tab) : Fits(remove(c, 1, n), total) \/ n = Len(c.tab)}))

New(f) == [id |-> f.id, total |-> f.total, parts |-> [i \in 1..f.count |-> None]]

\* The partial message of f in c, made if it has to be.
Holding(c, f) ==
  IF \E k \in DOMAIN c.tab : c.tab[k].id = f.id THEN c
  ELSE LET r == reserve(c, f.total)
       IN  [tab |-> Append(r.tab, New(f)), res |-> r.res + f.total]

Complete(p) == \A i \in DOMAIN p.parts : p.parts[i] # None

Table(c) == partial' = c.tab /\ reserved' = c.res

\* Fragment f is kept if its message, the k-th of c, has the same shape and does not have
\* it yet; the message is returned when it was the last.
Keep(c, k, f) ==
  LET p == c.tab[k]
      q == [p EXCEPT !.parts[f.index + 1] = f.payload]
      fresh == p.total = f.total /\ Len(p.parts) = f.count /\ p.parts[f.index + 1] = None
  IN  \/ ~fresh /\ Table(c) /\ returned' = None
      \/ fresh /\ ~Complete(q) /\ Table([c EXCEPT !.tab[k] = q]) /\ returned' = None
      \/ fresh /\ Complete(q) /\ Table(remove(c, k, k)) /\ returned' = q.parts

accept(f) ==
  /\ \E now \in {dropExpired([tab |-> partial, res |-> reserved])} :
       \E c \in {Holding(now, f)} :
         \E k \in {j \in DOMAIN c.tab : c.tab[j].id = f.id} : Keep(c, k, f)
  /\ aged' = 0
  /\ UNCHANGED closed

\* recv returns a datagram, which may come again.
Recv(x) ==
  LET f == Fragment(x[1], x[2]) IN
  /\ IF validFragment(f) /\ ~closed THEN accept(f) ELSE returned' = None /\ UNCHANGED tableVars
  /\ flight' \in {flight, flight \ {x}}
  /\ UNCHANGED sendVars

\* partialTTL passes for one more of them.
Ages ==
  /\ aged < Len(partial)
  /\ aged' = aged + 1
  /\ returned' = None
  /\ UNCHANGED <<sendVars, flight, partial, reserved, closed>>

Close ==
  /\ ~closed
  /\ closed' = TRUE
  /\ partial' = <<>> /\ reserved' = 0 /\ aged' = 0
  /\ returned' = None
  /\ UNCHANGED <<sendVars, flight>>

Next ==
  \/ \E len \in Lengths : \E through \in SUBSET (0..Count(len) - 1) : Send(len, through)
  \/ \E x \in flight : Recv(x)
  \/ Ages \/ Close

Spec == Init /\ [][Next]_vars

-----------------------------------------------------------------------------
\* Whatever is lost, duplicated, reordered, evicted or expired, and although message IDs
\* come round again, what Recv returns is one message as it was given to Send: every
\* payload of it, in order, and none of another message.
NoMixedMessage ==
  returned # None =>
    \E m \in DOMAIN sent :
      returned = [i \in 1..Count(sent[m].len) |-> <<m, i - 1>>]
=============================================================================
