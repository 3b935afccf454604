-------------------------- MODULE Reassembly_proofs --------------------------
(***************************************************************************)
(* Theorems about Reassembly, for any limits, lengths and message IDs.     *)
(* What Total adds up is shown by the least-number principle: a recursive  *)
(* function has the value claimed for it unless there is a first place     *)
(* where it has not.                                                       *)
(***************************************************************************)
EXTENDS Reassembly, SequenceTheorems, WellFoundedInduction, TLAPS

-----------------------------------------------------------------------------
(* The bytes the partial messages need.                                    *)

\* A non-empty set of naturals has a least element.
LEMMA LeastNatural ==
  ASSUME NEW S \in SUBSET Nat, S # {}
  PROVE  \E m \in S : \A k \in S : m <= k
<1> DEFINE R == OpToRel(<, Nat)
<1>1. IsWellFoundedOn(R, Nat)
  BY NatLessThanWellFounded
<1>2. PICK m \in S : \A k \in S : ~(<<k, m>> \in R)
  <2> HIDE DEF R
  <2> QED
    BY <1>1, WFMin
<1>3. \A k \in S : ~(k < m)
  BY <1>2 DEF OpToRel
<1> QED
  BY <1>3

\* A sequence of things that need bytes.
Sized(tab) ==
  /\ Len(tab) \in Nat /\ DOMAIN tab = 1..Len(tab)
  /\ \A k \in 1..Len(tab) : tab[k].total \in Nat

\* g has the sums of the first 0, 1, ... n of tab.
Sums(tab, n, g) ==
  /\ g \in [0..n -> Int]
  /\ g[0] = 0
  /\ \A i \in 1..n : g[i] = g[i - 1] + tab[i].total

LEMMA SumsExist ==
  ASSUME NEW tab, Sized(tab)
  PROVE  \A n \in 0..Len(tab) : \E g \in [0..n -> Nat] : Sums(tab, n, g)
<1> DEFINE Bad == {n \in 0..Len(tab) : ~\E g \in [0..n -> Nat] : Sums(tab, n, g)}
<1>1. SUFFICES ASSUME Bad # {} PROVE FALSE
  OBVIOUS
<1>2. PICK n \in Bad : \A k \in Bad : n <= k
  <2>1. Bad \in SUBSET Nat
    BY DEF Sized
  <2> QED
    BY <1>1, <2>1, LeastNatural
<1>3. n \in 0..Len(tab) /\ Len(tab) \in Nat
  BY DEF Sized
<1>4. n # 0
  <2> SUFFICES ASSUME n = 0 PROVE FALSE
    OBVIOUS
  <2> DEFINE g == [i \in 0..0 |-> 0]
  <2>1. g \in [0..n -> Nat] /\ Sums(tab, n, g)
    BY DEF Sums
  <2> QED
    BY <2>1
<1>5. PICK g \in [0..n - 1 -> Nat] : Sums(tab, n - 1, g)
  <2>1. n - 1 \in 0..Len(tab) /\ ~(n <= n - 1)
    BY <1>3, <1>4
  <2> QED
    BY <1>2, <2>1
<1> DEFINE h == [i \in 0..n |-> IF i = n THEN g[n - 1] + tab[n].total ELSE g[i]]
<1>6. tab[n].total \in Nat /\ g[n - 1] \in Nat
  BY <1>3, <1>4 DEF Sized
<1>7. h \in [0..n -> Nat]
  BY <1>3, <1>6
<1>8. Sums(tab, n, h)
  BY <1>3, <1>4, <1>5, <1>6, <1>7 DEF Sums
<1> QED
  BY <1>7, <1>8

LEMMA SumsAgree ==
  ASSUME NEW tab, NEW n \in Nat, NEW g, NEW h, Sums(tab, n, g), Sums(tab, n, h)
  PROVE  g[n] = h[n]
<1> DEFINE Bad == {i \in 0..n : g[i] # h[i]}
<1>1. SUFFICES ASSUME Bad # {} PROVE FALSE
  OBVIOUS
<1>2. PICK i \in Bad : \A k \in Bad : i <= k
  <2>1. Bad \in SUBSET Nat
    OBVIOUS
  <2> QED
    BY <1>1, <2>1, LeastNatural
<1>3. i # 0
  BY DEF Sums
<1>4. i - 1 \in 0..n /\ ~(i <= i - 1) /\ i \in 1..n
  BY <1>3
<1>5. g[i - 1] = h[i - 1]
  BY <1>2, <1>4
<1> QED
  BY <1>4, <1>5 DEF Sums

\* Total is the last sum.
LEMMA TotalIs ==
  ASSUME NEW tab, Sized(tab)
  PROVE  /\ Total(tab) \in Nat
         /\ \A g : Sums(tab, Len(tab), g) => Total(tab) = g[Len(tab)]
<1> DEFINE Adds(u) == u = [n \in 0..Len(tab) |-> IF n = 0 THEN 0 ELSE u[n - 1] + tab[n].total]
           up == CHOOSE u : Adds(u)
<1>1. Total(tab) = up[Len(tab)]
  BY DEF Total
<1>2. Len(tab) \in Nat
  BY DEF Sized
<1>3. PICK g \in [0..Len(tab) -> Nat] : Sums(tab, Len(tab), g)
  BY <1>2, SumsExist
<1>4. Adds(g)
  BY <1>2, <1>3 DEF Sums
<1>5. Adds(up)
  <2> HIDE DEF Adds
  <2> QED
    BY <1>4
<1>6. Sums(tab, Len(tab), up) /\ up[Len(tab)] \in Nat
  <2> DEFINE Bad == {n \in 0..Len(tab) : up[n] # g[n]}
  <2>1. Bad = {}
    <3> SUFFICES ASSUME Bad # {} PROVE FALSE
      OBVIOUS
    <3>1. PICK n \in Bad : \A k \in Bad : n <= k
      <4>1. Bad \in SUBSET Nat
        BY <1>2
      <4> HIDE DEF Bad
      <4> QED
        BY <4>1, LeastNatural
    <3>2. n # 0
      BY <1>2, <1>4, <1>5
    <3>3. n - 1 \in 0..Len(tab) /\ ~(n <= n - 1)
      BY <1>2, <3>2
    <3>4. up[n - 1] = g[n - 1]
      BY <3>1, <3>3
    <3> QED
      BY <1>2, <1>4, <1>5, <3>2, <3>4
  <2>2. \A n \in 0..Len(tab) : up[n] = g[n]
    BY <2>1
  <2>3. up = g
    BY <1>5, <2>2
  <2>4. g[Len(tab)] \in Nat
    BY <1>2
  <2> HIDE DEF up
  <2> QED
    BY <1>3, <2>3, <2>4
<1> HIDE DEF up
<1> QED
  BY <1>1, <1>2, <1>6, SumsAgree

\* The partial messages, and the payloads they collect.
Payloads == {None} \cup (Nat \X Nat)
Partials == [id : 0..IDs - 1, total : Nat, parts : Seq(Payloads)]

LEMMA PartialsSized == ASSUME NEW tab \in Seq(Partials) PROVE Sized(tab)
<1>1. Len(tab) \in Nat /\ DOMAIN tab = 1..Len(tab)
  BY LenProperties
<1>2. \A k \in 1..Len(tab) : tab[k] \in Partials
  BY ElementOfSeq
<1>3. \A p \in Partials : p.total \in Nat
  BY DEF Partials
<1> QED
  BY <1>1, <1>2, <1>3 DEF Sized

LEMMA TotalEmpty == Total(<<>>) = 0
<1>1. Sized(<<>>) /\ Len(<<>>) = 0
  BY DEF Sized
<1> DEFINE g == [i \in 0..0 |-> 0]
<1>2. Sums(<<>>, 0, g) /\ g[0] = 0
  BY DEF Sums
<1> HIDE DEF g
<1> QED
  BY <1>1, <1>2, TotalIs

LEMMA TotalConcat ==
  ASSUME NEW s \in Seq(Partials), NEW t \in Seq(Partials)
  PROVE  Total(s \o t) = Total(s) + Total(t)
<1> DEFINE m == Len(s)
           n == Len(t)
           u == s \o t
<1>1. /\ m \in Nat /\ n \in Nat /\ u \in Seq(Partials) /\ Len(u) = m + n
      /\ \A i \in 1..m + n : u[i] = IF i <= m THEN s[i] ELSE t[i - m]
  BY ConcatProperties, LenProperties
<1>2. Sized(s) /\ Sized(t) /\ Sized(u)
  BY <1>1, PartialsSized
<1> HIDE DEF u
<1>3. PICK g \in [0..m -> Nat] : Sums(s, m, g)
  <2>1. m \in 0..Len(s)
    BY <1>1
  <2> QED
    BY <1>2, <2>1, SumsExist
<1>4. PICK h \in [0..n -> Nat] : Sums(t, n, h)
  <2>1. n \in 0..Len(t)
    BY <1>1
  <2> QED
    BY <1>2, <2>1, SumsExist
<1>5. Total(s) = g[m] /\ Total(t) = h[n] /\ g[0] = 0 /\ h[0] = 0 /\ g[m] \in Nat
  BY <1>1, <1>2, <1>3, <1>4, TotalIs DEF Sums
<1> HIDE DEF m, n
<1> DEFINE k == [i \in 0..m + n |-> IF i <= m THEN g[i] ELSE g[m] + h[i - m]]
<1>6. k \in [0..m + n -> Int]
  <2> SUFFICES ASSUME NEW i \in 0..m + n
               PROVE  (IF i <= m THEN g[i] ELSE g[m] + h[i - m]) \in Int
    OBVIOUS
  <2>1. CASE i <= m
    BY <1>1, <2>1
  <2>2. CASE ~(i <= m)
    <3>1. i - m \in 0..n
      BY <1>1, <2>2
    <3>2. h[i - m] \in Nat
      BY <3>1
    <3> QED
      BY <1>5, <2>2, <3>2
  <2> QED
    BY <2>1, <2>2
<1>7. k[0] = 0 /\ k[m + n] = g[m] + h[n]
  <2>1. 0 \in 0..m + n /\ m + n \in 0..m + n /\ (m + n) - m = n
    BY <1>1
  <2>2. k[0] = 0
    BY <1>1, <1>5, <2>1
  <2>3. CASE n = 0
    BY <1>1, <1>5, <2>1, <2>3
  <2>4. CASE n # 0
    <3>1. ~(m + n <= m)
      BY <1>1, <2>4
    <3>2. k[m + n] = g[m] + h[(m + n) - m]
      BY <2>1, <3>1
    <3> QED
      BY <2>1, <2>2, <3>2
  <2> QED
    BY <2>2, <2>3, <2>4
<1>8. ASSUME NEW i \in 1..m + n PROVE k[i] = k[i - 1] + u[i].total
  <2>1. i \in 0..m + n /\ i - 1 \in 0..m + n
    BY <1>1
  <2>2. CASE i <= m
    <3>1. k[i] = g[i] /\ k[i - 1] = g[i - 1] /\ u[i] = s[i] /\ i \in 1..m
      BY <1>1, <2>1, <2>2
    <3> QED
      BY <1>3, <3>1 DEF Sums
  <2>3. CASE i = m + 1
    <3>1. 1 \in 1..n /\ i - m = 1 /\ i - 1 = m
      BY <1>1, <2>3
    <3>2. k[i] = g[m] + h[1] /\ k[i - 1] = g[m] /\ u[i] = t[1]
      BY <1>1, <2>1, <2>3, <3>1
    <3>3. h[1] = h[1 - 1] + t[1].total
      BY <1>4, <3>1 DEF Sums
    <3>4. h[1] = t[1].total
      <4>1. t[1].total \in Nat
        BY <1>2, <3>1 DEF Sized, n
      <4> QED
        BY <1>5, <3>3, <4>1
    <3> QED
      BY <3>2, <3>4
  <2>4. CASE i > m + 1
    <3>1. i - m \in 1..n /\ (i - 1) - m = (i - m) - 1 /\ (i - m) - 1 \in 0..n /\ i - m \in 0..n
      BY <1>1, <2>4
    <3>2. k[i] = g[m] + h[i - m] /\ k[i - 1] = g[m] + h[(i - m) - 1] /\ u[i] = t[i - m]
      <4>1. ~(i <= m) /\ ~(i - 1 <= m)
        BY <1>1, <2>4
      <4>2. k[i] = g[m] + h[i - m] /\ k[i - 1] = g[m] + h[(i - 1) - m]
        BY <2>1, <4>1
      <4>3. u[i] = t[i - m]
        BY <1>1, <4>1
      <4> QED
        BY <3>1, <4>2, <4>3
    <3>3. h[i - m] = h[(i - m) - 1] + t[i - m].total
      BY <1>4, <3>1 DEF Sums
    <3>4. t[i - m].total \in Nat
      BY <1>2, <3>1 DEF Sized, n
    <3>5. h[(i - m) - 1] \in Nat
      BY <3>1
    <3> QED
      BY <1>5, <3>2, <3>3, <3>4, <3>5
  <2> QED
    BY <1>1, <2>2, <2>3, <2>4
<1>9. Sums(u, m + n, k)
  BY <1>6, <1>7, <1>8 DEF Sums
<1>10. Total(u) = k[m + n]
  <2> HIDE DEF k
  <2> QED
    BY <1>1, <1>2, <1>9, TotalIs
<1> QED
  BY <1>5, <1>7, <1>10 DEF u

LEMMA TotalOne == ASSUME NEW p \in Partials PROVE Total(<<p>>) = p.total
<1>1. <<p>> \in Seq(Partials) /\ Len(<<p>>) = 1 /\ <<p>>[1] = p
  OBVIOUS
<1>2. Sized(<<p>>) /\ p.total \in Nat
  BY <1>1, PartialsSized DEF Partials
<1> DEFINE g == [i \in 0..1 |-> IF i = 0 THEN 0 ELSE p.total]
<1>3. g \in [0..1 -> Int] /\ g[0] = 0 /\ g[1] = p.total
  BY <1>2
<1>4. ASSUME NEW i \in 1..1 PROVE g[i] = g[i - 1] + <<p>>[i].total
  <2>1. i = 1 /\ i - 1 = 0
    OBVIOUS
  <2> QED
    BY <1>1, <1>2, <1>3, <2>1
<1> HIDE DEF g
<1>5. Sums(<<p>>, 1, g)
  BY <1>3, <1>4 DEF Sums
<1> QED
  BY <1>1, <1>2, <1>3, <1>5, TotalIs

LEMMA TotalAppend ==
  ASSUME NEW tab \in Seq(Partials), NEW p \in Partials
  PROVE  Total(Append(tab, p)) = Total(tab) + p.total
<1>1. Append(tab, p) = tab \o <<p>> /\ <<p>> \in Seq(Partials)
  BY AppendIsConcat
<1> QED
  BY <1>1, TotalConcat, TotalOne

\* Filling in parts leaves the total as it is.
LEMMA TotalSame ==
  ASSUME NEW tab \in Seq(Partials), NEW tab2 \in Seq(Partials), Len(tab) = Len(tab2),
         \A k \in 1..Len(tab) : tab2[k].total = tab[k].total
  PROVE  Total(tab2) = Total(tab)
<1>1. Sized(tab) /\ Sized(tab2) /\ Len(tab) \in Nat
  BY PartialsSized, LenProperties
<1>2. PICK g \in [0..Len(tab) -> Nat] : Sums(tab, Len(tab), g)
  BY <1>1, SumsExist
<1>3. Sums(tab2, Len(tab2), g)
  BY <1>1, <1>2 DEF Sums
<1> QED
  BY <1>1, <1>2, <1>3, TotalIs

\* What is left and what is taken out add up to what there was.
Rest(tab, first, last) == SubSeq(tab, 1, first - 1) \o SubSeq(tab, last + 1, Len(tab))

LEMMA TotalRemove ==
  ASSUME NEW tab \in Seq(Partials), NEW first \in 1..Len(tab) + 1,
         NEW last \in first - 1..Len(tab)
  PROVE  /\ Total(Rest(tab, first, last)) = Total(tab) - Total(SubSeq(tab, first, last))
         /\ Total(SubSeq(tab, first, last)) \in Nat
         /\ Total(tab) \in Nat
<1> DEFINE n == Len(tab)
           a == SubSeq(tab, 1, first - 1)
           b == SubSeq(tab, first, last)
           c == SubSeq(tab, last + 1, n)
<1>1. n \in Nat /\ \A i \in 1..n : tab[i] \in Partials
  BY LenProperties, ElementOfSeq
<1>2. a \in Seq(Partials) /\ b \in Seq(Partials) /\ c \in Seq(Partials)
  <2>1. /\ \A i \in 1..first - 1 : tab[i] \in Partials
        /\ \A i \in first..last : tab[i] \in Partials
        /\ \A i \in last + 1..n : tab[i] \in Partials
    BY <1>1
  <2> QED
    BY <1>1, <2>1, SubSeqProperties
<1>3. tab = (a \o b) \o c
  <2>1. a \o b = SubSeq(tab, 1, last)
    <3>1. /\ 1 \in 1..n + 1 /\ first - 1 \in 1 - 1..n /\ last \in first - 1..n
          /\ (first - 1) + 1 = first
      BY <1>1
    <3> QED
      BY <3>1, ConcatAdjacentSubSeq
  <2>2. SubSeq(tab, 1, last) \o c = SubSeq(tab, 1, n)
    <3>1. 1 \in 1..n + 1 /\ last \in 1 - 1..n /\ n \in last..n
      BY <1>1
    <3> QED
      BY <3>1, ConcatAdjacentSubSeq
  <2>3. SubSeq(tab, 1, n) = tab
    BY SubSeqFull
  <2> QED
    BY <2>1, <2>2, <2>3
<1>4. a \o b \in Seq(Partials)
  BY <1>2, ConcatProperties
<1>5. Total(a) \in Nat /\ Total(b) \in Nat /\ Total(c) \in Nat /\ Total(tab) \in Nat
  BY <1>2, PartialsSized, TotalIs
<1> HIDE DEF a, b, c
<1>6. Total(tab) = (Total(a) + Total(b)) + Total(c)
  BY <1>2, <1>3, <1>4, TotalConcat
<1>7. Total(a \o c) = Total(a) + Total(c)
  BY <1>2, TotalConcat
<1>8. Total(a \o c) = Total(tab) - Total(b)
  BY <1>5, <1>6, <1>7
<1> QED
  BY <1>5, <1>8 DEF Rest, a, b, c

\* What is left are the others.
LEMMA RestOf ==
  ASSUME NEW tab \in Seq(Partials), NEW first \in 1..Len(tab) + 1,
         NEW last \in first - 1..Len(tab)
  PROVE  /\ Rest(tab, first, last) \in Seq(Partials)
         /\ Len(Rest(tab, first, last)) = Len(tab) - (last + 1 - first)
         /\ \A i \in 1..Len(Rest(tab, first, last)) :
              \E k \in 1..Len(tab) : Rest(tab, first, last)[i] = tab[k] /\ k \notin first..last
<1> DEFINE n == Len(tab)
           a == SubSeq(tab, 1, first - 1)
           c == SubSeq(tab, last + 1, n)
<1>1. n \in Nat /\ \A i \in 1..n : tab[i] \in Partials
  BY LenProperties, ElementOfSeq
<1>2. a \in Seq(Partials) /\ Len(a) = first - 1 /\ \A i \in 1..first - 1 : a[i] = tab[i]
  <2>1. \A i \in 1..first - 1 : tab[i] \in Partials
    BY <1>1
  <2>2. /\ a \in Seq(Partials) /\ Len(a) = (IF 1 <= first - 1 THEN (first - 1) - 1 + 1 ELSE 0)
        /\ \A i \in 1..(first - 1) - 1 + 1 : a[i] = tab[1 + i - 1]
    BY <2>1, SubSeqProperties
  <2> QED
    BY <1>1, <2>2
<1>3. c \in Seq(Partials) /\ Len(c) = n - last /\ \A i \in 1..n - last : c[i] = tab[last + i]
  <2>1. \A i \in last + 1..n : tab[i] \in Partials
    BY <1>1
  <2>2. /\ c \in Seq(Partials) /\ Len(c) = (IF last + 1 <= n THEN n - (last + 1) + 1 ELSE 0)
        /\ \A i \in 1..n - (last + 1) + 1 : c[i] = tab[(last + 1) + i - 1]
    BY <1>1, <2>1, SubSeqProperties
  <2>3. \A i \in 1..n - last : (last + 1) + i - 1 = last + i
    OBVIOUS
  <2> QED
    BY <1>1, <2>2, <2>3
<1> HIDE DEF a, c
<1>4. /\ a \o c \in Seq(Partials) /\ Len(a \o c) = (first - 1) + (n - last)
      /\ \A i \in 1..(first - 1) + (n - last) :
           (a \o c)[i] = IF i <= first - 1 THEN a[i] ELSE c[i - (first - 1)]
  <2>1. /\ a \o c \in Seq(Partials) /\ Len(a \o c) = Len(a) + Len(c)
        /\ \A i \in 1..Len(a) + Len(c) : (a \o c)[i] = IF i <= Len(a) THEN a[i] ELSE c[i - Len(a)]
    BY <1>2, <1>3, ConcatProperties
  <2> QED
    BY <1>2, <1>3, <2>1
<1>5. ASSUME NEW i \in 1..(first - 1) + (n - last)
      PROVE  \E k \in 1..n : (a \o c)[i] = tab[k] /\ k \notin first..last
  <2>1. CASE i <= first - 1
    BY <1>1, <1>2, <1>4, <2>1
  <2>2. CASE i > first - 1
    <3>1. i - (first - 1) \in 1..n - last /\ last + (i - (first - 1)) \in 1..n
          /\ last + (i - (first - 1)) \notin first..last
      BY <1>1, <2>2
    <3>2. (a \o c)[i] = tab[last + (i - (first - 1))]
      <4>1. ~(i <= first - 1)
        BY <1>1, <2>2
      <4>2. (a \o c)[i] = c[i - (first - 1)]
        BY <1>4, <4>1
      <4> QED
        BY <1>3, <3>1, <4>2
    <3> QED
      BY <3>1, <3>2
  <2>3. i <= first - 1 \/ i > first - 1
    BY <1>1
  <2> QED
    BY <2>1, <2>2, <2>3
<1>6. Len(a \o c) = n - (last + 1 - first)
  BY <1>1, <1>4
<1> QED
  BY <1>1, <1>4, <1>5, <1>6 DEF Rest, a, c

-----------------------------------------------------------------------------
(* The invariant.                                                          *)

\* The messages sent, and their fragments on the way.
Sending ==
  /\ nextID \in 0..IDs - 1
  /\ sent \in Seq([id : 0..IDs - 1, len : Lengths])
  /\ \A x \in flight : x[1] \in DOMAIN sent /\ x[2] \in 0..Count(sent[x[1]].len) - 1

\* The partial messages of c are incomplete and within the limits, and their bytes are
\* those reserved.
Account(c) ==
  /\ c.tab \in Seq(Partials)
  /\ Len(c.tab) <= MaxPartialMessages
  /\ c.res = Total(c.tab) /\ c.res <= MaxPartialBytes
  /\ \A k \in 1..Len(c.tab) : ~Complete(c.tab[k])

\* p is a part of message m, and of no other.
Collects(p, m) ==
  /\ m \in DOMAIN sent
  /\ p.id = sent[m].id /\ p.total = sent[m].len
  /\ Len(p.parts) = Count(p.total)
  /\ \A i \in 1..Len(p.parts) : p.parts[i] \in {None, <<m, i - 1>>}

\* Every fragment of p's ID that is still on its way is of message m.
Followed(p, m) == \A x \in flight : sent[x[1]].id = p.id => x[1] = m

Current(p) == \E m \in DOMAIN sent : Collects(p, m) /\ Followed(p, m)

\* The fragments of an ID on their way are of one message, and so is a partial message
\* with the fragments that may still be added to it: those past partialTTL are gone by then.
OneMessage ==
  /\ \A x, y \in flight : sent[x[1]].id = sent[y[1]].id => x[1] = y[1]
  /\ \A k \in 1..Len(partial) : k > aged => Current(partial[k])

Now == [tab |-> partial, res |-> reserved]

IInv ==
  /\ Sending
  /\ aged \in 0..Len(partial) /\ closed \in BOOLEAN
  /\ Account(Now)
  /\ OneMessage
  /\ NoMixedMessage

-----------------------------------------------------------------------------
(* The receiver's operations.                                              *)

LEMMA RemoveAccount ==
  ASSUME NEW c, Account(c), NEW first \in 1..Len(c.tab) + 1, NEW last \in first - 1..Len(c.tab)
  PROVE  /\ Account(remove(c, first, last))
         /\ Len(remove(c, first, last).tab) = Len(c.tab) - (last + 1 - first)
         /\ \A i \in 1..Len(remove(c, first, last).tab) :
              \E k \in 1..Len(c.tab) :
                remove(c, first, last).tab[i] = c.tab[k] /\ k \notin first..last
<1> DEFINE rest == Rest(c.tab, first, last)
           cut == Total(SubSeq(c.tab, first, last))
           r == remove(c, first, last)
<1>1. /\ c.tab \in Seq(Partials) /\ Len(c.tab) <= MaxPartialMessages
      /\ c.res = Total(c.tab) /\ c.res <= MaxPartialBytes
      /\ \A k \in 1..Len(c.tab) : ~Complete(c.tab[k])
  BY DEF Account
<1>2. r.tab = rest /\ r.res = c.res - cut
  BY DEF remove, Rest
<1>3. Total(rest) = Total(c.tab) - cut /\ cut \in Nat /\ Total(c.tab) \in Nat
  BY <1>1, TotalRemove
<1>4. /\ rest \in Seq(Partials) /\ Len(rest) = Len(c.tab) - (last + 1 - first)
      /\ \A i \in 1..Len(rest) : \E k \in 1..Len(c.tab) : rest[i] = c.tab[k] /\ k \notin first..last
  <2>0. c.tab \in Seq(Partials)
    BY <1>1
  <2>1. rest \in Seq(Partials) /\ Len(rest) = Len(c.tab) - (last + 1 - first)
    <3>1. rest \in Seq(Partials)
      BY <2>0, RestOf
    <3>2. \A t \in Seq(Partials) : \A a \in 1..Len(t) + 1 : \A b \in a - 1..Len(t) :
            Len(Rest(t, a, b)) = Len(t) - (b + 1 - a)
      BY RestOf
    <3>3. Len(rest) = Len(c.tab) - (last + 1 - first)
      BY <2>0, <3>2
    <3> QED
      BY <3>1, <3>3
  <2>2. \A i \in 1..Len(rest) : \E k \in 1..Len(c.tab) : rest[i] = c.tab[k] /\ k \notin first..last
    BY <1>1, RestOf, Zenon
  <2> QED
    BY <2>1, <2>2
<1> HIDE DEF rest, cut, r
<1>5. Len(rest) <= MaxPartialMessages
  <2>1. Len(c.tab) \in Nat
    BY <1>1, LenProperties
  <2> QED
    BY <1>1, <1>4, <2>1, ReassemblyAssumption
<1>6. r.res = Total(rest) /\ r.res <= MaxPartialBytes
  BY <1>1, <1>2, <1>3, ReassemblyAssumption
<1>7. \A k \in 1..Len(rest) : ~Complete(rest[k])
  BY <1>1, <1>4
<1>8. Account(r)
  BY <1>2, <1>4, <1>5, <1>6, <1>7 DEF Account
<1> QED
  BY <1>2, <1>4, <1>8 DEF r

AllCurrent(c) == \A k \in 1..Len(c.tab) : Current(c.tab[k])

\* What reserve leaves has room for the new message.
LEMMA ReserveAccount ==
  ASSUME NEW c, Account(c), AllCurrent(c), NEW total \in Nat, total <= MaxMessage
  PROVE  /\ Account(reserve(c, total)) /\ AllCurrent(reserve(c, total))
         /\ Fits(reserve(c, total), total)
<1> DEFINE n == Len(c.tab)
           S == {j \in 0..n : Fits(remove(c, 1, j), total) \/ j = n}
<1>1. n \in Nat
  BY LenProperties DEF Account
<1>2. PICK j \in S : reserve(c, total) = remove(c, 1, j)
  <2>1. S \in SUBSET Nat /\ n \in S
    BY <1>1
  <2>2. \E i \in S : \A k \in S : i <= k
    BY <2>1, LeastNatural
  <2>3. Min(S) \in S
    BY <2>2 DEF Min
  <2>4. reserve(c, total) = remove(c, 1, Min(S))
    BY DEF reserve
  <2> QED
    BY <2>3, <2>4
<1> DEFINE r == remove(c, 1, j)
<1>3. /\ Account(r) /\ Len(r.tab) = n - (j + 1 - 1)
      /\ \A i \in 1..Len(r.tab) : \E k \in 1..n : r.tab[i] = c.tab[k] /\ k \notin 1..j
  <2>1. 1 \in 1..n + 1 /\ j \in 1 - 1..n
    BY <1>1
  <2> QED
    BY <2>1, RemoveAccount
<1> HIDE DEF r
<1>4. AllCurrent(r)
  BY <1>3 DEF AllCurrent
<1>5. Fits(r, total)
  <2>1. CASE Fits(r, total)
    BY <2>1
  <2>2. CASE j = n
    <3>1. Len(r.tab) = 0 /\ r.tab \in Seq(Partials)
      BY <1>1, <1>3, <2>2 DEF Account
    <3>2. r.tab = <<>>
      BY <3>1, EmptySeq
    <3>3. r.res = 0
      BY <1>3, <3>2, TotalEmpty DEF Account
    <3> QED
      BY <3>1, <3>3, ReassemblyAssumption DEF Fits
  <2> QED
    BY <2>1, <2>2 DEF r
<1> QED
  BY <1>2, <1>3, <1>4, <1>5 DEF r

LEMMA CountInt == ASSUME NEW total \in Nat PROVE Count(total) \in Int
BY ReassemblyAssumption DEF Count

\* A fragment on its way.
LEMMA FragmentShape ==
  ASSUME Sending, NEW x \in flight
  PROVE  /\ x[1] \in DOMAIN sent /\ x[1] \in Nat /\ x[2] \in Nat
         /\ sent[x[1]].id \in 0..IDs - 1 /\ sent[x[1]].len \in Nat
         /\ Count(sent[x[1]].len) \in Nat /\ x[2] \in 0..Count(sent[x[1]].len) - 1
         /\ Fragment(x[1], x[2]).id = sent[x[1]].id
         /\ Fragment(x[1], x[2]).index = x[2]
         /\ Fragment(x[1], x[2]).count = Count(sent[x[1]].len)
         /\ Fragment(x[1], x[2]).total = sent[x[1]].len
         /\ Fragment(x[1], x[2]).payload = <<x[1], x[2]>>
<1>1. x[1] \in DOMAIN sent /\ x[2] \in 0..Count(sent[x[1]].len) - 1
  BY DEF Sending
<1>2. sent \in Seq([id : 0..IDs - 1, len : Lengths])
  BY DEF Sending
<1>3. x[1] \in Nat /\ sent[x[1]] \in [id : 0..IDs - 1, len : Lengths]
  <2>1. Len(sent) \in Nat /\ DOMAIN sent = 1..Len(sent)
    BY <1>2, LenProperties
  <2>2. x[1] \in 1..Len(sent)
    BY <1>1, <2>1
  <2>3. sent[x[1]] \in [id : 0..IDs - 1, len : Lengths]
    BY <1>2, <2>2, ElementOfSeq, Zenon
  <2> QED
    BY <2>1, <2>2, <2>3
<1>4. sent[x[1]].id \in 0..IDs - 1 /\ sent[x[1]].len \in Nat
  BY <1>3, ReassemblyAssumption
<1>5. Count(sent[x[1]].len) \in Int
  BY <1>4, CountInt
<1>6. x[2] \in Nat /\ Count(sent[x[1]].len) \in Nat
  BY <1>1, <1>5
<1> QED
  BY <1>1, <1>3, <1>4, <1>6 DEF Fragment

LEMMA NewPartial ==
  ASSUME Sending, OneMessage, NEW x \in flight
  PROVE  /\ New(Fragment(x[1], x[2])) \in Partials /\ ~Complete(New(Fragment(x[1], x[2])))
         /\ Current(New(Fragment(x[1], x[2])))
         /\ New(Fragment(x[1], x[2])).total = Fragment(x[1], x[2]).total
<1> DEFINE m == x[1]
           n == Count(sent[m].len)
           parts == [i \in 1..n |-> None]
           p == New(Fragment(x[1], x[2]))
<1>1. /\ m \in DOMAIN sent /\ x[2] \in 0..n - 1 /\ n \in Nat
      /\ sent[m].id \in 0..IDs - 1 /\ sent[m].len \in Nat
      /\ Fragment(x[1], x[2]).id = sent[m].id /\ Fragment(x[1], x[2]).count = n
      /\ Fragment(x[1], x[2]).total = sent[m].len
  BY FragmentShape
<1>2. p = [id |-> sent[m].id, total |-> sent[m].len, parts |-> parts]
  BY <1>1 DEF New
<1>3. parts \in [1..n -> Payloads]
  BY DEF Payloads
<1>4. parts \in Seq(Payloads)
  BY <1>1, <1>3, SeqDef
<1>5. Len(parts) = n
  <2>1. Len(parts) \in Nat /\ DOMAIN parts = 1..Len(parts) /\ DOMAIN parts = 1..n
    BY <1>4, LenProperties
  <2> HIDE DEF n, parts
  <2>2. n \in 1..n /\ n >= 1
    BY <1>1
  <2>3. n <= Len(parts)
    BY <2>1, <2>2
  <2>4. Len(parts) \in 1..n
    BY <2>1, <2>2, <2>3
  <2> QED
    BY <2>1, <2>2, <2>3, <2>4
<1>6. p \in Partials /\ p.id = sent[m].id /\ p.total = sent[m].len /\ p.parts = parts
  BY <1>1, <1>2, <1>4 DEF Partials
<1>7. ~Complete(p)
  <2>1. 1 \in DOMAIN p.parts /\ p.parts[1] = None
    BY <1>1, <1>6
  <2> QED
    BY <2>1 DEF Complete
<1>8. Collects(p, m)
  BY <1>1, <1>5, <1>6 DEF Collects
<1>9. Followed(p, m)
  BY <1>6 DEF Followed, OneMessage
<1> QED
  BY <1>1, <1>6, <1>7, <1>8, <1>9 DEF Current

LEMMA HoldingAccount ==
  ASSUME Sending, OneMessage, NEW x \in flight, validFragment(Fragment(x[1], x[2])),
         NEW c, Account(c), AllCurrent(c)
  PROVE  LET h == Holding(c, Fragment(x[1], x[2])) IN Account(h) /\ AllCurrent(h)
<1> DEFINE f == Fragment(x[1], x[2])
           p == New(f)
           r == reserve(c, f.total)
           h == [tab |-> Append(r.tab, p), res |-> r.res + f.total]
<1>1. CASE \E k \in DOMAIN c.tab : c.tab[k].id = f.id
  BY <1>1 DEF Holding
<1>2. CASE ~\E k \in DOMAIN c.tab : c.tab[k].id = f.id
  <2>1. Holding(c, f) = h
    BY <1>2 DEF Holding
  <2>2. f.total \in Nat /\ f.total <= MaxMessage
    BY FragmentShape DEF validFragment
  <2>3. p \in Partials /\ ~Complete(p) /\ Current(p) /\ p.total = f.total
    BY NewPartial
  <2> HIDE DEF f
  <2>4. Account(r) /\ AllCurrent(r) /\ Fits(r, f.total)
    BY <2>2, ReserveAccount
  <2> HIDE DEF r, p
  <2>5. r.tab \in Seq(Partials) /\ Len(r.tab) \in Nat /\ r.res = Total(r.tab)
        /\ Len(r.tab) < MaxPartialMessages /\ r.res + f.total <= MaxPartialBytes
    BY <2>4, LenProperties DEF Account, Fits
  <2>6. /\ Append(r.tab, p) \in Seq(Partials) /\ Len(Append(r.tab, p)) = Len(r.tab) + 1
        /\ \A i \in 1..Len(r.tab) : Append(r.tab, p)[i] = r.tab[i]
        /\ Append(r.tab, p)[Len(r.tab) + 1] = p
    BY <2>3, <2>5, AppendProperties
  <2>7. Total(Append(r.tab, p)) = r.res + f.total
    BY <2>3, <2>5, TotalAppend
  <2>8. \A k \in 1..Len(Append(r.tab, p)) :
          ~Complete(Append(r.tab, p)[k]) /\ Current(Append(r.tab, p)[k])
    <3> SUFFICES ASSUME NEW k \in 1..Len(r.tab) + 1
                 PROVE  ~Complete(Append(r.tab, p)[k]) /\ Current(Append(r.tab, p)[k])
      BY <2>6
    <3>1. CASE k \in 1..Len(r.tab)
      BY <2>4, <2>6, <3>1 DEF Account, AllCurrent
    <3>2. CASE k = Len(r.tab) + 1
      BY <2>3, <2>6, <3>2
    <3> QED
      BY <2>5, <3>1, <3>2
  <2>9. Len(Append(r.tab, p)) <= MaxPartialMessages
    BY <2>5, <2>6, ReassemblyAssumption
  <2>10. Account(h) /\ AllCurrent(h)
    BY <2>5, <2>6, <2>7, <2>8, <2>9 DEF Account, AllCurrent
  <2> QED
    BY <2>1, <2>10 DEF f
<1> QED
  BY <1>1, <1>2

\* A fragment added to a partial message of its ID is of the message the others are of.
LEMMA FillPart ==
  ASSUME Sending, NEW x \in flight, NEW p \in Partials, Current(p),
         LET f == Fragment(x[1], x[2])
         IN  p.id = f.id /\ Len(p.parts) = f.count
  PROVE  LET f == Fragment(x[1], x[2])
             q == [p EXCEPT !.parts[f.index + 1] = f.payload]
         IN  /\ q \in Partials /\ q.total = p.total /\ Current(q)
             /\ Complete(q) => \E m \in DOMAIN sent :
                  q.parts = [i \in 1..Count(sent[m].len) |-> <<m, i - 1>>]
<1> DEFINE f == Fragment(x[1], x[2])
           q == [p EXCEPT !.parts[f.index + 1] = f.payload]
           i0 == x[2] + 1
           v == <<x[1], x[2]>>
<1>1. /\ x[1] \in DOMAIN sent /\ x[1] \in Nat /\ x[2] \in Nat
      /\ Count(sent[x[1]].len) \in Nat /\ x[2] \in 0..Count(sent[x[1]].len) - 1
      /\ f.id = sent[x[1]].id /\ f.index = x[2] /\ f.count = Count(sent[x[1]].len)
      /\ f.payload = v
  BY FragmentShape
<1>2. p.parts \in Seq(Payloads) /\ p.id \in 0..IDs - 1 /\ p.total \in Nat
  BY DEF Partials
<1>3. p.id = sent[x[1]].id /\ Len(p.parts) = Count(sent[x[1]].len)
  BY <1>1
<1>4. i0 \in 1..Len(p.parts) /\ v \in Payloads
  BY <1>1, <1>3 DEF Payloads
<1>5. q = [p EXCEPT !.parts = [p.parts EXCEPT ![i0] = v]]
  BY <1>1
<1> HIDE DEF f
<1>6. /\ [p.parts EXCEPT ![i0] = v] \in Seq(Payloads)
      /\ Len([p.parts EXCEPT ![i0] = v]) = Len(p.parts)
      /\ \A j \in 1..Len(p.parts) :
           [p.parts EXCEPT ![i0] = v][j] = IF j = i0 THEN v ELSE p.parts[j]
  BY <1>2, <1>4, ExceptSeq
<1>7. q \in Partials /\ q.id = p.id /\ q.total = p.total /\ q.parts = [p.parts EXCEPT ![i0] = v]
  BY <1>2, <1>5, <1>6 DEF Partials
<1> HIDE DEF q
<1>8. PICK m \in DOMAIN sent : Collects(p, m) /\ Followed(p, m)
  BY DEF Current
<1>9. x[1] = m
  BY <1>3, <1>8 DEF Followed
<1>10. \A j \in 1..Len(q.parts) : q.parts[j] \in {None, <<m, j - 1>>}
  <2> SUFFICES ASSUME NEW j \in 1..Len(p.parts) PROVE q.parts[j] \in {None, <<m, j - 1>>}
    BY <1>6, <1>7
  <2>1. CASE j = i0
    <3>1. j - 1 = x[2]
      BY <1>1, <2>1
    <3> QED
      BY <1>6, <1>7, <1>9, <2>1, <3>1
  <2>2. CASE j # i0
    BY <1>6, <1>7, <1>8, <2>2 DEF Collects
  <2> QED
    BY <2>1, <2>2
<1>11. Collects(q, m) /\ Followed(q, m)
  BY <1>6, <1>7, <1>8, <1>10 DEF Collects, Followed
<1>12. ASSUME Complete(q) PROVE q.parts = [j \in 1..Count(sent[m].len) |-> <<m, j - 1>>]
  <2>1. q.parts \in [1..Count(sent[m].len) -> Payloads]
    <3>1. q.parts \in [1..Len(q.parts) -> Payloads]
      BY <1>6, <1>7, LenProperties
    <3> QED
      BY <1>3, <1>6, <1>7, <1>9, <3>1
  <2>2. \A j \in 1..Count(sent[m].len) : q.parts[j] = <<m, j - 1>>
    BY <1>3, <1>6, <1>7, <1>9, <1>10, <1>12, <2>1 DEF Complete
  <2> QED
    BY <2>1, <2>2
<1> QED
  BY <1>7, <1>8, <1>11, <1>12 DEF Current, q, f

\* accept, under the mutex.
LEMMA AcceptStep ==
  ASSUME IInv, NEW x \in flight, validFragment(Fragment(x[1], x[2])),
         accept(Fragment(x[1], x[2]))
  PROVE  /\ Account([tab |-> partial', res |-> reserved'])
         /\ AllCurrent([tab |-> partial', res |-> reserved'])
         /\ aged' = 0 /\ closed' = closed
         /\ returned' # None => \E m \in DOMAIN sent :
              returned' = [i \in 1..Count(sent[m].len) |-> <<m, i - 1>>]
<1> DEFINE f == Fragment(x[1], x[2])
           now == dropExpired(Now)
           c == Holding(now, f)
           after == [tab |-> partial', res |-> reserved']
<1>0. Sending /\ OneMessage /\ Account(Now) /\ aged \in 0..Len(partial)
  BY DEF IInv
<1>1. Account(now) /\ AllCurrent(now)
  <2>1. Now.tab = partial /\ Len(partial) \in Nat
    BY <1>0, LenProperties DEF Account, Now
  <2>2. 1 \in 1..Len(Now.tab) + 1 /\ aged \in 1 - 1..Len(Now.tab)
    BY <1>0, <2>1
  <2>3. now = remove(Now, 1, aged)
    BY DEF dropExpired
  <2>4. /\ Account(now)
        /\ \A i \in 1..Len(now.tab) :
             \E k \in 1..Len(Now.tab) : now.tab[i] = Now.tab[k] /\ k \notin 1..aged
    BY <1>0, <2>2, <2>3, RemoveAccount
  <2>5. \A k \in 1..Len(partial) : k \notin 1..aged => Current(partial[k])
    BY <1>0, <2>1 DEF OneMessage
  <2> HIDE DEF now
  <2> QED
    BY <2>1, <2>4, <2>5 DEF AllCurrent
<1>2. Account(c) /\ AllCurrent(c)
  <2> HIDE DEF now
  <2> QED
    BY <1>0, <1>1, HoldingAccount
<1>3. aged' = 0 /\ closed' = closed /\ \E k \in DOMAIN c.tab : c.tab[k].id = f.id /\ Keep(c, k, f)
  BY Zenon DEF accept, Now
<1> HIDE DEF now, c
<1>4. PICK k \in DOMAIN c.tab : c.tab[k].id = f.id /\ Keep(c, k, f)
  BY <1>3
<1> DEFINE q == [c.tab[k] EXCEPT !.parts[f.index + 1] = f.payload]
<1>5. c.tab \in Seq(Partials) /\ Len(c.tab) \in Nat /\ DOMAIN c.tab = 1..Len(c.tab)
  BY <1>2, LenProperties DEF Account
<1>6. k \in 1..Len(c.tab) /\ c.tab[k] \in Partials /\ Current(c.tab[k])
  BY <1>2, <1>4, <1>5, ElementOfSeq DEF AllCurrent
<1>7. CASE Table(c) /\ returned' = None
  <2>1. after.tab = c.tab /\ after.res = c.res
    BY <1>7 DEF Table
  <2>2. Account(after) /\ AllCurrent(after)
    BY <1>2, <2>1 DEF Account, AllCurrent
  <2> QED
    BY <1>3, <1>7, <2>2
<1>8. ASSUME Len(c.tab[k].parts) = f.count
      PROVE  /\ q \in Partials /\ q.total = c.tab[k].total /\ Current(q)
             /\ Complete(q) => \E m \in DOMAIN sent :
                  q.parts = [i \in 1..Count(sent[m].len) |-> <<m, i - 1>>]
  BY <1>0, <1>4, <1>6, <1>8, FillPart
<1>9. CASE /\ Len(c.tab[k].parts) = f.count /\ ~Complete(q)
           /\ Table([c EXCEPT !.tab[k] = q]) /\ returned' = None
  <2> DEFINE t == [c.tab EXCEPT ![k] = q]
  <2>1. q \in Partials /\ q.total = c.tab[k].total /\ Current(q) /\ ~Complete(q)
    BY <1>8, <1>9
  <2>2. partial' = t /\ reserved' = c.res
    BY <1>9 DEF Table
  <2> HIDE DEF q
  <2>3. /\ t \in Seq(Partials) /\ Len(t) = Len(c.tab)
        /\ \A j \in 1..Len(c.tab) : t[j] = IF j = k THEN q ELSE c.tab[j]
    BY <1>5, <1>6, <2>1, ExceptSeq
  <2> HIDE DEF t
  <2>4. Total(t) = Total(c.tab)
    <3>1. \A j \in 1..Len(c.tab) : t[j].total = c.tab[j].total
      BY <2>1, <2>3
    <3> QED
      BY <1>5, <2>3, <3>1, TotalSame
  <2>5. \A j \in 1..Len(t) : ~Complete(t[j]) /\ Current(t[j])
    BY <1>2, <2>1, <2>3 DEF Account, AllCurrent
  <2>6. Account(after) /\ AllCurrent(after)
    BY <1>2, <2>2, <2>3, <2>4, <2>5 DEF Account, AllCurrent
  <2> QED
    BY <1>3, <1>9, <2>6
<1>10. CASE /\ Len(c.tab[k].parts) = f.count /\ Complete(q)
           /\ Table(remove(c, k, k)) /\ returned' = q.parts
  <2> DEFINE r == remove(c, k, k)
  <2>1. k \in 1..Len(c.tab) + 1 /\ k \in k - 1..Len(c.tab)
    BY <1>5, <1>6
  <2>2. /\ Account(r)
        /\ \A i \in 1..Len(r.tab) : \E j \in 1..Len(c.tab) : r.tab[i] = c.tab[j] /\ j \notin k..k
    BY <1>2, <2>1, RemoveAccount
  <2>3. partial' = r.tab /\ reserved' = r.res
    BY <1>10 DEF Table
  <2> HIDE DEF r
  <2>4. Account(after) /\ AllCurrent(after)
    BY <1>2, <2>2, <2>3 DEF Account, AllCurrent
  <2> QED
    BY <1>3, <1>8, <1>10, <2>4
<1> QED
  BY <1>4, <1>7, <1>9, <1>10 DEF Keep

-----------------------------------------------------------------------------
(* The steps.                                                              *)

\* A new message meets no fragment and no partial message of its ID that is not past
\* partialTTL.
LEMMA SendStep ==
  ASSUME IInv, NEW len \in Lengths, NEW through \in SUBSET (0..Count(len) - 1), Send(len, through)
  PROVE  IInv'
<1> DEFINE id == (nextID + 1) % IDs
           m == Len(sent) + 1
           msg == [id |-> id, len |-> len]
           Msgs == [id : 0..IDs - 1, len : Lengths]
<1>1. Sending /\ OneMessage /\ Account(Now) /\ aged \in 0..Len(partial) /\ closed \in BOOLEAN
  BY DEF IInv
<1>2. /\ WrappedLongAfter(id)
      /\ nextID' = id /\ sent' = Append(sent, msg)
      /\ flight' = flight \cup {<<m, i>> : i \in through}
      /\ returned' = None /\ UNCHANGED <<partial, aged, reserved, closed>>
  BY DEF Send, tableVars
<1>3. id \in 0..IDs - 1 /\ msg \in Msgs /\ msg.id = id /\ msg.len = len
  <2>1. id \in 0..IDs - 1
    BY <1>1, ReassemblyAssumption DEF Sending
  <2> QED
    BY <2>1
<1> HIDE DEF id
<1>4. sent \in Seq(Msgs) /\ Len(sent) \in Nat /\ DOMAIN sent = 1..Len(sent)
  BY <1>1, LenProperties DEF Sending
<1>5. /\ sent' \in Seq(Msgs) /\ DOMAIN sent' = 1..m
      /\ \A k \in DOMAIN sent : k \in DOMAIN sent' /\ sent'[k] = sent[k] /\ k # m
      /\ m \in DOMAIN sent' /\ sent'[m] = msg
  <2> HIDE DEF msg, Msgs
  <2>1. /\ Append(sent, msg) \in Seq(Msgs) /\ Len(Append(sent, msg)) = m
        /\ \A k \in 1..Len(sent) : Append(sent, msg)[k] = sent[k]
        /\ Append(sent, msg)[m] = msg
    BY <1>3, <1>4, AppendProperties
  <2>2. DOMAIN Append(sent, msg) = 1..m
    BY <2>1, LenProperties
  <2> QED
    BY <1>2, <1>4, <2>1, <2>2
<1> HIDE DEF m
<1>6. ASSUME NEW x \in flight'
      PROVE  \/ /\ x \in flight /\ x[1] \in DOMAIN sent
                /\ sent'[x[1]] = sent[x[1]] /\ sent[x[1]].id # id
             \/ x[1] = m /\ x[2] \in 0..Count(len) - 1
  <2>1. CASE x \in flight
    BY <1>1, <1>2, <1>5, <2>1 DEF Sending, WrappedLongAfter
  <2>2. CASE x \notin flight
    BY <1>2, <2>2
  <2> QED
    BY <2>1, <2>2
<1>7. Sending'
  <2>1. ASSUME NEW x \in flight'
        PROVE  x[1] \in DOMAIN sent' /\ x[2] \in 0..Count(sent'[x[1]].len) - 1
    <3>1. CASE x[1] = m /\ x[2] \in 0..Count(len) - 1
      BY <1>3, <1>5, <3>1
    <3>2. CASE x \in flight /\ x[1] \in DOMAIN sent /\ sent'[x[1]] = sent[x[1]]
      BY <1>1, <1>5, <3>2 DEF Sending
    <3> QED
      BY <1>6, <3>1, <3>2
  <2> QED
    BY <1>2, <1>3, <1>5, <2>1 DEF Sending
<1>8. OneMessage'
  <2>1. ASSUME NEW x \in flight', NEW y \in flight', sent'[x[1]].id = sent'[y[1]].id
        PROVE  x[1] = y[1]
    BY <1>1, <1>3, <1>5, <1>6, <2>1 DEF OneMessage
  <2>2. ASSUME NEW k \in 1..Len(partial), k > aged PROVE Current(partial[k])'
    <3>1. PICK n \in DOMAIN sent : Collects(partial[k], n) /\ Followed(partial[k], n)
      BY <1>1, <2>2 DEF OneMessage, Current
    <3>2. partial[k].id # id
      <4>1. k \in DOMAIN partial /\ ~(k <= aged)
        BY <1>1, <2>2, LenProperties DEF Account, Now
      <4> QED
        BY <1>2, <4>1 DEF WrappedLongAfter
    <3>3. n \in DOMAIN sent' /\ sent'[n] = sent[n]
      BY <1>5
    <3>4. Collects(partial[k], n)'
      BY <1>2, <3>1, <3>3 DEF Collects
    <3>5. Followed(partial[k], n)'
      BY <1>2, <1>3, <1>5, <1>6, <3>1, <3>2 DEF Followed
    <3> QED
      BY <3>3, <3>4, <3>5 DEF Current
  <2> QED
    BY <1>2, <2>1, <2>2 DEF OneMessage
<1>9. Account(Now)'
  BY <1>1, <1>2 DEF Account, Now
<1> QED
  BY <1>1, <1>2, <1>7, <1>8, <1>9 DEF IInv, NoMixedMessage

LEMMA RecvStep == ASSUME IInv, NEW x \in flight, Recv(x) PROVE IInv'
<1> DEFINE f == Fragment(x[1], x[2])
<1>1. /\ Sending /\ OneMessage /\ Account(Now) /\ aged \in 0..Len(partial) /\ closed \in BOOLEAN
      /\ sent' = sent /\ nextID' = nextID /\ flight' \subseteq flight
  BY DEF IInv, Recv, sendVars
<1>2. Sending'
  BY <1>1 DEF Sending
<1>3. CASE validFragment(f) /\ ~closed
  <2>1. accept(f)
    BY <1>3 DEF Recv
  <2>2. /\ Account([tab |-> partial', res |-> reserved'])
        /\ AllCurrent([tab |-> partial', res |-> reserved'])
        /\ aged' = 0 /\ closed' = closed
        /\ returned' # None => \E m \in DOMAIN sent :
             returned' = [i \in 1..Count(sent[m].len) |-> <<m, i - 1>>]
    BY <1>3, <2>1, AcceptStep
  <2>3. Account(Now)'
    BY <2>2 DEF Account, Now
  <2>4. aged' \in 0..Len(partial')
    BY <2>2, LenProperties DEF Account
  <2>5. OneMessage'
    <3>1. \A k \in 1..Len(partial') : \E m \in DOMAIN sent :
            Collects(partial'[k], m) /\ Followed(partial'[k], m)
      BY <2>2 DEF AllCurrent, Current
    <3>2. ASSUME NEW k \in 1..Len(partial') PROVE Current(partial[k])'
      BY <1>1, <3>1 DEF Current, Collects, Followed
    <3> QED
      BY <1>1, <3>2 DEF OneMessage
  <2>6. NoMixedMessage'
    BY <1>1, <2>2 DEF NoMixedMessage
  <2> QED
    BY <1>1, <1>2, <2>2, <2>3, <2>4, <2>5, <2>6 DEF IInv
<1>4. CASE ~(validFragment(f) /\ ~closed)
  <2>1. returned' = None /\ UNCHANGED <<partial, aged, reserved, closed>>
    BY <1>4 DEF Recv, tableVars
  <2>2. OneMessage'
    BY <1>1, <2>1 DEF OneMessage, Current, Collects, Followed
  <2>3. Account(Now)'
    BY <1>1, <2>1 DEF Account, Now
  <2> QED
    BY <1>1, <1>2, <2>1, <2>2, <2>3 DEF IInv, NoMixedMessage
<1> QED
  BY <1>3, <1>4

\* partialTTL passes, the codec is closed, or nothing happens.
LEMMA OtherStep == ASSUME IInv, Ages \/ Close \/ UNCHANGED vars PROVE IInv'
<1>0. Sending /\ OneMessage /\ Account(Now) /\ aged \in 0..Len(partial) /\ closed \in BOOLEAN
  BY DEF IInv
<1> USE DEF sendVars
<1>1. CASE Ages
  <2>1. /\ returned' = None /\ UNCHANGED <<nextID, sent, flight, partial, reserved, closed>>
        /\ aged' = aged + 1 /\ aged < Len(partial)
    BY <1>1 DEF Ages
  <2>2. Len(partial) \in Nat
    BY <1>0, LenProperties DEF Account, Now
  <2>3. aged' \in 0..Len(partial) /\ \A k \in 1..Len(partial) : k > aged' => k > aged
    BY <1>0, <2>1, <2>2
  <2>4. OneMessage'
    BY <1>0, <2>1, <2>3 DEF OneMessage, Current, Collects, Followed
  <2>5. Sending' /\ Account(Now)'
    BY <1>0, <2>1 DEF Sending, Account, Now
  <2> QED
    BY <1>0, <2>1, <2>3, <2>4, <2>5 DEF IInv, NoMixedMessage
<1>2. CASE Close
  <2>1. /\ returned' = None /\ UNCHANGED <<nextID, sent, flight>>
        /\ partial' = <<>> /\ reserved' = 0 /\ aged' = 0 /\ closed' = TRUE
    BY <1>2 DEF Close
  <2>2. Len(partial') = 0 /\ partial' \in Seq(Partials)
    BY <2>1
  <2>3. Sending'
    BY <1>0, <2>1 DEF Sending
  <2>4. OneMessage'
    BY <1>0, <2>1, <2>2 DEF OneMessage
  <2>5. Account(Now)'
    BY <2>1, <2>2, TotalEmpty, ReassemblyAssumption DEF Account, Now
  <2> QED
    BY <2>1, <2>2, <2>3, <2>4, <2>5 DEF IInv, NoMixedMessage
<1>3. CASE UNCHANGED vars
  <2>1. UNCHANGED <<nextID, sent, flight, partial, aged, reserved, closed, returned>>
    BY <1>3 DEF vars, tableVars
  <2> QED
    BY <1>0, <2>1 DEF IInv, Sending, OneMessage, Current, Collects, Followed, Account, Now,
                      NoMixedMessage
<1> QED
  BY <1>1, <1>2, <1>3

-----------------------------------------------------------------------------
(* Theorems.                                                               *)

\* The inductive invariant holds in every reachable state.
THEOREM Invariant == Spec => []IInv
<1>1. Init => IInv
  <2> SUFFICES ASSUME Init PROVE IInv
    OBVIOUS
  <2> USE DEF Init
  <2>1. Sending
    BY ReassemblyAssumption DEF Sending
  <2>2. OneMessage /\ aged \in 0..Len(partial) /\ closed \in BOOLEAN
    <3>1. Len(partial) = 0 /\ 1..0 = {}
      OBVIOUS
    <3>2. OneMessage
      BY <3>1 DEF OneMessage
    <3>3. aged \in 0..Len(partial)
      BY <3>1
    <3>4. closed \in BOOLEAN
      BY Zenon
    <3> QED
      BY <3>2, <3>3, <3>4
  <2>3. Account(Now)
    BY TotalEmpty, ReassemblyAssumption DEF Account, Now
  <2>4. NoMixedMessage
    BY DEF NoMixedMessage
  <2> QED
    BY <2>1, <2>2, <2>3, <2>4 DEF IInv
<1>2. IInv /\ [Next]_vars => IInv'
  BY SendStep, RecvStep, OtherStep DEF Next
<1> QED
  BY <1>1, <1>2, PTL DEF Spec

\* What Recv returns is one message as it was given to Send, whatever is lost, duplicated,
\* reordered, evicted or expired.
THEOREM MessagesWhole == Spec => []NoMixedMessage
<1>1. IInv => NoMixedMessage
  BY DEF IInv
<1> QED
  BY <1>1, Invariant, PTL

\* Types and limits; and the bytes reserved are always those the partial messages need.
THEOREM TypeCorrect == Spec => []TypeOK
<1>1. IInv => TypeOK
  <2> SUFFICES ASSUME IInv PROVE TypeOK
    OBVIOUS
  <2>1. Sending /\ Account(Now) /\ aged \in 0..Len(partial) /\ closed \in BOOLEAN
    BY DEF IInv
  <2>2. /\ partial \in Seq(Partials) /\ Len(partial) <= MaxPartialMessages
        /\ reserved = Total(partial) /\ reserved <= MaxPartialBytes
        /\ \A k \in 1..Len(partial) : ~Complete(partial[k])
    BY <2>1 DEF Account, Now
  <2>3. DOMAIN partial = 1..Len(partial)
    BY <2>2, LenProperties
  <2>4. \A k \in DOMAIN partial : \E i \in DOMAIN partial[k].parts : partial[k].parts[i] = None
    BY <2>2, <2>3 DEF Complete
  <2> QED
    BY <2>1, <2>2, <2>4 DEF TypeOK, Sending
<1> QED
  BY <1>1, Invariant, PTL
=============================================================================
