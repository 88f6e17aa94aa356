----------------------------- MODULE RouterLines -----------------------------
(***************************************************************************)
(* The inductive invariant of Router, and the facts about sequences of     *)
(* mbufs and packets that RouterProofs needs to show that it is one.       *)
(*                                                                         *)
(* It is about setups in which all packets are forwarded.  Then the rings, *)
(* batches, queues and hands are parts of two kinds of line:               *)
(*                                                                         *)
(*   In(a)   what came in by port a: the worker's hand, the ring of the RX *)
(*           core and the RX core's hand;                                  *)
(*   Out(i)  what will leave by port i: the transmit queue, the batch of   *)
(*           the TX core and its ring.                                     *)
(*                                                                         *)
(* Most steps move an mbuf within a line and leave the line as it is.  The *)
(* RX core appends to In(a), the worker takes the first mbuf of In(a) and  *)
(* appends it to an Out(i) or frees it, the TX core frees a piece of       *)
(* Out(i), and the NIC takes its first mbuf.  The invariant says that the  *)
(* lines and the pool hold every mbuf once (Held), that packets are in     *)
(* order along a line and from In(a) to every Out(i) (Flow), and that the  *)
(* worker has set the MAC of what is in Out(i) (Macs).                     *)
(***************************************************************************)
EXTENDS Router, SequenceTheorems, FiniteSetTheorems, TLAPS

\* The mbufs of a transmit queue, the packets a port sent, and those that mbufs
\* hold when c is their content.
Queued(q) == [j \in DOMAIN q |-> q[j].m]
Gots(w) == [j \in DOMAIN w |-> w[j].got]
Of(c, s) == [j \in DOMAIN s |-> c[s[j]]]

\* The mbuf a core is about to enqueue.
Hand(core, a) == IF core.pc = "enqueue" /\ core.i = a THEN <<core.m>> ELSE <<>>

Out(i) == (Queued(txq[i]) \o mbuf_tx[i]) \o rings_tx[i]
In(a) == (Hand(wk, a) \o rings_rx[a]) \o Hand(rx, a)

Outs == [i \in Ports |-> Out(i)]
Ins == [a \in Ports |-> In(a)]

\* What left or will leave by port i, and what came in by port a and is on its
\* way to the worker.
Lines == [i \in Ports |-> Gots(wire[i]) \o Of(content, Outs[i])]
Ups == [a \in Ports |-> Of(content, Ins[a])]

\* How often an mbuf is in the lines of the two ports.
Total(m, O) == Occurs(m, O[0]) + Occurs(m, O[1])

\* Every mbuf is in one place: the pool, a line to a port or a line from one.
Held(F, O, I) == \A m \in Mbufs : F[m] + Total(m, O) + Total(m, I) = 1

\* Packets of one port are in the order of their arrival.
Rising(s) ==
    \A j, l \in DOMAIN s : j < l /\ s[j].in = s[l].in => s[j].id < s[l].id

Flow(L, U, n) ==
    /\ \A i \in Ports : Rising(L[i]) /\ \A j \in DOMAIN L[i] : L[i][j].id <= n
    /\ \A a \in Ports : /\ Rising(U[a])
                        /\ \A l \in DOMAIN U[a] : U[a][l].in = a /\ U[a][l].id <= n
    /\ \A i, a \in Ports : \A j \in DOMAIN L[i], l \in DOMAIN U[a] :
           L[i][j].in = a => L[i][j].id < U[a][l].id

\* The source MAC is that of the port the packet leaves by.
MacRight(pkt, i) == pkt.dst \in {"host3", "host4"} /\ pkt.in # i => pkt.smac = i

Macs(L) == \A i \in Ports : \A j \in DOMAIN L[i] : MacRight(L[i][j], i)

\* The RX core and the worker, the TX core, the descriptors of a transmit queue, and
\* what a port sent.
RxCores == [pc : {"parked", "poll", "enqueue"}, i : Ports, m : Mbufs \cup {NoMbuf}]
TxCores == [pc : {"parked", "poll", "burst", "bursting"}, i : Ports]
Descs == [m : Mbufs, meant : Packet]
Sent == [meant : Packet, got : Packet]

\* Types, and what the RX core does not do while it only forwards.
Typed ==
    /\ rx \in RxCores /\ (rx.pc = "enqueue" => rx.m \in Mbufs)
    /\ wk \in RxCores /\ (wk.pc = "enqueue" => wk.m \in Mbufs)
    /\ tx \in TxCores
    /\ rings_rx \in [Ports -> Seq(Mbufs)] /\ rings_tx \in [Ports -> Seq(Mbufs)]
    /\ mbuf_tx \in [Ports -> Seq(Mbufs)] /\ txq \in [Ports -> Seq(Descs)]
    /\ raced \in [{"rx", "tx"} -> {FALSE}]
    /\ free \in [Mbufs -> Nat] /\ content \in [Mbufs -> Packet]
    /\ arrived \in 0..MaxPkts
    /\ wire \in [Ports -> Seq(Sent)]

\* The lines fit into their bounds.
Bounded == \A i \in Ports : Len(txq[i]) <= TxDescs

Forwards ==
    /\ Typed /\ Bounded
    /\ Held(free, Outs, Ins)
    /\ Flow(Lines, Ups, arrived)
    /\ setup.pipeline_type = "acl" => Macs(Lines)

IInv == setup \in Setups /\ (Forwarding => Forwards)

-----------------------------------------------------------------------------
(***************************************************************************)
(* How often an mbuf occurs in a sequence.                                 *)
(***************************************************************************)

\* The places of an mbuf in a sequence are finitely many.
LEMMA Places ==
    ASSUME NEW S, NEW s \in Seq(S), NEW m
    PROVE  /\ DOMAIN s = 1..Len(s) /\ Len(s) \in Nat
           /\ IsFiniteSet({j \in DOMAIN s : s[j] = m})
           /\ Occurs(m, s) \in Nat
           /\ (Occurs(m, s) = 0) <=> \A j \in 1..Len(s) : s[j] # m
<1> DEFINE A == {j \in DOMAIN s : s[j] = m}
<1>1. DOMAIN s = 1..Len(s) /\ Len(s) \in Nat
  BY LenProperties
<1>2. IsFiniteSet(1..Len(s)) /\ A \in SUBSET (1..Len(s))
  BY <1>1, FS_Interval
<1>3. IsFiniteSet(A)
  BY <1>2, FS_Subset
<1>4. Cardinality(A) \in Nat /\ (Cardinality(A) = 0 <=> A = {})
  BY <1>3, FS_CardinalityType, FS_EmptySet
<1>5. A = {} <=> \A j \in 1..Len(s) : s[j] # m
  BY <1>1
<1> QED
  BY <1>1, <1>3, <1>4, <1>5 DEF Occurs

\* One that occurs once has one place.
LEMMA OnePlace ==
    ASSUME NEW S, NEW s \in Seq(S), NEW m, Occurs(m, s) <= 1,
           NEW j \in 1..Len(s), NEW l \in 1..Len(s), s[j] = m, s[l] = m
    PROVE  j = l
<1> DEFINE A == {k \in DOMAIN s : s[k] = m}
<1>1. IsFiniteSet(A) /\ Cardinality(A) \in Nat /\ Cardinality(A) <= 1 /\ j \in A /\ l \in A
  BY Places, Zenon DEF Occurs
<1> HIDE DEF A
<1>2. Cardinality(A) = 1
  BY <1>1, FS_EmptySet
<1>3. PICK x : A = {x}
  BY <1>1, <1>2, FS_Singleton
<1> QED
  BY <1>1, <1>3

\* Places in two sequences add up.
LEMMA OccursConcat ==
    ASSUME NEW S, NEW s \in Seq(S), NEW t \in Seq(S), NEW m
    PROVE  Occurs(m, s \o t) = Occurs(m, s) + Occurs(m, t)
<1> DEFINE k == Len(s)
           A == {j \in DOMAIN s : s[j] = m}
           B == {j \in DOMAIN t : t[j] = m}
           C == {j \in DOMAIN (s \o t) : (s \o t)[j] = m}
           f == [j \in B |-> j + k]
           D == {j + k : j \in B}
<1>1. /\ DOMAIN s = 1..k /\ k \in Nat /\ DOMAIN t = 1..Len(t) /\ Len(t) \in Nat
      /\ IsFiniteSet(A) /\ IsFiniteSet(B)
  BY Places, Zenon
<1>2. /\ DOMAIN (s \o t) = 1..k + Len(t)
      /\ \A j \in 1..k + Len(t) : (s \o t)[j] = IF j <= k THEN s[j] ELSE t[j - k]
  BY ConcatProperties, LenProperties
<1> DEFINE n == Len(t)
           u == s \o t
<1> HIDE DEF k, n, u
<1>3. C = A \cup D
  <2>1. \A j \in C : j \in A \cup D
    <3> SUFFICES ASSUME NEW j \in C PROVE j \in A \cup D
      OBVIOUS
    <3>1. j \in 1..k + n /\ u[j] = m /\ j \in Int
      BY <1>1, <1>2 DEF n, u
    <3>2. CASE j <= k
      BY <1>1, <1>2, <3>1, <3>2 DEF n, u
    <3>3. CASE ~(j <= k)
      <4>1. j - k \in 1..n /\ t[j - k] = m /\ (j - k) + k = j
        BY <1>1, <1>2, <3>1, <3>3 DEF n, u
      <4> QED
        BY <1>1, <4>1 DEF n
    <3> QED
      BY <3>2, <3>3
  <2>2. \A j \in A : j \in C
    BY <1>1, <1>2 DEF n, u
  <2>3. \A j \in B : j + k \in C
    <3> SUFFICES ASSUME NEW j \in B PROVE j + k \in C
      OBVIOUS
    <3>1. j \in 1..n /\ t[j] = m
      BY <1>1 DEF n
    <3>2. j + k \in 1..k + n /\ ~(j + k <= k) /\ (j + k) - k = j
      BY <1>1, <3>1 DEF n
    <3> QED
      BY <1>2, <3>1, <3>2, Zenon DEF n, u
  <2> QED
    BY <2>1, <2>2, <2>3
<1>4. A \cap D = {}
  <2>1. \A j \in 1..n : ~(j + k \in 1..k)
    BY <1>1 DEF n
  <2> QED
    BY <1>1, <2>1 DEF n
<1>5. f \in Bijection(B, D)
  <2>1. f \in [B -> D]
    OBVIOUS
  <2>2. \A x, y \in B : f[x] = f[y] => x = y
    BY <1>1
  <2>3. \A y \in D : \E x \in B : f[x] = y
    OBVIOUS
  <2> QED
    BY <2>1, <2>2, <2>3 DEF Bijection, Injection, Surjection, IsInjective
<1>6. IsFiniteSet(D) /\ Cardinality(D) = Cardinality(B)
  BY <1>1, <1>5, FS_Bijection DEF ExistsBijection
<1>7. Cardinality(A \cup D) = Cardinality(A) + Cardinality(D) - Cardinality(A \cap D)
  BY <1>1, <1>6, FS_Union, Zenon
<1>8. Cardinality(A) \in Nat /\ Cardinality(B) \in Nat
  BY <1>1, FS_CardinalityType
<1> HIDE DEF A, B, C, D
<1>9. Cardinality(C) = Cardinality(A) + Cardinality(B)
  <2>1. Cardinality(A \cap D) = 0
    BY <1>4, FS_EmptySet, Zenon
  <2> QED
    BY <1>3, <1>6, <1>7, <1>8, <2>1
<1> QED
  BY <1>9, Zenon DEF Occurs, A, B, C

\* A sequence of one.
LEMMA OccursOne ==
    ASSUME NEW x, NEW m
    PROVE  Occurs(m, <<x>>) = IF x = m THEN 1 ELSE 0
<1>1. {j \in DOMAIN <<x>> : <<x>>[j] = m} = IF x = m THEN {1} ELSE {}
  OBVIOUS
<1> QED
  BY <1>1, FS_Singleton, FS_EmptySet, Zenon DEF Occurs

\* None.
LEMMA OccursNone ==
    ASSUME NEW m
    PROVE  Occurs(m, <<>>) = 0
<1>1. {j \in DOMAIN <<>> : <<>>[j] = m} = {}
  OBVIOUS
<1> QED
  BY <1>1, FS_EmptySet DEF Occurs

\* One more at the end.
LEMMA OccursAppend ==
    ASSUME NEW S, NEW s \in Seq(S), NEW x \in S, NEW m
    PROVE  /\ Append(s, x) \in Seq(S)
           /\ Occurs(m, Append(s, x)) = Occurs(m, s) + (IF x = m THEN 1 ELSE 0)
<1>1. <<x>> \in Seq(S) /\ Append(s, x) = s \o <<x>> /\ Append(s, x) \in Seq(S)
  BY AppendIsConcat, AppendProperties
<1>2. Occurs(m, s \o <<x>>) = Occurs(m, s) + Occurs(m, <<x>>)
  BY <1>1, OccursConcat, Zenon
<1>3. Occurs(m, <<x>>) = IF x = m THEN 1 ELSE 0
  BY OccursOne
<1> QED
  BY <1>1, <1>2, <1>3

\* A sequence is its first element and the rest.
LEMMA Split ==
    ASSUME NEW S, NEW s \in Seq(S), s # <<>>
    PROVE  /\ Head(s) \in S /\ Tail(s) \in Seq(S)
           /\ <<Head(s)>> \in Seq(S) /\ s = <<Head(s)>> \o Tail(s)
           /\ Len(s) \in Nat /\ 1 <= Len(s) /\ Head(s) = s[1]
<1>1. /\ Head(s) \in S /\ Tail(s) \in Seq(S) /\ Len(Tail(s)) = Len(s) - 1
      /\ \A i \in 1..Len(Tail(s)) : Tail(s)[i] = s[i + 1]
  BY HeadTailProperties
<1>2. Len(s) \in Nat /\ Len(s) # 0
  BY LenProperties, EmptySeq
<1>3. <<Head(s)>> \in Seq(S) /\ Len(<<Head(s)>>) = 1 /\ <<Head(s)>>[1] = s[1]
  BY <1>1
<1> DEFINE u == <<Head(s)>> \o Tail(s)
           n == Len(s)
<1>4. /\ u \in Seq(S) /\ Len(u) = 1 + (n - 1)
      /\ \A i \in 1..1 + (n - 1) : u[i] = IF i <= 1 THEN <<Head(s)>>[i] ELSE Tail(s)[i - 1]
  BY <1>1, <1>3, ConcatProperties
<1> HIDE DEF u, n
<1>5. Len(u) = Len(s) /\ \A i \in 1..Len(u) : u[i] = s[i]
  <2>1. n \in Nat /\ n # 0 /\ n = Len(s)
    BY <1>2 DEF n
  <2>2. Len(u) = n
    BY <1>4, <2>1
  <2> SUFFICES ASSUME NEW i \in 1..n PROVE u[i] = s[i]
    BY <2>1, <2>2
  <2>3. CASE i = 1
    BY <1>3, <1>4, <2>1, <2>3
  <2>4. CASE i # 1
    <3>1. i \in 1..1 + (n - 1) /\ ~(i <= 1) /\ i - 1 \in 1..n - 1 /\ (i - 1) + 1 = i
      BY <2>1, <2>4
    <3>2. u[i] = Tail(s)[i - 1]
      BY <1>4, <3>1, Zenon
    <3> QED
      BY <1>1, <2>1, <3>1, <3>2
  <2> QED
    BY <2>3, <2>4
<1>6. u = s
  BY <1>4, <1>5, SeqEqual
<1> QED
  BY <1>1, <1>2, <1>3, <1>6 DEF u

\* One less at the front.
LEMMA OccursTail ==
    ASSUME NEW S, NEW s \in Seq(S), s # <<>>, NEW m
    PROVE  Occurs(m, s) = (IF Head(s) = m THEN 1 ELSE 0) + Occurs(m, Tail(s))
<1> DEFINE x == Head(s)
           t == Tail(s)
<1>1. <<x>> \in Seq(S) /\ t \in Seq(S) /\ s = <<x>> \o t
  BY Split
<1> HIDE DEF x, t
<1>2. Occurs(m, <<x>>) = IF x = m THEN 1 ELSE 0
  BY OccursOne
<1>3. Occurs(m, <<x>> \o t) = Occurs(m, <<x>>) + Occurs(m, t)
  BY <1>1, OccursConcat, Zenon
<1>4. Occurs(m, s) = (IF x = m THEN 1 ELSE 0) + Occurs(m, t)
  BY <1>1, <1>2, <1>3
<1> QED
  BY <1>4 DEF x, t

\* An element moves from the front of one sequence to the end of the one before
\* it: together they stay what they were.
LEMMA Shift ==
    ASSUME NEW S, NEW s \in Seq(S), NEW t \in Seq(S), t # <<>>
    PROVE  Append(s, Head(t)) \in Seq(S) /\ Append(s, Head(t)) \o Tail(t) = s \o t
<1>1. /\ Head(t) \in S /\ Tail(t) \in Seq(S)
      /\ <<Head(t)>> \in Seq(S) /\ t = <<Head(t)>> \o Tail(t)
  BY Split
<1>2. Append(s, Head(t)) = s \o <<Head(t)>> /\ Append(s, Head(t)) \in Seq(S)
  BY <1>1, AppendIsConcat, AppendProperties
<1>3. (s \o <<Head(t)>>) \o Tail(t) = s \o (<<Head(t)>> \o Tail(t))
  BY <1>1, ConcatAssociative
<1> QED
  BY <1>1, <1>2, <1>3

\* A sequence with a piece of it taken out.
LEMMA Thinned ==
    ASSUME NEW S, NEW A \in Seq(S), NEW D \in Seq(S), NEW C \in Seq(S)
    PROVE  LET n == A \o C
               o == (A \o D) \o C
               up(j) == IF j <= Len(A) THEN j ELSE j + Len(D)
           IN  /\ n \in Seq(S) /\ o \in Seq(S)
               /\ \A j \in 1..Len(n) : up(j) \in 1..Len(o) /\ n[j] = o[up(j)]
               /\ \A j, l \in 1..Len(n) : j < l => up(j) < up(l)
<1> DEFINE a == Len(A)
           d == Len(D)
           c == Len(C)
           n == A \o C
           e == A \o D
           o == e \o C
           up(j) == IF j <= a THEN j ELSE j + d
<1>1. a \in Nat /\ d \in Nat /\ c \in Nat
  BY LenProperties
<1>2. /\ n \in Seq(S) /\ Len(n) = a + c
      /\ \A j \in 1..a + c : n[j] = IF j <= a THEN A[j] ELSE C[j - a]
  BY ConcatProperties
<1>3. /\ e \in Seq(S) /\ Len(e) = a + d
      /\ \A j \in 1..a + d : e[j] = IF j <= a THEN A[j] ELSE D[j - a]
  BY ConcatProperties
<1> HIDE DEF a, d, c, n, e
<1>4. /\ o \in Seq(S) /\ Len(o) = (a + d) + c
      /\ \A j \in 1..(a + d) + c : o[j] = IF j <= a + d THEN e[j] ELSE C[j - (a + d)]
  BY <1>3, ConcatProperties DEF c
<1> HIDE DEF o
<1>5. ASSUME NEW j \in 1..a + c
      PROVE  up(j) \in 1..(a + d) + c /\ n[j] = o[up(j)]
  <2>1. CASE j <= a
    <3>1. up(j) = j /\ j \in 1..a + d /\ j \in 1..(a + d) + c /\ j <= a + d
      BY <1>1, <2>1
    <3> QED
      BY <1>2, <1>3, <1>4, <2>1, <3>1
  <2>2. CASE ~(j <= a)
    <3>1. /\ up(j) = j + d /\ j + d \in 1..(a + d) + c /\ ~(j + d <= a + d)
          /\ (j + d) - (a + d) = j - a
      BY <1>1, <2>2
    <3>2. n[j] = C[j - a] /\ o[j + d] = C[j - a]
      BY <1>2, <1>4, <2>2, <3>1
    <3> QED
      BY <3>1, <3>2
  <2> QED
    BY <2>1, <2>2
<1>6. \A j, l \in 1..a + c : j < l => up(j) < up(l)
  BY <1>1
<1> QED
  BY <1>2, <1>4, <1>5, <1>6 DEF a, d, n, e, o

\* A sequence cut in two.
LEMMA Cut ==
    ASSUME NEW S, NEW s \in Seq(S), NEW n \in 0..Len(s)
    PROVE  LET c == SubSeq(s, 1, n)
               d == SubSeq(s, n + 1, Len(s))
           IN  /\ c \in Seq(S) /\ d \in Seq(S) /\ s = c \o d /\ Len(c) = n
               /\ \A x : (\E j \in 1..Len(d) : d[j] = x)
                             <=> \E j \in n + 1..Len(s) : s[j] = x
<1> DEFINE k == Len(s)
           c == SubSeq(s, 1, n)
           d == SubSeq(s, n + 1, k)
<1>1. k \in Nat /\ n \in 0..k /\ \A i \in 1..k : s[i] \in S
  BY LenProperties, ElementOfSeq
<1> HIDE DEF k
<1>2. /\ c \in Seq(S) /\ Len(c) = IF 1 <= n THEN n - 1 + 1 ELSE 0
      /\ \A i \in 1..n - 1 + 1 : c[i] = s[1 + i - 1]
  BY <1>1, SubSeqProperties
<1>3. /\ d \in Seq(S) /\ Len(d) = IF n + 1 <= k THEN k - (n + 1) + 1 ELSE 0
      /\ \A i \in 1..k - (n + 1) + 1 : d[i] = s[n + 1 + i - 1]
  <2>1. n + 1 \in Int /\ k \in Int /\ \A i \in n + 1..k : s[i] \in S
    BY <1>1
  <2> QED
    BY <2>1, SubSeqProperties
<1> HIDE DEF c, d
<1>4. Len(c) = n /\ \A i \in 1..n : c[i] = s[i]
  BY <1>1, <1>2
<1>5. Len(d) = k - n /\ \A i \in 1..k - n : d[i] = s[n + i]
  <2>1. Len(d) = k - n /\ k - (n + 1) + 1 = k - n
    BY <1>1, <1>3
  <2>2. \A i \in 1..k - n : n + 1 + i - 1 = n + i
    BY <1>1
  <2> QED
    BY <1>3, <2>1, <2>2
<1> DEFINE u == c \o d
<1>6. /\ u \in Seq(S) /\ Len(u) = n + (k - n)
      /\ \A i \in 1..n + (k - n) : u[i] = IF i <= n THEN c[i] ELSE d[i - n]
  <2>1. /\ u \in Seq(S) /\ Len(u) = Len(c) + Len(d)
        /\ \A i \in 1..Len(c) + Len(d) : u[i] = IF i <= Len(c) THEN c[i] ELSE d[i - Len(c)]
    BY <1>2, <1>3, ConcatProperties, Zenon
  <2> QED
    BY <1>4, <1>5, <2>1
<1> HIDE DEF u
<1>7. Len(u) = k /\ \A i \in 1..k : u[i] = s[i]
  <2>1. n + (k - n) = k
    BY <1>1
  <2> SUFFICES ASSUME NEW i \in 1..k PROVE u[i] = s[i]
    BY <1>6, <2>1
  <2>2. CASE i <= n
    BY <1>1, <1>4, <1>6, <2>1, <2>2
  <2>3. CASE ~(i <= n)
    <3>1. i - n \in 1..k - n /\ n + (i - n) = i
      BY <1>1, <2>3
    <3> QED
      BY <1>5, <1>6, <2>1, <2>3, <3>1
  <2> QED
    BY <2>2, <2>3
<1>8. u = s
  BY <1>6, <1>7, SeqEqual DEF k
<1>9. ASSUME NEW x
      PROVE  (\E j \in 1..k - n : d[j] = x) <=> \E j \in n + 1..k : s[j] = x
  <2>1. ASSUME NEW j \in 1..k - n, d[j] = x
        PROVE  \E i \in n + 1..k : s[i] = x
    <3>1. n + j \in n + 1..k /\ s[n + j] = x
      BY <1>1, <1>5, <2>1
    <3> QED
      BY <3>1
  <2>2. ASSUME NEW i \in n + 1..k, s[i] = x
        PROVE  \E j \in 1..k - n : d[j] = x
    <3>1. i - n \in 1..k - n /\ n + (i - n) = i
      BY <1>1
    <3> QED
      BY <1>5, <2>2, <3>1
  <2> QED
    BY <2>1, <2>2
<1> QED
  BY <1>2, <1>3, <1>4, <1>5, <1>8, <1>9, Zenon DEF u, c, d, k

-----------------------------------------------------------------------------
(***************************************************************************)
(* Every mbuf stays in one place.                                          *)
(***************************************************************************)

\* The two ports.
LEMMA PortFacts ==
    ASSUME NEW i \in Ports
    PROVE  /\ i = 0 \/ i = 1
           /\ Other(i) \in Ports /\ Other(i) # i
           /\ \A a \in Ports : a # i => a = Other(i)
BY DEF Ports, Other

\* Pools, and lines of mbufs for the two ports.
Pools == [Mbufs -> Nat]
MbufLines == [Ports -> Seq(Mbufs)]

\* 1 or 0.
Same(m, x) == IF m = x THEN 1 ELSE 0

\* It is a number.
LEMMA SameFacts ==
    ASSUME NEW m, NEW x
    PROVE  Same(m, x) \in {0, 1} /\ Same(m, m) = 1
BY DEF Same

\* An mbuf that is in no line.
LEMMA TotalFacts ==
    ASSUME NEW O \in MbufLines, NEW m
    PROVE  /\ \A p \in Ports : O[p] \in Seq(Mbufs) /\ Occurs(m, O[p]) \in Nat
           /\ Total(m, O) \in Nat
           /\ \A p \in Ports : Occurs(m, O[p]) <= Total(m, O)
           /\ Total(m, O) = 0 => \A p \in Ports : \A j \in 1..Len(O[p]) : O[p][j] # m
<1>1. \A p \in Ports : O[p] \in Seq(Mbufs)
  BY DEF MbufLines
<1>2. \A p \in Ports : Occurs(m, O[p]) \in Nat
  BY <1>1, Places, Zenon
<1>3. Occurs(m, O[0]) \in Nat /\ Occurs(m, O[1]) \in Nat /\ \A p \in Ports : p = 0 \/ p = 1
  BY <1>2 DEF Ports
<1>4. Total(m, O) \in Nat /\ \A p \in Ports : Occurs(m, O[p]) <= Total(m, O)
  BY <1>3 DEF Total
<1>5. ASSUME Total(m, O) = 0, NEW p \in Ports
      PROVE  \A j \in 1..Len(O[p]) : O[p][j] # m
  <2>1. Occurs(m, O[p]) = 0
    BY <1>2, <1>4, <1>5
  <2> QED
    BY <1>1, <2>1, Places, Zenon
<1> QED
  BY <1>1, <1>2, <1>4, <1>5

\* One of the lines changes.
LEMMA TotalChange ==
    ASSUME NEW O \in MbufLines, NEW i \in Ports, NEW s \in Seq(Mbufs), NEW x
    PROVE  /\ [O EXCEPT ![i] = s] \in MbufLines
           /\ Total(x, [O EXCEPT ![i] = s]) + Occurs(x, O[i]) = Total(x, O) + Occurs(x, s)
<1> DEFINE N == [O EXCEPT ![i] = s]
<1>1. N \in MbufLines
  BY DEF MbufLines
<1>2. N[i] = s /\ N[Other(i)] = O[Other(i)] /\ Other(i) \in Ports
  BY PortFacts DEF MbufLines
<1> HIDE DEF N
<1>3. \A L \in MbufLines : Total(x, L) = Occurs(x, L[i]) + Occurs(x, L[Other(i)])
  <2> SUFFICES ASSUME NEW L \in MbufLines
               PROVE  Total(x, L) = Occurs(x, L[i]) + Occurs(x, L[Other(i)])
    OBVIOUS
  <2>1. Occurs(x, L[0]) \in Nat /\ Occurs(x, L[1]) \in Nat
    BY TotalFacts, Zenon DEF Ports
  <2>2. CASE i = 0
    <3>1. Other(i) = 1
      BY <2>2 DEF Other
    <3> QED
      BY <2>1, <2>2, <3>1 DEF Total
  <2>3. CASE i = 1
    <3>1. Other(i) = 0
      BY <2>3 DEF Other
    <3> QED
      BY <2>1, <2>3, <3>1 DEF Total
  <2> QED
    BY <2>2, <2>3 DEF Ports
<1>4. /\ Total(x, N) = Occurs(x, s) + Occurs(x, O[Other(i)])
      /\ Total(x, O) = Occurs(x, O[i]) + Occurs(x, O[Other(i)])
  BY <1>1, <1>2, <1>3
<1>5. Occurs(x, s) \in Nat /\ Occurs(x, O[i]) \in Nat /\ Occurs(x, O[Other(i)]) \in Nat
  BY <1>2, TotalFacts, Places, Zenon
<1>6. Total(x, N) + Occurs(x, O[i]) = Total(x, O) + Occurs(x, s)
  BY <1>4, <1>5
<1> QED
  BY <1>1, <1>6 DEF N

\* A line with one mbuf more at its end.
LEMMA Longer ==
    ASSUME NEW O \in MbufLines, NEW i \in Ports, NEW m \in Mbufs, NEW x
    PROVE  LET N == [O EXCEPT ![i] = Append(@, m)]
           IN  /\ N \in MbufLines
               /\ Total(x, N) = Total(x, O) + Same(m, x)
<1> DEFINE t == Append(O[i], m)
           N == [O EXCEPT ![i] = t]
<1>1. t \in Seq(Mbufs) /\ Occurs(x, t) = Occurs(x, O[i]) + Same(m, x)
  BY TotalFacts, OccursAppend DEF Same
<1> HIDE DEF t
<1>2. N \in MbufLines /\ Total(x, N) + Occurs(x, O[i]) = Total(x, O) + Occurs(x, t)
  BY <1>1, TotalChange
<1> HIDE DEF N
<1>3. Occurs(x, O[i]) \in Nat /\ Total(x, O) \in Nat /\ Total(x, N) \in Nat
  BY <1>2, TotalFacts
<1>4. Total(x, N) = Total(x, O) + Same(m, x)
  BY <1>1, <1>2, <1>3, SameFacts
<1> QED
  BY <1>2, <1>4 DEF N, t

\* A line without its first mbuf.
LEMMA Shorter ==
    ASSUME NEW O \in MbufLines, NEW i \in Ports, O[i] # <<>>, NEW x
    PROVE  LET N == [O EXCEPT ![i] = Tail(@)]
           IN  /\ N \in MbufLines /\ Head(O[i]) \in Mbufs
               /\ Total(x, O) = Total(x, N) + Same(Head(O[i]), x)
<1> DEFINE t == Tail(O[i])
           h == Head(O[i])
           N == [O EXCEPT ![i] = t]
<1>1. O[i] \in Seq(Mbufs)
  BY TotalFacts
<1>2. t \in Seq(Mbufs) /\ h \in Mbufs
  BY <1>1, HeadTailProperties
<1>3. Occurs(x, O[i]) = Same(h, x) + Occurs(x, t)
  BY <1>1, OccursTail DEF Same
<1> HIDE DEF t, h
<1>4. N \in MbufLines /\ Total(x, N) + Occurs(x, O[i]) = Total(x, O) + Occurs(x, t)
  BY <1>2, TotalChange
<1> HIDE DEF N
<1>5. Occurs(x, t) \in Nat /\ Total(x, O) \in Nat /\ Total(x, N) \in Nat
  BY <1>2, <1>4, TotalFacts, Places, Zenon
<1>6. Total(x, O) = Total(x, N) + Same(h, x)
  BY <1>3, <1>4, <1>5, SameFacts
<1> QED
  BY <1>2, <1>4, <1>6 DEF N, t, h

\* What the pool has and the lines.
LEMMA HeldFacts ==
    ASSUME NEW F \in Pools, NEW O \in MbufLines, NEW I \in MbufLines, Held(F, O, I),
           NEW x \in Mbufs
    PROVE  /\ F[x] \in Nat /\ Total(x, O) \in Nat /\ Total(x, I) \in Nat
           /\ F[x] + Total(x, O) + Total(x, I) = 1
BY TotalFacts DEF Pools, Held

\* An mbuf of the pool is put at the end of a line of arrivals.
LEMMA HeldArrive ==
    ASSUME NEW F \in Pools, NEW O \in MbufLines, NEW I \in MbufLines, Held(F, O, I),
           NEW a \in Ports, NEW m \in Mbufs, F[m] > 0
    PROVE  /\ [F EXCEPT ![m] = @ - 1] \in Pools
           /\ Held([F EXCEPT ![m] = @ - 1], O, [I EXCEPT ![a] = Append(@, m)])
           /\ \A p \in Ports : /\ \A j \in 1..Len(O[p]) : O[p][j] # m
                               /\ \A j \in 1..Len(I[p]) : I[p][j] # m
<1> DEFINE G == [F EXCEPT ![m] = @ - 1]
           N == [I EXCEPT ![a] = Append(@, m)]
<1>1. \A x \in Mbufs : F[x] \in Nat /\ G[x] = F[x] - Same(m, x)
  BY DEF Pools, Same
<1>2. G \in Pools
  BY <1>1 DEF Pools
<1>3. \A x \in Mbufs : Total(x, N) = Total(x, I) + Same(m, x)
  BY Longer
<1> HIDE DEF G, N
<1>4. ASSUME NEW x \in Mbufs
      PROVE  G[x] + Total(x, O) + Total(x, N) = 1
  BY <1>1, <1>3, HeldFacts, SameFacts
<1>5. Total(m, O) = 0 /\ Total(m, I) = 0
  BY HeldFacts
<1>6. \A p \in Ports : /\ \A j \in 1..Len(O[p]) : O[p][j] # m
                       /\ \A j \in 1..Len(I[p]) : I[p][j] # m
  BY <1>5, TotalFacts
<1> QED
  BY <1>2, <1>4, <1>6, Zenon DEF Held, G, N

\* The first mbuf of a line of arrivals goes to the end of a line that leaves.
LEMMA HeldForward ==
    ASSUME NEW F \in Pools, NEW O \in MbufLines, NEW I \in MbufLines, Held(F, O, I),
           NEW a \in Ports, NEW o \in Ports, I[a] # <<>>
    PROVE  LET h == Head(I[a])
               N == [I EXCEPT ![a] = Tail(@)]
           IN  /\ Held(F, [O EXCEPT ![o] = Append(@, h)], N)
               /\ \A p \in Ports : /\ \A j \in 1..Len(O[p]) : O[p][j] # h
                                   /\ \A j \in 1..Len(N[p]) : N[p][j] # h
<1> DEFINE h == Head(I[a])
           N == [I EXCEPT ![a] = Tail(@)]
           M == [O EXCEPT ![o] = Append(@, h)]
<1>1. /\ h \in Mbufs /\ N \in MbufLines
      /\ \A x \in Mbufs : Total(x, I) = Total(x, N) + Same(h, x)
  BY Shorter, Zenon
<1> HIDE DEF h
<1>2. ASSUME NEW x \in Mbufs
      PROVE  Total(x, M) = Total(x, O) + Same(h, x)
  <2>1. h \in Mbufs
    BY <1>1
  <2>2. \A m \in Mbufs : Total(x, [O EXCEPT ![o] = Append(@, m)]) = Total(x, O) + Same(m, x)
    BY Longer
  <2> QED
    BY <2>1, <2>2
<1> HIDE DEF N, M
<1>3. \A x \in Mbufs : Total(x, N) \in Nat
  BY <1>1, TotalFacts
<1>4. ASSUME NEW x \in Mbufs
      PROVE  F[x] + Total(x, M) + Total(x, N) = 1
  <2>1. /\ F[x] \in Nat /\ Total(x, O) \in Nat /\ Total(x, N) \in Nat
        /\ F[x] + Total(x, O) + Total(x, I) = 1
    BY <1>3, HeldFacts
  <2>2. Total(x, I) = Total(x, N) + Same(h, x) /\ Total(x, M) = Total(x, O) + Same(h, x)
    BY <1>1, <1>2
  <2>3. Same(h, x) \in Int
    BY SameFacts
  <2> QED
    BY <2>1, <2>2, <2>3
<1>5. Total(h, O) = 0 /\ Total(h, N) = 0
  <2>1. Same(h, h) = 1
    BY SameFacts
  <2>2. Total(h, I) = Total(h, N) + 1
    BY <1>1, <2>1
  <2> QED
    BY <1>1, <1>3, <2>2, HeldFacts
<1>6. \A p \in Ports : /\ \A j \in 1..Len(O[p]) : O[p][j] # h
                       /\ \A j \in 1..Len(N[p]) : N[p][j] # h
  BY <1>1, <1>5, TotalFacts, Zenon
<1> QED
  BY <1>4, <1>6, Zenon DEF Held, N, M, h

\* The first mbuf of a line goes to the pool.
LEMMA HeldRelease ==
    ASSUME NEW F \in Pools, NEW O \in MbufLines, NEW I \in MbufLines, NEW a \in Ports
    PROVE  /\ I[a] # <<>> /\ Held(F, O, I) =>
                  LET G == [F EXCEPT ![Head(I[a])] = @ + 1]
                  IN  G \in Pools /\ Held(G, O, [I EXCEPT ![a] = Tail(@)])
           /\ I[a] # <<>> /\ Held(F, I, O) =>
                  LET G == [F EXCEPT ![Head(I[a])] = @ + 1]
                  IN  G \in Pools /\ Held(G, [I EXCEPT ![a] = Tail(@)], O)
<1> SUFFICES ASSUME I[a] # <<>>
             PROVE  LET G == [F EXCEPT ![Head(I[a])] = @ + 1]
                        N == [I EXCEPT ![a] = Tail(@)]
                    IN  /\ G \in Pools
                        /\ Held(F, O, I) => Held(G, O, N)
                        /\ Held(F, I, O) => Held(G, N, O)
  OBVIOUS
<1> DEFINE h == Head(I[a])
           N == [I EXCEPT ![a] = Tail(@)]
           G == [F EXCEPT ![h] = @ + 1]
<1>1. /\ h \in Mbufs /\ N \in MbufLines
      /\ \A x \in Mbufs : Total(x, I) = Total(x, N) + Same(h, x)
  BY Shorter, Zenon
<1> HIDE DEF h
<1>2. \A x \in Mbufs : F[x] \in Nat /\ G[x] = F[x] + Same(h, x)
  BY <1>1 DEF Pools, Same
<1>3. G \in Pools
  BY <1>1, <1>2 DEF Pools
<1> HIDE DEF N, G
<1>4. \A x \in Mbufs : Total(x, N) \in Nat /\ Total(x, O) \in Nat
  BY <1>1, TotalFacts
<1>5. ASSUME NEW x \in Mbufs
      PROVE  /\ F[x] + Total(x, O) + Total(x, I) = 1 => G[x] + Total(x, O) + Total(x, N) = 1
             /\ F[x] + Total(x, I) + Total(x, O) = 1 => G[x] + Total(x, N) + Total(x, O) = 1
  <2>1. F[x] \in Nat /\ Total(x, O) \in Nat /\ Total(x, N) \in Nat /\ Same(h, x) \in Int
    BY <1>2, <1>4, SameFacts
  <2>2. Total(x, I) = Total(x, N) + Same(h, x) /\ G[x] = F[x] + Same(h, x)
    BY <1>1, <1>2
  <2> QED
    BY <2>1, <2>2
<1> QED
  BY <1>3, <1>5, Zenon DEF Held, N, G, h

\* The mbufs of s are those of W and those of D; U is the set of those of D.
Parts(s, W, D) == \A x \in Mbufs : Occurs(x, s) = Occurs(x, W) + Occurs(x, D)
Members(U, D) == \A x \in Mbufs : x \in U <=> \E j \in 1..Len(D) : D[j] = x

\* A piece of a line, D, goes to the pool.
LEMMA HeldThin ==
    ASSUME NEW F \in Pools, NEW O \in MbufLines, NEW I \in MbufLines, Held(F, O, I),
           NEW i \in Ports, NEW W \in Seq(Mbufs), NEW D \in Seq(Mbufs),
           Parts(O[i], W, D), NEW U, Members(U, D)
    PROVE  LET G == [x \in Mbufs |-> F[x] + (IF x \in U THEN 1 ELSE 0)]
           IN  G \in Pools /\ Held(G, [O EXCEPT ![i] = W], I)
<1> DEFINE G == [x \in Mbufs |-> F[x] + (IF x \in U THEN 1 ELSE 0)]
           N == [O EXCEPT ![i] = W]
<1>1. G \in Pools /\ \A x \in Mbufs : G[x] = F[x] + (IF x \in U THEN 1 ELSE 0)
  BY DEF Pools
<1> HIDE DEF G
<1>2. ASSUME NEW x \in Mbufs
      PROVE  G[x] + Total(x, N) + Total(x, I) = 1
  <2>1. Occurs(x, W) \in Nat /\ Occurs(x, D) \in Nat
    BY Places, Zenon
  <2>2. /\ F[x] \in Nat /\ Total(x, O) \in Nat /\ Total(x, I) \in Nat
        /\ F[x] + Total(x, O) + Total(x, I) = 1
    BY HeldFacts
  <2>3. Occurs(x, O[i]) <= Total(x, O)
    BY TotalFacts
  <2>4. (Occurs(x, D) = 0) <=> x \notin U
    <3>1. (Occurs(x, D) = 0) <=> \A j \in 1..Len(D) : D[j] # x
      BY Places, Zenon
    <3> QED
      BY <3>1 DEF Members
  <2>5. /\ N \in MbufLines
        /\ Total(x, N) + Occurs(x, O[i]) = Total(x, O) + Occurs(x, W)
    BY TotalChange
  <2> HIDE DEF N
  <2>6. Total(x, N) \in Nat
    BY <2>5, TotalFacts
  <2>7. Occurs(x, O[i]) = Occurs(x, W) + Occurs(x, D)
    BY DEF Parts
  <2>8. Occurs(x, D) <= 1
    BY <2>1, <2>2, <2>3, <2>7
  <2>9. G[x] = F[x] + Occurs(x, D)
    BY <1>1, <2>1, <2>4, <2>8
  <2> DEFINE f == F[x]
             d == Occurs(x, D)
             w == Occurs(x, W)
             to == Total(x, O)
             ti == Total(x, I)
             tn == Total(x, N)
  <2>10. /\ f \in Nat /\ d \in Nat /\ w \in Nat /\ to \in Nat /\ ti \in Nat /\ tn \in Nat
         /\ f + to + ti = 1 /\ tn + (w + d) = to + w /\ G[x] = f + d
    BY <2>1, <2>2, <2>5, <2>6, <2>7, <2>9
  <2> HIDE DEF f, d, w, to, ti, tn, G
  <2>11. G[x] + tn + ti = 1
    BY <2>10
  <2> QED
    BY <2>11 DEF tn, ti
<1> QED
  BY <1>1, <1>2, Zenon DEF Held, G

-----------------------------------------------------------------------------
(***************************************************************************)
(* Packets stay in order.                                                  *)
(***************************************************************************)

\* Lines of packets for the two ports.
PacketLines == [Ports -> Seq(Packet)]

\* W is a part of s, in the order of s.
Within(W, s) ==
    \E g \in [1..Len(W) -> 1..Len(s)] :
        /\ \A j \in 1..Len(W) : W[j] = s[g[j]]
        /\ \A j, l \in 1..Len(W) : j < l => g[j] < g[l]

\* The fields of a packet.
LEMMA PacketFacts ==
    ASSUME NEW p \in Packet
    PROVE  p.id \in 0..MaxPkts /\ p.id \in Nat /\ p.in \in Ports
BY ConstantsAssumption DEF Packet

\* The packets of a line.
LEMMA LineFacts ==
    ASSUME NEW L \in PacketLines, NEW i \in Ports
    PROVE  /\ L[i] \in Seq(Packet) /\ Len(L[i]) \in Nat /\ DOMAIN L[i] = 1..Len(L[i])
           /\ \A j \in 1..Len(L[i]) : L[i][j] \in Packet /\ L[i][j].id \in Nat
<1>1. L[i] \in Seq(Packet)
  BY DEF PacketLines
<1>2. \A j \in 1..Len(L[i]) : L[i][j] \in Packet
  BY <1>1, ElementOfSeq
<1> QED
  BY <1>1, <1>2, LenProperties, PacketFacts

\* What follows the first packet is a part of the line.
LEMMA TailWithin ==
    ASSUME NEW S, NEW s \in Seq(S), s # <<>>
    PROVE  Within(Tail(s), s)
<1> DEFINE n == Len(s)
           t == Tail(s)
           g == [j \in 1..Len(t) |-> j + 1]
<1>1. n \in Nat /\ Len(t) = n - 1 /\ \A j \in 1..Len(t) : t[j] = s[j + 1]
  BY HeadTailProperties, LenProperties
<1> HIDE DEF n, t
<1>2. \A j \in 1..Len(t) : j + 1 \in 1..n
  BY <1>1
<1>3. g \in [1..Len(t) -> 1..Len(s)]
  BY <1>2 DEF n
<1>4. \A j, l \in 1..Len(t) : j < l => g[j] < g[l]
  BY <1>1
<1>5. \A j \in 1..Len(t) : t[j] = s[g[j]]
  BY <1>1
<1>6. Within(t, s)
  BY <1>3, <1>4, <1>5, Zenon DEF Within
<1> QED
  BY <1>6 DEF t

\* So is the line with a piece taken out.
LEMMA ThinWithin ==
    ASSUME NEW S, NEW A \in Seq(S), NEW D \in Seq(S), NEW C \in Seq(S)
    PROVE  A \o C \in Seq(S) /\ Within(A \o C, (A \o D) \o C)
<1> DEFINE W == A \o C
           s == (A \o D) \o C
           up(j) == IF j <= Len(A) THEN j ELSE j + Len(D)
           g == [j \in 1..Len(W) |-> up(j)]
<1>1. /\ W \in Seq(S) /\ s \in Seq(S)
      /\ \A j \in 1..Len(W) : up(j) \in 1..Len(s) /\ W[j] = s[up(j)]
      /\ \A j, l \in 1..Len(W) : j < l => up(j) < up(l)
  BY Thinned, Zenon
<1> HIDE DEF W, s, up
<1>2. g \in [1..Len(W) -> 1..Len(s)] /\ \A j \in 1..Len(W) : g[j] = up(j)
  BY <1>1
<1> HIDE DEF g
<1>3. Within(W, s)
  BY <1>1, <1>2, Zenon DEF Within
<1> QED
  BY <1>1, <1>3 DEF W, s

\* A part of an ordered line is ordered.
LEMMA RisingWithin ==
    ASSUME NEW s \in Seq(Packet), NEW W \in Seq(Packet), Within(W, s), Rising(s)
    PROVE  Rising(W)
<1>1. DOMAIN W = 1..Len(W) /\ DOMAIN s = 1..Len(s)
  BY LenProperties
<1>2. PICK g \in [1..Len(W) -> 1..Len(s)] :
             /\ \A j \in 1..Len(W) : W[j] = s[g[j]]
             /\ \A j, l \in 1..Len(W) : j < l => g[j] < g[l]
  BY DEF Within
<1> SUFFICES ASSUME NEW j \in 1..Len(W), NEW l \in 1..Len(W), j < l, W[j].in = W[l].in
             PROVE  W[j].id < W[l].id
  BY <1>1 DEF Rising
<1>3. g[j] \in 1..Len(s) /\ g[l] \in 1..Len(s) /\ g[j] < g[l]
  BY <1>2
<1>4. W[j] = s[g[j]] /\ W[l] = s[g[l]]
  BY <1>2
<1>5. s[g[j]].in = s[g[l]].in => s[g[j]].id < s[g[l]].id
  BY <1>1, <1>3 DEF Rising
<1> QED
  BY <1>4, <1>5

\* Lines that leave lose packets.
LEMMA FlowThin ==
    ASSUME NEW L \in PacketLines, NEW U \in PacketLines, NEW n \in Nat, Flow(L, U, n),
           NEW i \in Ports, NEW W \in Seq(Packet), Within(W, L[i])
    PROVE  /\ [L EXCEPT ![i] = W] \in PacketLines
           /\ Flow([L EXCEPT ![i] = W], U, n)
           /\ Macs(L) => Macs([L EXCEPT ![i] = W])
<1> DEFINE N == [L EXCEPT ![i] = W]
<1>1. /\ N \in PacketLines /\ N[i] = W /\ \A p \in Ports : p # i => N[p] = L[p]
  BY DEF PacketLines
<1>2. DOMAIN W = 1..Len(W) /\ DOMAIN L[i] = 1..Len(L[i]) /\ L[i] \in Seq(Packet)
  BY LineFacts, LenProperties
<1>3. \A j \in DOMAIN W : \E k \in DOMAIN L[i] : W[j] = L[i][k]
  <2>1. PICK g \in [1..Len(W) -> 1..Len(L[i])] : \A j \in 1..Len(W) : W[j] = L[i][g[j]]
    BY DEF Within
  <2> QED
    BY <1>2, <2>1
<1> HIDE DEF N
<1>4. \A p \in Ports : \A j \in DOMAIN N[p] : \E k \in DOMAIN L[p] : N[p][j] = L[p][k]
  BY <1>1, <1>3
<1>5. \A p \in Ports : Rising(N[p])
  <2>1. Rising(L[i])
    BY DEF Flow
  <2>2. Rising(W)
    BY <1>2, <2>1, RisingWithin
  <2> QED
    BY <1>1, <2>2 DEF Flow
<1>6. \A p \in Ports : \A j \in DOMAIN N[p] : N[p][j].id <= n
  BY <1>4 DEF Flow
<1>7. \A p, a \in Ports : \A j \in DOMAIN N[p], l \in DOMAIN U[a] :
          N[p][j].in = a => N[p][j].id < U[a][l].id
  BY <1>4 DEF Flow
<1>8. Flow(N, U, n)
  BY <1>5, <1>6, <1>7 DEF Flow
<1>9. Macs(L) => Macs(N)
  BY <1>4 DEF Macs
<1> QED
  BY <1>1, <1>8, <1>9 DEF N

\* Lines of arrivals do.
LEMMA FlowLose ==
    ASSUME NEW L \in PacketLines, NEW U \in PacketLines, NEW n \in Nat, Flow(L, U, n),
           NEW a \in Ports, U[a] # <<>>
    PROVE  /\ [U EXCEPT ![a] = Tail(@)] \in PacketLines
           /\ Flow(L, [U EXCEPT ![a] = Tail(@)], n)
<1> DEFINE W == Tail(U[a])
           N == [U EXCEPT ![a] = W]
<1>1. W \in Seq(Packet) /\ U[a] \in Seq(Packet)
  BY LineFacts, HeadTailProperties
<1>2. Within(W, U[a])
  BY <1>1, TailWithin
<1> HIDE DEF W
<1>3. /\ N \in PacketLines /\ N[a] = W /\ \A p \in Ports : p # a => N[p] = U[p]
  BY <1>1 DEF PacketLines
<1>4. DOMAIN W = 1..Len(W) /\ DOMAIN U[a] = 1..Len(U[a])
  BY <1>1, LenProperties
<1>5. \A j \in DOMAIN W : \E k \in DOMAIN U[a] : W[j] = U[a][k]
  <2>1. PICK g \in [1..Len(W) -> 1..Len(U[a])] : \A j \in 1..Len(W) : W[j] = U[a][g[j]]
    BY <1>2 DEF Within
  <2> QED
    BY <1>4, <2>1
<1> HIDE DEF N
<1>6. \A p \in Ports : \A j \in DOMAIN N[p] : \E k \in DOMAIN U[p] : N[p][j] = U[p][k]
  BY <1>3, <1>5
<1>7. \A p \in Ports : Rising(N[p])
  <2>1. Rising(U[a])
    BY DEF Flow
  <2>2. Rising(W)
    BY <1>1, <1>2, <2>1, RisingWithin
  <2> QED
    BY <1>3, <2>2 DEF Flow
<1>8. \A p \in Ports : \A j \in DOMAIN N[p] : N[p][j].in = p /\ N[p][j].id <= n
  BY <1>6 DEF Flow
<1>9. \A i, p \in Ports : \A j \in DOMAIN L[i], l \in DOMAIN N[p] :
          L[i][j].in = p => L[i][j].id < N[p][l].id
  BY <1>6 DEF Flow
<1>10. Flow(L, N, n)
  BY <1>7, <1>8, <1>9 DEF Flow
<1> QED
  BY <1>3, <1>10 DEF N, W

\* A packet that comes after all others of its port.
LEMMA RisingAppend ==
    ASSUME NEW s \in Seq(Packet), NEW pkt \in Packet
    PROVE  /\ Append(s, pkt) \in Seq(Packet)
           /\ \A j \in DOMAIN Append(s, pkt) :
                  \/ Append(s, pkt)[j] = pkt
                  \/ j \in DOMAIN s /\ Append(s, pkt)[j] = s[j]
           /\ /\ Rising(s) /\ \A j \in DOMAIN s : s[j].in = pkt.in => s[j].id < pkt.id
              => Rising(Append(s, pkt))
<1> DEFINE t == Append(s, pkt)
           n == Len(s)
<1>1. /\ t \in Seq(Packet) /\ Len(t) = n + 1
      /\ \A j \in 1..n : t[j] = s[j]
      /\ t[n + 1] = pkt
  BY AppendProperties
<1>2. n \in Nat /\ DOMAIN s = 1..n /\ DOMAIN t = 1..n + 1
  BY <1>1, LenProperties
<1> HIDE DEF t, n
<1>3. \A j \in 1..n + 1 : (j \in 1..n /\ t[j] = s[j]) \/ (j = n + 1 /\ t[j] = pkt)
  BY <1>1, <1>2
<1>4. ASSUME Rising(s), \A j \in DOMAIN s : s[j].in = pkt.in => s[j].id < pkt.id
      PROVE  Rising(t)
  <2> SUFFICES ASSUME NEW j \in 1..n + 1, NEW l \in 1..n + 1, j < l, t[j].in = t[l].in
               PROVE  t[j].id < t[l].id
    BY <1>2 DEF Rising
  <2>1. j \in 1..n /\ t[j] = s[j]
    BY <1>2, <1>3
  <2>2. CASE l \in 1..n /\ t[l] = s[l]
    <3>1. s[j].in = s[l].in => s[j].id < s[l].id
      BY <1>2, <1>4, <2>1, <2>2 DEF Rising
    <3> QED
      BY <2>1, <2>2, <3>1
  <2>3. CASE t[l] = pkt
    BY <1>2, <1>4, <2>1, <2>3
  <2> QED
    BY <1>3, <2>2, <2>3
<1> QED
  BY <1>1, <1>2, <1>3, <1>4 DEF t

\* A packet arrives.
LEMMA FlowArrive ==
    ASSUME NEW L \in PacketLines, NEW U \in PacketLines, NEW n \in Nat, Flow(L, U, n),
           NEW a \in Ports, NEW pkt \in Packet, pkt.id = n + 1, pkt.in = a
    PROVE  /\ [U EXCEPT ![a] = Append(@, pkt)] \in PacketLines
           /\ Flow(L, [U EXCEPT ![a] = Append(@, pkt)], n + 1)
<1> DEFINE W == Append(U[a], pkt)
           N == [U EXCEPT ![a] = W]
<1>1. U[a] \in Seq(Packet) /\ \A j \in DOMAIN U[a] : U[a][j].id \in Nat
  BY LineFacts
<1>2. /\ W \in Seq(Packet)
      /\ \A j \in DOMAIN W : W[j] = pkt \/ (j \in DOMAIN U[a] /\ W[j] = U[a][j])
  BY <1>1, RisingAppend
<1>3. \A j \in DOMAIN U[a] : U[a][j].id < pkt.id
  BY <1>1 DEF Flow
<1>4. Rising(W)
  BY <1>1, <1>3, RisingAppend DEF Flow
<1> HIDE DEF W
<1>5. /\ N \in PacketLines /\ N[a] = W /\ \A p \in Ports : p # a => N[p] = U[p]
  BY <1>2 DEF PacketLines
<1> HIDE DEF N
<1>6. \A p \in Ports : \A j \in DOMAIN N[p] :
          \/ p = a /\ N[p][j] = pkt
          \/ j \in DOMAIN U[p] /\ N[p][j] = U[p][j]
  BY <1>2, <1>5
<1>7. \A p \in Ports : \A j \in DOMAIN L[p] : L[p][j].id \in Nat /\ L[p][j].id <= n
  BY LineFacts DEF Flow
<1>8. \A p \in Ports : \A j \in DOMAIN U[p] : U[p][j].id \in Nat /\ U[p][j].id <= n
  BY LineFacts DEF Flow
<1>9. \A p \in Ports : Rising(L[p]) /\ \A j \in DOMAIN L[p] : L[p][j].id <= n + 1
  BY <1>7 DEF Flow
<1>10. \A p \in Ports : Rising(N[p])
  BY <1>4, <1>5 DEF Flow
<1>11. ASSUME NEW p \in Ports, NEW j \in DOMAIN N[p]
       PROVE  N[p][j].in = p /\ N[p][j].id <= n + 1
  <2>1. CASE p = a /\ N[p][j] = pkt
    BY <2>1
  <2>2. CASE j \in DOMAIN U[p] /\ N[p][j] = U[p][j]
    BY <1>8, <2>2 DEF Flow
  <2> QED
    BY <1>6, <2>1, <2>2
<1>12. ASSUME NEW i \in Ports, NEW p \in Ports, NEW j \in DOMAIN L[i], NEW l \in DOMAIN N[p],
              L[i][j].in = p
       PROVE  L[i][j].id < N[p][l].id
  <2>1. CASE p = a /\ N[p][l] = pkt
    BY <1>7, <2>1
  <2>2. CASE l \in DOMAIN U[p] /\ N[p][l] = U[p][l]
    BY <1>12, <2>2 DEF Flow
  <2> QED
    BY <1>6, <2>1, <2>2
<1>13. Flow(L, N, n + 1)
  BY <1>9, <1>10, <1>11, <1>12 DEF Flow
<1> QED
  BY <1>5, <1>13 DEF N, W

\* The worker moves the first packet of a line of arrivals to the end of a line
\* that leaves.
LEMMA FlowForward ==
    ASSUME NEW L \in PacketLines, NEW U \in PacketLines, NEW n \in Nat, Flow(L, U, n),
           NEW a \in Ports, NEW o \in Ports, U[a] # <<>>, NEW pkt \in Packet,
           pkt.id = Head(U[a]).id, pkt.in = Head(U[a]).in
    PROVE  /\ [L EXCEPT ![o] = Append(@, pkt)] \in PacketLines
           /\ [U EXCEPT ![a] = Tail(@)] \in PacketLines
           /\ Flow([L EXCEPT ![o] = Append(@, pkt)], [U EXCEPT ![a] = Tail(@)], n)
           /\ Macs(L) /\ MacRight(pkt, o) => Macs([L EXCEPT ![o] = Append(@, pkt)])
<1> DEFINE T == Tail(U[a])
           V == [U EXCEPT ![a] = T]
           W == Append(L[o], pkt)
           N == [L EXCEPT ![o] = W]
<1>1. V \in PacketLines /\ Flow(L, V, n)
  BY FlowLose
<1>2. U[a] \in Seq(Packet) /\ L[o] \in Seq(Packet) /\ DOMAIN U[a] = 1..Len(U[a])
  BY LineFacts
<1>3. /\ Len(U[a]) \in Nat /\ 1 <= Len(U[a]) /\ Head(U[a]) = U[a][1]
      /\ T \in Seq(Packet) /\ DOMAIN T = 1..Len(T) /\ Len(T) = Len(U[a]) - 1
      /\ \A j \in 1..Len(T) : T[j] = U[a][j + 1]
  BY <1>2, Split, HeadTailProperties, LenProperties
<1>4. 1 \in DOMAIN U[a] /\ pkt.in = a /\ pkt.id = U[a][1].id /\ pkt.id <= n
  <2>1. 1 \in DOMAIN U[a]
    BY <1>2, <1>3
  <2>2. U[a][1].in = a /\ U[a][1].id <= n
    BY <2>1 DEF Flow
  <2> QED
    BY <1>3, <2>1, <2>2
<1>5. /\ W \in Seq(Packet)
      /\ \A j \in DOMAIN W : W[j] = pkt \/ (j \in DOMAIN L[o] /\ W[j] = L[o][j])
  BY <1>2, RisingAppend
<1>6. \A i \in Ports : \A j \in DOMAIN L[i] : L[i][j].in = pkt.in => L[i][j].id < pkt.id
  BY <1>4 DEF Flow
<1>7. Rising(W)
  BY <1>2, <1>6, RisingAppend DEF Flow
<1> DEFINE k == Len(U[a])
<1>8. \A j \in DOMAIN T : pkt.id < T[j].id
  <2> SUFFICES ASSUME NEW j \in 1..Len(T) PROVE pkt.id < T[j].id
    BY <1>3
  <2>1. j + 1 \in 1..k /\ 1 < j + 1 /\ T[j] = U[a][j + 1]
    BY <1>3
  <2>2. j + 1 \in DOMAIN U[a]
    BY <1>2, <2>1
  <2>3. U[a][1].in = a /\ U[a][j + 1].in = a
    BY <1>4, <2>2 DEF Flow
  <2>4. U[a][1].id < U[a][j + 1].id
    <3>1. Rising(U[a])
      BY DEF Flow
    <3> QED
      BY <1>4, <2>1, <2>2, <2>3, <3>1 DEF Rising
  <2> QED
    BY <1>4, <2>1, <2>4
<1>9. V[a] = T
  BY DEF PacketLines
<1>10. /\ N \in PacketLines /\ N[o] = W /\ \A p \in Ports : p # o => N[p] = L[p]
  BY <1>5 DEF PacketLines
<1> HIDE DEF W, N, T, V
<1>11. \A p \in Ports : \A j \in DOMAIN N[p] :
          \/ p = o /\ N[p][j] = pkt
          \/ j \in DOMAIN L[p] /\ N[p][j] = L[p][j]
  BY <1>5, <1>10
<1>12. \A p \in Ports : Rising(N[p])
  BY <1>7, <1>10 DEF Flow
<1>13. \A p \in Ports : \A j \in DOMAIN N[p] : N[p][j].id <= n
  BY <1>4, <1>11 DEF Flow
<1>14. ASSUME NEW i \in Ports, NEW p \in Ports, NEW j \in DOMAIN N[i], NEW l \in DOMAIN V[p],
              N[i][j].in = p
       PROVE  N[i][j].id < V[p][l].id
  <2>1. CASE i = o /\ N[i][j] = pkt
    BY <1>4, <1>8, <1>9, <1>14, <2>1
  <2>2. CASE j \in DOMAIN L[i] /\ N[i][j] = L[i][j]
    BY <1>1, <1>14, <2>2 DEF Flow
  <2> QED
    BY <1>11, <2>1, <2>2
<1>15. Flow(N, V, n)
  BY <1>1, <1>12, <1>13, <1>14 DEF Flow
<1>16. Macs(L) /\ MacRight(pkt, o) => Macs(N)
  BY <1>11 DEF Macs
<1> QED
  BY <1>1, <1>10, <1>15, <1>16 DEF N, W, V, T

-----------------------------------------------------------------------------
(***************************************************************************)
(* The lines of a state.                                                   *)
(***************************************************************************)

\* What the mbufs hold.
Contents == [Mbufs -> Packet]

\* The packets that mbufs hold.
LEMMA OfFacts ==
    ASSUME NEW c \in Contents, NEW s \in Seq(Mbufs)
    PROVE  /\ Of(c, s) \in Seq(Packet) /\ Len(Of(c, s)) = Len(s)
           /\ \A j \in 1..Len(s) : Of(c, s)[j] = c[s[j]]
           /\ Of(c, s) = <<>> <=> s = <<>>
<1>1. Len(s) \in Nat /\ DOMAIN s = 1..Len(s) /\ \A j \in 1..Len(s) : s[j] \in Mbufs
  BY LenProperties, ElementOfSeq
<1>2. \A j \in 1..Len(s) : c[s[j]] \in Packet
  BY <1>1 DEF Contents
<1>3. Of(c, s) = [j \in 1..Len(s) |-> c[s[j]]]
  BY <1>1 DEF Of
<1>4. Of(c, s) \in Seq(Packet) /\ Len(Of(c, s)) = Len(s)
  BY <1>1, <1>2, <1>3, IsASeq, LenProperties
<1> QED
  BY <1>3, <1>4, EmptySeq

\* Those of two sequences.
LEMMA OfConcat ==
    ASSUME NEW c \in Contents, NEW s \in Seq(Mbufs), NEW t \in Seq(Mbufs)
    PROVE  Of(c, s \o t) = Of(c, s) \o Of(c, t)
<1> DEFINE u == s \o t
           v == Of(c, s) \o Of(c, t)
           k == Len(s)
           n == Len(t)
<1>1. /\ u \in Seq(Mbufs) /\ Len(u) = k + n
      /\ \A j \in 1..k + n : u[j] = IF j <= k THEN s[j] ELSE t[j - k]
  BY ConcatProperties
<1>2. /\ Of(c, s) \in Seq(Packet) /\ Len(Of(c, s)) = k
      /\ Of(c, t) \in Seq(Packet) /\ Len(Of(c, t)) = n
      /\ \A j \in 1..k : Of(c, s)[j] = c[s[j]]
      /\ \A j \in 1..n : Of(c, t)[j] = c[t[j]]
  BY OfFacts
<1>3. k \in Nat /\ n \in Nat
  BY LenProperties
<1>4. /\ v \in Seq(Packet) /\ Len(v) = Len(Of(c, s)) + Len(Of(c, t))
      /\ \A j \in 1..Len(Of(c, s)) + Len(Of(c, t)) :
            v[j] = IF j <= Len(Of(c, s)) THEN Of(c, s)[j] ELSE Of(c, t)[j - Len(Of(c, s))]
  <2>1. Of(c, s) \in Seq(Packet) /\ Of(c, t) \in Seq(Packet)
    BY <1>2
  <2> QED
    BY <2>1, ConcatProperties, Zenon
<1> HIDE DEF u, v, k, n
<1>5. /\ Len(v) = k + n
      /\ \A j \in 1..k + n : v[j] = IF j <= k THEN Of(c, s)[j] ELSE Of(c, t)[j - k]
  BY <1>2, <1>4
<1>6. /\ Of(c, u) \in Seq(Packet) /\ Len(Of(c, u)) = k + n
      /\ \A j \in 1..k + n : Of(c, u)[j] = c[u[j]]
  BY <1>1, OfFacts
<1>7. ASSUME NEW j \in 1..k + n
      PROVE  Of(c, u)[j] = v[j]
  <2>1. CASE j <= k
    <3>1. j \in 1..k
      BY <1>3, <2>1
    <3>2. u[j] = s[j] /\ v[j] = Of(c, s)[j] /\ Of(c, u)[j] = c[u[j]]
      BY <1>1, <1>5, <1>6, <2>1
    <3>3. Of(c, s)[j] = c[s[j]]
      BY <1>2, <3>1
    <3> QED
      BY <3>2, <3>3
  <2>2. CASE ~(j <= k)
    <3>1. j - k \in 1..n
      BY <1>3, <2>2
    <3>2. u[j] = t[j - k] /\ v[j] = Of(c, t)[j - k] /\ Of(c, u)[j] = c[u[j]]
      BY <1>1, <1>5, <1>6, <2>2
    <3>3. Of(c, t)[j - k] = c[t[j - k]]
      BY <1>2, <3>1
    <3> QED
      BY <3>2, <3>3
  <2> QED
    BY <2>1, <2>2
<1>8. Of(c, u) = v
  BY <1>4, <1>5, <1>6, <1>7, SeqEqual
<1> QED
  BY <1>8 DEF u, v

\* One more at the end.
LEMMA OfAppend ==
    ASSUME NEW c \in Contents, NEW s \in Seq(Mbufs), NEW m \in Mbufs
    PROVE  Of(c, Append(s, m)) = Append(Of(c, s), c[m])
<1>1. /\ Append(s, m) = s \o <<m>> /\ <<m>> \in Seq(Mbufs)
  BY AppendIsConcat
<1>2. Of(c, <<m>>) = <<c[m]>>
  BY DEF Of
<1>3. Of(c, s) \in Seq(Packet) /\ c[m] \in Packet
  BY OfFacts DEF Contents
<1>4. Append(Of(c, s), c[m]) = Of(c, s) \o <<c[m]>>
  BY <1>3, AppendIsConcat
<1>5. Of(c, s \o <<m>>) = Of(c, s) \o Of(c, <<m>>)
  BY <1>1, OfConcat, Zenon
<1> QED
  BY <1>1, <1>2, <1>4, <1>5, Zenon

\* One less at the front.
LEMMA OfTail ==
    ASSUME NEW c \in Contents, NEW s \in Seq(Mbufs), s # <<>>
    PROVE  /\ Of(c, Tail(s)) = Tail(Of(c, s)) /\ Head(Of(c, s)) = c[Head(s)]
           /\ Of(c, s) # <<>> /\ Of(c, s) \in Seq(Packet)
<1> DEFINE t == Tail(s)
           p == Of(c, s)
<1>1. /\ t \in Seq(Mbufs) /\ Len(t) = Len(s) - 1 /\ \A j \in 1..Len(t) : t[j] = s[j + 1]
      /\ Len(s) \in Nat /\ 1 <= Len(s) /\ Head(s) = s[1]
  BY Split, HeadTailProperties
<1>2. /\ p \in Seq(Packet) /\ Len(p) = Len(s) /\ \A j \in 1..Len(s) : p[j] = c[s[j]]
      /\ p # <<>>
  BY OfFacts
<1> HIDE DEF t, p
<1>3. /\ Tail(p) \in Seq(Packet) /\ Len(Tail(p)) = Len(s) - 1
      /\ \A j \in 1..Len(s) - 1 : Tail(p)[j] = p[j + 1]
      /\ Head(p) = p[1]
  BY <1>2, Split, HeadTailProperties
<1>4. /\ Of(c, t) \in Seq(Packet) /\ Len(Of(c, t)) = Len(t)
      /\ \A j \in 1..Len(t) : Of(c, t)[j] = c[t[j]]
  BY <1>1, OfFacts
<1> DEFINE n == Len(s)
<1> HIDE DEF n
<1>5. \A j \in 1..n - 1 : j + 1 \in 1..n
  BY <1>1 DEF n
<1>6. ASSUME NEW j \in 1..n - 1
      PROVE  Of(c, t)[j] = Tail(p)[j]
  <2>1. t[j] = s[j + 1] /\ Of(c, t)[j] = c[t[j]]
    BY <1>1, <1>4 DEF n
  <2>2. Tail(p)[j] = p[j + 1]
    BY <1>3 DEF n
  <2>3. p[j + 1] = c[s[j + 1]]
    BY <1>2, <1>5 DEF n
  <2> QED
    BY <2>1, <2>2, <2>3, Zenon
<1>7. Of(c, t) = Tail(p)
  <2> DEFINE f == Of(c, t)
             g == Tail(p)
  <2>1. f \in Seq(Packet) /\ g \in Seq(Packet) /\ Len(f) = Len(g)
        /\ \A j \in 1..Len(f) : f[j] = g[j]
    BY <1>1, <1>3, <1>4, <1>6 DEF n
  <2> HIDE DEF f, g
  <2>2. f = g
    BY <2>1, SeqEqual
  <2> QED
    BY <2>2 DEF f, g
<1>8. Head(p) = c[s[1]]
  BY <1>1, <1>2, <1>3
<1> QED
  BY <1>1, <1>2, <1>7, <1>8 DEF t, p

\* Nothing but other mbufs has changed.
LEMMA OfSame ==
    ASSUME NEW c \in Contents, NEW d \in Contents, NEW s \in Seq(Mbufs),
           \A j \in 1..Len(s) : d[s[j]] = c[s[j]]
    PROVE  Of(d, s) = Of(c, s)
<1>1. DOMAIN s = 1..Len(s)
  BY LenProperties
<1> QED
  BY <1>1 DEF Of

\* The mbufs of a transmit queue.
LEMMA QueuedFacts ==
    ASSUME NEW q \in Seq(Descs)
    PROVE  /\ Queued(q) \in Seq(Mbufs) /\ Len(Queued(q)) = Len(q)
           /\ \A j \in 1..Len(q) : Queued(q)[j] = q[j].m
<1>1. Len(q) \in Nat /\ DOMAIN q = 1..Len(q) /\ \A j \in 1..Len(q) : q[j] \in Descs
  BY LenProperties, ElementOfSeq
<1>2. \A j \in 1..Len(q) : q[j].m \in Mbufs
  BY <1>1 DEF Descs
<1>3. Queued(q) = [j \in 1..Len(q) |-> q[j].m]
  BY <1>1 DEF Queued
<1>4. Queued(q) \in Seq(Mbufs) /\ Len(Queued(q)) = Len(q)
  BY <1>1, <1>2, <1>3, IsASeq, LenProperties
<1> QED
  BY <1>3, <1>4

\* The NIC takes the first.
LEMMA QueuedTail ==
    ASSUME NEW q \in Seq(Descs), q # <<>>
    PROVE  /\ Queued(q) # <<>> /\ Head(Queued(q)) = Head(q).m
           /\ Queued(Tail(q)) = Tail(Queued(q))
<1> DEFINE t == Tail(q)
           p == Queued(q)
           n == Len(q)
<1>1. /\ t \in Seq(Descs) /\ Len(t) = n - 1 /\ \A j \in 1..Len(t) : t[j] = q[j + 1]
      /\ n \in Nat /\ 1 <= n /\ Head(q) = q[1]
  BY Split, HeadTailProperties
<1>2. /\ p \in Seq(Mbufs) /\ Len(p) = n /\ \A j \in 1..n : p[j] = q[j].m
  BY QueuedFacts
<1> HIDE DEF t, p, n
<1>3. p # <<>>
  BY <1>1, <1>2, EmptySeq
<1>4. /\ Tail(p) \in Seq(Mbufs) /\ Len(Tail(p)) = n - 1
      /\ \A j \in 1..n - 1 : Tail(p)[j] = p[j + 1]
      /\ Head(p) = p[1]
  BY <1>2, <1>3, Split, HeadTailProperties
<1>5. /\ Queued(t) \in Seq(Mbufs) /\ Len(Queued(t)) = n - 1
      /\ \A j \in 1..n - 1 : Queued(t)[j] = t[j].m
  BY <1>1, QueuedFacts
<1>6. \A j \in 1..n - 1 : j + 1 \in 1..n
  BY <1>1
<1>7. \A j \in 1..n - 1 : Queued(t)[j] = Tail(p)[j]
  BY <1>1, <1>2, <1>4, <1>5, <1>6
<1>8. Queued(t) = Tail(p)
  BY <1>4, <1>5, <1>7, SeqEqual
<1>9. Head(p) = q[1].m
  BY <1>1, <1>2, <1>4
<1> QED
  BY <1>1, <1>3, <1>8, <1>9 DEF t, p

\* The TX core adds a batch.
LEMMA QueuedMore ==
    ASSUME NEW q \in Seq(Descs), NEW b \in Seq(Mbufs), NEW D \in Seq(Descs),
           Len(D) = Len(b), \A j \in 1..Len(b) : D[j].m = b[j]
    PROVE  q \o D \in Seq(Descs) /\ Queued(q \o D) = Queued(q) \o b
<1> DEFINE u == q \o D
           v == Queued(q) \o b
           k == Len(q)
           n == Len(b)
<1>1. /\ u \in Seq(Descs) /\ Len(u) = k + n
      /\ \A j \in 1..k + n : u[j] = IF j <= k THEN q[j] ELSE D[j - k]
  <2>1. /\ u \in Seq(Descs) /\ Len(u) = k + Len(D)
        /\ \A j \in 1..k + Len(D) : u[j] = IF j <= k THEN q[j] ELSE D[j - k]
    BY ConcatProperties, ZenonT(30)
  <2>2. Len(D) = n
    OBVIOUS
  <2> HIDE DEF u, k, n
  <2> QED
    BY <2>1, <2>2, Zenon
<1>2. Queued(q) \in Seq(Mbufs) /\ Len(Queued(q)) = k /\ \A j \in 1..k : Queued(q)[j] = q[j].m
  BY QueuedFacts
<1>3. k \in Nat /\ n \in Nat
  BY LenProperties
<1>4. /\ v \in Seq(Mbufs) /\ Len(v) = Len(Queued(q)) + n
      /\ \A j \in 1..Len(Queued(q)) + n :
            v[j] = IF j <= Len(Queued(q)) THEN Queued(q)[j] ELSE b[j - Len(Queued(q))]
  BY <1>2, ConcatProperties, Zenon
<1> HIDE DEF u, v, k
<1>5. /\ Len(v) = k + n
      /\ \A j \in 1..k + n : v[j] = IF j <= k THEN Queued(q)[j] ELSE b[j - k]
  BY <1>2, <1>4
<1>6. Queued(u) \in Seq(Mbufs) /\ Len(Queued(u)) = k + n
      /\ \A j \in 1..k + n : Queued(u)[j] = u[j].m
  BY <1>1, QueuedFacts
<1>7. ASSUME NEW j \in 1..k + n
      PROVE  Queued(u)[j] = v[j]
  <2>1. CASE j <= k
    <3>1. j \in 1..k
      BY <1>3, <2>1
    <3>2. u[j] = q[j] /\ v[j] = Queued(q)[j] /\ Queued(u)[j] = u[j].m
      BY <1>1, <1>5, <1>6, <2>1
    <3>3. Queued(q)[j] = q[j].m
      BY <1>2, <3>1
    <3> QED
      BY <3>2, <3>3
  <2>2. CASE ~(j <= k)
    <3>1. j - k \in 1..n
      BY <1>3, <2>2
    <3>2. u[j] = D[j - k] /\ v[j] = b[j - k] /\ Queued(u)[j] = u[j].m
      BY <1>1, <1>5, <1>6, <2>2
    <3>3. D[j - k].m = b[j - k]
      BY <3>1
    <3> QED
      BY <3>2, <3>3
  <2> QED
    BY <2>1, <2>2
<1>8. Queued(u) = v
  BY <1>4, <1>5, <1>6, <1>7, SeqEqual
<1> QED
  BY <1>1, <1>8 DEF u, v

\* The packets a port sent.
LEMMA GotsFacts ==
    ASSUME NEW w \in Seq(Sent)
    PROVE  /\ Gots(w) \in Seq(Packet) /\ Len(Gots(w)) = Len(w)
           /\ \A j \in 1..Len(w) : Gots(w)[j] = w[j].got
<1>1. Len(w) \in Nat /\ DOMAIN w = 1..Len(w) /\ \A j \in 1..Len(w) : w[j] \in Sent
  BY LenProperties, ElementOfSeq
<1>2. \A j \in 1..Len(w) : w[j].got \in Packet
  BY <1>1 DEF Sent
<1>3. Gots(w) = [j \in 1..Len(w) |-> w[j].got]
  BY <1>1 DEF Gots
<1>4. Gots(w) \in Seq(Packet) /\ Len(Gots(w)) = Len(w)
  BY <1>1, <1>2, <1>3, IsASeq, LenProperties
<1> QED
  BY <1>3, <1>4

\* It sends one more.
LEMMA GotsAppend ==
    ASSUME NEW w \in Seq(Sent), NEW e \in Sent
    PROVE  Append(w, e) \in Seq(Sent) /\ Gots(Append(w, e)) = Append(Gots(w), e.got)
<1> DEFINE u == Append(w, e)
           v == Append(Gots(w), e.got)
           n == Len(w)
<1>1. u \in Seq(Sent) /\ Len(u) = n + 1 /\ u[n + 1] = e /\ \A j \in 1..n : u[j] = w[j]
  BY AppendProperties
<1>2. e.got \in Packet /\ n \in Nat
  BY LenProperties DEF Sent
<1>3. Gots(w) \in Seq(Packet) /\ Len(Gots(w)) = n /\ \A j \in 1..n : Gots(w)[j] = w[j].got
  BY GotsFacts
<1>4. /\ v \in Seq(Packet) /\ Len(v) = n + 1 /\ v[n + 1] = e.got
      /\ \A j \in 1..n : v[j] = Gots(w)[j]
  BY <1>2, <1>3, AppendProperties
<1> HIDE DEF u, v, n
<1>5. /\ Gots(u) \in Seq(Packet) /\ Len(Gots(u)) = n + 1
      /\ \A j \in 1..n + 1 : Gots(u)[j] = u[j].got
  BY <1>1, GotsFacts
<1>6. ASSUME NEW j \in 1..n + 1
      PROVE  Gots(u)[j] = v[j]
  <2>1. CASE j = n + 1
    BY <1>1, <1>4, <1>5, <2>1
  <2>2. CASE j # n + 1
    <3>1. j \in 1..n
      BY <1>2, <2>2
    <3> QED
      BY <1>1, <1>3, <1>4, <1>5, <3>1
  <2> QED
    BY <2>1, <2>2
<1>7. Gots(u) = v
  BY <1>4, <1>5, <1>6, SeqEqual
<1> QED
  BY <1>1, <1>7 DEF u, v

\* The lines of the next state, in terms of its variables.
LEMMA NextLines ==
    /\ \A i \in Ports : /\ Outs[i] = (Queued(txq[i]) \o mbuf_tx[i]) \o rings_tx[i]
                        /\ Ins[i] = (Hand(wk, i) \o rings_rx[i]) \o Hand(rx, i)
                        /\ Lines[i] = Gots(wire[i]) \o Of(content, Outs[i])
                        /\ Ups[i] = Of(content, Ins[i])
    /\ \A i \in Ports : /\ Outs'[i] = (Queued(txq'[i]) \o mbuf_tx'[i]) \o rings_tx'[i]
                        /\ Ins'[i] = (Hand(wk', i) \o rings_rx'[i]) \o Hand(rx', i)
                        /\ Lines'[i] = Gots(wire'[i]) \o Of(content', Outs'[i])
                        /\ Ups'[i] = Of(content', Ins'[i])
    /\ Outs = [i \in Ports |-> Outs[i]] /\ Outs' = [i \in Ports |-> Outs'[i]]
    /\ Ins = [i \in Ports |-> Ins[i]] /\ Ins' = [i \in Ports |-> Ins'[i]]
    /\ Lines = [i \in Ports |-> Lines[i]] /\ Lines' = [i \in Ports |-> Lines'[i]]
    /\ Ups = [i \in Ports |-> Ups[i]] /\ Ups' = [i \in Ports |-> Ups'[i]]
<1>1. \A i \in Ports : /\ Outs[i] = (Queued(txq[i]) \o mbuf_tx[i]) \o rings_tx[i]
                       /\ Outs'[i] = (Queued(txq'[i]) \o mbuf_tx'[i]) \o rings_tx'[i]
  BY Zenon DEF Outs, Out, Queued
<1>2. \A i \in Ports : /\ Ins[i] = (Hand(wk, i) \o rings_rx[i]) \o Hand(rx, i)
                       /\ Ins'[i] = (Hand(wk', i) \o rings_rx'[i]) \o Hand(rx', i)
  BY Zenon DEF Ins, In, Hand
<1>3. \A i \in Ports : /\ Lines[i] = Gots(wire[i]) \o Of(content, Outs[i])
                       /\ Lines'[i] = Gots(wire'[i]) \o Of(content', Outs'[i])
  BY DEF Lines, Gots, Of
<1>4. \A i \in Ports : /\ Ups[i] = Of(content, Ins[i])
                       /\ Ups'[i] = Of(content', Ins'[i])
  BY DEF Ups, Of
<1>5. Outs = [i \in Ports |-> Outs[i]] /\ Outs' = [i \in Ports |-> Outs'[i]]
  BY DEF Outs
<1>6. Ins = [i \in Ports |-> Ins[i]] /\ Ins' = [i \in Ports |-> Ins'[i]]
  BY DEF Ins
<1>7. Lines = [i \in Ports |-> Lines[i]] /\ Lines' = [i \in Ports |-> Lines'[i]]
  BY DEF Lines
<1>8. Ups = [i \in Ports |-> Ups[i]] /\ Ups' = [i \in Ports |-> Ups'[i]]
  BY DEF Ups
<1> QED
  BY <1>1, <1>2, <1>3, <1>4, <1>5, <1>6, <1>7, <1>8, Zenon

\* What a step has to show.
LEMMA Build ==
    ASSUME setup' = setup, Typed', Bounded', Held(free', Outs', Ins'),
           Flow(Lines', Ups', arrived'), setup.pipeline_type = "acl" => Macs(Lines')
    PROVE  Forwards'
<1>1. Held(free, Outs, Ins)'
  BY DEF Held, Total, Occurs
<1>2. Flow(Lines, Ups, arrived)'
  BY DEF Flow, Rising
<1>3. (setup.pipeline_type = "acl" => Macs(Lines))'
  BY DEF Macs, MacRight
<1> QED
  BY <1>1, <1>2, <1>3 DEF Forwards

\* A core's hand.
LEMMA HandFacts ==
    ASSUME NEW core \in RxCores, core.pc = "enqueue" => core.m \in Mbufs, NEW a \in Ports
    PROVE  Hand(core, a) \in Seq(Mbufs)
BY DEF Hand

\* The lines are sequences of mbufs, or of packets.
LEMMA LineTypes ==
    ASSUME Typed
    PROVE  /\ free \in Pools /\ content \in Contents /\ arrived \in Nat
           /\ \A i \in Ports : /\ Queued(txq[i]) \in Seq(Mbufs)
                               /\ mbuf_tx[i] \in Seq(Mbufs) /\ rings_tx[i] \in Seq(Mbufs)
                               /\ Hand(wk, i) \in Seq(Mbufs) /\ rings_rx[i] \in Seq(Mbufs)
                               /\ Hand(rx, i) \in Seq(Mbufs)
                               /\ Outs[i] \in Seq(Mbufs) /\ Ins[i] \in Seq(Mbufs)
                               /\ txq[i] \in Seq(Descs) /\ wire[i] \in Seq(Sent)
                               /\ Gots(wire[i]) \in Seq(Packet)
                               /\ Of(content, Outs[i]) \in Seq(Packet)
                               /\ Lines[i] \in Seq(Packet) /\ Ups[i] \in Seq(Packet)
           /\ Outs \in MbufLines /\ Ins \in MbufLines
           /\ Lines \in PacketLines /\ Ups \in PacketLines
<1>1. free \in Pools /\ content \in Contents /\ arrived \in Nat
  BY ConstantsAssumption DEF Typed, Pools, Contents
<1>2. ASSUME NEW i \in Ports
      PROVE  /\ Queued(txq[i]) \in Seq(Mbufs)
             /\ mbuf_tx[i] \in Seq(Mbufs) /\ rings_tx[i] \in Seq(Mbufs)
             /\ Hand(wk, i) \in Seq(Mbufs) /\ rings_rx[i] \in Seq(Mbufs)
             /\ Hand(rx, i) \in Seq(Mbufs)
             /\ Outs[i] \in Seq(Mbufs) /\ Ins[i] \in Seq(Mbufs)
             /\ txq[i] \in Seq(Descs) /\ wire[i] \in Seq(Sent)
             /\ Gots(wire[i]) \in Seq(Packet)
             /\ Of(content, Outs[i]) \in Seq(Packet)
             /\ Lines[i] \in Seq(Packet) /\ Ups[i] \in Seq(Packet)
  <2>1. txq[i] \in Seq(Descs) /\ wire[i] \in Seq(Sent)
        /\ mbuf_tx[i] \in Seq(Mbufs) /\ rings_tx[i] \in Seq(Mbufs) /\ rings_rx[i] \in Seq(Mbufs)
    BY DEF Typed
  <2>2. Queued(txq[i]) \in Seq(Mbufs)
    BY <2>1, QueuedFacts
  <2>3. Hand(wk, i) \in Seq(Mbufs) /\ Hand(rx, i) \in Seq(Mbufs)
    BY HandFacts DEF Typed
  <2>4. Gots(wire[i]) \in Seq(Packet)
    BY <2>1, GotsFacts
  <2>5. (Queued(txq[i]) \o mbuf_tx[i]) \o rings_tx[i] \in Seq(Mbufs)
    BY <2>1, <2>2, ConcatProperties
  <2>6. (Hand(wk, i) \o rings_rx[i]) \o Hand(rx, i) \in Seq(Mbufs)
    BY <2>1, <2>3, ConcatProperties
  <2>7. Outs[i] \in Seq(Mbufs) /\ Ins[i] \in Seq(Mbufs)
    BY <2>5, <2>6, NextLines, Zenon
  <2>8. Of(content, Outs[i]) \in Seq(Packet) /\ Of(content, Ins[i]) \in Seq(Packet)
    BY <1>1, <2>7, OfFacts
  <2>9. Lines[i] = Gots(wire[i]) \o Of(content, Outs[i]) /\ Ups[i] = Of(content, Ins[i])
    BY NextLines, Zenon
  <2>10. Gots(wire[i]) \o Of(content, Outs[i]) \in Seq(Packet)
    BY <2>4, <2>8, ConcatProperties
  <2> QED
    BY <2>1, <2>2, <2>3, <2>4, <2>7, <2>8, <2>9, <2>10
<1>3. Outs \in MbufLines /\ Ins \in MbufLines
  BY <1>2 DEF MbufLines, Outs, Ins
<1>4. Lines \in PacketLines /\ Ups \in PacketLines
  BY <1>2 DEF PacketLines, Lines, Ups
<1> QED
  BY <1>1, <1>2, <1>3, <1>4

\* A step that moves mbufs within their lines only.
LEMMA Kept ==
    ASSUME Forwards, Typed', Bounded', UNCHANGED <<setup, free, content, arrived>>,
           \A i \in Ports : Outs'[i] = Outs[i] /\ Ins'[i] = Ins[i],
           UNCHANGED wire
    PROVE  Forwards'
<1>1. Outs' = Outs /\ Ins' = Ins
  BY NextLines
<1>2. ASSUME NEW i \in Ports
      PROVE  Lines'[i] = Lines[i] /\ Ups'[i] = Ups[i]
  <2>1. /\ Lines[i] = Gots(wire[i]) \o Of(content, Outs[i])
        /\ Lines'[i] = Gots(wire'[i]) \o Of(content', Outs'[i])
        /\ Ups[i] = Of(content, Ins[i]) /\ Ups'[i] = Of(content', Ins'[i])
    BY NextLines, Zenon
  <2> QED
    BY <2>1
<1>3. Lines' = Lines /\ Ups' = Ups
  BY <1>2, NextLines
<1> QED
  BY <1>1, <1>3, Build DEF Forwards
==============================================================================
