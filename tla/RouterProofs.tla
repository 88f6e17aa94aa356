---------------------------- MODULE RouterProofs ----------------------------
(***************************************************************************)
(* The proofs for Router: every step keeps the invariant of RouterLines,   *)
(* and with it mbufs have one owner, packets stay in order and the source  *)
(* MAC is that of the port a packet leaves by.                             *)
(***************************************************************************)
EXTENDS RouterLines

-----------------------------------------------------------------------------
(***************************************************************************)
(* The steps.                                                              *)
(***************************************************************************)

\* The router starts with empty lines.
LEMMA Initially ==
    ASSUME Init
    PROVE  IInv
<1>1. Typed
  <2>1. rx \in RxCores /\ wk \in RxCores /\ tx \in TxCores
        /\ rx.pc # "enqueue" /\ wk.pc # "enqueue"
    BY DEF Init, RxCores, TxCores, Ports
  <2>2. content \in [Mbufs -> Packet]
    BY ConstantsAssumption DEF Init, Packet, NoPacket, Ports, AllDsts
  <2>3. /\ rings_rx \in [Ports -> Seq(Mbufs)] /\ rings_tx \in [Ports -> Seq(Mbufs)]
        /\ mbuf_tx \in [Ports -> Seq(Mbufs)] /\ txq \in [Ports -> Seq(Descs)]
        /\ wire \in [Ports -> Seq(Sent)]
    BY DEF Init
  <2>4. raced \in [{"rx", "tx"} -> {FALSE}] /\ free \in [Mbufs -> Nat] /\ arrived \in 0..MaxPkts
    BY ConstantsAssumption DEF Init
  <2> QED
    BY <2>1, <2>2, <2>3, <2>4, Zenon DEF Typed
<1>2. Bounded
  BY ConstantsAssumption DEF Init, Bounded
<1>3. ASSUME NEW i \in Ports
      PROVE  Outs[i] = <<>> /\ Ins[i] = <<>> /\ Lines[i] = <<>> /\ Ups[i] = <<>>
  <2>1. Queued(txq[i]) = <<>> /\ Gots(wire[i]) = <<>>
    <3>1. txq[i] = <<>> /\ wire[i] = <<>>
      BY DEF Init
    <3> QED
      BY <3>1 DEF Queued, Gots
  <2>2. Hand(wk, i) = <<>> /\ Hand(rx, i) = <<>>
    BY DEF Init, Hand
  <2>3. mbuf_tx[i] = <<>> /\ rings_tx[i] = <<>> /\ rings_rx[i] = <<>>
    BY DEF Init
  <2>4. (<<>> \o <<>>) \o <<>> = <<>>
    OBVIOUS
  <2>5. Outs[i] = <<>> /\ Ins[i] = <<>>
    BY <2>1, <2>2, <2>3, <2>4, NextLines, ZenonT(40)
  <2>6. Of(content, <<>>) = <<>> /\ <<>> \o <<>> = <<>>
    BY DEF Of
  <2>7. Lines[i] = Gots(wire[i]) \o Of(content, Outs[i]) /\ Ups[i] = Of(content, Ins[i])
    BY NextLines, Zenon
  <2> QED
    BY <2>1, <2>5, <2>6, <2>7
<1>4. Held(free, Outs, Ins)
  <2> SUFFICES ASSUME NEW m \in Mbufs
               PROVE  free[m] + Total(m, Outs) + Total(m, Ins) = 1
    BY DEF Held
  <2>1. Total(m, Outs) = 0 /\ Total(m, Ins) = 0
    <3>1. /\ Outs[0] = <<>> /\ Outs[1] = <<>> /\ Ins[0] = <<>> /\ Ins[1] = <<>>
          /\ Occurs(m, <<>>) = 0
      BY <1>3, OccursNone DEF Ports
    <3> QED
      BY <3>1 DEF Total
  <2>2. free[m] = 1
    BY DEF Init
  <2> QED
    BY <2>1, <2>2
<1>5. \A i \in Ports : DOMAIN Lines[i] = {} /\ DOMAIN Ups[i] = {}
  BY <1>3
<1>6. Flow(Lines, Ups, arrived) /\ Macs(Lines)
  BY <1>5 DEF Flow, Macs, Rising
<1> QED
  BY <1>1, <1>2, <1>4, <1>6 DEF IInv, Forwards, Init

\* A loop starts, or goes on with the other port.
LEMMA NextPortFacts ==
    ASSUME NEW core \in RxCores
    PROVE  /\ NextPort(core) \in RxCores /\ NextPort(core).pc = "poll"
           /\ NextPort(core).i = Other(core.i)
           /\ \A a : Hand(NextPort(core), a) = <<>>
<1>1. core.i \in Ports /\ Other(core.i) \in Ports
  BY PortFacts DEF RxCores
<1>2. /\ NextPort(core) \in RxCores /\ NextPort(core).pc = "poll"
      /\ NextPort(core).i = Other(core.i)
  BY <1>1, Zenon DEF NextPort, RxCores
<1> QED
  BY <1>2 DEF Hand

\* Steps that only change what a core does next.
LEMMA IdleKeeps ==
    ASSUME Forwards, UNCHANGED <<setup, rings, mbuf_tx, txq, free, content, log>>,
           rx' \in RxCores, wk' \in RxCores, tx' \in TxCores,
           raced' \in [{"rx", "tx"} -> {FALSE}],
           rx' = rx \/ (rx'.pc # "enqueue" /\ rx.pc # "enqueue"),
           wk' = wk \/ (wk'.pc # "enqueue" /\ wk.pc # "enqueue")
    PROVE  Forwards'
<1>1. /\ rings_rx' = rings_rx /\ rings_tx' = rings_tx
      /\ arrived' = arrived /\ wire' = wire /\ dropped' = dropped
  BY DEF rings, log
<1>2. Typed'
  BY <1>1, Zenon DEF Forwards, Typed
<1>3. Bounded'
  BY DEF Forwards, Bounded
<1>4. ASSUME NEW i \in Ports
      PROVE  Outs'[i] = Outs[i] /\ Ins'[i] = Ins[i]
  <2>1. Hand(rx', i) = Hand(rx, i) /\ Hand(wk', i) = Hand(wk, i)
    BY DEF Hand
  <2>2. /\ Outs[i] = (Queued(txq[i]) \o mbuf_tx[i]) \o rings_tx[i]
        /\ Outs'[i] = (Queued(txq'[i]) \o mbuf_tx'[i]) \o rings_tx'[i]
        /\ Ins[i] = (Hand(wk, i) \o rings_rx[i]) \o Hand(rx, i)
        /\ Ins'[i] = (Hand(wk', i) \o rings_rx'[i]) \o Hand(rx', i)
    BY NextLines, Zenon
  <2> QED
    BY <1>1, <2>1, <2>2
<1> QED
  BY <1>1, <1>2, <1>3, <1>4, Kept

\* The hypervisor lets the workers go.
LEMMA ResumeKeeps ==
    ASSUME Forwards, Resume
    PROVE  Forwards'
BY IdleKeeps, Zenon DEF Resume, Forwards, Typed

\* A loop leaves its parking place.
LEMMA StartKeeps ==
    ASSUME Forwards, Start
    PROVE  Forwards'
<1>1. rx \in RxCores /\ wk \in RxCores /\ tx \in TxCores /\ raced \in [{"rx", "tx"} -> {FALSE}]
  BY Zenon DEF Forwards, Typed
<1>2. \A core \in RxCores : /\ [core EXCEPT !.pc = "poll"] \in RxCores
                            /\ [core EXCEPT !.pc = "poll"].pc # "enqueue"
  BY DEF RxCores
<1>3. [tx EXCEPT !.pc = "poll"] \in TxCores
  BY <1>1 DEF TxCores
<1>4. UNCHANGED <<setup, rings, mbuf_tx, txq, raced, free, content, log>>
  BY DEF Start
<1>5. CASE rx.pc = "parked" /\ rx' = [rx EXCEPT !.pc = "poll"] /\ UNCHANGED <<wk, tx>>
  BY <1>1, <1>2, <1>4, <1>5, IdleKeeps
<1>6. CASE wk.pc = "parked" /\ wk' = [wk EXCEPT !.pc = "poll"] /\ UNCHANGED <<rx, tx>>
  BY <1>1, <1>2, <1>4, <1>6, IdleKeeps
<1>7. CASE tx.pc = "parked" /\ tx' = [tx EXCEPT !.pc = "poll"] /\ UNCHANGED <<rx, wk>>
  BY <1>1, <1>3, <1>4, <1>7, IdleKeeps
<1> QED
  BY <1>5, <1>6, <1>7 DEF Start

\* The receive queue is empty.
LEMMA RxEmptyKeeps ==
    ASSUME Forwards, RxEmpty
    PROVE  Forwards'
<1>1. rx \in RxCores /\ wk \in RxCores /\ tx \in TxCores /\ raced \in [{"rx", "tx"} -> {FALSE}]
  BY Zenon DEF Forwards, Typed
<1>2. rx' \in RxCores /\ rx'.pc # "enqueue" /\ rx.pc # "enqueue"
  BY <1>1, NextPortFacts DEF RxEmpty
<1> QED
  BY <1>1, <1>2, IdleKeeps DEF RxEmpty

\* The TX core enters rte_eth_tx_burst, where the RX core never is.
LEMMA TxEnterKeeps ==
    ASSUME Forwards, TxEnterBurst
    PROVE  Forwards'
<1>1. rx \in RxCores /\ wk \in RxCores /\ tx \in TxCores /\ raced \in [{"rx", "tx"} -> {FALSE}]
  BY Zenon DEF Forwards, Typed
<1>2. tx' \in TxCores
  BY <1>1 DEF TxEnterBurst, TxCores
<1>3. ~(rx.pc = "bursting" /\ rx.i = tx.i)
  BY <1>1 DEF RxCores
<1>4. raced' \in [{"rx", "tx"} -> {FALSE}]
  BY <1>1, <1>3, Zenon DEF TxEnterBurst, EnterBurst
<1> QED
  BY <1>1, <1>2, <1>4, IdleKeeps DEF TxEnterBurst

\* An mbuf is not in a line; two contents differ at most in it.
Spares(s, m) == \A j \in 1..Len(s) : s[j] # m
AgreeBut(c, d, m) == \A x \in Mbufs : x # m => d[x] = c[x]

\* What the mbufs in the lines hold.
LEMMA SameContents ==
    ASSUME Typed, content' \in Contents, NEW O \in MbufLines, NEW i \in Ports,
           NEW m, AgreeBut(content, content', m), Spares(O[i], m)
    PROVE  Of(content', O[i]) = Of(content, O[i])
<1>1. O[i] \in Seq(Mbufs) /\ content \in Contents
  BY LineTypes, TotalFacts, Zenon
<1>2. \A j \in 1..Len(O[i]) : O[i][j] \in Mbufs
  BY <1>1, ElementOfSeq
<1>3. \A j \in 1..Len(O[i]) : content'[O[i][j]] = content[O[i][j]]
  BY <1>2 DEF Spares, AgreeBut
<1> QED
  BY <1>1, <1>3, OfSame

\* A packet is received.
LEMMA RxPacketKeeps ==
    ASSUME Forwards, Forwarding, setup \in Setups, NEW m \in Mbufs, RxPacket(m)
    PROVE  Forwards'
<1> DEFINE a == rx.i
<1>1. /\ Typed /\ Held(free, Outs, Ins) /\ Flow(Lines, Ups, arrived)
      /\ rx \in RxCores /\ wk \in RxCores /\ tx \in TxCores
      /\ a \in Ports /\ rx.pc = "poll" /\ arrived < setup.pkts
      /\ free[m] > 0 /\ free' = [free EXCEPT ![m] = @ - 1] /\ arrived' = arrived + 1
      /\ UNCHANGED <<setup, wk, tx, rings, mbuf_tx, txq, raced, wire>>
  BY Zenon DEF Forwards, Typed, RxCores, RxPacket, Alloc
<1>2. PICK dst \in Dsts :
          /\ content' = [content EXCEPT ![m] =
                            [id |-> arrived + 1, kind |-> "ip", in |-> a,
                             dst |-> dst, smac |-> SenderMac]]
          /\ rx' = [rx EXCEPT !.m = m, !.pc = "enqueue"]
  BY Zenon DEF RxPacket, Forwarding
<1> DEFINE pkt == [id |-> arrived + 1, kind |-> "ip", in |-> a, dst |-> dst, smac |-> SenderMac]
<1>3. arrived \in Nat /\ arrived + 1 \in 0..MaxPkts
  <2>1. setup.pkts \in 0..MaxPkts /\ MaxPkts \in Nat
    BY ConstantsAssumption
  <2> QED
    BY <1>1, <2>1 DEF Typed
<1>4. pkt \in Packet /\ pkt.id = arrived + 1 /\ pkt.in = a
  BY <1>1, <1>3, ConstantsAssumption DEF Packet
<1> HIDE DEF pkt
<1>5. content' \in Contents /\ content'[m] = pkt
      /\ \A x \in Mbufs : x # m => content'[x] = content[x]
  <2>1. content' = [content EXCEPT ![m] = pkt] /\ content \in [Mbufs -> Packet]
    BY <1>1, <1>2 DEF pkt, Typed
  <2> QED
    BY <1>4, <2>1 DEF Contents
<1>6. rx' \in RxCores /\ rx'.pc = "enqueue" /\ rx'.i = a /\ rx'.m = m
  BY <1>1, <1>2, Zenon DEF RxCores
<1>7. /\ free \in Pools /\ Outs \in MbufLines /\ Ins \in MbufLines
      /\ Lines \in PacketLines /\ Ups \in PacketLines
      /\ \A i \in Ports : /\ Hand(wk, i) \in Seq(Mbufs) /\ rings_rx[i] \in Seq(Mbufs)
                          /\ Ins[i] \in Seq(Mbufs)
  BY <1>1, LineTypes
<1>8. /\ free' \in Pools
      /\ Held(free', Outs, [Ins EXCEPT ![a] = Append(@, m)])
      /\ \A p \in Ports : /\ \A j \in 1..Len(Outs[p]) : Outs[p][j] # m
                          /\ \A j \in 1..Len(Ins[p]) : Ins[p][j] # m
  BY <1>1, <1>7, HeldArrive, Zenon
<1>9. /\ rings_rx' = rings_rx /\ rings_tx' = rings_tx
  BY <1>1 DEF rings
<1>10. Typed' /\ Bounded'
  <2>1. content' \in [Mbufs -> Packet] /\ free' \in [Mbufs -> Nat] /\ arrived' \in 0..MaxPkts
    BY <1>1, <1>3, <1>5, <1>8 DEF Contents, Pools
  <2>2. Typed'
    BY <1>1, <1>6, <1>9, <2>1, Zenon DEF Typed
  <2> QED
    BY <1>1, <2>2 DEF Forwards, Bounded
<1>11. ASSUME NEW i \in Ports
       PROVE  /\ Outs'[i] = Outs[i]
              /\ Ins'[i] = IF i = a THEN Append(Ins[i], m) ELSE Ins[i]
  <2>1. /\ Outs[i] = (Queued(txq[i]) \o mbuf_tx[i]) \o rings_tx[i]
        /\ Outs'[i] = (Queued(txq'[i]) \o mbuf_tx'[i]) \o rings_tx'[i]
        /\ Ins[i] = (Hand(wk, i) \o rings_rx[i]) \o Hand(rx, i)
        /\ Ins'[i] = (Hand(wk', i) \o rings_rx'[i]) \o Hand(rx', i)
    BY NextLines, Zenon
  <2>2. Outs'[i] = Outs[i]
    BY <1>1, <1>9, <2>1
  <2>3. Hand(rx, i) = <<>> /\ Hand(rx', i) = IF i = a THEN <<m>> ELSE <<>>
    BY <1>1, <1>6 DEF Hand
  <2> DEFINE s == Hand(wk, i) \o rings_rx[i]
  <2>4. s \in Seq(Mbufs)
    BY <1>7, ConcatProperties
  <2>5. Ins[i] = s \o <<>> /\ Ins'[i] = s \o Hand(rx', i)
    BY <1>1, <1>9, <2>1, <2>3
  <2> HIDE DEF s
  <2>6. s \o <<>> = s /\ s \o <<m>> = Append(s, m)
    BY <2>4, ConcatEmptySeq, AppendIsConcat
  <2> QED
    BY <2>2, <2>3, <2>5, <2>6, Zenon
<1>12. Outs' = Outs /\ Ins' = [Ins EXCEPT ![a] = Append(@, m)]
  <2>1. Outs' = Outs
    BY <1>11, NextLines
  <2>2. Ins' = [i \in Ports |-> IF i = a THEN Append(Ins[i], m) ELSE Ins[i]]
    BY <1>11, NextLines
  <2>3. Ins = [i \in Ports |-> Ins[i]]
    BY NextLines
  <2> QED
    BY <1>1, <2>1, <2>2, <2>3, Zenon
<1>13. ASSUME NEW i \in Ports
       PROVE  /\ Lines'[i] = Lines[i]
              /\ Ups'[i] = IF i = a THEN Append(Ups[i], pkt) ELSE Ups[i]
  <2>1. /\ Lines[i] = Gots(wire[i]) \o Of(content, Outs[i])
        /\ Lines'[i] = Gots(wire'[i]) \o Of(content', Outs'[i])
        /\ Ups[i] = Of(content, Ins[i]) /\ Ups'[i] = Of(content', Ins'[i])
    BY NextLines, Zenon
  <2>2. Of(content', Outs[i]) = Of(content, Outs[i]) /\ Of(content', Ins[i]) = Of(content, Ins[i])
    <3>1. AgreeBut(content, content', m) /\ Spares(Outs[i], m) /\ Spares(Ins[i], m)
      BY <1>5, <1>8 DEF AgreeBut, Spares
    <3> QED
      BY <1>1, <1>5, <1>7, <3>1, SameContents
  <2>3. Of(content', Append(Ins[i], m)) = Append(Of(content', Ins[i]), content'[m])
    BY <1>5, <1>7, OfAppend
  <2> QED
    BY <1>1, <1>5, <1>11, <2>1, <2>2, <2>3, Zenon
<1>14. Lines' = Lines /\ Ups' = [Ups EXCEPT ![a] = Append(@, pkt)]
  <2>1. Lines' = Lines
    BY <1>13, NextLines
  <2>2. Ups' = [i \in Ports |-> IF i = a THEN Append(Ups[i], pkt) ELSE Ups[i]]
    BY <1>13, NextLines
  <2>3. Ups = [i \in Ports |-> Ups[i]]
    BY NextLines
  <2> QED
    BY <1>1, <2>1, <2>2, <2>3, Zenon
<1>15. Flow(Lines', Ups', arrived')
  BY <1>1, <1>3, <1>4, <1>7, <1>14, FlowArrive, Zenon
<1>16. Held(free', Outs', Ins')
  BY <1>8, <1>12
<1> QED
  BY <1>1, <1>10, <1>14, <1>15, <1>16, Build DEF Forwards

\* The RX core passes its mbuf to the ring.
LEMMA RxEnqueueKeeps ==
    ASSUME Forwards, RxEnqueue
    PROVE  Forwards'
<1> DEFINE a == rx.i
<1>1. /\ Typed /\ Bounded /\ rx \in RxCores /\ rx.m \in Mbufs /\ a \in Ports /\ rx.pc = "enqueue"
      /\ rings_rx' = [rings_rx EXCEPT ![a] = Append(@, rx.m)] /\ rx' = NextPort(rx)
      /\ UNCHANGED <<setup, wk, tx, rings_tx, mbuf_tx, txq, raced, free, content, log>>
  BY Zenon DEF Forwards, Typed, RxCores, RxEnqueue
<1>2. arrived' = arrived /\ wire' = wire
  BY <1>1 DEF log
<1>3. rx' \in RxCores /\ rx'.pc # "enqueue" /\ \A i : Hand(rx', i) = <<>>
  BY <1>1, NextPortFacts
<1>4. \A i \in Ports : Hand(wk, i) \in Seq(Mbufs) /\ rings_rx[i] \in Seq(Mbufs)
  BY <1>1, LineTypes
<1>5. /\ Append(rings_rx[a], rx.m) \in Seq(Mbufs) /\ <<rx.m>> \in Seq(Mbufs)
      /\ Append(rings_rx[a], rx.m) = rings_rx[a] \o <<rx.m>>
  <2>1. rings_rx[a] \in Seq(Mbufs) /\ rx.m \in Mbufs
    BY <1>1, <1>4
  <2>2. Append(rings_rx[a], rx.m) = rings_rx[a] \o <<rx.m>>
    BY <2>1, AppendIsConcat
  <2>3. Append(rings_rx[a], rx.m) \in Seq(Mbufs)
    BY <2>1, AppendProperties
  <2> QED
    BY <2>1, <2>2, <2>3
<1>6. Typed' /\ Bounded'
  <2>1. rings_rx' \in [Ports -> Seq(Mbufs)]
    BY <1>1, <1>5 DEF Typed
  <2>2. Typed'
    BY <1>1, <1>2, <1>3, <2>1, Zenon DEF Typed
  <2> QED
    BY <1>1, <2>2 DEF Bounded
<1>7. ASSUME NEW i \in Ports
      PROVE  Outs'[i] = Outs[i] /\ Ins'[i] = Ins[i]
  <2>1. /\ Outs[i] = (Queued(txq[i]) \o mbuf_tx[i]) \o rings_tx[i]
        /\ Outs'[i] = (Queued(txq'[i]) \o mbuf_tx'[i]) \o rings_tx'[i]
        /\ Ins[i] = (Hand(wk, i) \o rings_rx[i]) \o Hand(rx, i)
        /\ Ins'[i] = (Hand(wk', i) \o rings_rx'[i]) \o Hand(rx', i)
    BY NextLines, ZenonT(40)
  <2>2. Outs'[i] = Outs[i]
    BY <1>1, <2>1
  <2>3. CASE i # a
    <3>1. Hand(rx, i) = <<>> /\ rings_rx'[i] = rings_rx[i]
      BY <1>1, <2>3 DEF Hand, Typed
    <3> QED
      BY <1>1, <1>3, <2>1, <2>2, <3>1, Zenon
  <2>4. CASE i = a
    <3> DEFINE h == Hand(wk, i)
               r == rings_rx[i]
    <3>1. Hand(rx, i) = <<rx.m>> /\ rings_rx'[i] = r \o <<rx.m>>
      BY <1>1, <1>5, <2>4 DEF Hand, Typed
    <3>2. Ins[i] = (h \o r) \o <<rx.m>> /\ Ins'[i] = (h \o (r \o <<rx.m>>)) \o <<>>
      BY <1>1, <1>3, <2>1, <3>1, Zenon
    <3>3. h \in Seq(Mbufs) /\ r \in Seq(Mbufs) /\ <<rx.m>> \in Seq(Mbufs)
      BY <1>4, <1>5
    <3> HIDE DEF h, r
    <3>4. (h \o r) \o <<rx.m>> = h \o (r \o <<rx.m>>)
      BY <3>3, ConcatAssociative
    <3>5. h \o (r \o <<rx.m>>) \in Seq(Mbufs)
      BY <3>3, ConcatProperties
    <3>6. (h \o (r \o <<rx.m>>)) \o <<>> = h \o (r \o <<rx.m>>)
      BY <3>5, ConcatEmptySeq
    <3> QED
      BY <2>2, <3>2, <3>4, <3>6
  <2> QED
    BY <2>3, <2>4
<1> QED
  BY <1>1, <1>2, <1>6, <1>7, Kept

\* The worker takes an mbuf from the ring, or goes on.
LEMMA WorkerDequeueKeeps ==
    ASSUME Forwards, WorkerDequeue
    PROVE  Forwards'
<1> DEFINE a == wk.i
           r == rings_rx[a]
<1>1. /\ Typed /\ Bounded /\ rx \in RxCores /\ wk \in RxCores /\ tx \in TxCores
      /\ a \in Ports /\ wk.pc = "poll" /\ raced \in [{"rx", "tx"} -> {FALSE}]
      /\ UNCHANGED <<setup, rx, tx, rings_tx, mbuf_tx, txq, raced, free, content, log>>
  BY Zenon DEF Forwards, Typed, RxCores, WorkerDequeue
<1>2. arrived' = arrived /\ wire' = wire
  BY <1>1 DEF log
<1>3. CASE r = <<>>
  <2>1. wk' = NextPort(wk) /\ UNCHANGED rings_rx
    BY <1>3 DEF WorkerDequeue
  <2>2. wk' \in RxCores /\ wk'.pc # "enqueue" /\ wk.pc # "enqueue"
    BY <1>1, <2>1, NextPortFacts
  <2> QED
    BY <1>1, <2>1, <2>2, IdleKeeps DEF rings
<1>4. CASE r # <<>>
  <2>1. /\ wk' = [wk EXCEPT !.pc = "enqueue", !.m = Head(r)]
        /\ rings_rx' = [rings_rx EXCEPT ![a] = Tail(r)]
    BY <1>4 DEF WorkerDequeue
  <2>2. \A i \in Ports : Hand(rx, i) \in Seq(Mbufs) /\ rings_rx[i] \in Seq(Mbufs)
    BY <1>1, LineTypes
  <2>3. /\ Head(r) \in Mbufs /\ Tail(r) \in Seq(Mbufs)
        /\ <<Head(r)>> \in Seq(Mbufs) /\ r = <<Head(r)>> \o Tail(r)
    BY <1>1, <1>4, <2>2, Split
  <2> DEFINE h == Head(r)
             t == Tail(r)
  <2>4. wk' = [wk EXCEPT !.pc = "enqueue", !.m = h] /\ rings_rx' = [rings_rx EXCEPT ![a] = t]
        /\ h \in Mbufs /\ t \in Seq(Mbufs) /\ <<h>> \in Seq(Mbufs) /\ r = <<h>> \o t
    BY <2>1, <2>3
  <2> HIDE DEF h, t
  <2>5. wk' \in RxCores /\ wk'.m = h /\ wk'.pc = "enqueue" /\ wk'.i = a
    BY <1>1, <2>4, Zenon DEF RxCores
  <2>6. Typed' /\ Bounded'
    <3>1. rings_rx' \in [Ports -> Seq(Mbufs)]
      BY <1>1, <2>4 DEF Typed
    <3>2. Typed'
      BY <1>1, <1>2, <2>4, <2>5, <3>1, Zenon DEF Typed
    <3> QED
      BY <1>1, <3>2 DEF Bounded
  <2>7. ASSUME NEW i \in Ports
        PROVE  Outs'[i] = Outs[i] /\ Ins'[i] = Ins[i]
    <3>1. /\ Outs[i] = (Queued(txq[i]) \o mbuf_tx[i]) \o rings_tx[i]
          /\ Outs'[i] = (Queued(txq'[i]) \o mbuf_tx'[i]) \o rings_tx'[i]
          /\ Ins[i] = (Hand(wk, i) \o rings_rx[i]) \o Hand(rx, i)
          /\ Ins'[i] = (Hand(wk', i) \o rings_rx'[i]) \o Hand(rx', i)
      BY NextLines, Zenon
    <3>2. Outs'[i] = Outs[i]
      BY <1>1, <3>1
    <3>3. Hand(wk, i) = <<>>
      BY <1>1 DEF Hand
    <3>4. CASE i # a
      <4>1. Hand(wk', i) = <<>> /\ rings_rx'[i] = rings_rx[i]
        BY <1>1, <2>4, <2>5, <3>4 DEF Hand, Typed
      <4> QED
        BY <1>1, <3>1, <3>2, <3>3, <4>1
    <3>5. CASE i = a
      <4>1. Hand(wk', i) = <<h>> /\ rings_rx'[i] = t
        BY <1>1, <2>4, <2>5, <3>5 DEF Hand, Typed
      <4>2. <<>> \o r = r
        BY <1>1, <2>2, ConcatEmptySeq
      <4> HIDE DEF r
      <4>3. Ins[i] = r \o Hand(rx, i)
        BY <3>1, <3>3, <3>5, <4>2, Zenon DEF r
      <4>4. Ins'[i] = (<<h>> \o t) \o Hand(rx, i)
        BY <1>1, <3>1, <4>1
      <4> QED
        BY <2>4, <3>2, <4>3, <4>4
    <3> QED
      BY <3>4, <3>5
  <2> QED
    BY <1>1, <1>2, <2>6, <2>7, Kept
<1> QED
  BY <1>3, <1>4

\* The TX core takes an mbuf from the ring, or goes on.
LEMMA TxDequeueKeeps ==
    ASSUME Forwards, TxDequeue
    PROVE  Forwards'
<1> DEFINE a == tx.i
           r == rings_tx[a]
<1>1. /\ Typed /\ Bounded /\ rx \in RxCores /\ wk \in RxCores /\ tx \in TxCores
      /\ a \in Ports /\ tx.pc = "poll" /\ raced \in [{"rx", "tx"} -> {FALSE}]
      /\ UNCHANGED <<setup, rx, wk, rings_rx, txq, raced, free, content, log>>
  BY Zenon DEF Forwards, Typed, TxCores, TxDequeue
<1>2. arrived' = arrived /\ wire' = wire
  BY <1>1 DEF log
<1>3. NextPort(tx) \in TxCores /\ [tx EXCEPT !.pc = "burst"] \in TxCores
  <2>1. Other(a) \in Ports
    BY <1>1, PortFacts
  <2> QED
    BY <1>1, <2>1, Zenon DEF NextPort, TxCores
<1>4. CASE r = <<>>
  <2>1. tx' = NextPort(tx) /\ UNCHANGED <<rings_tx, mbuf_tx>>
    BY <1>4 DEF TxDequeue
  <2> QED
    BY <1>1, <1>3, <2>1, IdleKeeps DEF rings
<1>5. CASE r # <<>>
  <2> DEFINE b == mbuf_tx[a]
             h == Head(r)
             t == Tail(r)
             c == Append(b, h)
  <2>1. /\ mbuf_tx' = [mbuf_tx EXCEPT ![a] = c] /\ rings_tx' = [rings_tx EXCEPT ![a] = t]
        /\ tx' \in TxCores
    BY <1>3, <1>5 DEF TxDequeue
  <2>2. \A i \in Ports : /\ Queued(txq[i]) \in Seq(Mbufs) /\ mbuf_tx[i] \in Seq(Mbufs)
                         /\ rings_tx[i] \in Seq(Mbufs)
    BY <1>1, LineTypes
  <2> DEFINE q == Queued(txq[a])
  <2>3. q \in Seq(Mbufs) /\ b \in Seq(Mbufs) /\ r \in Seq(Mbufs) /\ t \in Seq(Mbufs)
    BY <1>1, <1>5, <2>2, Split
  <2>4. c \in Seq(Mbufs) /\ c \o t = b \o r
    BY <1>5, <2>3, Shift, Zenon
  <2> HIDE DEF r, t, h, c, b, q
  <2>5. (q \o c) \o t = (q \o b) \o r
    <3>1. q \in Seq(Mbufs) /\ c \in Seq(Mbufs) /\ t \in Seq(Mbufs)
      BY <2>3, <2>4
    <3>2. q \in Seq(Mbufs) /\ b \in Seq(Mbufs) /\ r \in Seq(Mbufs)
      BY <2>3
    <3>3. (q \o c) \o t = q \o (c \o t)
      BY <3>1, ConcatAssociative
    <3>4. (q \o b) \o r = q \o (b \o r)
      BY <3>2, ConcatAssociative
    <3> QED
      BY <2>4, <3>3, <3>4, Zenon
  <2>6. Typed' /\ Bounded'
    <3>1. mbuf_tx' \in [Ports -> Seq(Mbufs)] /\ rings_tx' \in [Ports -> Seq(Mbufs)]
      BY <1>1, <2>1, <2>3, <2>4 DEF Typed
    <3>2. Typed'
      BY <1>1, <1>2, <2>1, <3>1, ZenonT(40) DEF Typed
    <3> QED
      BY <1>1, <3>2 DEF Bounded
  <2>7. ASSUME NEW i \in Ports
        PROVE  Outs'[i] = Outs[i] /\ Ins'[i] = Ins[i]
    <3>1. /\ Outs[i] = (Queued(txq[i]) \o mbuf_tx[i]) \o rings_tx[i]
          /\ Outs'[i] = (Queued(txq'[i]) \o mbuf_tx'[i]) \o rings_tx'[i]
          /\ Ins[i] = (Hand(wk, i) \o rings_rx[i]) \o Hand(rx, i)
          /\ Ins'[i] = (Hand(wk', i) \o rings_rx'[i]) \o Hand(rx', i)
      BY NextLines, Zenon
    <3>2. Ins'[i] = Ins[i]
      BY <1>1, <3>1
    <3>3. CASE i # a
      <4>1. mbuf_tx'[i] = mbuf_tx[i] /\ rings_tx'[i] = rings_tx[i]
        BY <1>1, <2>1, <3>3 DEF Typed
      <4> QED
        BY <1>1, <3>1, <3>2, <4>1, Zenon
    <3>4. CASE i = a
      <4>1. mbuf_tx'[i] = c /\ rings_tx'[i] = t /\ mbuf_tx[i] = b /\ rings_tx[i] = r
            /\ Queued(txq[i]) = q /\ Queued(txq'[i]) = q
        BY <1>1, <2>1, <3>4 DEF Typed, b, r, q
      <4> QED
        BY <2>5, <3>1, <3>2, <4>1
    <3> QED
      BY <3>3, <3>4
  <2> QED
    BY <1>1, <1>2, <2>6, <2>7, Kept
<1> QED
  BY <1>4, <1>5

-----------------------------------------------------------------------------
(***************************************************************************)
(* The worker passes an mbuf on.                                           *)
(***************************************************************************)

\* A sequence with one more element at its head.
LEMMA Cons ==
    ASSUME NEW S, NEW m \in S, NEW s \in Seq(S)
    PROVE  /\ <<m>> \in Seq(S) /\ <<m>> \o s \in Seq(S) /\ <<m>> \o s # <<>>
           /\ Head(<<m>> \o s) = m /\ Tail(<<m>> \o s) = s
<1> DEFINE u == <<m>> \o s
<1>1. <<m>> \in Seq(S) /\ Len(<<m>>) = 1 /\ <<m>>[1] = m
  OBVIOUS
<1>2. Len(s) \in Nat
  BY LenProperties
<1>3. u \in Seq(S) /\ Len(u) = 1 + Len(s) /\ u[1] = m
  BY <1>1, <1>2, ConcatProperties
<1>4. u # <<>>
  BY <1>2, <1>3, EmptySeq
<1> HIDE DEF u
<1>5. Head(u) = u[1] /\ Tail(u) \in Seq(S) /\ u = <<Head(u)>> \o Tail(u)
  BY <1>3, <1>4, Split
<1>6. <<m>> \o Tail(u) = <<m>> \o s
  BY <1>3, <1>5 DEF u
<1>7. Tail(u) = s
  BY <1>1, <1>5, <1>6, ConcatSimplifications, Zenon
<1> QED
  BY <1>1, <1>3, <1>4, <1>5, <1>7 DEF u

\* An element appended behind two sequences.
LEMMA AppendBehind ==
    ASSUME NEW S, NEW m \in S, NEW s \in Seq(S), NEW t \in Seq(S)
    PROVE  s \o Append(t, m) = Append(s \o t, m)
<1>1. <<m>> \in Seq(S) /\ s \o t \in Seq(S)
  BY ConcatProperties
<1>2. Append(t, m) = t \o <<m>> /\ Append(s \o t, m) = (s \o t) \o <<m>>
  BY <1>1, AppendIsConcat
<1>3. (s \o t) \o <<m>> = s \o (t \o <<m>>)
  BY <1>1, ConcatAssociative
<1> QED
  BY <1>2, <1>3

\* The mbuf in the worker's hand is the first of its line.
LEMMA WorkerHands ==
    ASSUME Typed, wk.pc = "enqueue", wk' = NextPort(wk), rx' = rx, rings_rx' = rings_rx
    PROVE  /\ wk.i \in Ports /\ wk.m \in Mbufs /\ wk' \in RxCores /\ wk'.pc # "enqueue"
           /\ Ins[wk.i] # <<>> /\ Head(Ins[wk.i]) = wk.m
           /\ Ins' = [Ins EXCEPT ![wk.i] = Tail(@)]
<1> DEFINE a == wk.i
<1>1. wk \in RxCores /\ a \in Ports /\ wk.m \in Mbufs
  BY DEF Typed, RxCores
<1>2. wk' \in RxCores /\ wk'.pc # "enqueue" /\ \A i : Hand(wk', i) = <<>>
  BY <1>1, NextPortFacts
<1>3. \A i \in Ports : /\ Hand(rx, i) \in Seq(Mbufs) /\ rings_rx[i] \in Seq(Mbufs)
                       /\ Ins[i] = (Hand(wk, i) \o rings_rx[i]) \o Hand(rx, i)
                       /\ Ins'[i] = (Hand(wk', i) \o rings_rx'[i]) \o Hand(rx', i)
  BY LineTypes, NextLines, Zenon
<1>4. ASSUME NEW i \in Ports, i # a
      PROVE  Ins'[i] = Ins[i]
  <2>1. Hand(wk, i) = <<>>
    BY <1>1, <1>4 DEF Hand
  <2> QED
    BY <1>2, <1>3, <1>4, <2>1, Zenon
<1>5. Ins[a] # <<>> /\ Head(Ins[a]) = wk.m /\ Ins'[a] = Tail(Ins[a])
  <2> DEFINE r == rings_rx[a]
             x == Hand(rx, a)
             m == wk.m
  <2>1. Hand(wk, a) = <<m>>
    BY <1>1 DEF Hand
  <2>2. Ins[a] = (<<m>> \o r) \o x /\ Ins'[a] = (<<>> \o r) \o x
    BY <1>1, <1>2, <1>3, <2>1, Zenon
  <2>3. r \in Seq(Mbufs) /\ x \in Seq(Mbufs) /\ m \in Mbufs
    BY <1>1, <1>3
  <2> HIDE DEF r, x, m
  <2>4. <<>> \o r = r
    BY <2>3, ConcatEmptySeq
  <2>5. r \o x \in Seq(Mbufs) /\ <<m>> \in Seq(Mbufs)
    BY <2>3, ConcatProperties
  <2>6. (<<m>> \o r) \o x = <<m>> \o (r \o x)
    BY <2>3, <2>5, ConcatAssociative
  <2> DEFINE t == r \o x
  <2>7. Ins[a] = <<m>> \o t /\ Ins'[a] = t /\ t \in Seq(Mbufs)
    BY <2>2, <2>4, <2>5, <2>6
  <2> HIDE DEF t
  <2>8. <<m>> \o t # <<>> /\ Head(<<m>> \o t) = m /\ Tail(<<m>> \o t) = t
    BY <2>3, <2>7, Cons
  <2> QED
    BY <2>7, <2>8 DEF m
<1>6. Ins' = [i \in Ports |-> Ins'[i]] /\ Ins = [i \in Ports |-> Ins[i]]
  BY NextLines
<1>7. Ins' = [Ins EXCEPT ![a] = Tail(Ins[a])]
  BY <1>1, <1>4, <1>5, <1>6
<1> QED
  BY <1>1, <1>2, <1>5, <1>7

\* An mbuf appended to a ring of the TX core is appended to the port's line.
LEMMA OutsAppend ==
    ASSUME Typed, NEW o \in Ports, NEW m \in Mbufs, UNCHANGED <<mbuf_tx, txq>>,
           rings_tx' = [rings_tx EXCEPT ![o] = Append(@, m)]
    PROVE  /\ Outs' = [Outs EXCEPT ![o] = Append(@, m)]
           /\ rings_tx' \in [Ports -> Seq(Mbufs)]
<1>1. \A i \in Ports : /\ Queued(txq[i]) \in Seq(Mbufs) /\ mbuf_tx[i] \in Seq(Mbufs)
                       /\ rings_tx[i] \in Seq(Mbufs)
                       /\ Outs[i] = (Queued(txq[i]) \o mbuf_tx[i]) \o rings_tx[i]
                       /\ Outs'[i] = (Queued(txq'[i]) \o mbuf_tx'[i]) \o rings_tx'[i]
  BY LineTypes, NextLines, Zenon
<1>2. rings_tx \in [Ports -> Seq(Mbufs)]
  BY DEF Typed
<1>3. ASSUME NEW i \in Ports, i # o
      PROVE  Outs'[i] = Outs[i]
  BY <1>1, <1>2, <1>3, Zenon
<1>4. Outs'[o] = Append(Outs[o], m)
  <2> DEFINE r == rings_tx[o]
             s == Queued(txq[o]) \o mbuf_tx[o]
  <2>1. s \in Seq(Mbufs) /\ r \in Seq(Mbufs)
    BY <1>1, ConcatProperties, Zenon
  <2>2. rings_tx'[o] = Append(r, m)
    BY <1>2
  <2>3. Outs[o] = s \o r /\ Outs'[o] = s \o Append(r, m)
    BY <1>1, <2>2, Zenon
  <2> HIDE DEF r, s
  <2>4. s \o Append(r, m) = Append(s \o r, m)
    BY <2>1, AppendBehind
  <2> QED
    BY <2>3, <2>4
<1>5. Outs' = [i \in Ports |-> Outs'[i]] /\ Outs = [i \in Ports |-> Outs[i]]
  BY NextLines
<1>6. Outs' = [Outs EXCEPT ![o] = Append(Outs[o], m)]
  BY <1>3, <1>4, <1>5
<1>7. Append(rings_tx[o], m) \in Seq(Mbufs)
  BY <1>1, AppendProperties, Zenon
<1> QED
  BY <1>2, <1>6, <1>7

\* The worker puts the mbuf into a ring of the TX core, with a content that keeps
\* the packet's number and port.
LEMMA ForwardKeeps ==
    ASSUME Forwards, NEW pkt \in Packet, NEW o \in Ports, wk.pc = "enqueue",
           wk' = NextPort(wk), rings_tx' = [rings_tx EXCEPT ![o] = Append(@, wk.m)],
           content' = [content EXCEPT ![wk.m] = pkt],
           pkt.id = content[wk.m].id, pkt.in = content[wk.m].in,
           setup.pipeline_type = "acl" => MacRight(pkt, o),
           UNCHANGED <<setup, rx, tx, rings_rx, mbuf_tx, txq, raced, free, arrived, wire>>
    PROVE  Forwards'
<1> DEFINE a == wk.i
           m == wk.m
           N == [Ins EXCEPT ![a] = Tail(@)]
<1>1. Typed /\ Bounded /\ Held(free, Outs, Ins) /\ Flow(Lines, Ups, arrived)
      /\ (setup.pipeline_type = "acl" => Macs(Lines))
  BY DEF Forwards
<1>2. /\ a \in Ports /\ m \in Mbufs /\ wk' \in RxCores /\ wk'.pc # "enqueue"
      /\ Ins[a] # <<>> /\ Head(Ins[a]) = m /\ Ins' = N
  BY <1>1, WorkerHands
<1>3. Outs' = [Outs EXCEPT ![o] = Append(@, m)] /\ rings_tx' \in [Ports -> Seq(Mbufs)]
  BY <1>1, <1>2, OutsAppend, ZenonT(40)
<1>4. /\ free \in Pools /\ content \in Contents /\ arrived \in Nat
      /\ Outs \in MbufLines /\ Ins \in MbufLines
      /\ Lines \in PacketLines /\ Ups \in PacketLines
      /\ \A i \in Ports : /\ Outs[i] \in Seq(Mbufs) /\ Ins[i] \in Seq(Mbufs)
                          /\ Gots(wire[i]) \in Seq(Packet)
  BY <1>1, LineTypes, ZenonT(40)
<1>5. /\ Held(free, [Outs EXCEPT ![o] = Append(@, m)], N) /\ N \in MbufLines
      /\ \A p \in Ports : /\ \A j \in 1..Len(Outs[p]) : Outs[p][j] # m
                          /\ \A j \in 1..Len(N[p]) : N[p][j] # m
  <2> DEFINE h == Head(Ins[a])
  <2>1. /\ Held(free, [Outs EXCEPT ![o] = Append(@, h)], N)
        /\ \A p \in Ports : /\ \A j \in 1..Len(Outs[p]) : Outs[p][j] # h
                            /\ \A j \in 1..Len(N[p]) : N[p][j] # h
    BY <1>1, <1>2, <1>4, HeldForward, Zenon
  <2>2. N \in MbufLines
    BY <1>2, <1>4, Shorter, Zenon
  <2>3. h = m
    BY <1>2
  <2> HIDE DEF N, h
  <2> QED
    BY <2>1, <2>2, <2>3
<1> HIDE DEF N
<1>6. content' \in Contents /\ content'[m] = pkt
      /\ \A x \in Mbufs : x # m => content'[x] = content[x]
  BY <1>2, <1>4 DEF Contents
<1>7. Typed' /\ Bounded'
  <2>1. Typed'
    BY <1>1, <1>2, <1>3, <1>6, ZenonT(40) DEF Typed, Contents
  <2> QED
    BY <1>1, <2>1 DEF Bounded
<1>8. ASSUME NEW i \in Ports
      PROVE  Lines'[i] = IF i = o THEN Append(Lines[i], pkt) ELSE Lines[i]
  <2>1. /\ Lines[i] = Gots(wire[i]) \o Of(content, Outs[i])
        /\ Lines'[i] = Gots(wire[i]) \o Of(content', Outs'[i])
    BY NextLines, ZenonT(40)
  <2>2. Of(content', Outs[i]) = Of(content, Outs[i])
    <3>1. AgreeBut(content, content', m) /\ Spares(Outs[i], m)
      BY <1>5, <1>6, Zenon DEF AgreeBut, Spares
    <3> QED
      BY <1>1, <1>4, <1>6, <3>1, SameContents, ZenonT(40)
  <2>3. CASE i = o
    <3> DEFINE s == Of(content, Outs[i])
               g == Gots(wire[i])
    <3>1. Outs'[i] = Append(Outs[i], m)
      BY <1>3, <1>4, <2>3 DEF MbufLines
    <3>2. Of(content', Append(Outs[i], m)) = Append(Of(content', Outs[i]), content'[m])
      BY <1>2, <1>4, <1>6, OfAppend, ZenonT(40)
    <3>3. s \in Seq(Packet) /\ g \in Seq(Packet)
      BY <1>4, OfFacts
    <3>4. Lines[i] = g \o s /\ Lines'[i] = g \o Append(s, pkt)
      BY <1>6, <2>1, <2>2, <3>1, <3>2, Zenon
    <3> HIDE DEF s, g
    <3>5. g \o Append(s, pkt) = Append(g \o s, pkt)
      BY <3>3, AppendBehind
    <3> QED
      BY <2>3, <3>4, <3>5, Zenon
  <2>4. CASE i # o
    <3>1. Outs'[i] = Outs[i]
      BY <1>3, <1>4, <2>4 DEF MbufLines
    <3> QED
      BY <2>1, <2>2, <2>4, <3>1, ZenonT(40)
  <2> QED
    BY <2>3, <2>4
<1>9. ASSUME NEW i \in Ports
      PROVE  Ups'[i] = IF i = a THEN Tail(Ups[i]) ELSE Ups[i]
  <2>1. Ups[i] = Of(content, Ins[i]) /\ Ups'[i] = Of(content', N[i])
    BY <1>2, NextLines, Zenon
  <2>2. Of(content', N[i]) = Of(content, N[i])
    <3>1. AgreeBut(content, content', m) /\ Spares(N[i], m) /\ N \in MbufLines
      BY <1>5, <1>6, Zenon DEF AgreeBut, Spares
    <3> QED
      BY <1>1, <1>6, <3>1, SameContents, ZenonT(40)
  <2>3. CASE i = a
    <3>1. N[i] = Tail(Ins[i]) /\ Ins[i] # <<>>
      BY <1>2, <1>4, <2>3 DEF MbufLines, N
    <3>2. Of(content, Tail(Ins[i])) = Tail(Of(content, Ins[i]))
      BY <1>4, <3>1, OfTail
    <3> QED
      BY <2>1, <2>2, <2>3, <3>1, <3>2, ZenonT(40)
  <2>4. CASE i # a
    <3>1. N[i] = Ins[i]
      BY <1>2, <1>4, <2>4 DEF MbufLines, N
    <3> QED
      BY <2>1, <2>2, <2>4, <3>1
  <2> QED
    BY <2>3, <2>4
<1>10. Lines' = [Lines EXCEPT ![o] = Append(@, pkt)] /\ Ups' = [Ups EXCEPT ![a] = Tail(@)]
  <2>1. Lines = [i \in Ports |-> Lines[i]] /\ Ups = [i \in Ports |-> Ups[i]]
    BY NextLines, Zenon
  <2>2. Lines' = [i \in Ports |-> Lines'[i]] /\ Ups' = [i \in Ports |-> Ups'[i]]
    BY NextLines, Zenon
  <2>3. Lines' = [Lines EXCEPT ![o] = Append(Lines[o], pkt)]
    BY <1>8, <2>1, <2>2
  <2>4. Ups' = [Ups EXCEPT ![a] = Tail(Ups[a])]
    BY <1>2, <1>9, <2>1, <2>2, ZenonT(40)
  <2> QED
    BY <2>3, <2>4
<1>11. Ups[a] # <<>> /\ Head(Ups[a]) = content[m]
  <2>1. Ups[a] = Of(content, Ins[a])
    BY <1>2, NextLines, Zenon
  <2> QED
    BY <1>2, <1>4, <2>1, OfTail, Zenon
<1>12. /\ Flow([Lines EXCEPT ![o] = Append(@, pkt)], [Ups EXCEPT ![a] = Tail(@)], arrived)
       /\ Macs(Lines) /\ MacRight(pkt, o) => Macs([Lines EXCEPT ![o] = Append(@, pkt)])
  <2>1. pkt.id = Head(Ups[a]).id /\ pkt.in = Head(Ups[a]).in
    BY <1>11, ZenonT(40)
  <2> QED
    BY <1>1, <1>2, <1>4, <1>11, <2>1, FlowForward, Zenon
<1>13. Held(free', Outs', Ins') /\ Flow(Lines', Ups', arrived')
       /\ (setup.pipeline_type = "acl" => Macs(Lines'))
  BY <1>1, <1>2, <1>3, <1>5, <1>10, <1>12, Zenon
<1> QED
  BY <1>7, <1>13, Build

\* Without a pipeline the worker leaves the packet as it is.
LEMMA WorkerForwardKeeps ==
    ASSUME Forwards, WorkerForward
    PROVE  Forwards'
<1>1. /\ Typed /\ wk.i \in Ports /\ wk.m \in Mbufs /\ Other(wk.i) \in Ports
      /\ content \in Contents
  <2>1. Typed /\ wk \in RxCores /\ wk.pc = "enqueue"
    BY Zenon DEF Forwards, Typed, WorkerForward
  <2>2. wk.i \in Ports /\ wk.m \in Mbufs
    BY <2>1 DEF Typed, RxCores
  <2> QED
    BY <2>1, <2>2, PortFacts, LineTypes
<1> DEFINE pkt == content[wk.m]
<1>2. pkt \in Packet /\ content' = [content EXCEPT ![wk.m] = pkt]
  BY <1>1 DEF Contents, WorkerForward
<1>3. /\ wk.pc = "enqueue" /\ wk' = NextPort(wk) /\ setup.pipeline_type # "acl"
      /\ rings_tx' = [rings_tx EXCEPT ![Other(wk.i)] = Append(@, wk.m)]
      /\ UNCHANGED <<setup, rx, tx, rings_rx, mbuf_tx, txq, raced, free, arrived, wire>>
  BY DEF WorkerForward, log
<1> QED
  BY <1>1, <1>2, <1>3, ForwardKeeps, ZenonT(40)

\* The MAC that the worker writes is that of the port the packet leaves by, when
\* that is not the one it came in by.
LEMMA UpdatedMac ==
    ASSUME NEW p \in Packet, NEW o \in Ports
    PROVE  /\ UpdateMac(p) \in Packet /\ MacRight(UpdateMac(p), o)
           /\ UpdateMac(p).id = p.id /\ UpdateMac(p).in = p.in
<1>1. p.in \in Ports /\ Other(p.in) \in Ports /\ (o # p.in => o = Other(p.in))
  BY PortFacts DEF Packet
<1>2. CASE p.dst \in {"host3", "host4"}
  <2>1. UpdateMac(p) = [p EXCEPT !.smac = Other(p.in)]
    BY <1>2 DEF UpdateMac
  <2>2. /\ UpdateMac(p) \in Packet /\ UpdateMac(p).id = p.id /\ UpdateMac(p).in = p.in
        /\ UpdateMac(p).smac = Other(p.in)
    BY <1>1, <2>1 DEF Packet
  <2> QED
    BY <1>1, <2>2 DEF MacRight
<1>3. CASE ~(p.dst \in {"host3", "host4"})
  BY <1>3 DEF UpdateMac, MacRight
<1> QED
  BY <1>2, <1>3

\* The worker frees the mbuf in its hand.
LEMMA DropKeeps ==
    ASSUME Forwards, wk.pc = "enqueue", wk' = NextPort(wk),
           free' = [free EXCEPT ![wk.m] = @ + 1],
           UNCHANGED <<setup, rx, tx, rings_rx, rings_tx, mbuf_tx, txq, raced, content,
                       arrived, wire>>
    PROVE  Forwards'
<1> DEFINE a == wk.i
           m == wk.m
<1>1. Typed /\ Bounded /\ Held(free, Outs, Ins) /\ Flow(Lines, Ups, arrived)
      /\ (setup.pipeline_type = "acl" => Macs(Lines))
  BY DEF Forwards
<1>2. /\ a \in Ports /\ m \in Mbufs /\ wk' \in RxCores /\ wk'.pc # "enqueue"
      /\ Ins[a] # <<>> /\ Head(Ins[a]) = m /\ Ins' = [Ins EXCEPT ![a] = Tail(@)]
  BY <1>1, WorkerHands
<1>3. /\ free \in Pools /\ content \in Contents /\ arrived \in Nat
      /\ Outs \in MbufLines /\ Ins \in MbufLines
      /\ Lines \in PacketLines /\ Ups \in PacketLines
      /\ \A i \in Ports : Ins[i] \in Seq(Mbufs)
  BY <1>1, LineTypes, Zenon
<1>4. free' \in Pools /\ Held(free', Outs, Ins')
  <2> DEFINE G == [free EXCEPT ![Head(Ins[a])] = @ + 1]
             I == [Ins EXCEPT ![a] = Tail(@)]
  <2>1. G \in Pools /\ Held(G, Outs, I)
    BY <1>1, <1>2, <1>3, HeldRelease, Zenon
  <2>2. free' = G /\ Ins' = I
    BY <1>2, ZenonT(40)
  <2> HIDE DEF G, I
  <2> QED
    BY <2>1, <2>2, Zenon
<1>5. Typed' /\ Bounded'
  <2>1. Typed'
    BY <1>1, <1>2, <1>4, Zenon DEF Typed, Pools
  <2> QED
    BY <1>1, <2>1 DEF Bounded
<1>6. Outs' = Outs /\ Lines' = Lines
  <2>1. Outs' = Outs
    BY Zenon DEF Outs, Out
  <2> QED
    BY <2>1 DEF Lines
<1>7. Ups' = [Ups EXCEPT ![a] = Tail(@)]
  <2>1. ASSUME NEW i \in Ports
        PROVE  Ups'[i] = IF i = a THEN Tail(Ups[i]) ELSE Ups[i]
    <3>1. Ups[i] = Of(content, Ins[i]) /\ Ups'[i] = Of(content, Ins'[i])
      BY NextLines, Zenon
    <3>2. CASE i = a
      <4>1. Ins'[i] = Tail(Ins[i]) /\ Ins[i] # <<>>
        BY <1>2, <1>3, <3>2 DEF MbufLines
      <4>2. Of(content, Tail(Ins[i])) = Tail(Of(content, Ins[i]))
        BY <1>3, <4>1, OfTail
      <4> QED
        BY <3>1, <3>2, <4>1, <4>2, Zenon
    <3>3. CASE i # a
      <4>1. Ins'[i] = Ins[i]
        BY <1>2, <1>3, <3>3 DEF MbufLines
      <4> QED
        BY <3>1, <3>3, <4>1
    <3> QED
      BY <3>2, <3>3
  <2>2. Ups = [i \in Ports |-> Ups[i]] /\ Ups' = [i \in Ports |-> Ups'[i]]
    BY NextLines, Zenon
  <2>3. Ups' = [Ups EXCEPT ![a] = Tail(Ups[a])]
    BY <1>2, <2>1, <2>2, Zenon
  <2> QED
    BY <2>3
<1>8. Ups[a] # <<>>
  <2>1. Ups[a] = Of(content, Ins[a])
    BY <1>2, NextLines, Zenon
  <2> QED
    BY <1>2, <1>3, <2>1, OfTail, Zenon
<1>9. Flow(Lines', Ups', arrived')
  <2>1. Flow(Lines, [Ups EXCEPT ![a] = Tail(@)], arrived)
    BY <1>1, <1>2, <1>3, <1>8, FlowLose, ZenonT(40)
  <2> QED
    BY <1>6, <1>7, <2>1, Zenon
<1> QED
  BY <1>1, <1>4, <1>5, <1>6, <1>7, <1>9, Build, Zenon

\* The ACL pipeline routes the packet or drops it.
LEMMA WorkerRouteKeeps ==
    ASSUME Forwards, WorkerRoute
    PROVE  Forwards'
<1> DEFINE pkt == content[wk.m]
           o == Route(pkt.dst)
<1>1. /\ wk.pc = "enqueue" /\ wk' = NextPort(wk)
      /\ UNCHANGED <<setup, rx, tx, rings_rx, mbuf_tx, txq, raced, arrived, wire>>
  BY ZenonT(40) DEF WorkerRoute
<1>2. wk.m \in Mbufs /\ content \in Contents /\ pkt \in Packet
  BY <1>1, LineTypes, Zenon DEF Forwards, Typed, Contents
<1>3. CASE /\ o # Dropped /\ content' = [content EXCEPT ![wk.m] = UpdateMac(pkt)]
           /\ rings_tx' = [rings_tx EXCEPT ![o] = Append(@, wk.m)] /\ free' = free
  <2>1. o \in Ports
    BY <1>3, Zenon DEF Route, Ports
  <2> HIDE DEF o
  <2>2. /\ UpdateMac(pkt) \in Packet /\ MacRight(UpdateMac(pkt), o)
        /\ UpdateMac(pkt).id = pkt.id /\ UpdateMac(pkt).in = pkt.in
    BY <1>2, <2>1, UpdatedMac
  <2> QED
    BY <1>1, <1>3, <2>1, <2>2, ForwardKeeps, ZenonT(40)
<1>4. CASE free' = [free EXCEPT ![wk.m] = @ + 1] /\ content' = content /\ rings_tx' = rings_tx
  BY <1>1, <1>4, DropKeeps
<1> QED
  BY <1>3, <1>4, Zenon DEF WorkerRoute, Free

\* A piece taken out of the middle of a line.
LEMMA CountThin ==
    ASSUME NEW A \in Seq(Mbufs), NEW d \in Seq(Mbufs), NEW r \in Seq(Mbufs)
    PROVE  Parts((A \o d) \o r, A \o r, d)
<1> SUFFICES ASSUME NEW x \in Mbufs
             PROVE  Occurs(x, (A \o d) \o r) = Occurs(x, A \o r) + Occurs(x, d)
  BY DEF Parts
<1>1. A \o d \in Seq(Mbufs)
  BY ConcatProperties
<1>2. Occurs(x, A \o d) = Occurs(x, A) + Occurs(x, d)
  BY OccursConcat
<1>3. Occurs(x, A \o r) = Occurs(x, A) + Occurs(x, r)
  BY OccursConcat
<1>4. Occurs(x, (A \o d) \o r) = Occurs(x, A \o d) + Occurs(x, r)
  BY <1>1, OccursConcat, Zenon
<1>5. Occurs(x, A) \in Nat /\ Occurs(x, d) \in Nat /\ Occurs(x, r) \in Nat
  BY Places, Zenon
<1> QED
  BY <1>2, <1>3, <1>4, <1>5

\* The parts of a line may be put together in any order.
LEMMA Associative ==
    /\ \A s, t, u \in Seq(Packet) : (s \o t) \o u = s \o (t \o u)
    /\ \A s, t, u \in Seq(Mbufs) : (s \o t) \o u = s \o (t \o u)
<1>1. ASSUME NEW s \in Seq(Packet), NEW t \in Seq(Packet), NEW u \in Seq(Packet)
      PROVE  (s \o t) \o u = s \o (t \o u)
  BY ConcatAssociative
<1>2. ASSUME NEW s \in Seq(Mbufs), NEW t \in Seq(Mbufs), NEW u \in Seq(Mbufs)
      PROVE  (s \o t) \o u = s \o (t \o u)
  BY ConcatAssociative
<1> QED
  BY <1>1, <1>2, Zenon

\* Its packets are those of the line without those of the piece.
LEMMA LineThin ==
    ASSUME NEW c \in Contents, NEW G \in Seq(Packet),
           NEW A \in Seq(Mbufs), NEW d \in Seq(Mbufs), NEW r \in Seq(Mbufs)
    PROVE  /\ G \o Of(c, A \o r) \in Seq(Packet)
           /\ Within(G \o Of(c, A \o r), G \o Of(c, (A \o d) \o r))
<1> DEFINE PA == Of(c, A)
           PD == Of(c, d)
           PR == Of(c, r)
<1>1. PA \in Seq(Packet) /\ PD \in Seq(Packet) /\ PR \in Seq(Packet)
  BY OfFacts
<1>2. A \o d \in Seq(Mbufs)
  BY ConcatProperties
<1>3. Of(c, A \o r) = PA \o PR
  BY OfConcat
<1>4. Of(c, A \o d) = PA \o PD
  BY OfConcat
<1>5. Of(c, (A \o d) \o r) = (PA \o PD) \o PR
  <2> DEFINE X == A \o d
  <2> HIDE DEF X
  <2>1. Of(c, X \o r) = Of(c, X) \o PR
    BY <1>2, OfConcat, Zenon DEF X
  <2> QED
    BY <1>4, <2>1, Zenon DEF X
<1> HIDE DEF PA, PD, PR
<1>6. G \o PA \in Seq(Packet)
  BY <1>1, ConcatProperties
<1>7. \A s, t, u \in Seq(Packet) : (s \o t) \o u = s \o (t \o u)
  BY Associative, Zenon
<1>8. G \o (PA \o PR) = (G \o PA) \o PR
  BY <1>1, <1>7, Zenon
<1>9. G \o ((PA \o PD) \o PR) = ((G \o PA) \o PD) \o PR
  <2> DEFINE Y == PA \o PD
  <2>1. Y \in Seq(Packet)
    BY <1>1, ConcatProperties
  <2>2. (G \o PA) \o PD = G \o Y
    BY <1>1, <1>7, Zenon
  <2> HIDE DEF Y
  <2>3. G \o (Y \o PR) = (G \o Y) \o PR
    BY <1>1, <1>7, <2>1, Zenon
  <2>4. G \o (Y \o PR) = ((G \o PA) \o PD) \o PR
    BY <2>2, <2>3, Zenon
  <2> QED
    BY <2>4 DEF Y
<1>10. /\ (G \o PA) \o PR \in Seq(Packet)
       /\ Within((G \o PA) \o PR, ((G \o PA) \o PD) \o PR)
  BY <1>1, <1>6, ThinWithin, Zenon
<1> QED
  BY <1>3, <1>5, <1>8, <1>9, <1>10, Zenon

\* What fits into the transmit queue.
LEMMA FitFacts ==
    ASSUME Typed, Bounded, NEW i \in Ports
    PROVE  \E n \in 0..Len(mbuf_tx[i]) :
              /\ Fits(i, mbuf_tx[i]) = SubSeq(mbuf_tx[i], 1, n)
              /\ Len(txq[i]) + n <= TxDescs
<1> DEFINE b == mbuf_tx[i]
           k == Len(txq[i])
           n == IF Len(b) <= TxDescs - k THEN Len(b) ELSE TxDescs - k
<1>1. b \in Seq(Mbufs) /\ txq[i] \in Seq(Descs)
  BY DEF Typed
<1>2. Len(b) \in Nat /\ k \in Nat /\ k <= TxDescs /\ TxDescs \in Nat
  BY <1>1, LenProperties, ConstantsAssumption DEF Bounded
<1>3. n \in 0..Len(b) /\ k + n <= TxDescs
  <2> HIDE DEF b, k
  <2> QED
    BY <1>2
<1>4. Fits(i, b) = SubSeq(b, 1, n)
  BY DEF Fits
<1> QED
  BY <1>3, <1>4, Zenon

\* The descriptors the driver makes of mbufs.
LEMMA DescriptorFacts ==
    ASSUME Typed, NEW s \in Seq(Mbufs)
    PROVE  /\ Descriptors(s) \in Seq(Descs) /\ Len(Descriptors(s)) = Len(s)
           /\ \A j \in 1..Len(s) : Descriptors(s)[j].m = s[j]
<1>1. Len(s) \in Nat /\ DOMAIN s = 1..Len(s) /\ \A j \in 1..Len(s) : s[j] \in Mbufs
  BY LenProperties, ElementOfSeq
<1>2. \A j \in 1..Len(s) : content[s[j]] \in Packet
  BY <1>1 DEF Typed
<1>3. Descriptors(s) = [j \in 1..Len(s) |-> [m |-> s[j], meant |-> content[s[j]]]]
  BY <1>1 DEF Descriptors
<1>4. \A j \in 1..Len(s) : [m |-> s[j], meant |-> content[s[j]]] \in Descs
  BY <1>1, <1>2 DEF Descs
<1>5. Descriptors(s) \in Seq(Descs) /\ Len(Descriptors(s)) = Len(s)
  BY <1>1, <1>3, <1>4, IsASeq, LenProperties
<1> QED
  BY <1>1, <1>3, <1>5

\* The TX core takes the piece that does not fit out of the line of its port.
LEMMA TxCuts ==
    ASSUME Typed, Bounded, TxLeaveBurst
    PROVE  \E A, d, r \in Seq(Mbufs), U \in SUBSET Mbufs :
              /\ Outs[tx.i] = (A \o d) \o r
              /\ Outs' = [Outs EXCEPT ![tx.i] = A \o r]
              /\ Members(U, d)
              /\ free' = [x \in Mbufs |-> free[x] + (IF x \in U THEN 1 ELSE 0)]
              /\ txq' \in [Ports -> Seq(Descs)] /\ \A i \in Ports : Len(txq'[i]) <= TxDescs
<1> DEFINE a == tx.i
           b == mbuf_tx[a]
           r == rings_tx[a]
           q == txq[a]
           Q == Queued(q)
<1>1. /\ a \in Ports /\ txq \in [Ports -> Seq(Descs)] /\ mbuf_tx \in [Ports -> Seq(Mbufs)]
      /\ raced["tx"] = FALSE
  BY Zenon DEF Typed, TxCores
<1>2. b \in Seq(Mbufs) /\ r \in Seq(Mbufs) /\ q \in Seq(Descs) /\ Q \in Seq(Mbufs)
  BY <1>1, LineTypes
<1>3. PICK n \in 0..Len(b) : Fits(a, b) = SubSeq(b, 1, n) /\ Len(q) + n <= TxDescs
  BY <1>1, FitFacts, Zenon
<1> DEFINE c == SubSeq(b, 1, n)
           d == SubSeq(b, n + 1, Len(b))
           U == {b[j] : j \in Len(c) + 1 .. Len(b)}
           D == Descriptors(c)
<1>4. /\ c \in Seq(Mbufs) /\ d \in Seq(Mbufs) /\ b = c \o d /\ Len(c) = n
      /\ \A x : (\E j \in 1..Len(d) : d[j] = x) <=> \E j \in n + 1..Len(b) : b[j] = x
  BY <1>2, Cut, Zenon
<1>5. D \in Seq(Descs) /\ Len(D) = n /\ \A j \in 1..Len(c) : D[j].m = c[j]
  <2> HIDE DEF c
  <2> QED
    BY <1>4, DescriptorFacts
<1>6. /\ txq' = [txq EXCEPT ![a] = q \o D] /\ mbuf_tx' = [mbuf_tx EXCEPT ![a] = <<>>]
      /\ free' = [x \in Mbufs |-> free[x] + (IF x \in U THEN 1 ELSE 0)]
      /\ rings_tx' = rings_tx
  BY <1>1, <1>3, Zenon DEF TxLeaveBurst, LeaveBurst, rings
<1>7. U \in SUBSET Mbufs /\ Members(U, d)
  <2>1. Len(b) \in Nat /\ \A j \in 1..Len(b) : b[j] \in Mbufs
    BY <1>2, LenProperties, ElementOfSeq
  <2>2. \A x : x \in U <=> \E j \in n + 1..Len(b) : b[j] = x
    BY <1>4
  <2>3. \A j \in n + 1..Len(b) : b[j] \in Mbufs
    BY <2>1
  <2> HIDE DEF U, d, b
  <2> QED
    BY <1>4, <2>2, <2>3, Zenon DEF Members
<1> HIDE DEF c, d, U, D, Q, b, r, q
<1>8. q \o D \in Seq(Descs) /\ Queued(q \o D) = Q \o c /\ Len(q \o D) <= TxDescs
  <2>1. q \o D \in Seq(Descs) /\ Queued(q \o D) = Queued(q) \o c
    BY <1>2, <1>4, <1>5, QueuedMore, Zenon
  <2>2. Len(q \o D) = Len(q) + n
    BY <1>2, <1>5, ConcatProperties, Zenon
  <2> QED
    BY <1>3, <2>1, <2>2 DEF Q
<1> DEFINE A == Q \o c
<1>9. A \in Seq(Mbufs) /\ Q \o b = A \o d /\ A \o <<>> = A
  <2>1. A \in Seq(Mbufs)
    BY <1>2, <1>4, ConcatProperties
  <2>2. Q \o (c \o d) = A \o d
    <3>1. Q \in Seq(Mbufs) /\ c \in Seq(Mbufs) /\ d \in Seq(Mbufs)
      BY <1>2, <1>4
    <3> QED
      BY <3>1, Associative, Zenon
  <2> HIDE DEF A
  <2>3. A \o <<>> = A
    BY <2>1, ConcatEmptySeq
  <2> QED
    BY <1>4, <2>1, <2>2, <2>3
<1> HIDE DEF A
<1>10. /\ txq' \in [Ports -> Seq(Descs)] /\ txq'[a] = q \o D /\ mbuf_tx'[a] = <<>>
       /\ \A i \in Ports : i # a => txq'[i] = txq[i] /\ mbuf_tx'[i] = mbuf_tx[i]
  BY <1>1, <1>6, <1>8
<1>11. \A i \in Ports : Len(txq'[i]) <= TxDescs
  BY <1>8, <1>10, Zenon DEF Bounded
<1>12. \A i \in Ports : /\ Outs[i] = (Queued(txq[i]) \o mbuf_tx[i]) \o rings_tx[i]
                        /\ Outs'[i] = (Queued(txq'[i]) \o mbuf_tx'[i]) \o rings_tx'[i]
  BY NextLines, Zenon
<1>13. Outs[a] = (A \o d) \o r
  <2>1. Outs[a] = (Q \o b) \o r
    BY <1>1, <1>12, Zenon DEF Q, q, b, r
  <2> QED
    BY <1>9, <2>1, Zenon
<1>14. Outs'[a] = A \o r
  <2>1. Queued(txq'[a]) = A /\ rings_tx'[a] = r
    BY <1>6, <1>8, <1>10, Zenon DEF A, r
  <2>2. Outs'[a] = (A \o <<>>) \o r
    BY <1>1, <1>10, <1>12, <2>1, Zenon
  <2> QED
    BY <1>9, <2>2, Zenon
<1>15. \A i \in Ports : i # a => Outs'[i] = Outs[i]
  <2> SUFFICES ASSUME NEW i \in Ports, i # a PROVE Outs'[i] = Outs[i]
    OBVIOUS
  <2>1. txq'[i] = txq[i] /\ mbuf_tx'[i] = mbuf_tx[i] /\ rings_tx'[i] = rings_tx[i]
    BY <1>6, <1>10
  <2> QED
    BY <1>12, <2>1, Zenon
<1>16. Outs' = [Outs EXCEPT ![a] = A \o r]
  <2>1. Outs = [i \in Ports |-> Outs[i]] /\ Outs' = [i \in Ports |-> Outs'[i]]
    BY NextLines, Zenon
  <2>2. \A i \in Ports : Outs'[i] = [Outs EXCEPT ![a] = A \o r][i]
    BY <1>14, <1>15, <2>1, Zenon
  <2> QED
    BY <2>1, <2>2, Zenon
<1>17. A \in Seq(Mbufs) /\ d \in Seq(Mbufs) /\ r \in Seq(Mbufs)
      /\ U \in SUBSET Mbufs
  BY <1>2, <1>4, <1>7, <1>9
<1> USE <1>17
<1> WITNESS A \in Seq(Mbufs), d \in Seq(Mbufs), r \in Seq(Mbufs), U \in SUBSET Mbufs
<1> QED
  BY <1>6, <1>7, <1>10, <1>11, <1>13, <1>16

\* What the queue has no room for goes back to the pool.
LEMMA TxLeaveKeeps ==
    ASSUME Forwards, TxLeaveBurst
    PROVE  Forwards'
<1> DEFINE a == tx.i
           G == Gots(wire[a])
<1>1. /\ Typed /\ Bounded /\ Held(free, Outs, Ins) /\ Flow(Lines, Ups, arrived)
      /\ (setup.pipeline_type = "acl" => Macs(Lines))
  BY DEF Forwards
<1>2. /\ tx' = NextPort(tx) /\ mbuf_tx' = [mbuf_tx EXCEPT ![a] = <<>>]
      /\ raced' = [raced EXCEPT !["tx"] = FALSE]
      /\ UNCHANGED <<setup, rx, wk, rings_rx, rings_tx, content, arrived, wire>>
  BY Zenon DEF TxLeaveBurst, LeaveBurst, rings
<1>3. PICK A \in Seq(Mbufs), d \in Seq(Mbufs), r \in Seq(Mbufs), U \in SUBSET Mbufs :
          /\ Outs[a] = (A \o d) \o r
          /\ Outs' = [Outs EXCEPT ![a] = A \o r]
          /\ Members(U, d)
          /\ free' = [x \in Mbufs |-> free[x] + (IF x \in U THEN 1 ELSE 0)]
          /\ txq' \in [Ports -> Seq(Descs)] /\ \A i \in Ports : Len(txq'[i]) <= TxDescs
  BY <1>1, TxCuts, ZenonT(40)
<1>4. /\ free \in Pools /\ content \in Contents /\ arrived \in Nat /\ a \in Ports
      /\ Outs \in MbufLines /\ Ins \in MbufLines
      /\ Lines \in PacketLines /\ Ups \in PacketLines /\ G \in Seq(Packet)
  <2>1. a \in Ports
    BY <1>1 DEF Typed, TxCores
  <2> QED
    BY <1>1, <2>1, LineTypes, Zenon
<1> HIDE DEF G
<1>5. Ins' = Ins /\ Ups' = Ups
  <2>1. Ins' = Ins
    BY <1>2, Zenon DEF Ins, In
  <2> QED
    BY <1>2, <2>1, Zenon DEF Ups
<1>6. free' \in Pools /\ Held(free', Outs', Ins')
  <2> DEFINE W == A \o r
  <2>1. W \in Seq(Mbufs)
    BY ConcatProperties
  <2>2. Parts(Outs[a], W, d)
    BY <1>3, CountThin
  <2> HIDE DEF W
  <2> DEFINE F == [x \in Mbufs |-> free[x] + (IF x \in U THEN 1 ELSE 0)]
  <2>3. F \in Pools /\ Held(F, [Outs EXCEPT ![a] = W], Ins)
    BY <1>1, <1>3, <1>4, <2>1, <2>2, HeldThin, ZenonT(40)
  <2>4. free' = F /\ Outs' = [Outs EXCEPT ![a] = W]
    BY <1>3 DEF W
  <2> HIDE DEF F
  <2> QED
    BY <1>5, <2>3, <2>4
<1>7. Typed' /\ Bounded'
  <2>1. tx' \in TxCores
    <3>1. tx \in TxCores /\ Other(a) \in Ports
      BY <1>1, <1>4, PortFacts DEF Typed
    <3> QED
      BY <1>2, <3>1, Zenon DEF NextPort, TxCores
  <2>2. mbuf_tx' \in [Ports -> Seq(Mbufs)] /\ raced' \in [{"rx", "tx"} -> {FALSE}]
    <3>1. mbuf_tx \in [Ports -> Seq(Mbufs)] /\ raced \in [{"rx", "tx"} -> {FALSE}]
      BY <1>1, Zenon DEF Typed
    <3>2. mbuf_tx' \in [Ports -> Seq(Mbufs)]
      <4>1. <<>> \in Seq(Mbufs)
        BY EmptySeq
      <4> QED
        BY <1>2, <3>1, <4>1, Zenon
    <3>3. raced' \in [{"rx", "tx"} -> {FALSE}]
      BY <1>2, <3>1, Zenon
    <3> QED
      BY <3>2, <3>3, Zenon
  <2>3. txq' \in [Ports -> Seq(Descs)] /\ free' \in [Mbufs -> Nat]
    BY <1>3, <1>6 DEF Pools
  <2>4. Typed'
    BY <1>1, <1>2, <2>1, <2>2, <2>3, Zenon DEF Typed
  <2> QED
    BY <1>3, <2>4 DEF Bounded
<1>8. Lines' = [Lines EXCEPT ![a] = G \o Of(content, A \o r)]
  <2>1. \A i \in Ports : /\ Lines[i] = Gots(wire[i]) \o Of(content, Outs[i])
                         /\ Lines'[i] = Gots(wire'[i]) \o Of(content', Outs'[i])
    BY NextLines, Zenon
  <2>2. Lines = [i \in Ports |-> Lines[i]] /\ Lines' = [i \in Ports |-> Lines'[i]]
    BY NextLines, Zenon
  <2>3. Outs'[a] = A \o r /\ \A i \in Ports : i # a => Outs'[i] = Outs[i]
    BY <1>3, <1>4 DEF MbufLines
  <2>4. Lines'[a] = G \o Of(content, A \o r)
    BY <1>2, <1>4, <2>1, <2>3, Zenon DEF G
  <2>5. \A i \in Ports : i # a => Lines'[i] = Lines[i]
    BY <1>2, <2>1, <2>3, ZenonT(40)
  <2>6. \A i \in Ports : Lines'[i] = [Lines EXCEPT ![a] = G \o Of(content, A \o r)][i]
    BY <2>2, <2>4, <2>5, Zenon
  <2> QED
    BY <2>2, <2>6, Zenon
<1>9. /\ Flow(Lines', Ups', arrived')
      /\ setup.pipeline_type = "acl" => Macs(Lines')
  <2> DEFINE W == G \o Of(content, A \o r)
  <2>1. Lines[a] = G \o Of(content, (A \o d) \o r)
    BY <1>3, <1>4, NextLines, ZenonT(40) DEF G
  <2>2. W \in Seq(Packet) /\ Within(W, Lines[a])
    BY <1>4, <2>1, LineThin
  <2>3. Lines' = [Lines EXCEPT ![a] = W]
    BY <1>8
  <2> HIDE DEF W
  <2>4. /\ Flow([Lines EXCEPT ![a] = W], Ups, arrived)
        /\ Macs(Lines) => Macs([Lines EXCEPT ![a] = W])
    BY <1>1, <1>4, <2>2, FlowThin, Zenon
  <2> QED
    BY <1>1, <1>2, <1>5, <2>3, <2>4
<1> QED
  BY <1>2, <1>6, <1>7, <1>9, Build

\* The first mbuf of the queue is the first of the line.
LEMMA HeadOfLine ==
    ASSUME NEW S, NEW s \in Seq(S), NEW t \in Seq(S), s # <<>>
    PROVE  /\ s \o t # <<>> /\ Head(s \o t) = Head(s) /\ Tail(s \o t) = Tail(s) \o t
           /\ Tail(s) \in Seq(S)
<1> DEFINE h == Head(s)
           r == Tail(s)
<1>1. h \in S /\ r \in Seq(S) /\ s = <<h>> \o r
  BY Split
<1> HIDE DEF h, r
<1>2. <<h>> \in Seq(S) /\ r \o t \in Seq(S)
  BY <1>1, ConcatProperties
<1>3. (<<h>> \o r) \o t = <<h>> \o (r \o t)
  BY <1>1, <1>2, ConcatAssociative
<1>4. /\ <<h>> \o (r \o t) # <<>> /\ Head(<<h>> \o (r \o t)) = h
      /\ Tail(<<h>> \o (r \o t)) = r \o t
  BY <1>1, <1>2, Cons
<1>5. s \o t = <<h>> \o (r \o t)
  BY <1>1, <1>3
<1> QED
  BY <1>1, <1>4, <1>5 DEF h, r

\* The NIC takes the first mbuf of a line.
LEMMA NicTakes ==
    ASSUME Typed, NEW a \in Ports, NicTransmit(a)
    PROVE  /\ Outs[a] # <<>> /\ Head(Outs[a]) = Head(txq[a]).m
           /\ Outs' = [Outs EXCEPT ![a] = Tail(@)]
           /\ txq' \in [Ports -> Seq(Descs)] /\ \A i \in Ports : Len(txq'[i]) <= Len(txq[i])
<1> DEFINE q == txq[a]
           Q == Queued(q)
           b == mbuf_tx[a]
           r == rings_tx[a]
<1>1. txq \in [Ports -> Seq(Descs)] /\ q # <<>> /\ txq' = [txq EXCEPT ![a] = Tail(q)]
      /\ UNCHANGED <<mbuf_tx, rings_tx>>
  BY DEF Typed, NicTransmit, rings
<1>2. q \in Seq(Descs) /\ Q \in Seq(Mbufs) /\ b \in Seq(Mbufs) /\ r \in Seq(Mbufs)
  BY LineTypes, Zenon
<1>3. /\ Q # <<>> /\ Head(Q) = Head(q).m /\ Queued(Tail(q)) = Tail(Q)
  BY <1>1, <1>2, QueuedTail
<1>4. Tail(q) \in Seq(Descs) /\ Len(Tail(q)) <= Len(q)
  BY <1>1, <1>2, HeadTailProperties, LenProperties
<1>5. /\ txq'[a] = Tail(q) /\ \A i \in Ports : i # a => txq'[i] = txq[i]
      /\ txq' \in [Ports -> Seq(Descs)]
  BY <1>1, <1>4
<1>6. \A i \in Ports : Len(txq'[i]) <= Len(txq[i])
  <2>1. \A i \in Ports : Len(txq[i]) \in Nat
    BY <1>1, LenProperties
  <2> QED
    BY <1>4, <1>5, <2>1
<1>7. \A i \in Ports : /\ Outs[i] = (Queued(txq[i]) \o mbuf_tx[i]) \o rings_tx[i]
                       /\ Outs'[i] = (Queued(txq'[i]) \o mbuf_tx'[i]) \o rings_tx'[i]
  BY NextLines, Zenon
<1>8. Outs[a] = (Q \o b) \o r /\ Outs'[a] = (Tail(Q) \o b) \o r
  BY <1>1, <1>3, <1>5, <1>7, Zenon
<1> HIDE DEF q, Q, b, r
<1>9. /\ Q \o b # <<>> /\ Head(Q \o b) = Head(Q) /\ Tail(Q \o b) = Tail(Q) \o b
      /\ Q \o b \in Seq(Mbufs)
  BY <1>2, <1>3, HeadOfLine, ConcatProperties
<1>10. /\ (Q \o b) \o r # <<>> /\ Head((Q \o b) \o r) = Head(Q \o b)
       /\ Tail((Q \o b) \o r) = Tail(Q \o b) \o r
  <2> DEFINE X == Q \o b
  <2>1. X \in Seq(Mbufs) /\ X # <<>>
    BY <1>9
  <2> HIDE DEF X
  <2>2. X \o r # <<>> /\ Head(X \o r) = Head(X) /\ Tail(X \o r) = Tail(X) \o r
    BY <1>2, <2>1, HeadOfLine
  <2> QED
    BY <2>2 DEF X
<1>11. Outs[a] # <<>> /\ Head(Outs[a]) = Head(q).m /\ Outs'[a] = Tail(Outs[a])
  BY <1>3, <1>8, <1>9, <1>10, Zenon
<1>12. \A i \in Ports : i # a => Outs'[i] = Outs[i]
  BY <1>1, <1>5, <1>7, Zenon
<1>13. Outs' = [Outs EXCEPT ![a] = Tail(Outs[a])]
  <2>1. Outs = [i \in Ports |-> Outs[i]] /\ Outs' = [i \in Ports |-> Outs'[i]]
    BY NextLines, Zenon
  <2>2. \A i \in Ports : Outs'[i] = [Outs EXCEPT ![a] = Tail(Outs[a])][i]
    BY <1>11, <1>12, <2>1, Zenon
  <2> QED
    BY <2>1, <2>2, Zenon
<1> QED
  BY <1>5, <1>6, <1>11, <1>13 DEF q

\* The NIC transmits it.
LEMMA NicTransmitKeeps ==
    ASSUME Forwards, NEW a \in Ports, NicTransmit(a)
    PROVE  Forwards'
<1> DEFINE G == Gots(wire[a])
           e == Head(txq[a])
           x == [meant |-> e.meant, got |-> content[e.m]]
<1>1. /\ Typed /\ Bounded /\ Held(free, Outs, Ins) /\ Flow(Lines, Ups, arrived)
      /\ (setup.pipeline_type = "acl" => Macs(Lines))
  BY DEF Forwards
<1>2. /\ wire' = [wire EXCEPT ![a] = Append(@, x)] /\ free' = [free EXCEPT ![e.m] = @ + 1]
      /\ UNCHANGED <<setup, rx, wk, tx, rings_rx, rings_tx, mbuf_tx, raced, content, arrived>>
  BY DEF NicTransmit, Free, rings
<1>3. /\ Outs[a] # <<>> /\ Head(Outs[a]) = e.m
      /\ Outs' = [Outs EXCEPT ![a] = Tail(@)]
      /\ txq' \in [Ports -> Seq(Descs)] /\ \A i \in Ports : Len(txq'[i]) <= Len(txq[i])
  BY <1>1, NicTakes
<1>4. /\ free \in Pools /\ content \in Contents /\ arrived \in Nat
      /\ Outs \in MbufLines /\ Ins \in MbufLines /\ Outs[a] \in Seq(Mbufs)
      /\ G \in Seq(Packet) /\ txq[a] \in Seq(Descs) /\ wire[a] \in Seq(Sent)
  BY <1>1, LineTypes, Zenon
<1>5. Ins' = Ins /\ Ups' = Ups
  <2>1. Ins' = Ins
    BY <1>2, Zenon DEF Ins, In
  <2> QED
    BY <1>2, <2>1, Zenon DEF Ups
<1>6. free' \in Pools /\ Held(free', Outs', Ins')
  <2> DEFINE F == [free EXCEPT ![Head(Outs[a])] = @ + 1]
             O == [Outs EXCEPT ![a] = Tail(@)]
  <2>1. F \in Pools /\ Held(F, O, Ins)
    BY <1>1, <1>3, <1>4, HeldRelease, Zenon
  <2>2. free' = F /\ Outs' = O
    BY <1>2, <1>3, ZenonT(40)
  <2> HIDE DEF F, O
  <2> QED
    BY <1>5, <2>1, <2>2
<1>7. x \in Sent /\ Gots(Append(wire[a], x)) = Append(G, content[e.m])
      /\ Append(wire[a], x) \in Seq(Sent)
  <2>1. txq[a] # <<>>
    BY DEF NicTransmit
  <2>2. e \in Descs
    BY <1>4, <2>1, HeadTailProperties
  <2>3. x \in Sent /\ x.got = content[e.m]
    BY <1>4, <2>2, Zenon DEF Descs, Contents, Sent
  <2> HIDE DEF x
  <2> QED
    BY <1>4, <2>3, GotsAppend
<1> HIDE DEF x, G, e
<1>8. Typed' /\ Bounded'
  <2>1. txq' \in [Ports -> Seq(Descs)] /\ free' \in [Mbufs -> Nat]
    BY <1>3, <1>6 DEF Pools
  <2>2. wire' \in [Ports -> Seq(Sent)]
    BY <1>1, <1>2, <1>7, ZenonT(40) DEF Typed
  <2>3. Typed'
    BY <1>1, <1>2, <2>1, <2>2, ZenonT(40) DEF Typed
  <2>4. \A i \in Ports : Len(txq[i]) \in Nat /\ Len(txq'[i]) \in Nat
    BY <1>1, <2>1, LenProperties DEF Typed
  <2>5. TxDescs \in Nat
    BY ConstantsAssumption
  <2> QED
    BY <1>1, <1>3, <2>3, <2>4, <2>5 DEF Bounded
<1>9. Lines' = Lines
  <2>1. \A i \in Ports : /\ Lines[i] = Gots(wire[i]) \o Of(content, Outs[i])
                         /\ Lines'[i] = Gots(wire'[i]) \o Of(content', Outs'[i])
    BY NextLines, Zenon
  <2>2. /\ wire'[a] = Append(wire[a], x) /\ Outs'[a] = Tail(Outs[a])
        /\ \A i \in Ports : i # a => wire'[i] = wire[i] /\ Outs'[i] = Outs[i]
    BY <1>1, <1>2, <1>3, <1>4, Zenon DEF Typed, MbufLines
  <2>3. Lines'[a] = Lines[a]
    <3> DEFINE p == Of(content, Outs[a])
    <3>1. /\ Of(content, Tail(Outs[a])) = Tail(p) /\ Head(p) = content[e.m]
          /\ p # <<>> /\ p \in Seq(Packet)
      BY <1>3, <1>4, OfTail, Zenon
    <3>2. Lines[a] = G \o p /\ Lines'[a] = Append(G, Head(p)) \o Tail(p)
      BY <1>2, <1>7, <2>1, <2>2, <3>1, ZenonT(40) DEF G
    <3> HIDE DEF p
    <3>3. Append(G, Head(p)) \o Tail(p) = G \o p
      BY <1>4, <3>1, Shift
    <3> QED
      BY <3>2, <3>3, ZenonT(40)
  <2>4. \A i \in Ports : i # a => Lines'[i] = Lines[i]
    BY <1>2, <2>1, <2>2, ZenonT(40)
  <2> QED
    BY <2>3, <2>4, NextLines
<1>10. /\ Flow(Lines', Ups', arrived')
       /\ setup.pipeline_type = "acl" => Macs(Lines')
  BY <1>1, <1>2, <1>5, <1>9
<1> QED
  BY <1>2, <1>6, <1>8, <1>10, Build

-----------------------------------------------------------------------------
(***************************************************************************)
(* The invariant and what follows from it.                                 *)
(***************************************************************************)

\* No step changes the setup.
LEMMA SetupStays == ASSUME Next PROVE setup' = setup
<1>1. CASE Resume \/ Start
  BY <1>1 DEF Resume, Start
<1>2. CASE RxCore
  BY <1>2, ZenonT(40) DEF RxCore, RxEmpty, RxPacket, RxArp, RxArpNoMbuf, RxEcho, RxEnterBurst,
     RxLeaveBurst, RxFree, RxEnqueue
<1>3. CASE WorkerCore
  BY <1>3, Zenon DEF WorkerCore, WorkerDequeue, WorkerForward, WorkerRoute
<1>4. CASE TxCore
  BY <1>4 DEF TxCore, TxDequeue, TxEnterBurst, TxLeaveBurst
<1>5. CASE \E i \in Ports : NicTransmit(i)
  BY <1>5 DEF NicTransmit
<1> QED
  BY <1>1, <1>2, <1>3, <1>4, <1>5 DEF Next

\* While the RX core only forwards, it takes none of the steps that answer.
LEMMA RxCoreKeeps ==
    ASSUME Forwards, Forwarding, setup \in Setups, RxCore
    PROVE  Forwards'
<1>1. rx.pc \in {"parked", "poll", "enqueue"}
  BY DEF Forwards, Typed, RxCores
<1>2. /\ ~RxArpNoMbuf /\ ~RxEcho /\ ~RxEnterBurst /\ ~RxLeaveBurst /\ ~RxFree
      /\ \A m \in Mbufs : ~RxArp(m)
  BY <1>1, Zenon DEF RxArp, RxArpNoMbuf, RxEcho, RxEnterBurst, RxLeaveBurst, RxFree
<1>3. RxEmpty \/ RxEnqueue \/ \E m \in Mbufs : RxPacket(m)
  BY <1>2, Zenon DEF RxCore
<1> QED
  BY <1>3, RxEmptyKeeps, RxEnqueueKeeps, RxPacketKeeps

\* Every step keeps the invariant.
LEMMA Preserved == IInv /\ [Next]_vars => IInv'
<1> SUFFICES ASSUME IInv, [Next]_vars PROVE IInv'
  OBVIOUS
<1>1. CASE UNCHANGED vars
  <2>1. UNCHANGED <<setup, rx, wk, tx, rings_rx, rings_tx, mbuf_tx, txq, raced, free,
                    content, arrived, wire>>
    BY <1>1 DEF vars, rings, log
  <2>2. Outs' = Outs /\ Ins' = Ins
    BY <2>1, Zenon DEF Outs, Out, Ins, In
  <2>3. Forwards => Forwards'
    <3> SUFFICES ASSUME Forwards PROVE Forwards'
      OBVIOUS
    <3>1. Typed' /\ Bounded'
      BY <2>1, Zenon DEF Forwards, Typed, Bounded
    <3> QED
      BY <2>1, <2>2, <3>1, Kept, Zenon
  <2>4. Forwarding' <=> Forwarding
    BY <2>1 DEF Forwarding
  <2> QED
    BY <2>1, <2>3, <2>4 DEF IInv
<1>2. CASE Next
  <2>1. setup' = setup /\ setup \in Setups
    BY <1>2, SetupStays DEF IInv
  <2>2. Forwarding' <=> Forwarding
    BY <2>1, Zenon DEF Forwarding
  <2>3. ASSUME Forwarding PROVE Forwards'
    <3>1. Forwards
      BY <2>3 DEF IInv
    <3>2. CASE Resume \/ Start
      BY <3>1, <3>2, ResumeKeeps, StartKeeps
    <3>3. CASE RxCore
      BY <2>1, <2>3, <3>1, <3>3, RxCoreKeeps
    <3>4. CASE WorkerCore
      BY <3>1, <3>4, WorkerDequeueKeeps, WorkerForwardKeeps, WorkerRouteKeeps DEF WorkerCore
    <3>5. CASE TxCore
      BY <3>1, <3>5, TxDequeueKeeps, TxEnterKeeps, TxLeaveKeeps DEF TxCore
    <3>6. CASE \E i \in Ports : NicTransmit(i)
      BY <3>1, <3>6, NicTransmitKeeps
    <3> QED
      BY <1>2, <3>2, <3>3, <3>4, <3>5, <3>6 DEF Next
  <2> QED
    BY <2>1, <2>2, <2>3 DEF IInv
<1> QED
  BY <1>1, <1>2

\* In a router that only forwards, the mbufs, the order of the packets and their
\* MACs are as IInv says in every state (runtime.c, the three loops).
THEOREM Invariance == Spec => []IInv
<1> QED
  BY Initially, Preserved, PTL DEF Spec

\* How often an mbuf is in the lines of a port.
LEMMA OccursInLines ==
    ASSUME Typed, NEW i \in Ports, NEW m \in Mbufs
    PROVE  LET queued == Cardinality({j \in DOMAIN txq[i] : txq[i][j].m = m})
           IN  /\ Occurs(m, Outs[i]) = queued + Occurs(m, mbuf_tx[i]) + Occurs(m, rings_tx[i])
               /\ Occurs(m, Ins[i]) = Occurs(m, Hand(wk, i)) + Occurs(m, rings_rx[i])
                                      + Occurs(m, Hand(rx, i))
               /\ queued \in Nat /\ Occurs(m, mbuf_tx[i]) \in Nat
               /\ Occurs(m, rings_tx[i]) \in Nat /\ Occurs(m, rings_rx[i]) \in Nat
<1> DEFINE Q == Queued(txq[i])
           b == mbuf_tx[i]
           r == rings_tx[i]
           v == Hand(wk, i)
           s == rings_rx[i]
           w == Hand(rx, i)
<1>1. /\ Q \in Seq(Mbufs) /\ b \in Seq(Mbufs) /\ r \in Seq(Mbufs)
      /\ v \in Seq(Mbufs) /\ s \in Seq(Mbufs) /\ w \in Seq(Mbufs) /\ txq[i] \in Seq(Descs)
  BY LineTypes, Zenon
<1>2. Outs[i] = (Q \o b) \o r /\ Ins[i] = (v \o s) \o w
  BY NextLines, ZenonT(40)
<1>3. Occurs(m, Q) = Cardinality({j \in DOMAIN txq[i] : txq[i][j].m = m})
  <2>1. {j \in DOMAIN Q : Q[j] = m} = {j \in DOMAIN txq[i] : txq[i][j].m = m}
    BY DEF Queued
  <2> QED
    BY <2>1, Zenon DEF Occurs
<1> HIDE DEF Q, b, r, v, s, w
<1>4. Q \o b \in Seq(Mbufs) /\ v \o s \in Seq(Mbufs)
  BY <1>1, ConcatProperties
<1>5. Occurs(m, (Q \o b) \o r) = Occurs(m, Q \o b) + Occurs(m, r)
  BY <1>1, <1>4, OccursConcat, Zenon
<1>6. Occurs(m, (v \o s) \o w) = Occurs(m, v \o s) + Occurs(m, w)
  BY <1>1, <1>4, OccursConcat, Zenon
<1>7. Occurs(m, Q \o b) = Occurs(m, Q) + Occurs(m, b)
  BY <1>1, OccursConcat
<1>8. Occurs(m, v \o s) = Occurs(m, v) + Occurs(m, s)
  BY <1>1, OccursConcat
<1>9. /\ Occurs(m, Q) \in Nat /\ Occurs(m, b) \in Nat /\ Occurs(m, r) \in Nat
      /\ Occurs(m, s) \in Nat
  BY <1>1, Places, ZenonT(40)
<1>10. /\ Occurs(m, Outs[i]) = Occurs(m, Q) + Occurs(m, b) + Occurs(m, r)
       /\ Occurs(m, Ins[i]) = Occurs(m, v) + Occurs(m, s) + Occurs(m, w)
  BY <1>2, <1>5, <1>6, <1>7, <1>8, Zenon
<1> QED
  BY <1>3, <1>9, <1>10, Zenon DEF b, r, v, s, w

\* A core holds an mbuf in one hand.
LEMMA OccursInHands ==
    ASSUME NEW core \in RxCores, NEW m
    PROVE  LET held == IF core.pc = "enqueue" /\ core.m = m THEN 1 ELSE 0
           IN  /\ Occurs(m, Hand(core, 0)) \in Nat /\ Occurs(m, Hand(core, 1)) \in Nat
               /\ Occurs(m, Hand(core, 0)) + Occurs(m, Hand(core, 1)) = held
<1>1. core.i = 0 \/ core.i = 1
  BY DEF RxCores, Ports
<1>2. Occurs(m, <<>>) = 0
  BY OccursNone
<1>3. Occurs(m, <<core.m>>) = IF core.m = m THEN 1 ELSE 0
  BY OccursOne
<1>4. CASE core.pc # "enqueue"
  <2>1. Hand(core, 0) = <<>> /\ Hand(core, 1) = <<>>
    BY <1>4 DEF Hand
  <2> QED
    BY <1>2, <1>4, <2>1
<1>5. CASE core.pc = "enqueue"
  <2>1. \/ Hand(core, 0) = <<core.m>> /\ Hand(core, 1) = <<>>
        \/ Hand(core, 0) = <<>> /\ Hand(core, 1) = <<core.m>>
    BY <1>1, <1>5 DEF Hand
  <2> QED
    BY <1>2, <1>3, <1>5, <2>1
<1> QED
  BY <1>4, <1>5

\* Of a forwarding router, every mbuf has one owner.
LEMMA OneOwner == ASSUME Forwards, NEW m \in Mbufs PROVE Owners(m) = 1
<1> DEFINE q(i) == Cardinality({j \in DOMAIN txq[i] : txq[i][j].m = m})
           b(i) == Occurs(m, mbuf_tx[i])
           r(i) == Occurs(m, rings_tx[i])
           s(i) == Occurs(m, rings_rx[i])
           v(i) == Occurs(m, Hand(wk, i))
           w(i) == Occurs(m, Hand(rx, i))
           inwk == IF wk.pc = "enqueue" /\ wk.m = m THEN 1 ELSE 0
           inrx == IF rx.pc = "enqueue" /\ rx.m = m THEN 1 ELSE 0
<1>1. Typed /\ rx \in RxCores /\ wk \in RxCores /\ free[m] \in Nat
  BY Zenon DEF Forwards, Typed
<1>2. \A i \in Ports : /\ Occurs(m, Outs[i]) = q(i) + b(i) + r(i)
                       /\ Occurs(m, Ins[i]) = v(i) + s(i) + w(i)
                       /\ q(i) \in Nat /\ b(i) \in Nat /\ r(i) \in Nat /\ s(i) \in Nat
  BY <1>1, OccursInLines, ZenonT(40)
<1>3. /\ v(0) \in Nat /\ v(1) \in Nat /\ v(0) + v(1) = inwk
      /\ w(0) \in Nat /\ w(1) \in Nat /\ w(0) + w(1) = inrx
  BY <1>1, OccursInHands
<1>4. free[m] + (Occurs(m, Outs[0]) + Occurs(m, Outs[1]))
      + (Occurs(m, Ins[0]) + Occurs(m, Ins[1])) = 1
  BY DEF Forwards, Held, Total
<1>5. Owners(m) = free[m] + (inrx + inwk) + (s(0) + r(0) + b(0) + q(0))
                  + (s(1) + r(1) + b(1) + q(1))
  <2>1. rx.pc \notin {"parked", "poll"} <=> rx.pc = "enqueue"
    BY <1>1 DEF RxCores
  <2> QED
    BY <2>1, Zenon DEF Owners
<1> HIDE DEF q, b, r, s, v, w, inwk, inrx
<1>6. 0 \in Ports /\ 1 \in Ports
  BY DEF Ports
<1>7. /\ Occurs(m, Outs[0]) = q(0) + b(0) + r(0) /\ Occurs(m, Outs[1]) = q(1) + b(1) + r(1)
      /\ Occurs(m, Ins[0]) = v(0) + s(0) + w(0) /\ Occurs(m, Ins[1]) = v(1) + s(1) + w(1)
      /\ q(0) \in Nat /\ b(0) \in Nat /\ r(0) \in Nat /\ s(0) \in Nat
      /\ q(1) \in Nat /\ b(1) \in Nat /\ r(1) \in Nat /\ s(1) \in Nat
  BY <1>2, <1>6
<1> QED
  BY <1>1, <1>3, <1>4, <1>5, <1>7

\* The three cores and the NICs pass every mbuf on exactly once, however many there
\* are and however long the rings and queues (runtime.c, the three loops).
THEOREM MbufsOwnedOnce == Spec => []MbufOwnedOnce
<1>1. IInv => MbufOwnedOnce
  BY OneOwner DEF IInv, MbufOwnedOnce
<1> QED
  BY <1>1, Invariance, PTL

\* What a port transmitted is the first part of its line.
LEMMA SentFirst ==
    ASSUME Typed, NEW i \in Ports, NEW j \in DOMAIN wire[i]
    PROVE  j \in DOMAIN Lines[i] /\ Lines[i][j] = wire[i][j].got /\ j \in Nat
<1> DEFINE G == Gots(wire[i])
           P == Of(content, Outs[i])
<1>1. wire[i] \in Seq(Sent) /\ P \in Seq(Packet)
  BY LineTypes, Zenon
<1>2. /\ Len(wire[i]) \in Nat /\ j \in 1..Len(wire[i]) /\ G \in Seq(Packet)
      /\ Len(G) = Len(wire[i]) /\ G[j] = wire[i][j].got
  BY <1>1, GotsFacts, LenProperties, Zenon
<1>3. Lines[i] = G \o P
  BY NextLines, Zenon
<1> HIDE DEF G, P
<1>4. Len(P) \in Nat /\ j \in 1..Len(G) + Len(P)
  <2>1. Len(P) \in Nat
    BY <1>1, LenProperties, Zenon
  <2>2. Len(G) \in Nat /\ j \in 1..Len(G)
    BY <1>2, Zenon
  <2> QED
    BY <2>1, <2>2
<1>5. DOMAIN (G \o P) = 1..Len(G) + Len(P) /\ (G \o P)[j] = G[j]
  <2> DEFINE X == G \o P
  <2>1. X \in Seq(Packet) /\ Len(X) = Len(G) + Len(P) /\ X[j] = G[j]
    <3>1. G \in Seq(Packet) /\ P \in Seq(Packet)
      BY <1>1, <1>2
    <3>2. /\ X \in Seq(Packet) /\ Len(X) = Len(G) + Len(P)
          /\ \A n \in 1..Len(G) + Len(P) :
                X[n] = IF n <= Len(G) THEN G[n] ELSE P[n - Len(G)]
      BY <3>1, ConcatProperties, Zenon
    <3>3. j <= Len(G)
      BY <1>2
    <3> QED
      BY <1>4, <3>2, <3>3, Zenon
  <2> HIDE DEF X
  <2>2. DOMAIN X = 1..Len(X)
    BY <2>1, LenProperties
  <2> QED
    BY <2>1, <2>2, Zenon DEF X
<1> QED
  BY <1>2, <1>3, <1>4, <1>5

\* Packets of one port leave by a port in the order they came, though three cores
\* and two rings lie in between (runtime.c).
THEOREM PacketsInOrder == Spec => []OrderKept
<1>1. IInv => OrderKept
  <2> SUFFICES ASSUME IInv, Forwarding, NEW i \in Ports, NEW j \in DOMAIN wire[i],
                      NEW l \in DOMAIN wire[i], j < l,
                      wire[i][j].got.in = wire[i][l].got.in
               PROVE  wire[i][j].got.id < wire[i][l].got.id
    BY DEF OrderKept
  <2>1. Typed /\ Rising(Lines[i])
    BY Zenon DEF IInv, Forwards, Flow
  <2>2. /\ j \in DOMAIN Lines[i] /\ Lines[i][j] = wire[i][j].got
        /\ l \in DOMAIN Lines[i] /\ Lines[i][l] = wire[i][l].got
    BY <2>1, SentFirst
  <2> QED
    BY <2>1, <2>2, Zenon DEF Rising
<1> QED
  BY <1>1, Invariance, PTL

\* A packet for a known host carries the MAC of the port it leaves by: m->port, which
\* update_pkt_macaddr reads, and the route agree (runtime.c).
THEOREM MacsOfOutPorts == Spec => []MacOfOutPort
<1>1. IInv => MacOfOutPort
  <2> SUFFICES ASSUME IInv, setup.pipeline_type = "acl", Forwarding, NEW i \in Ports,
                      NEW j \in DOMAIN wire[i]
               PROVE  MacRight(wire[i][j].got, i)
    BY DEF MacOfOutPort, MacRight
  <2>1. Typed /\ \A n \in DOMAIN Lines[i] : MacRight(Lines[i][n], i)
    BY Zenon DEF IInv, Forwards, Macs
  <2>2. j \in DOMAIN Lines[i] /\ Lines[i][j] = wire[i][j].got
    BY <2>1, SentFirst
  <2> QED
    BY <2>1, <2>2, Zenon
<1> QED
  BY <1>1, Invariance, PTL
=============================================================================
