------------------------------- MODULE Router -------------------------------
(***************************************************************************)
(* The data plane of test-router: the loops of the RX, worker and TX cores *)
(* (runtime.c, pipeline_acl.c), which pass mbufs from the receive queues   *)
(* through rings to the transmit queues of the two ports.                  *)
(*                                                                         *)
(* A packet is a record: an id in order of arrival, its kind, the port it  *)
(* came in by, its destination and its source MAC.  An mbuf is a buffer    *)
(* whose content is the packet last written to it; the pool counts how     *)
(* often each mbuf has been given back.  All bursts are of size 1, the     *)
(* values of init.c, but for the write burst of the TX core, a constant.   *)
(*                                                                         *)
(* init.c has IP settings for ports 0 and 1 only and reads them for every  *)
(* port, so that these are the two ports; i ^ 1 is the other one.          *)
(***************************************************************************)
EXTENDS Integers, Sequences, FiniteSets

CONSTANTS Mbufs,         \* the mbufs of app.pool
          RingCap,       \* capacity of a ring (127 in the code)
          TxDescs,       \* descriptors of a transmit queue (512)
          BurstTxWrite,  \* app.burst_size_tx_write (1)
          Setups,        \* pipelines and the traffic they meet
          Dsts,          \* their destinations, a subset of AllDsts
          MaxPkts        \* bound: the most packets that arrive in a setup

\* 192.168.3.33 and 192.168.4.44, the hosts whose MACs the ACL worker knows;
\* other hosts of the two networks; any other address.
AllDsts == {"host3", "net3", "host4", "net4", "far"}

ASSUME ConstantsAssumption ==
    /\ IsFiniteSet(Mbufs) /\ Mbufs # {}
    /\ RingCap \in Nat \ {0} /\ TxDescs \in Nat \ {0}
    /\ BurstTxWrite \in Nat \ {0}
    /\ Setups \subseteq [pipeline_type : {"none", "acl"},
                         traffic : SUBSET {"arp", "echo", "ip"},
                         pkts : 0..MaxPkts]
    /\ Dsts \subseteq AllDsts
    /\ MaxPkts \in Nat

Ports    == {0, 1}
Other(i) == 1 - i
NoMbuf   == "NULL"
Dropped  == -1
SenderMac == -1     \* any MAC that is not the router's

VARIABLES
    setup,        \* [pipeline_type, traffic, pkts]: how the router was started,
                  \* the kinds of packets that arrive, and bound: how many
    slave_resume_signal,
    rx, wk, tx,   \* the three loops: program counter, port index i, mbuf
    rings_rx, rings_tx,
    mbuf_tx,      \* app.mbuf_tx[i]: what the TX core has gathered
    txq,          \* the transmit queue of each port
    raced,        \* which cores overlapped with the other in rte_eth_tx_burst
    free,         \* how often each mbuf is in the pool
    content,      \* the packet each mbuf holds
    arrived,      \* packets that arrived so far
    wire,         \* what each port transmitted: [meant, got]
    dropped       \* ids of the packets whose mbuf was freed unsent

rings == <<rings_rx, rings_tx>>
log   == <<arrived, wire, dropped>>
vars  == <<setup, slave_resume_signal, rx, wk, tx, rings, mbuf_tx, txq, raced,
           free, content, log>>

Packet == [id : 0..MaxPkts,
           kind : {"arp", "echo", "ip", "arpreply", "echoreply"},
           in : Ports, dst : AllDsts, smac : {SenderMac} \cup Ports]

NoPacket == [id |-> 0, kind |-> "ip", in |-> 0, dst |-> "far", smac |-> SenderMac]

TypeOK ==
    /\ setup \in Setups
    /\ slave_resume_signal \in BOOLEAN
    /\ rx \in [pc : {"parked", "poll", "arp", "echo", "enqueue", "burst",
                     "bursting", "free", "crashed"},
               i : Ports, m : Mbufs \cup {NoMbuf}]
    /\ wk \in [pc : {"parked", "poll", "enqueue"},
               i : Ports, m : Mbufs \cup {NoMbuf}]
    /\ tx \in [pc : {"parked", "poll", "burst", "bursting"}, i : Ports]
    /\ rings_rx \in [Ports -> Seq(Mbufs)] /\ rings_tx \in [Ports -> Seq(Mbufs)]
    /\ mbuf_tx \in [Ports -> Seq(Mbufs)]
    /\ txq \in [Ports -> Seq([m : Mbufs, meant : Packet])]
    /\ \A i \in Ports : /\ Len(rings_rx[i]) <= RingCap /\ Len(rings_tx[i]) <= RingCap
                        /\ Len(mbuf_tx[i]) <= BurstTxWrite
                        /\ Len(txq[i]) <= TxDescs
    /\ raced \in [{"rx", "tx"} -> BOOLEAN]
    /\ free \in [Mbufs -> Nat]
    /\ content \in [Mbufs -> Packet]
    /\ arrived \in 0..MaxPkts
    /\ dropped \subseteq 1..MaxPkts

Init ==
    /\ setup \in Setups
    /\ slave_resume_signal = FALSE
    /\ rx = [pc |-> "parked", i |-> 0, m |-> NoMbuf]
    /\ wk = [pc |-> "parked", i |-> 0, m |-> NoMbuf]
    /\ tx = [pc |-> "parked", i |-> 0]
    /\ rings_rx = [i \in Ports |-> <<>>]
    /\ rings_tx = [i \in Ports |-> <<>>]
    /\ mbuf_tx = [i \in Ports |-> <<>>]
    /\ txq = [i \in Ports |-> <<>>]
    /\ raced = [c \in {"rx", "tx"} |-> FALSE]
    /\ free = [m \in Mbufs |-> 1]
    /\ content = [m \in Mbufs |-> NoPacket]
    /\ arrived = 0
    /\ wire = [i \in Ports |-> <<>>]
    /\ dropped = {}

-----------------------------------------------------------------------------
\* rte_pktmbuf_free and rte_pktmbuf_alloc.
Free(m)  == free' = [free EXCEPT ![m] = @ + 1]
Alloc(m) == free[m] > 0 /\ free' = [free EXCEPT ![m] = @ - 1]

\* The next round of a loop: i = (i + 1) & (n_ports - 1).
NextPort(core) == [core EXCEPT !.pc = "poll", !.i = Other(@)]

\* The part of a batch that fits into the transmit queue of port i.
Fits(i, batch) ==
    LET room == TxDescs - Len(txq[i])
    IN  SubSeq(batch, 1, IF Len(batch) <= room THEN Len(batch) ELSE room)

Descriptors(batch) ==
    [j \in DOMAIN batch |-> [m |-> batch[j], meant |-> content[batch[j]]]]

\* rte_eth_tx_burst takes no lock, and the RX and the TX core both use queue 0.
\* A core enters it ...
EnterBurst(c, overlap) ==
    raced' = [d \in {"rx", "tx"} |->
                 IF d = c THEN overlap ELSE raced[d] \/ overlap]

\* ... and leaves it with part sent in the queue; when both cores were in it,
\* the descriptors of one may have overwritten those of the other.
LeaveBurst(c, i, sent) ==
    /\ \/ txq' = [txq EXCEPT ![i] = @ \o Descriptors(sent)]
       \/ raced[c] /\ UNCHANGED txq
    /\ raced' = [raced EXCEPT ![c] = FALSE]

\* The routes of rules.conf; a miss in the table drops the packet.
Route(dst) == IF dst \in {"host3", "net3"} THEN 0
              ELSE IF dst \in {"host4", "net4"} THEN 1 ELSE Dropped

-----------------------------------------------------------------------------
(***************************************************************************)
(* Mutants: definitions as a plausible slip in the code would make them,   *)
(* used by mutation runs only.                                             *)
(***************************************************************************)

\* The source MAC of the port the packet came in by.
UpdateMacInPort(pkt) ==
    IF pkt.dst \in {"host3", "host4"} THEN [pkt EXCEPT !.smac = pkt.in] ELSE pkt

\* The worker never leaves its first port.
WorkerDequeueOnePort ==
    /\ wk.pc = "poll"
    /\ rings_rx[0] # <<>>
    /\ wk' = [wk EXCEPT !.pc = "enqueue", !.i = 0, !.m = Head(rings_rx[0])]
    /\ rings_rx' = [rings_rx EXCEPT ![0] = Tail(@)]
    /\ UNCHANGED <<setup, slave_resume_signal, rx, tx, rings_tx, mbuf_tx, txq,
                   raced, free, content, log>>

\* The TX core sends a batch only when it is larger than the burst size.
TxDequeueHold ==
    /\ tx.pc = "poll"
    /\ IF rings_tx[tx.i] = <<>>
       THEN /\ tx' = NextPort(tx)
            /\ UNCHANGED <<rings_tx, mbuf_tx>>
       ELSE /\ rings_tx' = [rings_tx EXCEPT ![tx.i] = Tail(@)]
            /\ mbuf_tx' = [mbuf_tx EXCEPT ![tx.i] =
                              Append(@, Head(rings_tx[tx.i]))]
            /\ tx' = IF Len(mbuf_tx'[tx.i]) <= BurstTxWrite
                     THEN NextPort(tx) ELSE [tx EXCEPT !.pc = "burst"]
    /\ UNCHANGED <<setup, slave_resume_signal, rx, wk, rings_rx, txq, raced,
                   free, content, log>>

\* The TX core puts what it dequeues at the front of the batch.
TxDequeueFront ==
    /\ tx.pc = "poll"
    /\ IF rings_tx[tx.i] = <<>>
       THEN /\ tx' = NextPort(tx)
            /\ UNCHANGED <<rings_tx, mbuf_tx>>
       ELSE /\ rings_tx' = [rings_tx EXCEPT ![tx.i] = Tail(@)]
            /\ mbuf_tx' = [mbuf_tx EXCEPT ![tx.i] =
                              <<Head(rings_tx[tx.i])>> \o @]
            /\ tx' = IF Len(mbuf_tx'[tx.i]) < BurstTxWrite
                     THEN NextPort(tx) ELSE [tx EXCEPT !.pc = "burst"]
    /\ UNCHANGED <<setup, slave_resume_signal, rx, wk, rings_rx, txq, raced,
                   free, content, log>>

\* The TX core forgets what the queue had no room for.
TxForgetUnsent ==
    /\ tx.pc = "bursting"
    /\ LeaveBurst("tx", tx.i, Fits(tx.i, mbuf_tx[tx.i]))
    /\ mbuf_tx' = [mbuf_tx EXCEPT ![tx.i] = <<>>]
    /\ tx' = NextPort(tx)
    /\ UNCHANGED <<setup, slave_resume_signal, rx, wk, rings, free, content,
                   log>>

-----------------------------------------------------------------------------
\* update_pkt_macaddr: for the two known hosts the source MAC becomes that of the
\* port the packet did not come in by.  What the pipeline gets here is IPv4, as
\* dst says it is, and a packet_type the NIC has filled in agrees.
UpdateMac(pkt) ==
    IF pkt.dst \in {"host3", "host4"} THEN [pkt EXCEPT !.smac = Other(pkt.in)]
                                      ELSE pkt

-----------------------------------------------------------------------------
(***************************************************************************)
(* The application starts: the hypervisor sets slave_resume_signal once    *)
(* the cores may run (see QuiesceVmx), and each loop begins at port 0.     *)
(***************************************************************************)
Resume ==
    /\ ~slave_resume_signal
    /\ slave_resume_signal' = TRUE
    /\ UNCHANGED <<setup, rx, wk, tx, rings, mbuf_tx, txq, raced, free, content,
                   log>>

Start ==
    /\ slave_resume_signal
    /\ \/ rx.pc = "parked" /\ rx' = [rx EXCEPT !.pc = "poll"]
          /\ UNCHANGED <<wk, tx>>
       \/ wk.pc = "parked" /\ wk' = [wk EXCEPT !.pc = "poll"]
          /\ UNCHANGED <<rx, tx>>
       \/ tx.pc = "parked" /\ tx' = [tx EXCEPT !.pc = "poll"]
          /\ UNCHANGED <<rx, wk>>
    /\ UNCHANGED <<setup, slave_resume_signal, rings, mbuf_tx, txq, raced, free,
                   content, log>>

-----------------------------------------------------------------------------
(***************************************************************************)
(* app_main_loop_rx.                                                       *)
(***************************************************************************)

\* rte_eth_rx_burst returns nothing.
RxEmpty ==
    /\ rx.pc = "poll"
    /\ rx' = NextPort(rx)
    /\ UNCHANGED <<setup, slave_resume_signal, wk, tx, rings, mbuf_tx, txq,
                   raced, free, content, log>>

\* Only the ACL pipeline tells destinations apart.
Routed(kind) == setup.pipeline_type = "acl" /\ kind = "ip"

\* rte_eth_rx_burst returns a packet, which the NIC has written to an mbuf of
\* the pool; the loop tells ARP packets, echo requests to the router and all
\* others apart.
RxPacket(m) ==
    /\ rx.pc = "poll"
    /\ arrived < setup.pkts
    /\ Alloc(m)
    /\ arrived' = arrived + 1
    /\ \E kind \in setup.traffic, dst \in Dsts :
          /\ Routed(kind) \/ dst = "far"
          /\ content' = [content EXCEPT ![m] =
                            [id |-> arrived + 1, kind |-> kind, in |-> rx.i,
                             dst |-> dst, smac |-> SenderMac]]
          /\ rx' = [rx EXCEPT !.m = m,
                              !.pc = IF kind = "ip" THEN "enqueue" ELSE kind]
    /\ UNCHANGED <<setup, slave_resume_signal, wk, tx, rings, mbuf_tx, txq,
                   raced, wire, dropped>>

\* The ARP reply is built in an mbuf of its own, and the one of the request is
\* forgotten.  The result of rte_pktmbuf_alloc is not tested.
RxArp(m) ==
    /\ rx.pc = "arp"
    /\ Alloc(m)
    /\ content' = [content EXCEPT ![m] = [content[rx.m] EXCEPT
                                             !.kind = "arpreply", !.smac = rx.i]]
    /\ rx' = [rx EXCEPT !.pc = "burst", !.m = m]
    /\ UNCHANGED <<setup, slave_resume_signal, wk, tx, rings, mbuf_tx, txq,
                   raced, log>>

RxArpNoMbuf ==
    /\ rx.pc = "arp"
    /\ \A m \in Mbufs : free[m] = 0
    /\ rx' = [rx EXCEPT !.pc = "crashed"]
    /\ UNCHANGED <<setup, slave_resume_signal, wk, tx, rings, mbuf_tx, txq,
                   raced, free, content, log>>

\* The echo reply is written over the request.
RxEcho ==
    /\ rx.pc = "echo"
    /\ content' = [content EXCEPT ![rx.m].kind = "echoreply",
                                  ![rx.m].smac = rx.i]
    /\ rx' = [rx EXCEPT !.pc = "burst"]
    /\ UNCHANGED <<setup, slave_resume_signal, wk, tx, rings, mbuf_tx, txq,
                   raced, free, log>>

RxEnterBurst ==
    /\ rx.pc = "burst"
    /\ rx' = [rx EXCEPT !.pc = "bursting"]
    /\ EnterBurst("rx", tx.pc = "bursting" /\ tx.i = rx.i)
    /\ UNCHANGED <<setup, slave_resume_signal, wk, tx, rings, mbuf_tx, txq, free,
                   content, log>>

RxLeaveBurst ==
    /\ rx.pc = "bursting"
    /\ rx' = [rx EXCEPT !.pc = "free"]
    /\ LeaveBurst("rx", rx.i, Fits(rx.i, <<rx.m>>))
    /\ UNCHANGED <<setup, slave_resume_signal, wk, tx, rings, mbuf_tx, free,
                   content, log>>

\* The reply's mbuf is freed whether it was queued or not.
RxFree ==
    /\ rx.pc = "free"
    /\ Free(rx.m)
    /\ rx' = NextPort(rx)
    /\ UNCHANGED <<setup, slave_resume_signal, wk, tx, rings, mbuf_tx, txq,
                   raced, content, log>>

\* The loop retries until the ring has room.
RxEnqueue ==
    /\ rx.pc = "enqueue"
    /\ Len(rings_rx[rx.i]) < RingCap
    /\ rings_rx' = [rings_rx EXCEPT ![rx.i] = Append(@, rx.m)]
    /\ rx' = NextPort(rx)
    /\ UNCHANGED <<setup, slave_resume_signal, wk, tx, rings_tx, mbuf_tx, txq,
                   raced, free, content, log>>

-----------------------------------------------------------------------------
(***************************************************************************)
(* app_main_loop_worker and app_main_loop_worker_pipeline_acl.             *)
(***************************************************************************)
WorkerDequeue ==
    /\ wk.pc = "poll"
    /\ IF rings_rx[wk.i] = <<>>
       THEN /\ wk' = NextPort(wk)
            /\ UNCHANGED rings_rx
       ELSE /\ wk' = [wk EXCEPT !.pc = "enqueue", !.m = Head(rings_rx[wk.i])]
            /\ rings_rx' = [rings_rx EXCEPT ![wk.i] = Tail(@)]
    /\ UNCHANGED <<setup, slave_resume_signal, rx, tx, rings_tx, mbuf_tx, txq,
                   raced, free, content, log>>

\* Without a pipeline a packet leaves by the other port; the loop retries until
\* the ring has room.
WorkerForward ==
    /\ setup.pipeline_type = "none"
    /\ wk.pc = "enqueue"
    /\ Len(rings_tx[Other(wk.i)]) < RingCap
    /\ rings_tx' = [rings_tx EXCEPT ![Other(wk.i)] = Append(@, wk.m)]
    /\ wk' = NextPort(wk)
    /\ UNCHANGED <<setup, slave_resume_signal, rx, tx, rings_rx, mbuf_tx, txq,
                   raced, free, content, log>>

\* The ACL pipeline routes by destination.  Its ring writer does not retry: a
\* packet that finds its ring full is dropped, as one without a route is.
WorkerRoute ==
    LET pkt == content[wk.m]
        out == Route(pkt.dst)
    IN  /\ setup.pipeline_type = "acl"
        /\ wk.pc = "enqueue"
        /\ wk' = NextPort(wk)
        /\ \/ /\ out # Dropped
              /\ Len(rings_tx[out]) < RingCap
              /\ content' = [content EXCEPT ![wk.m] = UpdateMac(pkt)]
              /\ rings_tx' = [rings_tx EXCEPT ![out] = Append(@, wk.m)]
              /\ UNCHANGED <<free, dropped>>
           \/ /\ IF out = Dropped THEN TRUE ELSE Len(rings_tx[out]) = RingCap
              /\ Free(wk.m)
              /\ dropped' = dropped \cup {pkt.id}
              /\ UNCHANGED <<content, rings_tx>>
        /\ UNCHANGED <<setup, slave_resume_signal, rx, tx, rings_rx, mbuf_tx,
                       txq, raced, arrived, wire>>

-----------------------------------------------------------------------------
(***************************************************************************)
(* app_main_loop_tx.                                                       *)
(***************************************************************************)
TxDequeue ==
    /\ tx.pc = "poll"
    /\ IF rings_tx[tx.i] = <<>>
       THEN /\ tx' = NextPort(tx)
            /\ UNCHANGED <<rings_tx, mbuf_tx>>
       ELSE /\ rings_tx' = [rings_tx EXCEPT ![tx.i] = Tail(@)]
            /\ mbuf_tx' = [mbuf_tx EXCEPT ![tx.i] =
                              Append(@, Head(rings_tx[tx.i]))]
            /\ tx' = IF Len(mbuf_tx'[tx.i]) < BurstTxWrite
                     THEN NextPort(tx) ELSE [tx EXCEPT !.pc = "burst"]
    /\ UNCHANGED <<setup, slave_resume_signal, rx, wk, rings_rx, txq, raced,
                   free, content, log>>

TxEnterBurst ==
    /\ tx.pc = "burst"
    /\ tx' = [tx EXCEPT !.pc = "bursting"]
    /\ EnterBurst("tx", rx.pc = "bursting" /\ rx.i = tx.i)
    /\ UNCHANGED <<setup, slave_resume_signal, rx, wk, rings, mbuf_tx, txq, free,
                   content, log>>

\* What the queue had no room for is freed.
TxLeaveBurst ==
    LET batch  == mbuf_tx[tx.i]
        sent   == Fits(tx.i, batch)
        unsent == {batch[j] : j \in Len(sent) + 1 .. Len(batch)}
    IN  /\ tx.pc = "bursting"
        /\ LeaveBurst("tx", tx.i, sent)
        /\ free' = [m \in Mbufs |-> free[m] + (IF m \in unsent THEN 1 ELSE 0)]
        /\ dropped' = dropped \cup {content[m].id : m \in unsent}
        /\ mbuf_tx' = [mbuf_tx EXCEPT ![tx.i] = <<>>]
        /\ tx' = NextPort(tx)
        /\ UNCHANGED <<setup, slave_resume_signal, rx, wk, rings, content,
                       arrived, wire>>

\* The NIC transmits what the mbuf holds by now, and gives it back.
NicTransmit(i) ==
    /\ txq[i] # <<>>
    /\ LET e == Head(txq[i])
       IN  /\ wire' = [wire EXCEPT ![i] =
                          Append(@, [meant |-> e.meant, got |-> content[e.m]])]
           /\ Free(e.m)
    /\ txq' = [txq EXCEPT ![i] = Tail(@)]
    /\ UNCHANGED <<setup, slave_resume_signal, rx, wk, tx, rings, mbuf_tx, raced,
                   content, arrived, dropped>>

-----------------------------------------------------------------------------
RxCore == \/ RxEmpty \/ (\E m \in Mbufs : RxPacket(m) \/ RxArp(m))
          \/ RxArpNoMbuf \/ RxEcho \/ RxEnterBurst \/ RxLeaveBurst \/ RxFree
          \/ RxEnqueue

WorkerCore == WorkerDequeue \/ WorkerForward \/ WorkerRoute

TxCore == TxDequeue \/ TxEnterBurst \/ TxLeaveBurst

Next == \/ Resume \/ Start \/ RxCore \/ WorkerCore \/ TxCore
        \/ \E i \in Ports : NicTransmit(i)

Spec == Init /\ [][Next]_vars

\* Each loop has a core of its own that runs nothing else, and the NICs drain
\* their queues.
Fairness == /\ WF_vars(Resume) /\ WF_vars(Start)
            /\ WF_vars(RxCore) /\ WF_vars(WorkerCore) /\ WF_vars(TxCore)
            /\ \A i \in Ports : WF_vars(NicTransmit(i))

FairSpec == Spec /\ Fairness

-----------------------------------------------------------------------------
(***************************************************************************)
(* Properties.                                                             *)
(***************************************************************************)

Occurs(m, s) == Cardinality({j \in DOMAIN s : s[j] = m})

\* In how many places mbuf m is: the pool, a core's hands, a ring, a batch or a
\* transmit queue.
Owners(m) ==
    LET held == (IF rx.pc \notin {"parked", "poll"} /\ rx.m = m THEN 1 ELSE 0)
                + (IF wk.pc = "enqueue" /\ wk.m = m THEN 1 ELSE 0)
        at(i) == Occurs(m, rings_rx[i]) + Occurs(m, rings_tx[i])
                 + Occurs(m, mbuf_tx[i])
                 + Cardinality({j \in DOMAIN txq[i] : txq[i][j].m = m})
    IN  free[m] + held + at(0) + at(1)

\* All packets are forwarded, none is answered by the RX core.
Forwarding == setup.traffic = {"ip"}

\* Forwarding neither leaks an mbuf nor gives it to two owners: the three cores
\* and the NICs pass each mbuf on exactly once (runtime.c, the three loops).
MbufOwnedOnce == Forwarding => \A m \in Mbufs : Owners(m) = 1

\* A port transmits what was in the mbuf when it was queued: nobody writes to an
\* mbuf that the NIC still owns.  The RX core means its replies that way: "Reply to
\* ARP request from the port that it receives" (runtime.c).
TransmitsWhatWasSent ==
    \A i \in Ports : \A j \in DOMAIN wire[i] : wire[i][j].got = wire[i][j].meant

\* Packets that came in by one port and leave by one port leave in the order they
\* came in, though three cores and two queues lie in between.
OrderKept ==
    Forwarding => \A i \in Ports : \A j, l \in DOMAIN wire[i] :
        /\ j < l
        /\ wire[i][j].got.in = wire[i][l].got.in
        => wire[i][j].got.id < wire[i][l].got.id

\* With the ACL pipeline, a packet for one of the two known hosts that crosses the
\* router carries the MAC of the port it leaves by: m->port, which
\* update_pkt_macaddr reads, and the route agree.
MacOfOutPort ==
    setup.pipeline_type = "acl" /\ Forwarding =>
      \A i \in Ports : \A j \in DOMAIN wire[i] :
        LET pkt == wire[i][j].got
        IN  pkt.dst \in {"host3", "host4"} /\ pkt.in # i => pkt.smac = i

\* A packet that was received is transmitted or dropped in the end, or waits in
\* a batch that is not yet complete: none stays behind anywhere else.
EveryPacketSettles ==
    \A p \in 1..MaxPkts : <>[]
        (Forwarding /\ arrived >= p =>
            \/ p \in dropped
            \/ \E i \in Ports :
                  \/ \E j \in DOMAIN wire[i] : wire[i][j].got.id = p
                  \/ /\ Len(mbuf_tx[i]) < BurstTxWrite
                     /\ \E j \in DOMAIN mbuf_tx[i] : content[mbuf_tx[i][j]].id = p)

\* A full ring never stops the RX core for good, whatever the traffic is: the
\* worker and the TX core empty the rings in front of them, and the TX core
\* drops rather than wait for the NIC.
BackpressureClears == (rx.pc = "enqueue") ~> (rx.pc = "poll")
=============================================================================
