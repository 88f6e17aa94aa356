------------------------------- MODULE IxgbeTx -------------------------------
(***************************************************************************)
(* The transmit side of the ixgbe driver: one Tx ring, and everything that *)
(* stops, starts, cleans or resets it.  The stack transmits under the      *)
(* queue's lock, NAPI cleans completed descriptors on another core, the    *)
(* service task watches link and hangs and resets the adapter, and a user  *)
(* changes the MTU, closes or opens the interface under rtnl.              *)
(*                                                                         *)
(* The ring is the counts, from next_to_clean on, of descriptors posted up *)
(* to next_to_use (used), told to the hardware by the tail (told), and     *)
(* written back (done).  All three lie between two packets; where one      *)
(* packet ends and the next begins inside a count is not recorded, so that *)
(* a completed packet may have any size a packet can have.  The barriers   *)
(* of the code make its steps sequentially consistent.                     *)
(***************************************************************************)
EXTENDS Integers

CONSTANTS
    Count,        \* tx_ring->count
    MaxCount,     \* data descriptors of the largest packet
    DescNeeded,   \* DESC_NEEDED, the count + 3 of the largest packet whose
                  \* pieces fit a descriptor each
    Budget,       \* q_vector->tx.work_limit, in packets
    Events,       \* which of "hang", "lost" (an interrupt), "link" (a change),
                  \* "mtu" (a change) and "close" happen
    MaxEvents     \* bound on them, taken together

VARIABLES
    st,      \* adapter->state: [down, resetting, resetReq, sched]
    net,     \* the net_device: [stopped, carrier, running, rings]
    ring,    \* [used, told, done]
    xpc,     \* the transmit path, which holds the queue's lock unless "idle"
    count,   \* the data descriptors its packet needs, 0 once they are posted
    poll,    \* NAPI: [pc, more, on]: more to clean, napi enabled
    irq,     \* interrupts: [on, pend, other]: the queue's vector, and the link's
    hang,    \* [check, armed, moved]: the two ring bits, tx_done # tx_done_old
    hw,      \* [hung, link, lsc]: unit stuck, physical link, LSC raised
    wd,      \* [need, up, timer]: NEED_LINK_UPDATE, link_up, service_timer
    spc,     \* ixgbe_service_task
    rst,     \* the holder of rtnl: [pc, op]
    panic,   \* undefined behaviour the driver has run into
    left     \* how many of these events may still happen

vars == <<st, net, ring, xpc, count, poll, irq, hang, hw, wd, spc, rst, panic,
          left>>

ASSUME RingAssumption ==
    /\ Count \in Nat /\ MaxCount \in Nat \ {0}
    /\ DescNeeded \in Nat \ {0} /\ Budget \in Nat \ {0}
    /\ Count - 1 >= 2 * DescNeeded      \* IXGBE_MIN_TXD

Unused(r) == Count - 1 - r.used
Schedule(s) == [s EXCEPT !.sched = @ \/ ~s.down]
Empty == [used |-> 0, told |-> 0, done |-> 0]
Polling == poll.pc # "idle"

\* Nothing is said of the driver once it has run into undefined behaviour.
Running == panic = "none"

\* ixgbe_open has run and the watchdog has brought the link up.
Init ==
    /\ st = [down |-> FALSE, resetting |-> FALSE, resetReq |-> FALSE, sched |-> FALSE]
    /\ net = [stopped |-> FALSE, carrier |-> TRUE, running |-> TRUE, rings |-> TRUE]
    /\ ring = Empty
    /\ xpc = "idle"
    /\ count = 0
    /\ poll = [pc |-> "idle", more |-> FALSE, on |-> TRUE]
    /\ irq = [on |-> TRUE, pend |-> FALSE, other |-> TRUE]
    /\ hang = [check |-> FALSE, armed |-> FALSE, moved |-> FALSE]
    /\ hw = [hung |-> FALSE, link |-> TRUE, lsc |-> FALSE]
    /\ wd = [need |-> FALSE, up |-> TRUE, timer |-> TRUE]
    /\ spc = "idle"
    /\ rst = [pc |-> "idle", op |-> "none"]
    /\ panic = "none"
    /\ left = MaxEvents

-----------------------------------------------------------------------------
(* ixgbe_xmit_frame_ring and ixgbe_tx_map, under the queue's lock. *)

XmitRest == <<st, poll, irq, hang, hw, wd, spc, rst, left>>

\* The ring is being freed or laid out anew under the transmitter.
Torn == rst.pc = "configure"

\* Mutant: the context descriptor and the gap are not asked for.
XmitFrameExact ==
    /\ Running /\ xpc = "idle" /\ net.running /\ ~net.stopped /\ net.carrier
    /\ \E n \in 1..MaxCount :
          /\ count' = n
          /\ xpc' = IF Unused(ring) >= n THEN "map" ELSE "stop"
    /\ UNCHANGED <<net, ring, panic>> /\ UNCHANGED XmitRest

\* The stack offers a packet, which without carrier is freed at once.  Besides
\* the data descriptors, room is asked for one context descriptor and a gap of
\* two: "2 desc gap to keep tail from touching head".
XmitFrame ==
    /\ Running /\ xpc = "idle" /\ net.running /\ ~net.stopped /\ net.carrier
    /\ \E n \in 1..MaxCount :
          /\ count' = n
          /\ xpc' = IF Unused(ring) >= n + 3 THEN "map" ELSE "stop"
    /\ UNCHANGED <<net, ring, panic>> /\ UNCHANGED XmitRest

\* The packet takes its data descriptors, fewer if FCoE trims its tail, and
\* maybe a context descriptor before them; then room is looked for for the next
\* packet.  A DMA mapping error drops it and leaves next_to_use as it was.
TxMap ==
    /\ Running /\ xpc = "map"
    /\ IF Torn
       THEN panic' = "torn" /\ UNCHANGED <<ring, xpc, count>>
       ELSE /\ UNCHANGED panic
            /\ count' = 0
            /\ \/ xpc' = "idle" /\ UNCHANGED ring
               \/ \E n \in 1..(count + 1) :
                    /\ ring' = [ring EXCEPT !.used = @ + n]
                    /\ xpc' = IF Unused(ring') >= DescNeeded THEN "tail" ELSE "stopAfter"
    /\ UNCHANGED net /\ UNCHANGED XmitRest

\* __ixgbe_maybe_stop_tx, before the packet or after it: stop the queue, ...
MaybeStop ==
    /\ Running
    /\ \/ xpc = "stop" /\ xpc' = "recheck"
       \/ xpc = "stopAfter" /\ xpc' = "recheckAfter"
    /\ net' = [net EXCEPT !.stopped = TRUE]
    /\ UNCHANGED <<ring, count, panic>> /\ UNCHANGED XmitRest

\* Mutant: the stopped queue is not looked at again.
RecheckNever ==
    /\ Running
    /\ \/ xpc = "recheck" /\ xpc' = "idle" /\ count' = 0
       \/ xpc = "recheckAfter" /\ xpc' = "tail" /\ UNCHANGED count
    /\ UNCHANGED <<net, ring, panic>> /\ UNCHANGED XmitRest

\* ... and look again for the room that was asked for: NETDEV_TX_BUSY before the
\* packet, or a reprieve.
Recheck ==
    LET room == Unused(ring) >= IF xpc = "recheck" THEN count + 3 ELSE DescNeeded
    IN  /\ Running
        /\ \/ xpc = "recheck" /\ room /\ xpc' = "map" /\ UNCHANGED count
           \/ xpc = "recheck" /\ ~room /\ xpc' = "idle" /\ count' = 0
           \/ xpc = "recheckAfter" /\ xpc' = "tail" /\ UNCHANGED count
        /\ net' = [net EXCEPT !.stopped = @ /\ ~room]
        /\ UNCHANGED <<ring, panic>> /\ UNCHANGED XmitRest

\* The tail may wait for the next packet (xmit_more) unless the queue stopped.
WriteTail ==
    /\ Running /\ xpc = "tail"
    /\ xpc' = "idle"
    /\ \/ ring' = [ring EXCEPT !.told = ring.used]
       \/ ~net.stopped /\ UNCHANGED ring
    /\ UNCHANGED <<net, count, panic>> /\ UNCHANGED XmitRest

-----------------------------------------------------------------------------
(* The hardware. *)

\* The hardware has transmitted the next packet.
Complete ==
    /\ Running /\ ring.done < ring.told /\ ~hw.hung /\ hw.link
    /\ \E n \in 1..(MaxCount + 1) :
          /\ ring.done + n <= ring.told
          /\ ring' = [ring EXCEPT !.done = @ + n]
    /\ irq' = [irq EXCEPT !.pend = TRUE]
    /\ UNCHANGED <<st, net, xpc, count, poll, hang, hw, wd, spc, rst, panic, left>>

Fault ==
    /\ Running /\ left > 0
    /\ left' = left - 1
    /\ \/ "hang" \in Events /\ ~hw.hung
          /\ hw' = [hw EXCEPT !.hung = TRUE] /\ UNCHANGED irq
       \/ "lost" \in Events /\ irq.pend
          /\ irq' = [irq EXCEPT !.pend = FALSE] /\ UNCHANGED hw
       \/ "link" \in Events
          /\ hw' = [hw EXCEPT !.link = ~@, !.lsc = TRUE] /\ UNCHANGED irq
    /\ UNCHANGED <<st, net, ring, xpc, count, poll, hang, wd, spc, rst, panic>>

\* ixgbe_msix_clean_rings: the vector masks itself and schedules NAPI.
CleanRingsIrq ==
    /\ Running /\ irq.on /\ irq.pend
    /\ irq' = [irq EXCEPT !.on = FALSE, !.pend = FALSE]
    /\ poll' = IF poll.on /\ poll.pc = "idle"
               THEN [poll EXCEPT !.pc = "clean"] ELSE poll
    /\ UNCHANGED <<st, net, ring, xpc, count, hang, hw, wd, spc, rst, panic, left>>

\* ixgbe_msix_other on a link change, unless the watchdog has it masked.
CheckLsc ==
    /\ Running /\ hw.lsc /\ ~wd.need /\ irq.other
    /\ hw' = [hw EXCEPT !.lsc = FALSE]
    /\ wd' = [wd EXCEPT !.need = TRUE]
    /\ st' = Schedule(st)
    /\ UNCHANGED <<net, ring, xpc, count, poll, irq, hang, spc, rst, panic, left>>

-----------------------------------------------------------------------------
(* ixgbe_poll and ixgbe_clean_tx_irq. *)

PollRest == <<xpc, count, hw, wd, spc, rst, panic, left>>

\* ixgbe_check_tx_hang: no packet done since the last check and some pending,
\* twice in a row.
Hung(h, r) == h.check /\ ~h.moved /\ r.done < r.told /\ h.armed

Checked(h, r) ==
    IF ~h.check THEN h
    ELSE [check |-> FALSE, moved |-> FALSE, armed |-> ~h.moved /\ r.done < r.told]

TimeoutReset(s) == IF s.down THEN s ELSE Schedule([s EXCEPT !.resetReq = TRUE])

\* ixgbe_poll returns: it polls again, or completes NAPI and unmasks the
\* vector of an adapter that is not down.
PollReturns(more) ==
    /\ poll' = [poll EXCEPT !.pc = IF more THEN "clean" ELSE "idle", !.more = FALSE]
    /\ irq' = [irq EXCEPT !.on = @ \/ (~more /\ ~st.down)]

\* Completed packets are freed, at most Budget of them, next_to_clean moves,
\* and the ring is checked for a hang if the service task asked for it.
CleanTxIrq ==
    /\ Running /\ poll.pc = "clean"
    /\ \/ st.down /\ PollReturns(FALSE) /\ UNCHANGED <<st, net, ring, hang>>
       \/ ~st.down /\ \E pkts \in 0..Budget, n \in 0..ring.done :
            LET cleaned == [used |-> ring.used - n, told |-> ring.told - n,
                            done |-> ring.done - n]
                seen == [hang EXCEPT !.moved = @ \/ n > 0]
            IN  /\ pkts <= n /\ n <= pkts * (MaxCount + 1)
                /\ pkts < Budget => n = ring.done
                /\ ring' = cleaned
                /\ hang' = Checked(seen, cleaned)
                /\ IF Hung(seen, cleaned)
                   THEN /\ net' = [net EXCEPT !.stopped = TRUE]
                        /\ st' = TimeoutReset(st)
                        /\ PollReturns(FALSE)
                   ELSE /\ UNCHANGED <<net, st>>
                        /\ IF n > 0
                           THEN /\ poll' = [poll EXCEPT !.pc = "wake",
                                                        !.more = pkts = Budget]
                                /\ UNCHANGED irq
                           ELSE PollReturns(FALSE)
    /\ UNCHANGED PollRest

\* The wake-up: room in the stopped queue of a live adapter, then the wake.
PollWake ==
    /\ Running
    /\ \/ /\ poll.pc = "wake"
          /\ IF /\ net.carrier /\ Unused(ring) >= 2 * DescNeeded
                /\ net.stopped /\ ~st.down
             THEN poll' = [poll EXCEPT !.pc = "start"] /\ UNCHANGED irq
             ELSE PollReturns(poll.more)
          /\ UNCHANGED net
       \/ /\ poll.pc = "start"
          /\ PollReturns(poll.more)
          /\ net' = [net EXCEPT !.stopped = FALSE]
    /\ UNCHANGED <<st, ring, hang>> /\ UNCHANGED PollRest

\* ixgbe_tx_timeout: the stack's own watchdog, holding the queue's lock.
TxTimeout ==
    /\ Running
    /\ xpc = "idle" /\ net.running /\ net.stopped /\ net.carrier /\ hang.check
    /\ hang' = Checked(hang, ring)
    /\ st' = IF Hung(hang, ring) THEN TimeoutReset(st) ELSE st
    /\ UNCHANGED <<net, ring, xpc, count, poll, irq, hw, wd, spc, rst, panic, left>>

-----------------------------------------------------------------------------
(* The service timer and ixgbe_service_task. *)

ServiceTimer ==
    /\ Running /\ wd.timer
    /\ st' = Schedule(st)
    /\ UNCHANGED <<net, ring, xpc, count, poll, irq, hang, hw, wd, spc, rst, panic, left>>

ServiceRest == <<ring, xpc, count, poll, rst, panic, left>>

\* ixgbe_reset_subtask up to rtnl_lock.
ResetSubtask ==
    /\ Running /\ spc = "idle" /\ st.sched
    /\ st' = [st EXCEPT !.resetReq = FALSE]
    /\ spc' = IF st.resetReq /\ ~st.down /\ ~st.resetting THEN "rtnl" ELSE "watchdog"
    /\ UNCHANGED <<net, irq, hang, hw, wd>> /\ UNCHANGED ServiceRest

\* rtnl_lock, and on to ixgbe_reinit_locked.
ResetLocked ==
    /\ Running /\ spc = "rtnl" /\ rst.pc = "idle"
    /\ spc' = "reset"
    /\ rst' = [pc |-> "down", op |-> "service"]
    /\ UNCHANGED <<st, net, ring, xpc, count, poll, irq, hang, hw, wd, panic, left>>

\* ixgbe_watchdog_subtask does nothing on an adapter that is down or resetting.
Watchdog ==
    /\ Running /\ spc = "watchdog"
    /\ spc' = IF st.down \/ st.resetting THEN "hang" ELSE "link"
    /\ UNCHANGED <<st, net, irq, hang, hw, wd>> /\ UNCHANGED ServiceRest

\* Read the link when a change is due, follow it with the carrier and the
\* queue, and ask for a reset when packets are stuck behind a lost link.
\* A link that stays down is given up on after IXGBE_TRY_LINK_TIMEOUT.
WatchdogLink ==
    /\ Running /\ spc = "link"
    /\ spc' = "hang"
    /\ LET up == IF wd.need THEN hw.link ELSE wd.up
       IN  /\ \E giveUp \in BOOLEAN :
                wd' = [wd EXCEPT !.up = up, !.need = @ /\ ~up /\ ~giveUp]
           /\ net' = IF up = net.carrier THEN net
                     ELSE [net EXCEPT !.carrier = up, !.stopped = ~up]
           /\ st' = [st EXCEPT !.resetReq = @ \/ (~up /\ ring.used > 0)]
    /\ UNCHANGED <<irq, hang, hw>> /\ UNCHANGED ServiceRest

\* Mutant: the rings are marked for a check, and nobody is made to look.
CheckHangSilent ==
    /\ Running /\ spc = "hang"
    /\ spc' = "idle"
    /\ hang' = [hang EXCEPT !.check = @ \/ (~st.down /\ ~st.resetting /\ net.carrier)]
    /\ st' = [st EXCEPT !.sched = FALSE]
    /\ UNCHANGED <<net, irq, hw, wd>> /\ UNCHANGED ServiceRest

\* ixgbe_check_hang_subtask, and the end of the task: the next poll checks for
\* a hang, and a software interrupt makes sure there is one.
CheckHang ==
    LET live == ~st.down /\ ~st.resetting
    IN  /\ Running /\ spc = "hang"
        /\ spc' = "idle"
        /\ hang' = [hang EXCEPT !.check = @ \/ (live /\ net.carrier)]
        /\ irq' = [irq EXCEPT !.pend = @ \/ live]
        /\ st' = [st EXCEPT !.sched = FALSE]
        /\ UNCHANGED <<net, hw, wd>> /\ UNCHANGED ServiceRest

-----------------------------------------------------------------------------
(* Under rtnl: the user's operations, ixgbe_reinit_locked, ixgbe_down and  *)
(* ixgbe_up.                                                               *)

UserRest == <<st, ring, xpc, count, poll, irq, hang, hw, wd, spc, panic>>

\* The stack stops transmitting before it calls ixgbe_close.
UserOp ==
    /\ Running /\ rst.pc = "idle"
    /\ \/ /\ "mtu" \in Events /\ net.running /\ left > 0
          /\ rst' = [pc |-> "down", op |-> "mtu"]
          /\ left' = left - 1
          /\ UNCHANGED net
       \/ /\ "close" \in Events /\ net.running /\ left > 0 /\ xpc = "idle"
          /\ rst' = [pc |-> "down", op |-> "close"]
          /\ left' = left - 1
          /\ net' = [net EXCEPT !.running = FALSE]
       \/ /\ ~net.running
          /\ rst' = [pc |-> "configure", op |-> "open"]
          /\ net' = [net EXCEPT !.carrier = FALSE, !.rings = TRUE]
          /\ UNCHANGED left
    /\ UNCHANGED UserRest

Goto(pc) == rst' = [rst EXCEPT !.pc = pc]
AfterDown == IF rst.op = "close" THEN "free" ELSE "configure"

\* RESETTING, set by ixgbe_reinit_locked only, then DOWN.
DownBit ==
    /\ Running /\ rst.pc = "down" /\ (rst.op # "close" => ~st.resetting)
    /\ st' = [st EXCEPT !.resetting = @ \/ rst.op # "close", !.down = TRUE]
    /\ Goto(IF st.down THEN AfterDown ELSE "carrier")
    /\ UNCHANGED <<net, ring, xpc, count, poll, irq, hang, hw, wd, spc, panic, left>>

\* Mutant: the queues are stopped with the carrier still on.
DownQueuesCarrier ==
    /\ Running
    /\ \/ /\ rst.pc = "carrier" /\ Goto("disable")
       \/ /\ rst.pc = "disable" /\ xpc = "idle" /\ Goto("quiet")
    /\ net' = [net EXCEPT !.stopped = TRUE]
    /\ UNCHANGED <<st, ring, xpc, count, poll, irq, hang, hw, wd, spc, panic, left>>

\* netif_tx_stop_all_queues and netif_carrier_off, then netif_tx_disable,
\* which takes the queue's lock.
DownQueues ==
    /\ Running
    /\ \/ /\ rst.pc = "carrier" /\ Goto("disable")
          /\ net' = [net EXCEPT !.stopped = TRUE, !.carrier = FALSE]
       \/ /\ rst.pc = "disable" /\ xpc = "idle" /\ Goto("quiet")
          /\ net' = [net EXCEPT !.stopped = TRUE]
    /\ UNCHANGED <<st, ring, xpc, count, poll, irq, hang, hw, wd, spc, panic, left>>

\* ixgbe_irq_disable, ixgbe_napi_disable_all, which waits for the poll, and
\* del_timer_sync.
DownQuiet ==
    /\ Running /\ rst.pc = "quiet" /\ ~Polling /\ Goto("clean")
    /\ irq' = [irq EXCEPT !.on = FALSE, !.other = FALSE]
    /\ poll' = [poll EXCEPT !.on = FALSE]
    /\ st' = [st EXCEPT !.resetReq = FALSE]
    /\ wd' = [wd EXCEPT !.need = FALSE, !.timer = FALSE]
    /\ UNCHANGED <<net, ring, xpc, count, hang, hw, spc, panic, left>>

\* ixgbe_reset and ixgbe_clean_all_tx_rings.
DownClean ==
    /\ Running /\ rst.pc = "clean" /\ Goto(AfterDown)
    /\ ring' = Empty
    /\ hw' = [hw EXCEPT !.hung = FALSE]
    /\ panic' = IF xpc # "idle" \/ Polling THEN "torn" ELSE panic
    /\ UNCHANGED <<st, net, xpc, count, poll, irq, hang, wd, spc, left>>

FreeResources ==
    /\ Running /\ rst.pc = "free" /\ rst' = [pc |-> "idle", op |-> "none"]
    /\ net' = [net EXCEPT !.rings = FALSE]
    /\ UNCHANGED <<st, ring, xpc, count, poll, irq, hang, hw, wd, spc, panic, left>>

\* ixgbe_configure lays out the ring, if there is one.
Configure ==
    /\ Running /\ rst.pc = "configure" /\ Goto("up")
    /\ ring' = Empty
    /\ hang' = [hang EXCEPT !.armed = FALSE]
    /\ panic' = CASE ~net.rings -> "freed"
                  [] net.rings /\ (xpc # "idle" \/ Polling) -> "torn"
                  [] OTHER -> panic
    /\ UNCHANGED <<st, net, xpc, count, poll, irq, hw, wd, spc, left>>

UpComplete ==
    /\ Running
    /\ \/ /\ rst.pc = "up" /\ Goto("start")
          /\ st' = [st EXCEPT !.down = FALSE]
          /\ poll' = [poll EXCEPT !.on = TRUE]
          /\ irq' = [on |-> TRUE, pend |-> FALSE, other |-> TRUE]
          /\ hw' = [hw EXCEPT !.lsc = FALSE]
          /\ UNCHANGED <<net, wd, spc>>
       \/ /\ rst.pc = "start" /\ rst' = [pc |-> "idle", op |-> "none"]
          /\ net' = [net EXCEPT !.stopped = FALSE, !.running = TRUE]
          /\ wd' = [wd EXCEPT !.need = TRUE, !.timer = TRUE]
          /\ st' = [st EXCEPT !.resetting = FALSE]
          /\ spc' = IF rst.op = "service" THEN "watchdog" ELSE spc
          /\ UNCHANGED <<poll, irq, hw>>
    /\ UNCHANGED <<ring, xpc, count, hang, panic, left>>

-----------------------------------------------------------------------------
Transmitting == TxMap \/ MaybeStop \/ Recheck \/ WriteTail
NapiStep == CleanTxIrq \/ PollWake
Service == ResetSubtask \/ ResetLocked \/ Watchdog \/ WatchdogLink \/ CheckHang
Rtnl == \/ DownBit \/ DownQueues \/ DownQuiet \/ DownClean
        \/ FreeResources \/ Configure \/ UpComplete

Next == \/ XmitFrame \/ Transmitting \/ Complete \/ Fault \/ CleanRingsIrq \/ CheckLsc
        \/ NapiStep \/ TxTimeout \/ ServiceTimer \/ Service \/ UserOp \/ Rtnl

\* Each thread that has work gets to run, the hardware transmits while it is
\* not hung, raises the interrupts it does not lose, and the timer expires.
\* Nothing is assumed of the stack, the user or the faults.
Fairness ==
    /\ WF_vars(Transmitting)
    /\ WF_vars(Complete)
    /\ WF_vars(CleanRingsIrq)
    /\ WF_vars(CheckLsc)
    /\ WF_vars(NapiStep)
    /\ WF_vars(ServiceTimer)
    /\ WF_vars(Service)
    /\ WF_vars(Rtnl)

Spec == Init /\ [][Next]_vars /\ Fairness

-----------------------------------------------------------------------------
(* Properties. *)

\* A reset by the service task has the ring to itself: from the moment
\* ixgbe_down empties it until ixgbe_up has laid it out again, neither the
\* stack nor a poll that raced with the reset touches a descriptor.
ServiceResetAlone == panic = "torn" => rst.op # "service"

\* The "2 desc gap to keep tail from touching head" (ixgbe_xmit_frame_ring) is
\* always there, whatever a packet took and however often the queue was stopped
\* and woken: the room the transmit path found is not given away before it is used.
TailKeepsOff ==
    /\ ring.done <= ring.told /\ ring.told <= ring.used
    /\ Unused(ring) >= 2

\* A stopped queue, all of whose packets the hardware was told of, restarts
\* while the link is up: no interleaving of the stop in the transmit path, the
\* wake in the poll, lost interrupts, hangs, link changes and resets loses the
\* wake-up for good.
QueueRestarts ==
    net.running /\ net.stopped /\ ring.told = ring.used
        ~> ~net.stopped \/ ~net.running \/ ~hw.link \/ panic # "none"

\* A transmit unit that hangs on packets it was told of is reset.
HangEndsInReset ==
    hw.hung /\ ring.done < ring.told ~> ~hw.hung \/ ~hw.link \/ panic # "none"

=============================================================================
