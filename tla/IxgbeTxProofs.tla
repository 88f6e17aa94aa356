---------------------------- MODULE IxgbeTxProofs ----------------------------
(***************************************************************************)
(* Proofs about IxgbeTx, for every ring size, packets of any size, every   *)
(* DESC_NEEDED and every budget that RingAssumption allows, and any number *)
(* of events.                                                              *)
(*                                                                         *)
(* TailKeepsOff needs to know what the transmit path has reserved when it  *)
(* is between its look at the ring and the write of the descriptor, while  *)
(* the poll cleans behind its back.  ServiceResetAlone needs to know, for  *)
(* each point of ixgbe_down and ixgbe_up, who is already locked out.       *)
(***************************************************************************)
EXTENDS IxgbeTx, TLAPS

State == [down : BOOLEAN, resetting : BOOLEAN, resetReq : BOOLEAN, sched : BOOLEAN]
NetDevice == [stopped : BOOLEAN, carrier : BOOLEAN, running : BOOLEAN, rings : BOOLEAN]
Ring == [used : Nat, told : Nat, done : Nat]
Napi == [pc : {"idle", "clean", "wake", "start"}, more : BOOLEAN, on : BOOLEAN]
Hardware == [hung : BOOLEAN, link : BOOLEAN, lsc : BOOLEAN]
LinkWatch == [need : BOOLEAN, up : BOOLEAN, timer : BOOLEAN]
Holder == [pc : {"idle", "down", "carrier", "disable", "quiet", "clean", "free",
                 "configure", "up", "start"},
           op : {"none", "service", "mtu", "close", "open"}]

\* The types of the variables that the invariants are about.
TypeOK ==
    /\ st \in State
    /\ net \in NetDevice
    /\ ring \in Ring
    /\ xpc \in {"idle", "map", "stop", "recheck", "tail", "stopAfter",
                "recheckAfter"}
    /\ count \in Nat
    /\ poll \in Napi
    /\ hw \in Hardware
    /\ wd \in LinkWatch
    /\ spc \in {"idle", "rtnl", "reset", "watchdog", "link", "hang"}
    /\ rst \in Holder
    /\ panic \in {"none", "torn", "freed"}

\* What the transmit path may rely on: between its look at the ring and the
\* write of the descriptors only the poll and ixgbe_down touch the ring, and
\* they make room.
RingInv ==
    /\ ring.done <= ring.told /\ ring.told <= ring.used
    /\ xpc = "map" => Unused(ring) >= count + 3
    /\ Unused(ring) >= 2

\* The service task waits inside its own reset, so that its watchdog cannot
\* turn the carrier on; the rings are gone only after ixgbe_close, when
\* DOWN is set and the stack does not transmit.
HolderInv ==
    /\ (rst.pc = "idle") <=> (rst.op = "none")
    /\ (spc = "reset") <=> (rst.op = "service")
    /\ rst.pc = "free" => rst.op = "close"
    /\ rst.op = "open" => rst.pc \in {"configure", "up", "start"}
    /\ rst.op = "mtu" => net.running
    /\ rst.op = "close" => ~net.running
    /\ rst.op \in {"none", "service"} => (net.running <=> net.rings)
    /\ rst.op \in {"mtu", "close", "open"} => net.rings
    /\ rst.pc \in {"idle", "down"} => (st.down <=> ~net.rings)
    /\ rst.pc \in {"carrier", "disable", "quiet", "clean", "free", "configure", "up"}
          => st.down
    /\ rst.pc = "start" => ~st.down
    /\ rst.pc \in {"carrier", "disable", "quiet", "clean", "free", "start"} => net.rings
    /\ rst.pc = "up" /\ Running => net.rings
    /\ ~net.running => xpc = "idle"

\* How far a reset by the service task has locked out the stack, which needs
\* the carrier and then the queue's lock, and the poll, which needs NAPI.
LockedOut ==
    rst.op = "service" =>
        /\ rst.pc \in {"disable", "quiet", "clean", "configure", "up", "start"}
           /\ net.rings => ~net.carrier
        /\ rst.pc \in {"quiet", "clean", "configure"} => xpc = "idle"
        /\ rst.pc \in {"clean", "configure"} /\ net.rings => ~poll.on /\ ~Polling

IInv == TypeOK /\ RingInv /\ HolderInv /\ LockedOut /\ ServiceResetAlone

-----------------------------------------------------------------------------
\* A stuttering step changes none of the variables.
LEMMA Stutter ==
    UNCHANGED vars =>
        UNCHANGED <<st, net, ring, xpc, count, poll, hw, wd, spc, rst, panic>>
BY DEF vars

\* ixgbe_clean_tx_irq frees what is done, or a part of it, and nothing else.
LEMMA CleanFrees ==
    CleanTxIrq =>
        \/ UNCHANGED ring
        \/ \E n \in 0..ring.done :
              ring' = [used |-> ring.used - n, told |-> ring.told - n,
                       done |-> ring.done - n]
BY Zenon DEF CleanTxIrq

\* A poll leaves alone who holds rtnl, and the state only its holder changes.
LEMMA CleanKeeps ==
    TypeOK /\ CleanTxIrq =>
        /\ UNCHANGED <<xpc, count, hw, wd, spc, rst, panic>>
        /\ st'.down = st.down /\ net'.running = net.running /\ net'.rings = net.rings
<1> SUFFICES ASSUME TypeOK, CleanTxIrq
             PROVE  /\ UNCHANGED <<xpc, count, hw, wd, spc, rst, panic>>
                    /\ st'.down = st.down
                    /\ net'.running = net.running /\ net'.rings = net.rings
  OBVIOUS
<1>1. UNCHANGED <<xpc, count, hw, wd, spc, rst, panic>>
  BY Zenon DEF CleanTxIrq, PollRest
<1>2. UNCHANGED st \/ st' = TimeoutReset(st)
  BY Zenon DEF CleanTxIrq
<1>3. UNCHANGED net \/ net' = [net EXCEPT !.stopped = TRUE]
  BY Zenon DEF CleanTxIrq
<1>4. st'.down = st.down
  BY <1>2 DEF TimeoutReset, Schedule, TypeOK, State
<1>5. net'.running = net.running /\ net'.rings = net.rings
  BY <1>3 DEF TypeOK, NetDevice
<1> QED
  BY <1>1, <1>4, <1>5

\* Every step of the stack, the poll, the service task, the user and the
\* hardware keeps the types.
LEMMA TypePreserved == TypeOK /\ RingInv /\ [Next]_vars => TypeOK'
<1>1. TypeOK /\ RingInv /\ Next => TypeOK'
  <2> SUFFICES ASSUME TypeOK, RingInv, Next PROVE TypeOK'
    OBVIOUS
  <2> USE DEF TypeOK
  <2>1. CASE XmitFrame
    BY <2>1, RingAssumption DEF XmitFrame, XmitRest, Unused
  <2>2. CASE TxMap
    <3>1. ring' \in Ring
      BY <2>2 DEF TxMap, XmitRest, Unused, Torn, Ring
    <3> QED
      BY <2>2, <3>1 DEF TxMap, XmitRest, Unused, Torn
  <2>3. CASE MaybeStop
    <3>1. net' \in NetDevice
      BY <2>3, Zenon DEF MaybeStop, XmitRest, NetDevice
    <3> QED
      BY <2>3, <3>1 DEF MaybeStop, XmitRest
  <2>4. CASE Recheck
    <3>1. net' \in NetDevice
      BY <2>4, Zenon DEF Recheck, XmitRest, Unused, NetDevice
    <3> QED
      BY <2>4, <3>1 DEF Recheck, XmitRest, Unused
  <2>5. CASE WriteTail
    <3>1. ring' \in Ring
      BY <2>5 DEF WriteTail, XmitRest, Ring
    <3> QED
      BY <2>5, <3>1 DEF WriteTail, XmitRest
  <2>6. CASE Complete
    <3>1. ring' \in Ring
      BY <2>6, RingAssumption DEF Complete, Ring
    <3> QED
      BY <2>6, <3>1 DEF Complete
  <2>7. CASE Fault
    <3>1. hw' \in Hardware
      BY <2>7, Zenon DEF Fault, Hardware
    <3> QED
      BY <2>7, <3>1 DEF Fault
  <2>8. CASE CleanRingsIrq
    <3>1. poll' \in Napi
      BY <2>8 DEF CleanRingsIrq, Napi
    <3> QED
      BY <2>8, <3>1 DEF CleanRingsIrq
  <2>9. CASE CheckLsc
    <3>1. st' \in State
      BY <2>9, Zenon DEF CheckLsc, Schedule, State
    <3>2. hw' \in Hardware
      BY <2>9, Zenon DEF CheckLsc, Schedule, Hardware
    <3>3. wd' \in LinkWatch
      BY <2>9, Zenon DEF CheckLsc, Schedule, LinkWatch
    <3> QED
      BY <2>9, <3>1, <3>2, <3>3 DEF CheckLsc, Schedule
  <2>10. CASE CleanTxIrq
    <3>1. st' \in State
      BY <2>10, Zenon DEF CleanTxIrq, PollReturns, PollRest, TimeoutReset, Schedule,
         State
    <3>2. net' \in NetDevice
      BY <2>10, Zenon DEF CleanTxIrq, PollReturns, PollRest, TimeoutReset, Schedule,
         NetDevice
    <3>3. ring' \in Ring
      BY <2>10, CleanFrees DEF Ring, RingInv
    <3>4. poll' \in Napi
      BY <2>10, Zenon DEF CleanTxIrq, PollReturns, PollRest, TimeoutReset, Schedule,
         Napi
    <3> QED
      BY <2>10, <3>1, <3>2, <3>3, <3>4 DEF CleanTxIrq, PollReturns, PollRest,
         TimeoutReset, Schedule
  <2>11. CASE PollWake
    <3>1. net' \in NetDevice
      BY <2>11, Zenon DEF PollWake, PollReturns, PollRest, NetDevice
    <3>2. poll' \in Napi
      BY <2>11, Zenon DEF PollWake, PollReturns, PollRest, Napi
    <3> QED
      BY <2>11, <3>1, <3>2 DEF PollWake, PollReturns, PollRest
  <2>12. CASE TxTimeout
    <3>1. st' \in State
      BY <2>12, Zenon DEF TxTimeout, TimeoutReset, Schedule, State
    <3> QED
      BY <2>12, <3>1 DEF TxTimeout, TimeoutReset, Schedule
  <2>13. CASE ServiceTimer
    <3>1. st' \in State
      BY <2>13, Zenon DEF ServiceTimer, Schedule, State
    <3> QED
      BY <2>13, <3>1 DEF ServiceTimer, Schedule
  <2>14. CASE ResetSubtask
    <3>1. st' \in State
      BY <2>14, Zenon DEF ResetSubtask, ServiceRest, State
    <3> QED
      BY <2>14, <3>1 DEF ResetSubtask, ServiceRest
  <2>15. CASE ResetLocked
    <3>1. rst' \in Holder
      BY <2>15 DEF ResetLocked, Holder
    <3> QED
      BY <2>15, <3>1 DEF ResetLocked
  <2>16. CASE Watchdog
    BY <2>16 DEF Watchdog, ServiceRest
  <2>17. CASE WatchdogLink
    <3>1. st' \in State
      BY <2>17, Zenon DEF WatchdogLink, ServiceRest, State, Hardware, LinkWatch
    <3>2. net' \in NetDevice
      BY <2>17, Zenon DEF WatchdogLink, ServiceRest, NetDevice, Hardware, LinkWatch
    <3>3. wd' \in LinkWatch
      BY <2>17, Zenon DEF WatchdogLink, ServiceRest, LinkWatch, Hardware
    <3> QED
      BY <2>17, <3>1, <3>2, <3>3 DEF WatchdogLink, ServiceRest
  <2>18. CASE CheckHang
    <3>1. st' \in State
      BY <2>18, Zenon DEF CheckHang, ServiceRest, State
    <3> QED
      BY <2>18, <3>1 DEF CheckHang, ServiceRest
  <2>19. CASE UserOp
    <3>1. net' \in NetDevice
      BY <2>19, Zenon DEF UserOp, UserRest, NetDevice
    <3>2. rst' \in Holder
      BY <2>19 DEF UserOp, UserRest, Holder
    <3> QED
      BY <2>19, <3>1, <3>2 DEF UserOp, UserRest
  <2>20. CASE DownBit
    <3>1. st' \in State
      BY <2>20, Zenon DEF DownBit, Goto, AfterDown, State
    <3>2. rst' \in Holder
      BY <2>20 DEF DownBit, Goto, AfterDown, Holder
    <3> QED
      BY <2>20, <3>1, <3>2 DEF DownBit, Goto, AfterDown
  <2>21. CASE DownQueues
    <3>1. net' \in NetDevice
      BY <2>21, Zenon DEF DownQueues, Goto, NetDevice
    <3>2. rst' \in Holder
      BY <2>21 DEF DownQueues, Goto, Holder
    <3> QED
      BY <2>21, <3>1, <3>2 DEF DownQueues, Goto
  <2>22. CASE DownQuiet
    <3>1. st' \in State
      BY <2>22, Zenon DEF DownQuiet, Goto, State
    <3>2. poll' \in Napi
      BY <2>22, Zenon DEF DownQuiet, Goto, Napi
    <3>3. rst' \in Holder
      BY <2>22 DEF DownQuiet, Goto, Holder
    <3>4. wd' \in LinkWatch
      BY <2>22, Zenon DEF DownQuiet, Goto, LinkWatch
    <3> QED
      BY <2>22, <3>1, <3>2, <3>3, <3>4 DEF DownQuiet, Goto
  <2>23. CASE DownClean
    <3>1. ring' \in Ring
      BY <2>23 DEF DownClean, Goto, AfterDown, Empty, Polling, Ring
    <3>2. rst' \in Holder
      BY <2>23 DEF DownClean, Goto, AfterDown, Empty, Polling, Holder
    <3>3. hw' \in Hardware
      BY <2>23, Zenon DEF DownClean, Goto, AfterDown, Empty, Polling, Hardware
    <3> QED
      BY <2>23, <3>1, <3>2, <3>3 DEF DownClean, Goto, AfterDown, Empty, Polling
  <2>24. CASE FreeResources
    <3>1. net' \in NetDevice
      BY <2>24, Zenon DEF FreeResources, NetDevice
    <3>2. rst' \in Holder
      BY <2>24 DEF FreeResources, Holder
    <3> QED
      BY <2>24, <3>1, <3>2 DEF FreeResources
  <2>25. CASE Configure
    <3>1. ring' \in Ring
      BY <2>25 DEF Configure, Goto, Empty, Polling, Ring
    <3>2. rst' \in Holder
      BY <2>25 DEF Configure, Goto, Empty, Polling, Holder
    <3> QED
      BY <2>25, <3>1, <3>2 DEF Configure, Goto, Empty, Polling
  <2>26. CASE UpComplete
    <3>1. st' \in State
      BY <2>26, Zenon DEF UpComplete, Goto, State
    <3>2. net' \in NetDevice
      BY <2>26, Zenon DEF UpComplete, Goto, NetDevice
    <3>3. poll' \in Napi
      BY <2>26, Zenon DEF UpComplete, Goto, Napi
    <3>4. rst' \in Holder
      BY <2>26 DEF UpComplete, Goto, Holder
    <3>5. hw' \in Hardware
      BY <2>26, Zenon DEF UpComplete, Goto, Hardware
    <3>6. wd' \in LinkWatch
      BY <2>26, Zenon DEF UpComplete, Goto, LinkWatch
    <3> QED
      BY <2>26, <3>1, <3>2, <3>3, <3>4, <3>5, <3>6 DEF UpComplete, Goto
  <2> HIDE DEF TypeOK
  <2> QED
    BY <2>1, <2>2, <2>3, <2>4, <2>5, <2>6, <2>7, <2>8, <2>9, <2>10, <2>11,
       <2>12, <2>13, <2>14, <2>15, <2>16, <2>17, <2>18, <2>19, <2>20, <2>21,
       <2>22, <2>23, <2>24, <2>25, <2>26
       DEF Next, Transmitting, NapiStep, Service, Rtnl
<1>2. TypeOK /\ UNCHANGED vars => TypeOK'
  BY Stutter DEF TypeOK
<1> QED
  BY <1>1, <1>2

\* Whatever the poll, the service task and the user do meanwhile, the room that
\* the transmit path found in the ring is still there when it uses it.
LEMMA RingPreserved == TypeOK /\ RingInv /\ [Next]_vars => RingInv'
<1>1. TypeOK /\ RingInv /\ Next => RingInv'
  <2> SUFFICES ASSUME TypeOK, RingInv, Next PROVE RingInv'
    OBVIOUS
  <2> USE RingAssumption DEF TypeOK, Ring, RingInv, Unused
  <2>1. CASE XmitFrame
    BY <2>1 DEF XmitFrame, XmitRest, Unused
  <2>2. CASE TxMap
    BY <2>2 DEF TxMap, XmitRest, Unused, Torn
  <2>3. CASE MaybeStop
    BY <2>3 DEF MaybeStop, XmitRest
  <2>4. CASE Recheck
    BY <2>4 DEF Recheck, XmitRest, Unused
  <2>5. CASE WriteTail
    BY <2>5 DEF WriteTail, XmitRest
  <2>6. CASE Complete
    BY <2>6 DEF Complete
  <2>7. CASE Fault
    BY <2>7 DEF Fault
  <2>8. CASE CleanRingsIrq
    BY <2>8 DEF CleanRingsIrq
  <2>9. CASE CheckLsc
    BY <2>9 DEF CheckLsc
  <2>10. CASE CleanTxIrq
    BY <2>10, CleanFrees, CleanKeeps
  <2>11. CASE PollWake
    BY <2>11 DEF PollWake, PollRest
  <2>12. CASE TxTimeout
    BY <2>12 DEF TxTimeout
  <2>13. CASE ServiceTimer
    BY <2>13 DEF ServiceTimer
  <2>14. CASE ResetSubtask
    BY <2>14 DEF ResetSubtask, ServiceRest
  <2>15. CASE ResetLocked
    BY <2>15 DEF ResetLocked
  <2>16. CASE Watchdog
    BY <2>16 DEF Watchdog, ServiceRest
  <2>17. CASE WatchdogLink
    BY <2>17 DEF WatchdogLink, ServiceRest
  <2>18. CASE CheckHang
    BY <2>18 DEF CheckHang, ServiceRest
  <2>19. CASE UserOp
    BY <2>19 DEF UserOp, UserRest
  <2>20. CASE DownBit
    BY <2>20 DEF DownBit
  <2>21. CASE DownQueues
    BY <2>21 DEF DownQueues
  <2>22. CASE DownQuiet
    BY <2>22 DEF DownQuiet
  <2>23. CASE DownClean
    BY <2>23 DEF DownClean, Goto, AfterDown, Empty, Polling
  <2>24. CASE FreeResources
    BY <2>24 DEF FreeResources
  <2>25. CASE Configure
    BY <2>25 DEF Configure, Goto, Empty, Polling
  <2>26. CASE UpComplete
    BY <2>26 DEF UpComplete
  <2> HIDE RingAssumption DEF TypeOK, Ring, RingInv, Unused
  <2> QED
    BY <2>1, <2>2, <2>3, <2>4, <2>5, <2>6, <2>7, <2>8, <2>9, <2>10, <2>11,
       <2>12, <2>13, <2>14, <2>15, <2>16, <2>17, <2>18, <2>19, <2>20, <2>21,
       <2>22, <2>23, <2>24, <2>25, <2>26
       DEF Next, Transmitting, NapiStep, Service, Rtnl
<1>2. RingInv /\ UNCHANGED vars => RingInv'
  BY Stutter DEF RingInv, Unused
<1> QED
  BY <1>1, <1>2

\* The order of the holders of rtnl, and of ixgbe_down and ixgbe_up: the rings
\* exist at every step but those after ixgbe_close.
LEMMA HolderPreserved == TypeOK /\ HolderInv /\ [Next]_vars => HolderInv'
<1>1. TypeOK /\ HolderInv /\ Next => HolderInv'
  <2> SUFFICES ASSUME TypeOK, HolderInv, Next PROVE HolderInv'
    OBVIOUS
  <2> USE DEF TypeOK, State, NetDevice, Holder, HolderInv, Running
  <2>1. CASE XmitFrame
    BY <2>1 DEF XmitFrame, XmitRest, Unused
  <2>2. CASE TxMap
    BY <2>2 DEF TxMap, XmitRest, Unused, Torn
  <2>3. CASE MaybeStop
    BY <2>3 DEF MaybeStop, XmitRest
  <2>4. CASE Recheck
    BY <2>4 DEF Recheck, XmitRest, Unused
  <2>5. CASE WriteTail
    BY <2>5 DEF WriteTail, XmitRest
  <2>6. CASE Complete
    BY <2>6 DEF Complete
  <2>7. CASE Fault
    BY <2>7 DEF Fault
  <2>8. CASE CleanRingsIrq
    BY <2>8 DEF CleanRingsIrq
  <2>9. CASE CheckLsc
    BY <2>9 DEF CheckLsc, Schedule
  <2>10. CASE CleanTxIrq
    BY <2>10, CleanKeeps
  <2>11. CASE PollWake
    BY <2>11 DEF PollWake, PollReturns, PollRest
  <2>12. CASE TxTimeout
    BY <2>12 DEF TxTimeout, TimeoutReset, Schedule
  <2>13. CASE ServiceTimer
    BY <2>13 DEF ServiceTimer, Schedule
  <2>14. CASE ResetSubtask
    BY <2>14 DEF ResetSubtask, ServiceRest
  <2>15. CASE ResetLocked
    BY <2>15 DEF ResetLocked
  <2>16. CASE Watchdog
    BY <2>16 DEF Watchdog, ServiceRest
  <2>17. CASE WatchdogLink
    BY <2>17 DEF WatchdogLink, ServiceRest
  <2>18. CASE CheckHang
    BY <2>18 DEF CheckHang, ServiceRest
  <2>19. CASE UserOp
    <3>1. UNCHANGED <<st, xpc, spc, panic>> /\ rst.pc = "idle" /\ rst.op = "none"
      BY <2>19 DEF UserOp, UserRest
    <3>2. \/ rst'.pc = "down" /\ rst'.op = "mtu"
          \/ rst'.pc = "down" /\ rst'.op = "close"
          \/ rst'.pc = "configure" /\ rst'.op = "open"
      BY <2>19 DEF UserOp
    <3>3. CASE rst'.op = "mtu"
      <4>1. net.running /\ UNCHANGED net
        BY <2>19, <3>3 DEF UserOp
      <4> QED
        BY <3>1, <3>2, <3>3, <4>1
    <3>4. CASE rst'.op = "close"
      <4>1. net.running /\ xpc = "idle" /\ ~net'.running /\ net'.rings = net.rings
        BY <2>19, <3>4 DEF UserOp
      <4> QED
        BY <3>1, <3>2, <3>4, <4>1
    <3>5. CASE rst'.op = "open"
      <4>1. ~net.running /\ net' = [net EXCEPT !.carrier = FALSE, !.rings = TRUE]
        BY <2>19, <3>5 DEF UserOp
      <4>2. ~net'.running /\ net'.rings
        BY <4>1
      <4> QED
        BY <3>1, <3>2, <3>5, <4>1, <4>2
    <3> QED
      BY <3>2, <3>3, <3>4, <3>5
  <2>20. CASE DownBit
    BY <2>20 DEF DownBit, Goto, AfterDown
  <2>21. CASE DownQueues
    <3>1. /\ net'.running = net.running /\ net'.rings = net.rings
          /\ rst'.op = rst.op /\ UNCHANGED <<st, spc, xpc>>
          /\ rst.pc \in {"carrier", "disable"} /\ rst'.pc \in {"disable", "quiet"}
      BY <2>21 DEF DownQueues, Goto
    <3> QED
      BY <3>1
  <2>22. CASE DownQuiet
    BY <2>22 DEF DownQuiet, Goto
  <2>23. CASE DownClean
    BY <2>23 DEF DownClean, Goto, AfterDown, Empty, Polling
  <2>24. CASE FreeResources
    BY <2>24 DEF FreeResources
  <2>25. CASE Configure
    BY <2>25 DEF Configure, Goto, Empty, Polling
  <2>26. CASE UpComplete
    <3>1. CASE rst.pc = "up"
      <4>1. rst'.pc = "start" /\ rst'.op = rst.op
        BY <2>26, <3>1 DEF UpComplete, Goto
      <4>2. Running /\ ~st'.down /\ UNCHANGED <<net, xpc, spc, panic>>
        BY <2>26, <3>1 DEF UpComplete
      <4> QED
        BY <3>1, <4>1, <4>2
    <3>2. CASE rst.pc = "start"
      <4>1. rst'.pc = "idle" /\ rst'.op = "none"
        BY <2>26, <3>2 DEF UpComplete
      <4>2. st'.down = st.down
        BY <2>26, <3>2 DEF UpComplete
      <4>3. net'.running /\ net'.rings = net.rings
        BY <2>26, <3>2, Zenon DEF UpComplete
      <4>4. /\ spc' = IF rst.op = "service" THEN "watchdog" ELSE spc
            /\ UNCHANGED <<xpc, panic>>
        BY <2>26, <3>2 DEF UpComplete
      <4> QED
        BY <3>2, <4>1, <4>2, <4>3, <4>4
    <3> QED
      BY <2>26, <3>1, <3>2 DEF UpComplete
  <2> HIDE DEF TypeOK, State, NetDevice, Holder, HolderInv, Running
  <2> QED
    BY <2>1, <2>2, <2>3, <2>4, <2>5, <2>6, <2>7, <2>8, <2>9, <2>10, <2>11,
       <2>12, <2>13, <2>14, <2>15, <2>16, <2>17, <2>18, <2>19, <2>20, <2>21,
       <2>22, <2>23, <2>24, <2>25, <2>26
       DEF Next, Transmitting, NapiStep, Service, Rtnl
<1>2. HolderInv /\ UNCHANGED vars => HolderInv'
  BY Stutter DEF HolderInv, Running
<1> QED
  BY <1>1, <1>2

\* What a reset by the service task has locked out stays out until it is over.
LEMMA LockedOutPreserved ==
    TypeOK /\ HolderInv /\ LockedOut /\ [Next]_vars => LockedOut'
<1>1. TypeOK /\ HolderInv /\ LockedOut /\ Next => LockedOut'
  <2> SUFFICES ASSUME TypeOK, HolderInv, LockedOut, Next PROVE LockedOut'
    OBVIOUS
  <2> USE DEF TypeOK, State, NetDevice, Napi, Holder, HolderInv, LockedOut, Polling
  <2>1. CASE XmitFrame
    BY <2>1 DEF XmitFrame, XmitRest, Unused
  <2>2. CASE TxMap
    BY <2>2 DEF TxMap, XmitRest, Unused, Torn
  <2>3. CASE MaybeStop
    BY <2>3 DEF MaybeStop, XmitRest
  <2>4. CASE Recheck
    BY <2>4 DEF Recheck, XmitRest, Unused
  <2>5. CASE WriteTail
    BY <2>5 DEF WriteTail, XmitRest
  <2>6. CASE Complete
    BY <2>6 DEF Complete
  <2>7. CASE Fault
    BY <2>7 DEF Fault
  <2>8. CASE CleanRingsIrq
    BY <2>8 DEF CleanRingsIrq
  <2>9. CASE CheckLsc
    BY <2>9 DEF CheckLsc, Schedule
  <2>10. CASE CleanTxIrq
    <3>1. poll.pc = "clean" /\ UNCHANGED <<rst, xpc>>
      BY <2>10, Zenon DEF CleanTxIrq, PollRest
    <3>2. net'.rings = net.rings /\ net'.carrier = net.carrier
      BY <2>10 DEF CleanTxIrq
    <3> QED
      BY <3>1, <3>2
  <2>11. CASE PollWake
    BY <2>11 DEF PollWake, PollReturns, PollRest
  <2>12. CASE TxTimeout
    BY <2>12 DEF TxTimeout, TimeoutReset, Schedule
  <2>13. CASE ServiceTimer
    BY <2>13 DEF ServiceTimer, Schedule
  <2>14. CASE ResetSubtask
    BY <2>14 DEF ResetSubtask, ServiceRest
  <2>15. CASE ResetLocked
    BY <2>15 DEF ResetLocked
  <2>16. CASE Watchdog
    BY <2>16 DEF Watchdog, ServiceRest
  <2>17. CASE WatchdogLink
    BY <2>17 DEF WatchdogLink, ServiceRest
  <2>18. CASE CheckHang
    BY <2>18 DEF CheckHang, ServiceRest
  <2>19. CASE UserOp
    BY <2>19 DEF UserOp, UserRest
  <2>20. CASE DownBit
    BY <2>20 DEF DownBit, Goto, AfterDown
  <2>21. CASE DownQueues
    BY <2>21, Zenon DEF DownQueues, Goto
  <2>22. CASE DownQuiet
    BY <2>22 DEF DownQuiet, Goto
  <2>23. CASE DownClean
    BY <2>23 DEF DownClean, Goto, AfterDown, Empty
  <2>24. CASE FreeResources
    BY <2>24 DEF FreeResources
  <2>25. CASE Configure
    BY <2>25 DEF Configure, Goto, Empty
  <2>26. CASE UpComplete
    BY <2>26 DEF UpComplete, Goto
  <2> HIDE DEF TypeOK, State, NetDevice, Napi, Holder, HolderInv, LockedOut,
               Polling
  <2> QED
    BY <2>1, <2>2, <2>3, <2>4, <2>5, <2>6, <2>7, <2>8, <2>9, <2>10, <2>11,
       <2>12, <2>13, <2>14, <2>15, <2>16, <2>17, <2>18, <2>19, <2>20, <2>21,
       <2>22, <2>23, <2>24, <2>25, <2>26
       DEF Next, Transmitting, NapiStep, Service, Rtnl
<1>2. LockedOut /\ UNCHANGED vars => LockedOut'
  BY Stutter DEF LockedOut, Polling
<1> QED
  BY <1>1, <1>2

\* A reset by the service task never finds the stack or the poll at the ring.
LEMMA AlonePreserved ==
    TypeOK /\ HolderInv /\ LockedOut /\ ServiceResetAlone /\ [Next]_vars
        => ServiceResetAlone'
<1>1. TypeOK /\ HolderInv /\ LockedOut /\ ServiceResetAlone /\ Next
        => ServiceResetAlone'
  <2> SUFFICES ASSUME TypeOK, HolderInv, LockedOut, ServiceResetAlone, Next
               PROVE  ServiceResetAlone'
    OBVIOUS
  <2>1. CASE TxMap
    BY <2>1 DEF TxMap, XmitRest, Torn, LockedOut, ServiceResetAlone
  <2>2. CASE DownClean
    <3>1. rst.pc = "clean" /\ rst'.op = rst.op
      BY <2>2 DEF DownClean, Goto, TypeOK, Holder
    <3>2. rst.op = "service" => xpc = "idle" /\ ~Polling
      BY <3>1 DEF LockedOut, HolderInv
    <3> QED
      BY <2>2, <3>1, <3>2 DEF DownClean, ServiceResetAlone
  <2>3. CASE Configure
    <3>1. rst.pc = "configure" /\ rst'.op = rst.op
      BY <2>3 DEF Configure, Goto, TypeOK, Holder
    <3>2. rst.op = "service" /\ net.rings => xpc = "idle" /\ ~Polling
      BY <3>1 DEF LockedOut
    <3>3. net.rings \in BOOLEAN
      BY DEF TypeOK, NetDevice
    <3> QED
      BY <2>3, <3>1, <3>2, <3>3 DEF Configure, ServiceResetAlone
  <2>4. ASSUME Running, UNCHANGED panic
        PROVE  ServiceResetAlone'
    BY <2>4 DEF Running, ServiceResetAlone
  <2>5. \/ TxMap \/ DownClean \/ Configure
        \/ Running /\ UNCHANGED panic
    BY Zenon DEF Next, Transmitting, NapiStep, Service, Rtnl, XmitFrame, MaybeStop,
           Recheck, WriteTail, Complete, Fault, CleanRingsIrq, CheckLsc, CleanTxIrq,
           PollWake, TxTimeout, ServiceTimer, ResetSubtask, ResetLocked, Watchdog,
           WatchdogLink, CheckHang, UserOp, DownBit, DownQueues, DownQuiet,
           FreeResources, UpComplete, XmitRest, PollRest, ServiceRest, UserRest
  <2> QED
    BY <2>1, <2>2, <2>3, <2>4, <2>5
<1>2. ServiceResetAlone /\ UNCHANGED vars => ServiceResetAlone'
  BY Stutter DEF ServiceResetAlone
<1> QED
  BY <1>1, <1>2

\* ixgbe_open has run and the link is up.
LEMMA InitInv == Init => IInv
<1> SUFFICES ASSUME Init PROVE IInv
  OBVIOUS
<1>1. st \in State /\ net \in NetDevice /\ poll \in Napi
  BY DEF Init, State, NetDevice, Napi
<1>2. ring \in Ring /\ hw \in Hardware /\ wd \in LinkWatch /\ rst \in Holder
  BY DEF Init, Empty, Ring, Hardware, LinkWatch, Holder
<1>3. TypeOK
  BY <1>1, <1>2 DEF Init, TypeOK
<1>4. RingInv
  BY RingAssumption DEF Init, Empty, RingInv, Unused
<1>5. HolderInv /\ LockedOut /\ ServiceResetAlone
  BY DEF Init, HolderInv, LockedOut, ServiceResetAlone
<1> QED
  BY <1>3, <1>4, <1>5 DEF IInv

-----------------------------------------------------------------------------
\* The inductive invariant holds in every state of the driver.
THEOREM Invariance == Spec => []IInv
<1>1. IInv /\ [Next]_vars => IInv'
  BY TypePreserved, RingPreserved, HolderPreserved, LockedOutPreserved,
     AlonePreserved DEF IInv
<1> QED
  BY InitInv, <1>1, PTL DEF Spec

\* For every ring size, DESC_NEEDED and budget, packets of any size, and any
\* number of hangs, lost interrupts, link changes, MTU changes and closes: the
\* gap of two descriptors that ixgbe_xmit_frame_ring asks for stays between tail
\* and head, though ixgbe_clean_tx_irq shares the ring with it without a lock.
THEOREM TailSafe == Spec => []TailKeepsOff
<1>1. IInv => TailKeepsOff
  BY DEF IInv, RingInv, TailKeepsOff
<1> QED
  BY Invariance, <1>1, PTL

\* For the same: ixgbe_reinit_locked, called by the service task, never empties
\* or lays out the ring under the stack or under a poll.
THEOREM ServiceResetSafe == Spec => []ServiceResetAlone
<1>1. IInv => ServiceResetAlone
  BY DEF IInv
<1> QED
  BY Invariance, <1>1, PTL

=============================================================================
