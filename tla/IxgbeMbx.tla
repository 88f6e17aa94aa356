------------------------------ MODULE IxgbeMbx ------------------------------
(***************************************************************************)
(* The mailbox between the physical function (PF) of an ixgbe adapter and  *)
(* one of its virtual functions (VF): ixgbe_mbx.c, both sides, and the     *)
(* message task of ixgbe_sriov.c.  One buffer serves both directions; each *)
(* side locks it with a bit, writes or reads it, and releases it by the    *)
(* write that signals the other side.                                      *)
(*                                                                         *)
(* The PF has two contexts: the mailbox interrupt, and whoever pings the   *)
(* VFs (link changes, the adapter going down).  The buffer has a head word *)
(* and a rest; a message of size 1 leaves the rest as it was.  An access   *)
(* is two steps, taking the lock with the head, and the rest with the      *)
(* release.  Requests carry an id, which stands for what they ask for.     *)
(***************************************************************************)
EXTENDS Integers, FiniteSets

CONSTANTS
    Ids,         \* what tells requests apart
    MaxEvents    \* bound on pings, resets and early timeouts, taken together

VARIABLES
    lock,      \* [vfu, pfu]: who owns the buffer
    buf,       \* [head, rest]
    icr,       \* MBVFICR and VFLRE of the VF, a subset of {"req", "ack", "flr"}
    intr,      \* EICR_MAILBOX
    sts,       \* read-to-clear bits of VFMAILBOX, a subset of {"msg", "ack"}
    v2p,       \* hw->mbx.v2p_mailbox: those that were read and not yet used
    vf,        \* the VF driver: [pc, ask, id, head]
    irq,       \* ixgbe_msg_task: [pc, head, out]
    oth,       \* the other context of the PF
    up,        \* interrupts of the PF are enabled
    clear_to_send,
    conf,      \* the last request applied, or None after a reset
    seen,      \* history: requests the PF has read to the end
    torn,      \* history: someone acted on a message that was not whole
    overlap,   \* history: a ping was written while ixgbe_msg_task was at work
    left       \* events that may still happen

vars == <<lock, buf, icr, intr, sts, v2p, vf, irq, oth, up, clear_to_send, conf,
          seen, torn, overlap, left>>

None == 0

ASSUME IdsAssumption == IsFiniteSet(Ids) /\ None \notin Ids

\* What the VF asks for; "oversize" is a frame size above the PF's limit.
Requests == {"reset", "config", "oversize"}

\* kind: what is asked, or "ping", or "none" for the bare NACK; flag: the
\* ACK and NACK bits; cts: the CTS bit.
Word(kind, id, flag, cts) == [kind |-> kind, id |-> id, flag |-> flag, cts |-> cts]
Blank == Word("none", None, "none", FALSE)

\* An out-going message of the PF: its head, and whether it has a rest.
Out(head, long) == [head |-> head, long |-> long]

Init ==
    /\ lock = [vfu |-> FALSE, pfu |-> FALSE]
    /\ buf = [head |-> Blank, rest |-> None]
    /\ icr = {} /\ intr = FALSE
    /\ sts = {} /\ v2p = {}
    /\ vf = [pc |-> "idle", ask |-> "reset", id |-> None, head |-> Blank]
    /\ irq = [pc |-> "idle", head |-> Blank, out |-> Out(Blank, FALSE)]
    /\ oth = "idle"
    /\ up = TRUE
    /\ clear_to_send = FALSE
    /\ conf = None
    /\ seen = {} /\ torn = FALSE /\ overlap = FALSE
    /\ left = MaxEvents

-----------------------------------------------------------------------------
(* Registers. *)

\* Mutant: the VF does not look whether it got the buffer.
ObtainLockVfBlind == TRUE

\* Taking a lock bit fails while the other side holds its own.
ObtainLockVf == ~lock.pfu
ObtainLockPf == ~lock.vfu

\* ixgbe_read_v2p_mailbox keeps the bits that the read has cleared.
ReadV2p == v2p \cup sts

\* Mutant: the bits read along with the one asked for are forgotten.
CheckBitForgets(bit) == sts' = {} /\ v2p' = {}

\* ixgbe_check_for_bit_vf, when the bit is there.
CheckBit(bit) == sts' = {} /\ v2p' = ReadV2p \ {bit}

\* Ids nothing still refers to.
Fresh == Ids \ {buf.head.id, buf.rest, -buf.rest,
                irq.head.id, irq.out.head.id, conf}

-----------------------------------------------------------------------------
(* The VF: ixgbe_write_posted_mbx, then ixgbe_read_posted_mbx. *)

PfVars == <<irq, oth, up, clear_to_send, conf, overlap>>

\* Mutant: acknowledgements of older messages are not flushed.
VfWriteNoFlush ==
    /\ vf.pc = "idle" /\ vf.ask \in Requests /\ ObtainLockVf
    /\ \E i \in Fresh :
          /\ \A j \in Fresh : i <= j
          /\ vf' = [vf EXCEPT !.pc = "writerest", !.id = i]
          /\ buf' = [buf EXCEPT !.head = Word(vf.ask, i, "none", FALSE)]
          /\ seen' = seen \ {i}
    /\ lock' = [lock EXCEPT !.vfu = TRUE]
    /\ UNCHANGED <<icr, intr, sts, v2p, torn, left>> /\ UNCHANGED PfVars

\* ixgbe_write_mbx_vf: lock, flush, copy ...
VfWrite ==
    /\ vf.pc = "idle" /\ vf.ask \in Requests /\ ObtainLockVf
    /\ \E i \in Fresh :
          /\ \A j \in Fresh : i <= j
          /\ vf' = [vf EXCEPT !.pc = "writerest", !.id = i]
          /\ buf' = [buf EXCEPT !.head = Word(vf.ask, i, "none", FALSE)]
          /\ seen' = seen \ {i}
    /\ lock' = [lock EXCEPT !.vfu = TRUE]
    /\ sts' = {} /\ v2p' = ReadV2p \ {"msg", "ack"}
    /\ UNCHANGED <<icr, intr, torn, left>> /\ UNCHANGED PfVars

\* ... and REQ, which drops the lock and interrupts the PF.
VfRequest ==
    /\ vf.pc = "writerest"
    /\ vf' = [vf EXCEPT !.pc = "pollack"]
    /\ buf' = [buf EXCEPT !.rest = vf.id]
    /\ lock' = [lock EXCEPT !.vfu = FALSE]
    /\ icr' = icr \cup {"req"} /\ intr' = TRUE
    /\ UNCHANGED <<sts, v2p, seen, torn, left>> /\ UNCHANGED PfVars

\* ixgbe_poll_for_ack and ixgbe_poll_for_msg find their bit, ...
VfPoll ==
    /\ \/ vf.pc = "pollack" /\ "ack" \in ReadV2p /\ CheckBit("ack")
          /\ vf' = [vf EXCEPT !.pc = "pollmsg"]
       \/ vf.pc = "pollmsg" /\ "msg" \in ReadV2p /\ CheckBit("msg")
          /\ vf' = [vf EXCEPT !.pc = "read"]
    /\ UNCHANGED <<lock, buf, icr, intr, seen, torn, left>> /\ UNCHANGED PfVars

Working == irq.pc # "idle" \/ oth # "idle" \/ (intr /\ up)

\* ... or give up.  The countdown is long: while the PF is at work it runs out
\* only now and then.  The driver of the VF asks for a reset or a setting again.
VfTimeout ==
    /\ \/ vf.pc = "pollack" /\ "ack" \notin ReadV2p
       \/ vf.pc = "pollmsg" /\ "msg" \notin ReadV2p
    /\ IF Working THEN left > 0 /\ left' = left - 1 ELSE UNCHANGED left
    /\ vf' = [vf EXCEPT !.pc = "idle",
                        !.ask = IF @ = "oversize" THEN "refused" ELSE @]
    /\ UNCHANGED <<lock, buf, icr, intr, sts, v2p, seen, torn>> /\ UNCHANGED PfVars

\* ixgbe_read_mbx_vf: without the lock the message is not read at all, ...
VfRead ==
    /\ vf.pc = "read"
    /\ IF ObtainLockVf
       THEN /\ vf' = [vf EXCEPT !.pc = "readrest", !.head = buf.head]
            /\ lock' = [lock EXCEPT !.vfu = TRUE]
       ELSE vf' = [vf EXCEPT !.pc = "idle"] /\ UNCHANGED lock
    /\ UNCHANGED <<buf, icr, intr, sts, v2p, seen, torn, left>> /\ UNCHANGED PfVars

\* What the driver of the VF does next.  It knows a reply by its kind and flags.
NextAsk(head) ==
    CASE head.kind = "reset" /\ vf.ask = "reset" /\ head.flag # "none" -> "config"
      [] head.kind = "config" /\ vf.ask = "config" /\ head.flag = "ack" -> "done"
      [] head.kind = vf.ask /\ vf.ask # "reset" /\ head.flag = "nack" ->
            IF head.cts THEN "refused" ELSE "reset"
      [] OTHER -> vf.ask

\* ... and with it, it is acknowledged.
VfReceive ==
    /\ vf.pc = "readrest"
    /\ vf' = [vf EXCEPT !.pc = "idle", !.ask = NextAsk(vf.head), !.head = Blank]
    /\ torn' = (torn \/ (vf.head.flag = "ack" /\ buf.rest # -vf.head.id))
    /\ lock' = [lock EXCEPT !.vfu = FALSE]
    /\ icr' = icr \cup {"ack"} /\ intr' = TRUE
    /\ UNCHANGED <<buf, sts, v2p, seen, left>> /\ UNCHANGED PfVars

\* The VF asks for something else later, or is reset as a PCI function between
\* two accesses to the buffer.
VfAgain ==
    /\ left > 0 /\ left' = left - 1
    /\ \/ /\ vf.ask \in {"done", "refused"}
          /\ \E ask \in {"config", "oversize"} : vf' = [vf EXCEPT !.ask = ask]
          /\ UNCHANGED <<icr, intr, sts, v2p>>
       \/ /\ vf.pc \notin {"writerest", "readrest"}
          /\ vf' = [pc |-> "idle", ask |-> "reset", id |-> None, head |-> Blank]
          /\ sts' = {} /\ v2p' = {}
          /\ icr' = icr \cup {"flr"} /\ intr' = TRUE
    /\ UNCHANGED <<lock, buf, seen, torn>> /\ UNCHANGED PfVars

-----------------------------------------------------------------------------
(* The PF: ixgbe_msg_task, in the interrupt handler. *)

IrqRest == <<v2p, vf, oth, up, left>>
Idle == [pc |-> "idle", head |-> Blank, out |-> Out(Blank, FALSE)]

\* Mutant: the reset is not cleared in VFLREC.
MsgTaskKeepsReset ==
    /\ irq.pc = "idle" /\ intr /\ up
    /\ intr' = FALSE
    /\ irq' = [irq EXCEPT !.pc = "msg"]
    /\ conf' = IF "flr" \in icr THEN None ELSE conf
    /\ UNCHANGED <<lock, buf, icr, sts, clear_to_send, seen, torn, overlap>>
    /\ UNCHANGED IrqRest

\* Process any reset requests: ixgbe_vf_reset_event undoes the configuration.
MsgTask ==
    /\ irq.pc = "idle" /\ intr /\ up
    /\ intr' = FALSE
    /\ irq' = [irq EXCEPT !.pc = "msg"]
    /\ icr' = icr \ {"flr"}
    /\ conf' = IF "flr" \in icr THEN None ELSE conf
    /\ UNCHANGED <<lock, buf, sts, clear_to_send, seen, torn, overlap>>
    /\ UNCHANGED IrqRest

\* ixgbe_check_for_msg, "process any messages pending".
CheckForMsg ==
    /\ irq.pc = "msg"
    /\ irq' = [irq EXCEPT !.pc = IF "req" \in icr THEN "read" ELSE "ack"]
    /\ icr' = icr \ {"req"}
    /\ UNCHANGED <<lock, buf, intr, sts, clear_to_send, conf, seen, torn, overlap>>
    /\ UNCHANGED IrqRest

\* ixgbe_read_mbx_pf: lock and copy ...
ReadMbx ==
    /\ irq.pc = "read"
    /\ IF ObtainLockPf
       THEN /\ irq' = [irq EXCEPT !.pc = "readrest", !.head = buf.head]
            /\ lock' = [lock EXCEPT !.pfu = TRUE]
            /\ overlap' = (overlap \/ oth = "pingrest")
       ELSE irq' = [irq EXCEPT !.pc = "ack"] /\ UNCHANGED <<lock, overlap>>
    /\ UNCHANGED <<buf, icr, intr, sts, clear_to_send, conf, seen, torn>>
    /\ UNCHANGED IrqRest

\* ... then acknowledge and release.  "This is a message we already processed,
\* do nothing", if it has a flag.
AckMbx ==
    LET fresh == irq.head.flag = "none"
        whole == irq.head.kind = "ping" \/ buf.rest = irq.head.id
    IN  /\ irq.pc = "readrest"
        /\ irq' = [irq EXCEPT !.pc = IF fresh THEN "handle" ELSE "ack"]
        /\ lock' = [lock EXCEPT !.pfu = FALSE]
        /\ sts' = sts \cup {"ack"}
        /\ torn' = (torn \/ (fresh /\ ~whole))
        /\ seen' = IF fresh /\ whole THEN seen \cup {irq.head.id} ELSE seen
        /\ UNCHANGED <<buf, icr, intr, clear_to_send, conf, overlap>>
        /\ UNCHANGED IrqRest

Reply(flag, cts, long) ==
    irq' = [irq EXCEPT !.pc = "write",
               !.out = Out(Word(irq.head.kind, irq.head.id, flag, cts), long)]

\* ixgbe_rcv_msg_from_vf once the message is read: a reset (NACKed if the VF has
\* no MAC, but done), a VF that is not clear to send, a frame size out of range,
\* for which it returns without a reply, a request granted or not.  A refusal may
\* undo what was granted before: ixgbe_set_vf_mac deletes the old filter first.  A
\* ping of its own that the PF finds in the buffer is an unhandled message.
HandleMsg ==
    /\ irq.pc = "handle"
    /\ \/ /\ irq.head.kind = "reset"
          /\ clear_to_send' = TRUE /\ conf' = None
          /\ \E flag \in {"ack", "nack"} : Reply(flag, FALSE, TRUE)
       \/ /\ irq.head.kind # "reset" /\ ~clear_to_send
          /\ Reply("nack", FALSE, FALSE)
          /\ UNCHANGED <<clear_to_send, conf>>
       \/ /\ irq.head.kind = "oversize" /\ clear_to_send
          /\ irq' = [irq EXCEPT !.pc = "ack"]
          /\ UNCHANGED <<clear_to_send, conf>>
       \/ /\ irq.head.kind \notin {"reset", "oversize"} /\ clear_to_send
          /\ \/ /\ irq.head.kind = "config"
                /\ conf' = irq.head.id /\ Reply("ack", TRUE, TRUE)
             \/ /\ \/ UNCHANGED conf
                   \/ irq.head.kind = "config" /\ conf' = None
                /\ Reply("nack", TRUE, TRUE)
          /\ UNCHANGED clear_to_send
    /\ UNCHANGED <<lock, buf, icr, intr, sts, seen, torn, overlap>>
    /\ UNCHANGED IrqRest

\* What follows a message written, or not written, by ixgbe_msg_task.
After == IF irq.pc \in {"write", "writerest"} THEN [irq EXCEPT !.pc = "ack"]
         ELSE Idle

\* ixgbe_write_mbx_pf: lock, flush what the VF has signalled, copy ...
WriteMbx ==
    /\ irq.pc \in {"write", "nack"}
    /\ IF ObtainLockPf
       THEN /\ irq' = [irq EXCEPT !.pc = IF @ = "write" THEN "writerest"
                                         ELSE "nackrest"]
            /\ lock' = [lock EXCEPT !.pfu = TRUE]
            /\ icr' = icr \ {"req", "ack"}
            /\ buf' = [buf EXCEPT !.head = irq.out.head]
            /\ overlap' = (overlap \/ oth = "pingrest")
       ELSE irq' = After /\ UNCHANGED <<lock, icr, buf, overlap>>
    /\ UNCHANGED <<intr, sts, clear_to_send, conf, seen, torn>>
    /\ UNCHANGED IrqRest

\* ... then notify the VF and release.
SendMbx ==
    /\ irq.pc \in {"writerest", "nackrest"}
    /\ irq' = After
    /\ lock' = [lock EXCEPT !.pfu = FALSE]
    /\ buf' = IF irq.out.long THEN [buf EXCEPT !.rest = -irq.out.head.id] ELSE buf
    /\ sts' = sts \cup {"msg"}
    /\ UNCHANGED <<icr, intr, clear_to_send, conf, seen, torn, overlap>>
    /\ UNCHANGED IrqRest

\* ixgbe_check_for_ack and ixgbe_rcv_ack_from_vf: "if device isn't clear to send
\* it shouldn't be reading either".
CheckForAck ==
    /\ irq.pc = "ack"
    /\ irq' = IF "ack" \in icr /\ ~clear_to_send
              THEN [Idle EXCEPT !.pc = "nack",
                       !.out = Out(Word("none", None, "nack", FALSE), FALSE)]
              ELSE Idle
    /\ icr' = icr \ {"ack"}
    /\ UNCHANGED <<lock, buf, intr, sts, clear_to_send, conf, seen, torn, overlap>>
    /\ UNCHANGED IrqRest

-----------------------------------------------------------------------------
(* The PF: pings, from the service task and from ixgbe_down. *)

OthRest == <<v2p, vf, irq, seen, torn>>

\* A link change, or ixgbe_down, which disables and waits for the interrupt
\* handler before it marks the VF inactive, and whose ixgbe_reset flushes the MAC
\* table; and ixgbe_up, which reads EICR and so drops a pending interrupt.
OtherStart ==
    /\ oth = "idle"
    /\ \/ /\ up /\ left > 0 /\ left' = left - 1
          /\ oth' = "ping"
          /\ UNCHANGED <<up, clear_to_send, conf, intr>>
       \/ /\ up /\ left > 0 /\ left' = left - 1 /\ irq.pc = "idle"
          /\ oth' = "ping"
          /\ up' = FALSE /\ clear_to_send' = FALSE /\ conf' = None
          /\ UNCHANGED intr
       \/ /\ ~up /\ up' = TRUE /\ intr' = FALSE
          /\ UNCHANGED <<oth, clear_to_send, conf, left>>
    /\ UNCHANGED <<lock, buf, icr, sts, overlap>> /\ UNCHANGED OthRest

\* ixgbe_ping_all_vfs, by way of ixgbe_write_mbx_pf.
PingVf ==
    /\ \/ /\ oth = "ping" /\ ObtainLockPf
          /\ oth' = "pingrest"
          /\ lock' = [lock EXCEPT !.pfu = TRUE]
          /\ icr' = icr \ {"req", "ack"}
          /\ buf' = [buf EXCEPT !.head = Word("ping", None, "none", clear_to_send)]
          /\ overlap' = (overlap \/ irq.pc # "idle")
          /\ UNCHANGED sts
       \/ /\ oth = "ping" /\ ~ObtainLockPf
          /\ oth' = "idle"
          /\ UNCHANGED <<lock, icr, buf, overlap, sts>>
       \/ /\ oth = "pingrest"
          /\ oth' = "idle"
          /\ lock' = [lock EXCEPT !.pfu = FALSE]
          /\ sts' = sts \cup {"msg"}
          /\ UNCHANGED <<icr, buf, overlap>>
    /\ UNCHANGED <<up, clear_to_send, conf, intr, left>> /\ UNCHANGED OthRest

-----------------------------------------------------------------------------
VfStep == VfWrite \/ VfRequest \/ VfPoll \/ VfTimeout \/ VfRead \/ VfReceive
IrqStep == \/ MsgTask \/ CheckForMsg \/ ReadMbx \/ AckMbx \/ HandleMsg
           \/ WriteMbx \/ SendMbx \/ CheckForAck

Next == VfStep \/ VfAgain \/ IrqStep \/ OtherStart \/ PingVf

\* The driver of the VF and the contexts of the PF run when they have work.
Fairness == WF_vars(VfStep) /\ WF_vars(IrqStep) /\ WF_vars(PingVf)

Spec == Init /\ [][Next]_vars /\ Fairness

-----------------------------------------------------------------------------
(* Properties. *)

\* "Lock the mailbox to prevent pf/vf race condition": unless a ping ran into
\* ixgbe_msg_task, from which the lock bit does not keep it apart, neither side
\* ever takes a message half of which is another one.
MessagesWhole == ~overlap => ~torn

\* ixgbe_write_posted_mbx "received an ack to that message": the PF has read the
\* very message, not an older one that timed out.
AckMeansRead ==
    ~overlap /\ vf.pc \in {"pollmsg", "read", "readrest"} => vf.id \in seen

\* What the PF acknowledged to a VF stands as long as it lets the VF send: it has
\* applied the request, no reset of the VF from before it, seen late, undoes it,
\* and the adapter, when it goes down and flushes it, marks the VF inactive.
ConfigStands == ~overlap /\ vf.ask = "done" /\ clear_to_send => conf = vf.id

\* However pings, resets and timeouts hit an exchange, a VF that keeps asking for a
\* reset or a setting is answered in the end while the PF is up.
VfServed ==
    vf.ask \in {"reset", "config"} ~> vf.ask \in {"done", "refused"} \/ ~up
=============================================================================
