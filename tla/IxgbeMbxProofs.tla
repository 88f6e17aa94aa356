--------------------------- MODULE IxgbeMbxProofs ---------------------------
(***************************************************************************)
(* Proofs about the mailbox of a virtual function (IxgbeMbx), for any set  *)
(* of requests and any number of pings, resets and timeouts: as long as no *)
(* ping runs into ixgbe_msg_task, no message is taken half, an             *)
(* acknowledgement is one of the request it is taken for, and what was     *)
(* granted stands.                                                         *)
(*                                                                         *)
(* The argument follows one request.  Its id is in the buffer from the     *)
(* write of the VF on until somebody writes over it, and whoever does so   *)
(* clears the request bit: the PF reads a message only while it is there   *)
(* (ReqInv).  A flagged message that a waiting VF can find was written     *)
(* after its request, and once the request is acknowledged, in reply to it *)
(* (ReplyInv).  A reset that the PF has yet to see comes from its current  *)
(* run, which has nothing of a later request but its reset (ResetInv).     *)
(***************************************************************************)
EXTENDS IxgbeMbx, TLAPS

IdsNone == Ids \cup {None}
Words   == [kind : {"none", "ping"} \cup Requests, id : IdsNone,
            flag : {"none", "ack", "nack"}, cts : BOOLEAN]
Locks   == [vfu : BOOLEAN, pfu : BOOLEAN]
Buffer  == [head : Words, rest : IdsNone \cup {-i : i \in IdsNone}]
VfState == [pc : {"idle", "writerest", "pollack", "pollmsg", "read", "readrest"},
            ask : {"done", "refused"} \cup Requests, id : IdsNone, head : Words]
Outs    == [head : Words, long : BOOLEAN]
Task    == [pc : {"idle", "msg", "read", "readrest", "handle", "write", "writerest",
                  "ack", "nack", "nackrest"},
            head : Words, out : Outs]

TypeOK ==
    /\ lock \in Locks
    /\ buf \in Buffer
    /\ vf \in VfState
    /\ irq \in Task
    /\ oth \in {"idle", "ping", "pingrest"}
    /\ clear_to_send \in BOOLEAN
    /\ vf.pc # "idle" => vf.id \in Ids

\* Each side holds its lock bit during an access, the PF in one context only,
\* and the two bits are never both set.
LockInv ==
    /\ lock.vfu <=> vf.pc \in {"writerest", "readrest"}
    /\ lock.pfu <=> irq.pc \in {"readrest", "writerest", "nackrest"} \/ oth = "pingrest"
    /\ oth = "pingrest" => irq.pc \notin {"readrest", "writerest", "nackrest"}
    /\ ~(lock.vfu /\ lock.pfu)

\* Between two writes the two parts of the buffer belong together.
Consistent ==
    /\ buf.head.flag = "none" => buf.head.kind = "ping" \/ buf.rest = buf.head.id
    /\ buf.head.flag = "ack" => buf.rest = -buf.head.id

BufInv ==
    /\ vf.pc # "writerest" /\ irq.pc # "writerest" => Consistent
    /\ vf.pc = "writerest" => /\ buf.head = Word(vf.ask, vf.id, "none", FALSE)
                              /\ vf.ask \in Requests
    /\ vf.pc = "readrest" => vf.head = buf.head
    /\ irq.pc = "readrest" => irq.head = buf.head
    /\ irq.pc = "writerest" => buf.head = irq.out.head
    /\ irq.pc \in {"write", "writerest", "nack", "nackrest"} =>
          \/ irq.out.head.flag = "nack"
          \/ irq.out.head.flag = "ack" /\ irq.out.long
    /\ irq.pc \in {"nack", "nackrest"} => ~irq.out.long
    /\ ~torn

\* The VF has sent a request and waits for the answer.
Asking == vf.pc \in {"pollack", "pollmsg", "read", "readrest"}

\* The PF has acknowledged the message in front of which the VF waits.
Acked == \/ vf.pc \in {"pollmsg", "read", "readrest"}
         \/ vf.pc = "pollack" /\ "ack" \in ReadV2p

ReqInv ==
    /\ ("req" \in icr \/ irq.pc = "read") /\ Asking =>
          buf.head.id = vf.id /\ buf.head.flag = "none"
    /\ irq.pc = "readrest" /\ Asking => irq.head.id = vf.id /\ irq.head.flag = "none"
    /\ Acked => vf.id \in seen
    /\ vf.pc = "writerest" => "ack" \notin ReadV2p /\ vf.id \notin seen

\* What ixgbe_msg_task holds of a request is one that it has read.
ReplyInv ==
    /\ irq.pc \in {"handle", "write"} => buf.head.flag = "none"
    /\ irq.pc \in {"nack", "nackrest"} =>
          irq.out.head.kind = "none" /\ irq.out.head.id = None
    /\ Acked => /\ buf.head.flag # "none" /\ buf.head.kind # "none" =>
                      buf.head.id = vf.id
                /\ irq.pc = "handle" => irq.head.id = vf.id
                /\ irq.pc \in {"write", "writerest"} => irq.out.head.id = vf.id
    /\ vf.pc # "idle" =>
          /\ irq.pc = "handle" /\ irq.head.id = vf.id => vf.id \in seen
          /\ irq.pc \in {"write", "writerest"} /\ irq.out.head.id = vf.id =>
                vf.id \in seen
    /\ Asking /\ buf.head.flag # "none" /\ buf.head.id = vf.id => vf.id \in seen
    /\ irq.pc \in {"write", "writerest"} /\ irq.out.head.flag = "ack"
          /\ irq.out.head.kind = "config" => conf = irq.out.head.id

\* A reset of the VF that the PF has not seen yet was made in the current run
\* of ixgbe_msg_task, if there is one.
ResetInv ==
    "flr" \in icr =>
        /\ vf.ask # "reset" => irq.pc \in {"idle", "ack", "nack", "nackrest"}
        /\ Asking /\ buf.head.flag # "none" /\ buf.head.id = vf.id =>
              irq.pc \in {"idle", "writerest", "ack", "nack", "nackrest"}
        /\ vf.ask = "config" /\ Asking => vf.id \notin seen

\* A granted request is the last one applied, from its reply on until the adapter
\* goes down.
GrantInv ==
    /\ Asking /\ vf.ask = "config" /\ buf.head.kind = "config" /\ buf.head.flag = "ack"
          /\ buf.head.id = vf.id /\ clear_to_send => conf = vf.id
    /\ vf.ask \in {"done", "refused"} => vf.pc = "idle"
    /\ vf.ask = "done" =>
          /\ clear_to_send => conf = vf.id
          /\ "req" \notin icr /\ "flr" \notin icr
          /\ irq.pc \in {"idle", "msg", "ack", "nack", "nackrest"}

\* The inductive invariant.
Safe == LockInv /\ BufInv /\ ReqInv /\ ReplyInv /\ ResetInv /\ GrantInv
IInv == TypeOK /\ (~overlap => Safe)

-----------------------------------------------------------------------------
(* Types. *)

\* The words of the mailbox, and the parts of one.
LEMMA WordType ==
    \A k \in {"none", "ping"} \cup Requests, i \in IdsNone,
       f \in {"none", "ack", "nack"}, c \in BOOLEAN : Word(k, i, f, c) \in Words
BY DEF Word, Words

\* A word has the parts it was put together from.
LEMMA WordFields ==
    \A k, i, f, c : /\ Word(k, i, f, c).kind = k /\ Word(k, i, f, c).id = i
                    /\ Word(k, i, f, c).flag = f
BY DEF Word

\* So is the word of the empty buffer.
LEMMA BlankType == Blank \in Words
BY WordType, Zenon DEF Blank, IdsNone

\* The parts of a word are of their types.
LEMMA HeadFields ==
    \A w \in Words : /\ w.kind \in {"none", "ping"} \cup Requests
                     /\ w.id \in IdsNone /\ w.flag \in {"none", "ack", "nack"}
BY DEF Words

\* Every step keeps the types of the drivers' state and of the registers.
LEMMA TypePreserved == TypeOK /\ [Next]_vars => TypeOK'
<1> SUFFICES ASSUME TypeOK, [Next]_vars PROVE TypeOK'
  OBVIOUS
<1> USE DEF PfVars, IrqRest, OthRest
<1>i. /\ \A i \in Fresh : i \in Ids /\ i \in IdsNone
      /\ None \in IdsNone
  BY DEF Fresh, IdsNone
<1>1. CASE VfWrite
  <2>1. lock' \in Locks
    BY <1>1, <1>i, Zenon DEF VfWrite, TypeOK, Locks
  <2>2. buf' \in Buffer
    <3>1. PICK i \in Fresh : buf' = [buf EXCEPT !.head = Word(vf.ask, i, "none", FALSE)]
      BY <1>1, Zenon DEF VfWrite
    <3>2. Word(vf.ask, i, "none", FALSE) \in Words
      BY <1>1, <1>i, WordType, Zenon DEF VfWrite
    <3> QED
      BY <3>1, <3>2, Zenon DEF TypeOK, Buffer
  <2>3. vf' \in VfState
    BY <1>1, <1>i, BlankType, Zenon DEF VfWrite, TypeOK, VfState
  <2>4. vf'.pc # "idle" => vf'.id \in Ids
    BY <1>1, <1>i DEF VfWrite, TypeOK, VfState
  <2> QED
    BY <1>1, <2>1, <2>2, <2>3, <2>4 DEF VfWrite, TypeOK
<1>2. CASE VfRequest
  <2>1. lock' \in Locks
    BY <1>2, <1>i, Zenon DEF VfRequest, TypeOK, Locks
  <2>2. buf' \in Buffer
    BY <1>2, <1>i, WordType DEF VfRequest, TypeOK, Buffer, VfState
  <2>3. vf' \in VfState
    BY <1>2, <1>i, BlankType DEF VfRequest, TypeOK, VfState
  <2>4. vf'.pc # "idle" => vf'.id \in Ids
    BY <1>2, <1>i DEF VfRequest, TypeOK, VfState
  <2> QED
    BY <1>2, <2>1, <2>2, <2>3, <2>4 DEF VfRequest, TypeOK
<1>3. CASE VfPoll
  <2>1. vf' \in VfState
    BY <1>3, <1>i, BlankType DEF VfPoll, TypeOK, VfState
  <2>2. vf'.pc # "idle" => vf'.id \in Ids
    BY <1>3, <1>i DEF VfPoll, TypeOK, VfState
  <2> QED
    BY <1>3, <2>1, <2>2 DEF VfPoll, TypeOK
<1>4. CASE VfTimeout
  <2>1. vf' \in VfState
    BY <1>4, <1>i, BlankType DEF VfTimeout, TypeOK, VfState
  <2>2. vf'.pc # "idle" => vf'.id \in Ids
    BY <1>4, <1>i DEF VfTimeout, TypeOK, VfState
  <2> QED
    BY <1>4, <2>1, <2>2 DEF VfTimeout, TypeOK
<1>5. CASE VfRead
  <2>1. lock' \in Locks
    BY <1>5, <1>i, Zenon DEF VfRead, TypeOK, Locks
  <2>2. vf' \in VfState
    BY <1>5, <1>i, BlankType, Zenon DEF VfRead, TypeOK, VfState, Buffer
  <2>3. vf'.pc # "idle" => vf'.id \in Ids
    BY <1>5, <1>i, Zenon DEF VfRead, TypeOK, VfState
  <2> QED
    BY <1>5, <2>1, <2>2, <2>3 DEF VfRead, TypeOK
<1>6. CASE VfReceive
  <2>1. lock' \in Locks
    BY <1>6, <1>i, Zenon DEF VfReceive, TypeOK, Locks
  <2>2. vf' \in VfState
    BY <1>6, <1>i, BlankType DEF VfReceive, TypeOK, VfState, NextAsk, Requests
  <2>3. vf'.pc # "idle" => vf'.id \in Ids
    BY <1>6, <1>i DEF VfReceive, TypeOK, VfState
  <2> QED
    BY <1>6, <2>1, <2>2, <2>3 DEF VfReceive, TypeOK
<1>7. CASE VfAgain
  <2>1. vf' \in VfState
    BY <1>7, <1>i, BlankType DEF VfAgain, TypeOK, VfState, Requests
  <2>2. vf'.pc # "idle" => vf'.id \in Ids
    BY <1>7, <1>i DEF VfAgain, TypeOK, VfState
  <2> QED
    BY <1>7, <2>1, <2>2 DEF VfAgain, TypeOK
<1>8. CASE MsgTask
  <2>1. irq' \in Task
    BY <1>8 DEF MsgTask, TypeOK, Task
  <2>2. vf'.pc # "idle" => vf'.id \in Ids
    BY <1>8, <1>i DEF MsgTask, TypeOK
  <2> QED
    BY <1>8, <2>1, <2>2 DEF MsgTask, TypeOK
<1>9. CASE CheckForMsg
  <2>1. irq' \in Task
    BY <1>9 DEF CheckForMsg, TypeOK, Task
  <2>2. vf'.pc # "idle" => vf'.id \in Ids
    BY <1>9, <1>i DEF CheckForMsg, TypeOK
  <2> QED
    BY <1>9, <2>1, <2>2 DEF CheckForMsg, TypeOK
<1>10. CASE ReadMbx
  <2>1. lock' \in Locks
    BY <1>10, <1>i, Zenon DEF ReadMbx, TypeOK, Locks
  <2>2. irq' \in Task
    BY <1>10, Zenon DEF ReadMbx, TypeOK, Task, Buffer
  <2>3. vf'.pc # "idle" => vf'.id \in Ids
    BY <1>10, <1>i DEF ReadMbx, TypeOK
  <2> QED
    BY <1>10, <2>1, <2>2, <2>3 DEF ReadMbx, TypeOK
<1>11. CASE AckMbx
  <2>1. lock' \in Locks
    BY <1>11, <1>i, Zenon DEF AckMbx, TypeOK, Locks
  <2>2. irq' \in Task
    BY <1>11 DEF AckMbx, TypeOK, Task
  <2>3. vf'.pc # "idle" => vf'.id \in Ids
    BY <1>11, <1>i DEF AckMbx, TypeOK
  <2> QED
    BY <1>11, <2>1, <2>2, <2>3 DEF AckMbx, TypeOK
<1>12. CASE HandleMsg
  <2>1. irq' = [irq EXCEPT !.pc = "ack"] => irq' \in Task
    BY DEF TypeOK, Task
  <2>2. irq' # [irq EXCEPT !.pc = "ack"] => irq' \in Task
    <3> HAVE irq' # [irq EXCEPT !.pc = "ack"]
    <3>1. PICK f \in {"ack", "nack"}, c \in BOOLEAN, l \in BOOLEAN : Reply(f, c, l)
      BY <1>12, Zenon DEF HandleMsg
    <3>2. Word(irq.head.kind, irq.head.id, f, c) \in Words
      BY WordType, HeadFields, Zenon DEF TypeOK, Task
    <3>3. Out(Word(irq.head.kind, irq.head.id, f, c), l) \in Outs
      BY <3>2 DEF Out, Outs
    <3> QED
      BY <3>1, <3>3, Zenon DEF Reply, TypeOK, Task
  <2>3. vf'.pc # "idle" => vf'.id \in Ids
    BY <1>12, <1>i DEF HandleMsg, TypeOK
  <2>4. clear_to_send' \in BOOLEAN
    BY <1>12, Zenon DEF HandleMsg, TypeOK
  <2>5. irq' \in Task
    BY <2>1, <2>2
  <2> QED
    BY <1>12, <2>3, <2>4, <2>5, Zenon DEF HandleMsg, TypeOK
<1>13. CASE WriteMbx
  <2>1. lock' \in Locks
    BY <1>13, <1>i, Zenon DEF WriteMbx, TypeOK, Locks
  <2>2. buf' \in Buffer
    BY <1>13, <1>i, WordType, HeadFields
       DEF WriteMbx, TypeOK, Buffer, Task, Outs
  <2>3. irq' \in Task
    <3>1. After \in Task
      BY BlankType DEF After, Idle, Out, Outs, Task, TypeOK
    <3>2. CASE ObtainLockPf
      BY <1>13, <3>2 DEF WriteMbx, TypeOK, Task
    <3>3. CASE ~ObtainLockPf
      BY <1>13, <3>1, <3>3 DEF WriteMbx
    <3> QED
      BY <3>2, <3>3
  <2>4. vf'.pc # "idle" => vf'.id \in Ids
    BY <1>13, <1>i DEF WriteMbx, TypeOK
  <2> QED
    BY <1>13, <2>1, <2>2, <2>3, <2>4 DEF WriteMbx, TypeOK
<1>14. CASE SendMbx
  <2>1. lock' \in Locks
    BY <1>14, <1>i, Zenon DEF SendMbx, TypeOK, Locks
  <2>2. buf' \in Buffer
    BY <1>14, <1>i, WordType, HeadFields, Zenon
       DEF SendMbx, TypeOK, Buffer, Task, Outs
  <2>3. irq' \in Task
    BY <1>14, <1>i, BlankType
       DEF SendMbx, TypeOK, Task, Outs, Out, After, Idle
  <2>4. vf'.pc # "idle" => vf'.id \in Ids
    BY <1>14, <1>i DEF SendMbx, TypeOK
  <2> QED
    BY <1>14, <2>1, <2>2, <2>3, <2>4 DEF SendMbx, TypeOK
<1>15. CASE CheckForAck
  <2>1. irq' \in Task
    BY <1>15, <1>i, WordType, BlankType, Zenon
       DEF CheckForAck, TypeOK, Task, Outs, Out, Idle
  <2>2. vf'.pc # "idle" => vf'.id \in Ids
    BY <1>15, <1>i DEF CheckForAck, TypeOK
  <2> QED
    BY <1>15, <2>1, <2>2 DEF CheckForAck, TypeOK
<1>16. CASE OtherStart
  <2>1. vf'.pc # "idle" => vf'.id \in Ids
    BY <1>16, <1>i DEF OtherStart, TypeOK
  <2> QED
    BY <1>16, <2>1, Zenon DEF OtherStart, TypeOK
<1>17. CASE PingVf
  <2>1. lock' \in Locks
    BY <1>17, <1>i, Zenon DEF PingVf, TypeOK, Locks
  <2>2. buf' \in Buffer
    BY <1>17, <1>i, WordType DEF PingVf, TypeOK, Buffer
  <2>3. vf'.pc # "idle" => vf'.id \in Ids
    BY <1>17, <1>i DEF PingVf, TypeOK
  <2> QED
    BY <1>17, <2>1, <2>2, <2>3 DEF PingVf, TypeOK
<1>18. CASE UNCHANGED vars
  BY <1>18 DEF vars, TypeOK
<1> QED
  BY <1>1, <1>2, <1>3, <1>4, <1>5, <1>6, <1>7, <1>8, <1>9, <1>10,
     <1>11, <1>12, <1>13, <1>14, <1>15, <1>16, <1>17, <1>18
     DEF Next, VfStep, IrqStep

-----------------------------------------------------------------------------
(* Steps. *)

\* Every step of ixgbe_msg_task keeps the invariant, unless it takes the buffer
\* while a ping is being written.
LEMMA IrqKeeps ==
    ASSUME TypeOK, Safe, IrqStep, ~overlap'
    PROVE  Safe'
<1>t. /\ lock \in [vfu : BOOLEAN, pfu : BOOLEAN]
      /\ buf \in [head : Words, rest : IdsNone \cup {-i : i \in IdsNone}]
      /\ vf \in VfState /\ irq \in Task
  BY DEF TypeOK, Locks, Buffer
<1>y. /\ LockInv /\ BufInv /\ ReqInv /\ ReplyInv /\ ResetInv /\ GrantInv
      /\ vf.pc # "idle" => vf.id \in Ids /\ vf.id # None
  BY IdsAssumption DEF Safe, TypeOK
<1>1. CASE MsgTask
  <2>1. irq.pc = "idle" /\ irq'.pc = "msg"
    BY <1>1, <1>t
       DEF MsgTask, PfVars, IrqRest, OthRest, Task, Outs, ReadV2p
  <2>2. /\ icr' = icr \ {"flr"} /\ conf' = IF "flr" \in icr THEN None ELSE conf
        /\ ReadV2p' = ReadV2p
    BY <1>1, <1>t, <2>1
       DEF MsgTask, PfVars, IrqRest, OthRest, ReadV2p
  <2>3. UNCHANGED <<vf, oth, clear_to_send, torn, seen, buf, lock>>
    BY <1>1, <1>t, <2>1, <2>2
       DEF MsgTask, PfVars, IrqRest, OthRest, ReadV2p
  <2>4. LockInv'
    BY <1>y, <2>1, <2>2, <2>3 DEF LockInv
  <2>5. BufInv'
    BY <1>y, <2>1, <2>2, <2>3, Zenon DEF LockInv, BufInv, Consistent
  <2>6. ReqInv'
    BY <1>y, <2>1, <2>2, <2>3 DEF LockInv, BufInv, ReqInv, Asking, Acked
  <2>7. ReplyInv'
    BY <1>y, <2>1, <2>2, <2>3 DEF LockInv, BufInv, ReqInv, ReplyInv, Asking, Acked
  <2>8. ResetInv'
    BY <1>y, <2>1, <2>2, <2>3 DEF LockInv, ReqInv, ReplyInv, ResetInv, Asking, Acked
  <2>9. GrantInv'
    BY <1>y, <2>1, <2>2, <2>3
       DEF LockInv, ReqInv, ReplyInv, ResetInv, GrantInv, Asking, Acked
  <2> QED
    BY <2>4, <2>5, <2>6, <2>7, <2>8, <2>9 DEF Safe
<1>2. CASE CheckForMsg
  <2>1. irq.pc = "msg" /\ irq'.pc = (IF "req" \in icr THEN "read" ELSE "ack")
    BY <1>2, <1>t
       DEF CheckForMsg, PfVars, IrqRest, OthRest, Task, Outs, ReadV2p
  <2>2. /\ icr' = icr \ {"req"} /\ ReadV2p' = ReadV2p
        /\ UNCHANGED <<vf, oth, conf, clear_to_send, torn, seen, buf, lock>>
    BY <1>2, <1>t, <2>1
       DEF CheckForMsg, PfVars, IrqRest, OthRest, ReadV2p
  <2>3. LockInv'
    BY <1>y, <2>1, <2>2 DEF LockInv
  <2>4. BufInv'
    BY <1>y, <2>1, <2>2, Zenon DEF LockInv, BufInv, Consistent
  <2>5. ReqInv'
    BY <1>y, <2>1, <2>2 DEF LockInv, BufInv, ReqInv, Asking, Acked
  <2>6. ReplyInv'
    BY <1>y, <2>1, <2>2 DEF LockInv, BufInv, ReqInv, ReplyInv, Asking, Acked
  <2>7. ResetInv'
    BY <1>y, <2>1, <2>2 DEF LockInv, ReqInv, ReplyInv, ResetInv, Asking, Acked
  <2>8. GrantInv'
    BY <1>y, <2>1, <2>2
       DEF LockInv, ReqInv, ReplyInv, ResetInv, GrantInv, Asking, Acked
  <2> QED
    BY <2>3, <2>4, <2>5, <2>6, <2>7, <2>8 DEF Safe
<1>3. CASE ReadMbx
  <2>1. irq.pc = "read" /\ irq'.pc \in {"readrest", "ack"}
    BY <1>3, <1>t, Zenon
       DEF ReadMbx, PfVars, IrqRest, OthRest, Task, Outs, ObtainLockPf, ReadV2p
  <2>2. irq'.pc = "readrest" => irq'.head = buf.head
    BY <1>3, <1>t, <2>1, Zenon
       DEF ReadMbx, PfVars, IrqRest, OthRest, Task, Outs, ObtainLockPf, ReadV2p
  <2>3. irq'.pc = "readrest" => /\ ~lock.vfu /\ oth # "pingrest"
                                /\ lock'.pfu = TRUE /\ lock'.vfu = lock.vfu
    BY <1>3, <1>t, <2>1, <2>2, Zenon
       DEF ReadMbx, PfVars, IrqRest, OthRest, Task, Outs, ObtainLockPf, ReadV2p
  <2>4. irq'.pc = "ack" => lock' = lock
    BY <1>3, <1>t, <2>1, <2>2, <2>3, Zenon
       DEF ReadMbx, PfVars, IrqRest, OthRest, Task, Outs, ObtainLockPf, ReadV2p
  <2>5. /\ ReadV2p' = ReadV2p
        /\ UNCHANGED <<vf, oth, conf, clear_to_send, icr, torn, seen, buf>>
    BY <1>3, <1>t, <2>1, <2>2, <2>3, <2>4
       DEF ReadMbx, PfVars, IrqRest, OthRest, ObtainLockPf, ReadV2p
  <2>6. LockInv'
    BY <1>y, <2>1, <2>2, <2>3, <2>4, <2>5 DEF LockInv
  <2>7. BufInv'
    BY <1>y, <2>1, <2>2, <2>3, <2>4, <2>5, Zenon DEF LockInv, BufInv, Consistent
  <2>8. ReqInv'
    BY <1>y, <2>1, <2>2, <2>3, <2>4, <2>5 DEF LockInv, BufInv, ReqInv, Asking, Acked
  <2>9. ReplyInv'
    BY <1>y, <2>1, <2>2, <2>3, <2>4, <2>5
       DEF LockInv, BufInv, ReqInv, ReplyInv, Asking, Acked
  <2>10. ResetInv'
    BY <1>y, <2>1, <2>2, <2>3, <2>4, <2>5
       DEF LockInv, ReqInv, ReplyInv, ResetInv, Asking, Acked
  <2>11. GrantInv'
    BY <1>y, <2>1, <2>2, <2>3, <2>4, <2>5
       DEF LockInv, ReqInv, ReplyInv, ResetInv, GrantInv, Asking, Acked
  <2> QED
    BY <2>6, <2>7, <2>8, <2>9, <2>10, <2>11 DEF Safe
<1>4. CASE AckMbx
  <2>1. /\ irq.pc = "readrest" /\ irq'.head = irq.head
        /\ irq'.pc = IF irq.head.flag = "none" THEN "handle" ELSE "ack"
    BY <1>4, <1>t, WordFields
       DEF AckMbx, PfVars, IrqRest, OthRest, Task, Outs
  <2>2. lock'.pfu = FALSE /\ lock'.vfu = lock.vfu
    BY <1>4, <1>t, <2>1
       DEF AckMbx, PfVars, IrqRest, OthRest
  <2>3. UNCHANGED <<vf, oth, conf, clear_to_send, icr, buf>>
    BY <1>4, <1>t, <2>1, <2>2
       DEF AckMbx, PfVars, IrqRest, OthRest
  <2>4. irq.head = buf.head /\ ~lock.vfu /\ vf.pc # "writerest" /\ oth # "pingrest"
    BY <1>4, <1>t, <2>1, <2>2, <2>3, <1>y
       DEF AckMbx, PfVars, IrqRest, OthRest, BufInv, LockInv
  <2>5. /\ ~torn' /\ seen \subseteq seen'
        /\ (irq.head.flag = "none" => irq.head.id \in seen')
    BY <1>4, <1>t, <2>1, <2>2, <2>3, <2>4, WordFields, <1>y
       DEF AckMbx, PfVars, IrqRest, OthRest, BufInv, Consistent
  <2>6. LockInv'
    BY <1>y, <2>1, <2>2, <2>3, <2>4, <2>5 DEF LockInv
  <2>7. BufInv'
    BY <1>y, <2>1, <2>2, <2>3, <2>4, <2>5, Zenon DEF LockInv, BufInv, Consistent
  <2>8. ReqInv'
    BY <1>y, <2>1, <2>2, <2>3, <2>4, <2>5 DEF LockInv, BufInv, ReqInv, Asking, Acked
  <2>9. ReplyInv'
    BY <1>y, <2>1, <2>2, <2>3, <2>4, <2>5
       DEF LockInv, BufInv, ReqInv, ReplyInv, Asking, Acked
  <2>10. ResetInv'
    BY <1>y, <2>1, <2>2, <2>3, <2>4, <2>5
       DEF LockInv, ReqInv, ReplyInv, ResetInv, Asking, Acked
  <2>11. GrantInv'
    BY <1>y, <2>1, <2>2, <2>3, <2>4, <2>5
       DEF LockInv, ReqInv, ReplyInv, ResetInv, GrantInv, Asking, Acked
  <2> QED
    BY <2>6, <2>7, <2>8, <2>9, <2>10, <2>11 DEF Safe
<1>5. CASE HandleMsg /\ irq' # [irq EXCEPT !.pc = "ack"]
  <2>0. PICK f \in {"ack", "nack"}, c \in BOOLEAN, l \in BOOLEAN :
           /\ Reply(f, c, l) /\ (f = "ack" => l)
           /\ f = "ack" /\ irq.head.kind = "config" => conf' = irq.head.id
    BY <1>5, Zenon DEF HandleMsg
  <2>1. irq.pc = "handle" /\ irq'.pc = "write" /\ irq'.head = irq.head
    BY <1>5, <1>t, <2>0
       DEF HandleMsg, PfVars, IrqRest, OthRest, Task, Outs, ReadV2p, Reply
  <2>2. irq'.out.head = Word(irq.head.kind, irq.head.id, f, c) /\ irq'.out.long = l
    BY <1>5, <1>t, <2>0, <2>1, WordFields
       DEF HandleMsg, PfVars, IrqRest, OthRest, Task, Outs, ReadV2p, Reply, Out
  <2>3. /\ irq'.out.head.id = irq.head.id /\ irq'.out.head.kind = irq.head.kind
        /\ irq'.out.head.flag = f
    BY <1>5, <1>t, <2>0, <2>1, <2>2, WordFields
       DEF HandleMsg, PfVars, IrqRest, OthRest, Task, Outs, ReadV2p
  <2>4. /\ ReadV2p' = ReadV2p
        /\ UNCHANGED <<vf, oth, lock, icr, torn, seen, buf>>
    BY <1>5, <1>t, <2>0, <2>1, <2>2, <2>3
       DEF HandleMsg, PfVars, IrqRest, OthRest, ReadV2p
  <2>5. /\ irq'.out.head.flag \in {"ack", "nack"}
        /\ irq'.out.head.flag = "ack" =>
              irq'.out.long /\ (irq.head.kind = "config" => conf' = irq.head.id)
    BY <1>5, <1>t, <2>0, <2>1, <2>2, <2>3, <2>4, WordFields
       DEF HandleMsg, PfVars, IrqRest, OthRest, Task, Outs, ReadV2p
  <2>6. LockInv'
    BY <1>y, <2>1, <2>2, <2>3, <2>4, <2>5 DEF LockInv
  <2>7. BufInv'
    BY <1>y, <2>1, <2>2, <2>3, <2>4, <2>5, Zenon DEF LockInv, BufInv, Consistent
  <2>8. ReqInv'
    BY <1>y, <2>1, <2>2, <2>3, <2>4, <2>5 DEF LockInv, BufInv, ReqInv, Asking, Acked
  <2>9. ReplyInv'
    BY <1>y, <2>1, <2>2, <2>3, <2>4, <2>5
       DEF LockInv, BufInv, ReqInv, ReplyInv, Asking, Acked
  <2>10. ResetInv'
    BY <1>y, <2>1, <2>2, <2>3, <2>4, <2>5
       DEF LockInv, ReqInv, ReplyInv, ResetInv, Asking, Acked
  <2>11. GrantInv'
    BY <1>y, <2>1, <2>2, <2>3, <2>4, <2>5
       DEF LockInv, ReqInv, ReplyInv, ResetInv, GrantInv, Asking, Acked
  <2> QED
    BY <2>6, <2>7, <2>8, <2>9, <2>10, <2>11 DEF Safe
<1>6. CASE WriteMbx
  <2>1. irq.pc \in {"write", "nack"}
    BY <1>6 DEF WriteMbx
  <2>2. lock.vfu /\ irq.pc = "write" => irq' = [irq EXCEPT !.pc = "ack"]
    BY <1>6, <1>t, <2>1
       DEF WriteMbx, PfVars, IrqRest, OthRest, ObtainLockPf, ReadV2p, After, Idle
  <2>3. lock.vfu /\ irq.pc = "write" => irq'.pc = "ack"
    BY <1>t, <2>1, <2>2 DEF Task
  <2>4. lock.vfu /\ irq.pc = "nack" => irq' = Idle
    BY <1>6, <1>t, <2>1, <2>2, <2>3, Zenon
       DEF WriteMbx, PfVars, IrqRest, OthRest, ObtainLockPf, ReadV2p, After, Idle
  <2>5. lock.vfu /\ irq.pc = "nack" => irq'.pc = "idle"
    BY <1>t, <2>1, <2>2, <2>3, <2>4 DEF Idle
  <2>6. ~lock.vfu => irq'.pc = IF irq.pc = "write" THEN "writerest" ELSE "nackrest"
    BY <1>6, <1>t, <2>1, <2>2, <2>3, <2>4, <2>5
       DEF WriteMbx, PfVars, IrqRest, OthRest, Task, Outs, ObtainLockPf, ReadV2p, After, Idle
  <2>7. ~lock.vfu => irq'.out = irq.out
    BY <1>6, <1>t, <2>1, <2>2, <2>3, <2>4, <2>5, <2>6
       DEF WriteMbx, PfVars, IrqRest, OthRest, Task, Outs, ObtainLockPf, ReadV2p, After, Idle
  <2>8. ~lock.vfu => oth # "pingrest" /\ icr' = icr \ {"req", "ack"}
    BY <1>6, <1>t, <2>1, <2>2, <2>3, <2>4, <2>5, <2>6, <2>7, Zenon
       DEF WriteMbx, PfVars, IrqRest, OthRest, ObtainLockPf, ReadV2p, After, Idle
  <2>9. ~lock.vfu => lock'.pfu = TRUE /\ lock'.vfu = lock.vfu
    BY <1>6, <1>t, <2>1, <2>2, <2>3, <2>4, <2>5, <2>6, <2>7, <2>8
       DEF WriteMbx, PfVars, IrqRest, OthRest, ObtainLockPf, ReadV2p, After, Idle
  <2>10. ~lock.vfu => buf'.head = irq.out.head /\ buf'.rest = buf.rest
    BY <1>6, <1>t, <2>1, <2>2, <2>3, <2>4, <2>5, <2>6, <2>7, <2>8, <2>9
       DEF WriteMbx, PfVars, IrqRest, OthRest, ObtainLockPf, ReadV2p, After, Idle
  <2>11. lock.vfu => UNCHANGED <<lock, buf, icr>>
    BY <1>6, <1>t, <2>1, <2>2, <2>3, <2>4, <2>5, <2>6, <2>7, <2>8, <2>9, <2>10
       DEF WriteMbx, PfVars, IrqRest, OthRest, ObtainLockPf, ReadV2p, After, Idle
  <2>12. /\ ReadV2p' = ReadV2p
         /\ UNCHANGED <<vf, oth, conf, clear_to_send, torn, seen>>
    BY <1>6, <1>t, <2>1, <2>2, <2>3, <2>4, <2>5, <2>6, <2>7, <2>8, <2>9, <2>10,
       <2>11
       DEF WriteMbx, PfVars, IrqRest, OthRest, ObtainLockPf, ReadV2p, After, Idle
  <2>13. LockInv'
    BY <1>y, <2>1, <2>2, <2>3, <2>4, <2>5, <2>6, <2>7, <2>8, <2>9, <2>10, <2>11,
       <2>12
       DEF LockInv
  <2>14. BufInv'
    BY <1>y, <2>1, <2>2, <2>3, <2>4, <2>5, <2>6, <2>7, <2>8, <2>9, <2>10, <2>11,
       <2>12, Zenon
       DEF LockInv, BufInv, Consistent
  <2>15. ReqInv'
    BY <1>y, <2>1, <2>2, <2>3, <2>4, <2>5, <2>6, <2>7, <2>8, <2>9, <2>10, <2>11,
       <2>12
       DEF LockInv, BufInv, ReqInv, Asking, Acked
  <2>16. ReplyInv'
    BY <1>y, <2>1, <2>2, <2>3, <2>4, <2>5, <2>6, <2>7, <2>8, <2>9, <2>10, <2>11,
       <2>12
       DEF LockInv, BufInv, ReqInv, ReplyInv, Asking, Acked
  <2>17. ResetInv'
    BY <1>y, <2>1, <2>2, <2>3, <2>4, <2>5, <2>6, <2>7, <2>8, <2>9, <2>10, <2>11,
       <2>12
       DEF LockInv, ReqInv, ReplyInv, ResetInv, Asking, Acked
  <2>18. GrantInv'
    BY <1>y, <2>1, <2>2, <2>3, <2>4, <2>5, <2>6, <2>7, <2>8, <2>9, <2>10, <2>11,
       <2>12
       DEF LockInv, ReqInv, ReplyInv, ResetInv, GrantInv, Asking, Acked
  <2> QED
    BY <2>13, <2>14, <2>15, <2>16, <2>17, <2>18 DEF Safe
<1>7. CASE SendMbx
  <2>1. /\ \/ irq.pc = "writerest" /\ irq'.pc = "ack"
           \/ irq.pc = "nackrest" /\ irq'.pc = "idle"
    BY <1>7, <1>t
       DEF SendMbx, PfVars, IrqRest, OthRest, Task, Outs, ReadV2p, After, Idle
  <2>2. lock'.pfu = FALSE /\ lock'.vfu = lock.vfu
    BY <1>7, <1>t, <2>1
       DEF SendMbx, PfVars, IrqRest, OthRest, ReadV2p, After, Idle
  <2>3. buf'.head = buf.head /\ (irq.out.long => buf'.rest = -irq.out.head.id)
    BY <1>7, <1>t, <2>1, <2>2, WordFields
       DEF SendMbx, PfVars, IrqRest, OthRest, ReadV2p, After, Idle
  <2>4. ~irq.out.long => buf' = buf
    BY <1>7, <1>t, <2>1, <2>2, <2>3
       DEF SendMbx, PfVars, IrqRest, OthRest, ReadV2p, After, Idle
  <2>5. /\ "ack" \in ReadV2p' <=> "ack" \in ReadV2p
        /\ UNCHANGED <<vf, oth, conf, clear_to_send, icr, torn, seen>>
    BY <1>7, <1>t, <2>1, <2>2, <2>3, <2>4
       DEF SendMbx, PfVars, IrqRest, OthRest, ReadV2p, After, Idle
  <2>6. LockInv'
    BY <1>y, <2>1, <2>2, <2>3, <2>4, <2>5 DEF LockInv
  <2>7. BufInv'
    BY <1>y, <2>1, <2>2, <2>3, <2>4, <2>5, Zenon DEF LockInv, BufInv, Consistent
  <2>8. ReqInv'
    BY <1>y, <2>1, <2>2, <2>3, <2>4, <2>5 DEF LockInv, BufInv, ReqInv, Asking, Acked
  <2>9. ReplyInv'
    BY <1>y, <2>1, <2>2, <2>3, <2>4, <2>5
       DEF LockInv, BufInv, ReqInv, ReplyInv, Asking, Acked
  <2>10. ResetInv'
    BY <1>y, <2>1, <2>2, <2>3, <2>4, <2>5
       DEF LockInv, ReqInv, ReplyInv, ResetInv, Asking, Acked
  <2>11. GrantInv'
    BY <1>y, <2>1, <2>2, <2>3, <2>4, <2>5
       DEF LockInv, ReqInv, ReplyInv, ResetInv, GrantInv, Asking, Acked
  <2> QED
    BY <2>6, <2>7, <2>8, <2>9, <2>10, <2>11 DEF Safe
<1>8. CASE CheckForAck
  <2>1. /\ irq.pc = "ack"
        /\ irq' \in {Idle, [Idle EXCEPT !.pc = "nack",
                               !.out = Out(Word("none", None, "nack", FALSE), FALSE)]}
    BY <1>8 DEF CheckForAck
  <2>2. irq'.pc \in {"nack", "idle"}
    BY <1>8, <1>t, <2>1
       DEF CheckForAck, PfVars, IrqRest, OthRest, Task, Outs, ReadV2p, Idle
  <2>3. irq'.pc = "nack" => /\ irq'.out.head = Word("none", None, "nack", FALSE)
                            /\ irq'.out.long = FALSE
    BY <1>8, <1>t, <2>1, <2>2, WordFields, Zenon
       DEF CheckForAck, PfVars, IrqRest, OthRest, Task, Outs, ReadV2p, Idle, Out
  <2>4. irq'.pc = "nack" => /\ irq'.out.head.kind = "none" /\ irq'.out.head.id = None
                            /\ irq'.out.head.flag = "nack"
    BY <1>t, <2>1, <2>2, <2>3 DEF Word
  <2>5. /\ icr' = icr \ {"ack"} /\ ReadV2p' = ReadV2p
        /\ UNCHANGED <<vf, oth, conf, clear_to_send, lock, buf, torn, seen>>
    BY <1>8, <1>t, <2>1, <2>2, <2>3, <2>4
       DEF CheckForAck, PfVars, IrqRest, OthRest, ReadV2p
  <2>6. LockInv'
    BY <1>y, <2>1, <2>2, <2>3, <2>4, <2>5 DEF LockInv
  <2>7. BufInv'
    BY <1>y, <2>1, <2>2, <2>3, <2>4, <2>5, Zenon DEF LockInv, BufInv, Consistent
  <2>8. ReqInv'
    BY <1>y, <2>1, <2>2, <2>3, <2>4, <2>5 DEF LockInv, BufInv, ReqInv, Asking, Acked
  <2>9. ReplyInv'
    BY <1>y, <2>1, <2>2, <2>3, <2>4, <2>5
       DEF LockInv, BufInv, ReqInv, ReplyInv, Asking, Acked
  <2>10. ResetInv'
    BY <1>y, <2>1, <2>2, <2>3, <2>4, <2>5
       DEF LockInv, ReqInv, ReplyInv, ResetInv, Asking, Acked
  <2>11. GrantInv'
    BY <1>y, <2>1, <2>2, <2>3, <2>4, <2>5
       DEF LockInv, ReqInv, ReplyInv, ResetInv, GrantInv, Asking, Acked
  <2> QED
    BY <2>6, <2>7, <2>8, <2>9, <2>10, <2>11 DEF Safe
<1>9. CASE HandleMsg /\ irq' = [irq EXCEPT !.pc = "ack"]
  <2>1. irq.pc = "handle" /\ irq'.pc = "ack"
    BY <1>9, <1>t DEF HandleMsg, Task
  <2>2. irq'.head = irq.head /\ irq'.out = irq.out
    BY <1>9, <1>t DEF Task
  <2>3. /\ ReadV2p' = ReadV2p
        /\ UNCHANGED <<vf, oth, lock, icr, torn, seen, buf>>
    BY <1>9 DEF HandleMsg, IrqRest, ReadV2p
  <2>4. LockInv'
    BY <1>y, <2>1, <2>2, <2>3 DEF LockInv
  <2>5. BufInv'
    BY <1>y, <2>1, <2>2, <2>3, Zenon DEF LockInv, BufInv, Consistent
  <2>6. ReqInv'
    BY <1>y, <2>1, <2>2, <2>3 DEF LockInv, BufInv, ReqInv, Asking, Acked
  <2>7. ReplyInv'
    BY <1>y, <2>1, <2>2, <2>3 DEF LockInv, BufInv, ReqInv, ReplyInv, Asking, Acked
  <2>8. ResetInv'
    BY <1>y, <2>1, <2>2, <2>3 DEF LockInv, ReqInv, ReplyInv, ResetInv, Asking, Acked
  <2>9. GrantInv'
    BY <1>y, <2>1, <2>2, <2>3
       DEF LockInv, ReqInv, ReplyInv, ResetInv, GrantInv, Asking, Acked
  <2> QED
    BY <2>4, <2>5, <2>6, <2>7, <2>8, <2>9 DEF Safe
<1> QED
  BY <1>1, <1>2, <1>3, <1>4, <1>5, <1>6, <1>7, <1>8, <1>9 DEF IrqStep

\* Every step of the driver of the VF keeps it.
LEMMA VfKeeps ==
    ASSUME TypeOK, Safe, VfStep
    PROVE  Safe'
<1>t. /\ lock \in [vfu : BOOLEAN, pfu : BOOLEAN]
      /\ buf \in [head : Words, rest : IdsNone \cup {-i : i \in IdsNone}]
      /\ vf \in VfState /\ irq \in Task
  BY DEF TypeOK, Locks, Buffer
<1>y. /\ LockInv /\ BufInv /\ ReqInv /\ ReplyInv /\ ResetInv /\ GrantInv
      /\ vf.pc # "idle" => vf.id \in Ids /\ vf.id # None
  BY IdsAssumption DEF Safe, TypeOK
<1>1. CASE VfWrite
  <2>0. PICK i \in Fresh :
           /\ vf' = [vf EXCEPT !.pc = "writerest", !.id = i]
           /\ buf' = [buf EXCEPT !.head = Word(vf.ask, i, "none", FALSE)]
           /\ seen' = seen \ {i}
    BY <1>1, Zenon DEF VfWrite
  <2>1. /\ vf.pc = "idle" /\ vf.ask \in Requests /\ ~lock.pfu
        /\ "ack" \notin ReadV2p' /\ UNCHANGED <<irq, oth, conf, clear_to_send, icr, torn>>
    BY <1>1, <1>t, <2>0, IdsAssumption
       DEF VfWrite, PfVars, IrqRest, OthRest, Fresh, ObtainLockVf, ReadV2p, IdsNone
  <2>2. /\ vf'.pc = "writerest" /\ vf'.ask = vf.ask /\ vf'.id = i
    BY <1>1, <1>t, <2>0, <2>1, IdsAssumption, Zenon
       DEF VfWrite, PfVars, IrqRest, OthRest, VfState, Fresh, ObtainLockVf, ReadV2p, IdsNone
  <2>3. buf'.head = Word(vf.ask, i, "none", FALSE)
    BY <1>1, <1>t, <2>0, <2>1, <2>2, WordFields, IdsAssumption
       DEF VfWrite, PfVars, IrqRest, OthRest, Fresh, ObtainLockVf, ReadV2p, IdsNone
  <2>4. buf'.head.flag = "none" /\ buf'.head.id = i
    BY <1>1, <1>t, <2>0, <2>1, <2>2, <2>3, WordFields, IdsAssumption
       DEF VfWrite, PfVars, IrqRest, OthRest, Fresh, ObtainLockVf, ReadV2p, IdsNone, Word
  <2>5. lock'.vfu = TRUE /\ lock'.pfu = lock.pfu
    BY <1>1, <1>t, <2>0, <2>1, <2>2, <2>3, <2>4, IdsAssumption
       DEF VfWrite, PfVars, IrqRest, OthRest, Fresh, ObtainLockVf, ReadV2p, IdsNone
  <2>6. i \in Ids /\ i # None /\ i \notin seen' /\ seen' \subseteq seen
    BY <1>1, <1>t, <2>0, <2>1, <2>2, <2>3, <2>4, <2>5, IdsAssumption
       DEF VfWrite, PfVars, IrqRest, OthRest, Fresh, ObtainLockVf, ReadV2p, IdsNone
  <2>7. i # irq.head.id /\ i # irq.out.head.id
    BY <1>1, <1>t, <2>0, <2>1, <2>2, <2>3, <2>4, <2>5, <2>6, WordFields,
       IdsAssumption
       DEF VfWrite, PfVars, IrqRest, OthRest, Fresh, ObtainLockVf, ReadV2p, IdsNone
  <2>8. LockInv'
    BY <1>y, <2>1, <2>2, <2>3, <2>4, <2>5, <2>6, <2>7 DEF LockInv
  <2>9. BufInv'
    BY <1>y, <2>1, <2>2, <2>3, <2>4, <2>5, <2>6, <2>7, Zenon
       DEF LockInv, BufInv, Consistent
  <2>10. ReqInv'
    BY <1>y, <2>1, <2>2, <2>3, <2>4, <2>5, <2>6, <2>7
       DEF LockInv, BufInv, ReqInv, Asking, Acked
  <2>11. ReplyInv'
    BY <1>y, <2>1, <2>2, <2>3, <2>4, <2>5, <2>6, <2>7, Zenon
       DEF LockInv, BufInv, ReqInv, ReplyInv, Asking, Acked
  <2>12. ResetInv'
    BY <1>y, <2>1, <2>2, <2>3, <2>4, <2>5, <2>6, <2>7
       DEF LockInv, ReqInv, ReplyInv, ResetInv, Asking, Acked
  <2>13. GrantInv'
    BY <1>y, <2>1, <2>2, <2>3, <2>4, <2>5, <2>6, <2>7
       DEF LockInv, ReqInv, ReplyInv, ResetInv, GrantInv, Requests, Asking, Acked
  <2> QED
    BY <2>8, <2>9, <2>10, <2>11, <2>12, <2>13 DEF Safe
<1>2. CASE VfRequest
  <2>1. /\ vf.pc = "writerest" /\ vf'.pc = "pollack" /\ vf'.ask = vf.ask
        /\ vf'.id = vf.id
    BY <1>2, <1>t
       DEF VfRequest, PfVars, IrqRest, OthRest, VfState, ReadV2p
  <2>2. buf'.head = buf.head /\ buf'.rest = vf.id
    BY <1>2, <1>t, <2>1
       DEF VfRequest, PfVars, IrqRest, OthRest, ReadV2p
  <2>3. lock'.vfu = FALSE /\ lock'.pfu = lock.pfu
    BY <1>2, <1>t, <2>1, <2>2
       DEF VfRequest, PfVars, IrqRest, OthRest, ReadV2p
  <2>4. /\ icr' = icr \cup {"req"} /\ ReadV2p' = ReadV2p
        /\ UNCHANGED <<irq, oth, conf, clear_to_send, torn, seen>>
    BY <1>2, <1>t, <2>1, <2>2, <2>3
       DEF VfRequest, PfVars, IrqRest, OthRest, ReadV2p
  <2>5. buf.head.id = vf.id /\ buf.head.flag = "none" /\ buf.head.kind = vf.ask
    BY <1>2, <1>t, <2>1, <2>2, <2>3, <2>4, WordFields, <1>y
       DEF VfRequest, PfVars, IrqRest, OthRest, ReadV2p, BufInv, Word
  <2>6. LockInv'
    BY <1>y, <2>1, <2>2, <2>3, <2>4, <2>5 DEF LockInv
  <2>7. BufInv'
    BY <1>y, <2>1, <2>2, <2>3, <2>4, <2>5 DEF LockInv, BufInv, Consistent
  <2>8. ReqInv'
    BY <1>y, <2>1, <2>2, <2>3, <2>4, <2>5 DEF LockInv, BufInv, ReqInv, Asking, Acked
  <2>9. ReplyInv'
    BY <1>y, <2>1, <2>2, <2>3, <2>4, <2>5
       DEF LockInv, BufInv, ReqInv, ReplyInv, Asking, Acked
  <2>10. ResetInv'
    BY <1>y, <2>1, <2>2, <2>3, <2>4, <2>5
       DEF LockInv, ReqInv, ReplyInv, ResetInv, Asking, Acked
  <2>11. GrantInv'
    BY <1>y, <2>1, <2>2, <2>3, <2>4, <2>5
       DEF LockInv, ReqInv, ReplyInv, ResetInv, GrantInv, Asking, Acked
  <2> QED
    BY <2>6, <2>7, <2>8, <2>9, <2>10, <2>11 DEF Safe
<1>3. CASE VfPoll
  <2>1. \/ vf.pc = "pollack" /\ "ack" \in ReadV2p /\ vf' = [vf EXCEPT !.pc = "pollmsg"]
        \/ vf.pc = "pollmsg" /\ vf' = [vf EXCEPT !.pc = "read"]
    BY <1>3 DEF VfPoll
  <2>2. vf'.pc = IF vf.pc = "pollack" THEN "pollmsg" ELSE "read"
    BY <1>3, <1>t, <2>1
       DEF VfPoll, PfVars, IrqRest, OthRest, VfState, CheckBit, ReadV2p
  <2>3. vf'.ask = vf.ask /\ vf'.id = vf.id
    BY <1>3, <1>t, <2>1, <2>2
       DEF VfPoll, PfVars, IrqRest, OthRest, VfState, CheckBit, ReadV2p
  <2>4. UNCHANGED <<irq, oth, conf, clear_to_send, icr, torn, seen, buf, lock>>
    BY <1>3, <1>t, <2>1, <2>2, <2>3
       DEF VfPoll, PfVars, IrqRest, OthRest, CheckBit, ReadV2p
  <2>5. LockInv'
    BY <1>y, <2>1, <2>2, <2>3, <2>4 DEF LockInv
  <2>6. BufInv'
    BY <1>y, <2>1, <2>2, <2>3, <2>4 DEF LockInv, BufInv, Consistent
  <2>7. ReqInv'
    BY <1>y, <2>1, <2>2, <2>3, <2>4 DEF LockInv, BufInv, ReqInv, Asking, Acked
  <2>8. ReplyInv'
    BY <1>y, <2>1, <2>2, <2>3, <2>4
       DEF LockInv, BufInv, ReqInv, ReplyInv, Asking, Acked
  <2>9. ResetInv'
    BY <1>y, <2>1, <2>2, <2>3, <2>4
       DEF LockInv, ReqInv, ReplyInv, ResetInv, Asking, Acked
  <2>10. GrantInv'
    BY <1>y, <2>1, <2>2, <2>3, <2>4
       DEF LockInv, ReqInv, ReplyInv, ResetInv, GrantInv, Asking, Acked
  <2> QED
    BY <2>5, <2>6, <2>7, <2>8, <2>9, <2>10 DEF Safe
<1>4. CASE VfTimeout
  <2>1. /\ vf.pc \in {"pollack", "pollmsg"} /\ vf'.pc = "idle"
        /\ vf'.ask = IF vf.ask = "oversize" THEN "refused" ELSE vf.ask
    BY <1>4, <1>t
       DEF VfTimeout, PfVars, IrqRest, OthRest, VfState, ReadV2p
  <2>2. UNCHANGED <<irq, oth, conf, clear_to_send, icr, torn, seen, buf, lock>>
    BY <1>4, <1>t, <2>1
       DEF VfTimeout, PfVars, IrqRest, OthRest, ReadV2p
  <2>3. LockInv'
    BY <1>y, <2>1, <2>2 DEF LockInv
  <2>4. BufInv'
    BY <1>y, <2>1, <2>2 DEF LockInv, BufInv, Consistent
  <2>5. ReqInv'
    BY <1>y, <2>1, <2>2 DEF LockInv, BufInv, ReqInv, Asking, Acked
  <2>6. ReplyInv'
    BY <1>y, <2>1, <2>2 DEF LockInv, BufInv, ReqInv, ReplyInv, Asking, Acked
  <2>7. ResetInv'
    BY <1>y, <2>1, <2>2 DEF LockInv, ReqInv, ReplyInv, ResetInv, Asking, Acked
  <2>8. GrantInv'
    BY <1>y, <2>1, <2>2
       DEF LockInv, ReqInv, ReplyInv, ResetInv, GrantInv, Asking, Acked
  <2> QED
    BY <2>3, <2>4, <2>5, <2>6, <2>7, <2>8 DEF Safe
<1>5. CASE VfRead
  <2>1. vf.pc = "read" /\ vf'.ask = vf.ask /\ vf'.id = vf.id
    BY <1>5, <1>t, Zenon
       DEF VfRead, PfVars, IrqRest, OthRest, VfState, ObtainLockVf, ReadV2p
  <2>2. vf'.pc = IF lock.pfu THEN "idle" ELSE "readrest"
    BY <1>5, <1>t, <2>1, Zenon
       DEF VfRead, PfVars, IrqRest, OthRest, VfState, ObtainLockVf, ReadV2p
  <2>3. (lock.pfu => lock' = lock) /\ (~lock.pfu => vf'.head = buf.head)
    BY <1>5, <1>t, <2>1, <2>2, Zenon
       DEF VfRead, PfVars, IrqRest, OthRest, VfState, ObtainLockVf, ReadV2p
  <2>4. vf'.pc = "readrest" => lock'.vfu = TRUE /\ lock'.pfu = lock.pfu
    BY <1>5, <1>t, <2>1, <2>2, <2>3
       DEF VfRead, PfVars, IrqRest, OthRest, VfState, ObtainLockVf, ReadV2p
  <2>5. /\ ReadV2p' = ReadV2p
        /\ UNCHANGED <<irq, oth, conf, clear_to_send, icr, torn, seen, buf>>
    BY <1>5, <1>t, <2>1, <2>2, <2>3, <2>4
       DEF VfRead, PfVars, IrqRest, OthRest, ObtainLockVf, ReadV2p
  <2>6. LockInv'
    BY <1>y, <2>1, <2>2, <2>3, <2>4, <2>5 DEF LockInv
  <2>7. BufInv'
    BY <1>y, <2>1, <2>2, <2>3, <2>4, <2>5 DEF LockInv, BufInv, Consistent
  <2>8. ReqInv'
    BY <1>y, <2>1, <2>2, <2>3, <2>4, <2>5 DEF LockInv, BufInv, ReqInv, Asking, Acked
  <2>9. ReplyInv'
    BY <1>y, <2>1, <2>2, <2>3, <2>4, <2>5
       DEF LockInv, BufInv, ReqInv, ReplyInv, Asking, Acked
  <2>10. ResetInv'
    BY <1>y, <2>1, <2>2, <2>3, <2>4, <2>5
       DEF LockInv, ReqInv, ReplyInv, ResetInv, Asking, Acked
  <2>11. GrantInv'
    BY <1>y, <2>1, <2>2, <2>3, <2>4, <2>5
       DEF LockInv, ReqInv, ReplyInv, ResetInv, GrantInv, Asking, Acked
  <2> QED
    BY <2>6, <2>7, <2>8, <2>9, <2>10, <2>11 DEF Safe
<1>6. CASE VfReceive
  <2>1. vf.pc = "readrest" /\ vf'.pc = "idle" /\ vf'.ask = NextAsk(vf.head) /\ vf'.id = vf.id
    BY <1>6, <1>t
       DEF VfReceive, PfVars, IrqRest, OthRest, VfState, ReadV2p
  <2>2. lock'.vfu = FALSE /\ lock'.pfu = lock.pfu
    BY <1>6, <1>t, <2>1
       DEF VfReceive, PfVars, IrqRest, OthRest, ReadV2p
  <2>3. /\ icr' = icr \cup {"ack"}
        /\ UNCHANGED <<irq, oth, conf, clear_to_send, seen, buf>>
    BY <1>6, <1>t, <2>1, <2>2
       DEF VfReceive, PfVars, IrqRest, OthRest, ReadV2p
  <2>4. ~torn'
    BY <1>6, <1>t, <2>1, <2>2, <2>3, <1>y
       DEF VfReceive, PfVars, IrqRest, OthRest, ReadV2p, BufInv, LockInv, Consistent
  <2>5. vf.head = buf.head /\ ~lock.pfu
    BY <1>6, <1>t, <2>1, <2>2, <2>3, <2>4, <1>y
       DEF VfReceive, PfVars, IrqRest, OthRest, ReadV2p, BufInv, LockInv
  <2>6. /\ vf'.ask = "done" => \/ vf.ask = "done"
                               \/ /\ vf.ask = "config"
                                  /\ vf.head.kind = "config" /\ vf.head.flag = "ack"
        /\ vf'.ask # "reset" => \/ vf.ask # "reset"
                                \/ vf.head.kind = "reset" /\ vf.head.flag # "none"
    BY <1>6, <1>t, <2>1, <2>2, <2>3, <2>4, <2>5, WordFields
       DEF VfReceive, PfVars, IrqRest, OthRest, VfState, ReadV2p, NextAsk
  <2>7. irq.pc \notin {"readrest", "writerest"} /\ Asking /\ Acked
    BY <1>6, <1>t, <2>1, <2>2, <2>3, <2>4, <2>5, <2>6, <1>y
       DEF VfReceive, PfVars, IrqRest, OthRest, ReadV2p, LockInv, Asking, Acked
  <2>8. /\ buf.head.flag # "none" /\ buf.head.kind # "none" => buf.head.id = vf.id
        /\ buf.head.flag # "none" /\ buf.head.id = vf.id =>
              vf.id \in seen /\ irq.pc \notin {"handle", "write", "read"} /\ "req" \notin icr
    BY <1>6, <1>t, <2>1, <2>2, <2>3, <2>4, <2>5, <2>6, <2>7, WordFields, <1>y
       DEF VfReceive, PfVars, IrqRest, OthRest, ReadV2p, ReplyInv, ReqInv
  <2>9. LockInv'
    BY <1>y, <2>1, <2>2, <2>3, <2>4, <2>5, <2>6, <2>7, <2>8 DEF LockInv
  <2>10. BufInv'
    BY <1>y, <2>1, <2>2, <2>3, <2>4, <2>5, <2>6, <2>7, <2>8
       DEF LockInv, BufInv, Consistent
  <2>11. ReqInv'
    BY <1>y, <2>1, <2>2, <2>3, <2>4, <2>5, <2>6, <2>7, <2>8
       DEF LockInv, BufInv, ReqInv, Asking, Acked
  <2>12. ReplyInv'
    BY <1>y, <2>1, <2>2, <2>3, <2>4, <2>5, <2>6, <2>7, <2>8
       DEF LockInv, BufInv, ReqInv, ReplyInv, Asking, Acked
  <2>13. ResetInv'
    <3> SUFFICES ASSUME "flr" \in icr, vf'.ask # "reset"
                 PROVE  irq.pc \in {"idle", "ack", "nack", "nackrest"}
      BY <2>1, <2>3 DEF ResetInv, Asking
    <3>1. CASE vf.ask # "reset"
      BY <1>y, <3>1 DEF ResetInv
    <3>2. CASE vf.head.kind = "reset" /\ vf.head.flag # "none"
      BY <1>y, <2>5, <2>7, <2>8, <3>2 DEF ResetInv
    <3> QED
      BY <2>6, <3>1, <3>2
  <2>14. GrantInv'
    <3> SUFFICES ASSUME vf'.ask = "done"
                 PROVE  /\ clear_to_send => conf = vf.id
                        /\ "req" \notin icr /\ "flr" \notin icr
                        /\ irq.pc \in {"idle", "msg", "ack", "nack", "nackrest"}
      BY <2>1, <2>3 DEF GrantInv, Asking
    <3>1. vf.ask = "config" /\ buf.head.kind = "config" /\ buf.head.flag = "ack"
      BY <1>y, <2>1, <2>5, <2>6 DEF GrantInv
    <3>2. buf.head.id = vf.id /\ (clear_to_send => conf = vf.id)
      BY <1>y, <2>7, <2>8, <3>1 DEF GrantInv
    <3>3. vf.id \in seen /\ irq.pc \notin {"handle", "write", "read"} /\ "req" \notin icr
      BY <2>8, <3>1, <3>2
    <3>4. "flr" \notin icr
      BY <1>y, <2>7, <3>1, <3>3 DEF ResetInv
    <3>5. irq.pc \in {"idle", "msg", "read", "readrest", "handle", "write", "writerest",
                      "ack", "nack", "nackrest"}
      BY <1>t DEF Task
    <3> QED
      BY <2>7, <3>2, <3>3, <3>4, <3>5
  <2> QED
    BY <2>9, <2>10, <2>11, <2>12, <2>13, <2>14 DEF Safe
<1> QED
  BY <1>1, <1>2, <1>3, <1>4, <1>5, <1>6 DEF VfStep

\* So do another request and a reset of the VF as a PCI function.
LEMMA VfAgainKeeps ==
    ASSUME TypeOK, Safe, VfAgain
    PROVE  Safe'
<1>t. /\ lock \in [vfu : BOOLEAN, pfu : BOOLEAN]
      /\ buf \in [head : Words, rest : IdsNone \cup {-i : i \in IdsNone}]
      /\ vf \in VfState /\ irq \in Task
  BY DEF TypeOK, Locks, Buffer
<1>y. /\ LockInv /\ BufInv /\ ReqInv /\ ReplyInv /\ ResetInv /\ GrantInv
      /\ vf.pc # "idle" => vf.id \in Ids /\ vf.id # None
  BY IdsAssumption DEF Safe, TypeOK
<1>1. CASE /\ vf.ask \in {"done", "refused"} 
           /\ \E ask \in {"config", "oversize"} : vf' = [vf EXCEPT !.ask = ask]
           /\ UNCHANGED <<icr, intr, sts, v2p>>
  <2>1. /\ vf.ask \in {"done", "refused"} /\ vf'.pc = vf.pc
        /\ vf'.ask \in {"config", "oversize"}
        /\ vf'.id = vf.id /\ vf'.head = vf.head
    BY <1>1, <1>t
       DEF VfAgain, PfVars, IrqRest, OthRest, VfState, ReadV2p
  <2>2. /\ ReadV2p' = ReadV2p
        /\ UNCHANGED <<irq, oth, conf, clear_to_send, icr, torn, seen, buf, lock>>
    BY <1>1, <1>t, <2>1
       DEF VfAgain, PfVars, IrqRest, OthRest, ReadV2p
  <2>3. LockInv'
    BY <1>y, <2>1, <2>2 DEF LockInv
  <2>4. BufInv'
    BY <1>y, <2>1, <2>2, Zenon DEF LockInv, BufInv, Consistent, GrantInv
  <2>5. ReqInv'
    BY <1>y, <2>1, <2>2 DEF LockInv, BufInv, ReqInv, Asking, Acked
  <2>6. ReplyInv'
    BY <1>y, <2>1, <2>2 DEF LockInv, BufInv, ReqInv, ReplyInv, Asking, Acked
  <2>7. ResetInv'
    BY <1>y, <2>1, <2>2 DEF ResetInv, GrantInv, Asking
  <2>8. GrantInv'
    BY <1>y, <2>1, <2>2
       DEF LockInv, ReqInv, ReplyInv, ResetInv, GrantInv, Asking, Acked
  <2> QED
    BY <2>3, <2>4, <2>5, <2>6, <2>7, <2>8 DEF Safe
<1>2. CASE /\ vf.pc \notin {"writerest", "readrest"}
           /\ vf' = [pc |-> "idle", ask |-> "reset", id |-> None, head |-> Blank]
           /\ sts' = {} /\ v2p' = {} /\ icr' = icr \cup {"flr"}
  <2>1. /\ vf.pc \notin {"writerest", "readrest"} /\ vf'.pc = "idle" /\ vf'.ask = "reset"
        /\ icr' = icr \cup {"flr"}
    BY <1>2, <1>t
       DEF VfAgain, PfVars, IrqRest, OthRest, VfState, ReadV2p
  <2>2. UNCHANGED <<irq, oth, conf, clear_to_send, torn, seen, buf, lock>>
    BY <1>2, <1>t, <2>1
       DEF VfAgain, PfVars, IrqRest, OthRest, ReadV2p
  <2>3. LockInv'
    BY <1>y, <2>1, <2>2 DEF LockInv
  <2>4. BufInv'
    BY <1>y, <2>1, <2>2 DEF LockInv, BufInv, Consistent
  <2>5. ReqInv'
    BY <1>y, <2>1, <2>2 DEF LockInv, BufInv, ReqInv, Asking, Acked
  <2>6. ReplyInv'
    BY <1>y, <2>1, <2>2 DEF LockInv, BufInv, ReqInv, ReplyInv, Asking, Acked
  <2>7. ResetInv'
    BY <1>y, <2>1, <2>2 DEF LockInv, ReqInv, ReplyInv, ResetInv, Asking, Acked
  <2>8. GrantInv'
    BY <1>y, <2>1, <2>2
       DEF LockInv, ReqInv, ReplyInv, ResetInv, GrantInv, Asking, Acked
  <2> QED
    BY <2>3, <2>4, <2>5, <2>6, <2>7, <2>8 DEF Safe
<1> QED
  BY <1>1, <1>2 DEF VfAgain

\* So does the start of a ping, of ixgbe_down and of ixgbe_up.
LEMMA OtherKeeps ==
    ASSUME TypeOK, Safe, OtherStart
    PROVE  Safe'
<1>t. /\ lock \in [vfu : BOOLEAN, pfu : BOOLEAN]
      /\ buf \in [head : Words, rest : IdsNone \cup {-i : i \in IdsNone}]
      /\ vf \in VfState /\ irq \in Task
  BY DEF TypeOK, Locks, Buffer
<1>y. /\ LockInv /\ BufInv /\ ReqInv /\ ReplyInv /\ ResetInv /\ GrantInv
      /\ vf.pc # "idle" => vf.id \in Ids /\ vf.id # None
  BY IdsAssumption DEF Safe, TypeOK
<1>1. CASE OtherStart
  <2>1. oth = "idle" /\ oth' \in {"idle", "ping"}
    BY <1>1, <1>t
       DEF OtherStart, PfVars, IrqRest, OthRest, ReadV2p
  <2>2. /\ ReadV2p' = ReadV2p
        /\ UNCHANGED <<vf, irq, lock, icr, buf, torn, seen>>
        /\ \/ UNCHANGED <<conf, clear_to_send>>
           \/ irq.pc = "idle" /\ ~clear_to_send'
    BY <1>1, <1>t, <2>1
       DEF OtherStart, PfVars, IrqRest, OthRest, ReadV2p
  <2>3. LockInv'
    BY <1>y, <2>1, <2>2 DEF LockInv
  <2>4. BufInv'
    BY <1>y, <2>1, <2>2, Zenon DEF LockInv, BufInv, Consistent
  <2>5. ReqInv'
    BY <1>y, <2>1, <2>2 DEF LockInv, BufInv, ReqInv, Asking, Acked
  <2>6. ReplyInv'
    BY <1>y, <2>1, <2>2 DEF LockInv, BufInv, ReqInv, ReplyInv, Asking, Acked
  <2>7. ResetInv'
    BY <1>y, <2>1, <2>2 DEF LockInv, ReqInv, ReplyInv, ResetInv, Asking, Acked
  <2>8. GrantInv'
    BY <1>y, <2>1, <2>2
       DEF LockInv, ReqInv, ReplyInv, ResetInv, GrantInv, Asking, Acked
  <2> QED
    BY <2>3, <2>4, <2>5, <2>6, <2>7, <2>8 DEF Safe
<1> QED
  BY <1>1, Zenon DEF OtherStart

\* So does a ping, unless it is written while ixgbe_msg_task is at work.
LEMMA PingKeeps ==
    ASSUME TypeOK, Safe, PingVf, ~overlap'
    PROVE  Safe'
<1>t. /\ lock \in [vfu : BOOLEAN, pfu : BOOLEAN]
      /\ buf \in [head : Words, rest : IdsNone \cup {-i : i \in IdsNone}]
      /\ vf \in VfState /\ irq \in Task
  BY DEF TypeOK, Locks, Buffer
<1>y. /\ LockInv /\ BufInv /\ ReqInv /\ ReplyInv /\ ResetInv /\ GrantInv
      /\ vf.pc # "idle" => vf.id \in Ids /\ vf.id # None
  BY IdsAssumption DEF Safe, TypeOK
<1>1. CASE oth = "ping" /\ ~lock.vfu
  <2>1. oth' = "pingrest" /\ ~lock.vfu /\ irq.pc = "idle" /\ icr' = icr \ {"req", "ack"}
    BY <1>1, <1>t, Zenon
       DEF PingVf, ObtainLockPf, PfVars, IrqRest, OthRest, ReadV2p
  <2>2. lock'.pfu = TRUE /\ lock'.vfu = lock.vfu
    BY <1>1, <1>t, <2>1
       DEF PingVf, ObtainLockPf, PfVars, IrqRest, OthRest, ReadV2p
  <2>3. buf'.head = Word("ping", None, "none", clear_to_send)
    BY <1>1, <1>t, <2>1, <2>2, WordFields
       DEF PingVf, ObtainLockPf, PfVars, IrqRest, OthRest, ReadV2p
  <2>4. buf'.head.flag = "none" /\ buf'.head.kind = "ping"
    BY <1>t, <2>1, <2>2, <2>3 DEF Word
  <2>5. /\ ReadV2p' = ReadV2p
        /\ UNCHANGED <<vf, irq, conf, clear_to_send, torn, seen>>
    BY <1>1, <1>t, <2>1, <2>2, <2>3, <2>4
       DEF PingVf, ObtainLockPf, PfVars, IrqRest, OthRest, ReadV2p
  <2>6. LockInv'
    BY <1>y, <2>1, <2>2, <2>3, <2>4, <2>5 DEF LockInv
  <2>7. BufInv'
    BY <1>y, <2>1, <2>2, <2>3, <2>4, <2>5, Zenon DEF LockInv, BufInv, Consistent
  <2>8. ReqInv'
    BY <1>y, <2>1, <2>2, <2>3, <2>4, <2>5 DEF LockInv, BufInv, ReqInv, Asking, Acked
  <2>9. ReplyInv'
    BY <1>y, <2>1, <2>2, <2>3, <2>4, <2>5
       DEF LockInv, BufInv, ReqInv, ReplyInv, Asking, Acked
  <2>10. ResetInv'
    BY <1>y, <2>1, <2>2, <2>3, <2>4, <2>5
       DEF LockInv, ReqInv, ReplyInv, ResetInv, Asking, Acked
  <2>11. GrantInv'
    BY <1>y, <2>1, <2>2, <2>3, <2>4, <2>5
       DEF LockInv, ReqInv, ReplyInv, ResetInv, GrantInv, Asking, Acked
  <2> QED
    BY <2>6, <2>7, <2>8, <2>9, <2>10, <2>11 DEF Safe
<1>2. CASE oth = "ping" /\ lock.vfu
  <2>1. /\ oth # "pingrest" /\ oth' = "idle" /\ ReadV2p' = ReadV2p
        /\ UNCHANGED <<vf, irq, conf, clear_to_send, lock, icr, buf, torn, seen>>
    BY <1>2, <1>t
       DEF PingVf, ObtainLockPf, PfVars, IrqRest, OthRest, ReadV2p
  <2>2. LockInv'
    BY <1>y, <2>1 DEF LockInv
  <2>3. BufInv'
    BY <1>y, <2>1, Zenon DEF LockInv, BufInv, Consistent
  <2>4. ReqInv'
    BY <1>y, <2>1 DEF LockInv, BufInv, ReqInv, Asking, Acked
  <2>5. ReplyInv'
    BY <1>y, <2>1 DEF LockInv, BufInv, ReqInv, ReplyInv, Asking, Acked
  <2>6. ResetInv'
    BY <1>y, <2>1 DEF LockInv, ReqInv, ReplyInv, ResetInv, Asking, Acked
  <2>7. GrantInv'
    BY <1>y, <2>1 DEF LockInv, ReqInv, ReplyInv, ResetInv, GrantInv, Asking, Acked
  <2> QED
    BY <2>2, <2>3, <2>4, <2>5, <2>6, <2>7 DEF Safe
<1>3. CASE oth = "pingrest"
  <2>1. oth = "pingrest" /\ oth' = "idle"
    BY <1>3, <1>t
       DEF PingVf, PfVars, IrqRest, OthRest, ReadV2p
  <2>2. lock'.pfu = FALSE /\ lock'.vfu = lock.vfu
    BY <1>3, <1>t, <2>1
       DEF PingVf, PfVars, IrqRest, OthRest, ReadV2p
  <2>3. /\ "ack" \in ReadV2p' <=> "ack" \in ReadV2p
        /\ UNCHANGED <<vf, irq, conf, clear_to_send, icr, buf, torn, seen>>
    BY <1>3, <1>t, <2>1, <2>2
       DEF PingVf, PfVars, IrqRest, OthRest, ReadV2p
  <2>4. LockInv'
    BY <1>y, <2>1, <2>2, <2>3 DEF LockInv
  <2>5. BufInv'
    BY <1>y, <2>1, <2>2, <2>3, Zenon DEF LockInv, BufInv, Consistent
  <2>6. ReqInv'
    BY <1>y, <2>1, <2>2, <2>3 DEF LockInv, BufInv, ReqInv, Asking, Acked
  <2>7. ReplyInv'
    BY <1>y, <2>1, <2>2, <2>3 DEF LockInv, BufInv, ReqInv, ReplyInv, Asking, Acked
  <2>8. ResetInv'
    BY <1>y, <2>1, <2>2, <2>3 DEF LockInv, ReqInv, ReplyInv, ResetInv, Asking, Acked
  <2>9. GrantInv'
    BY <1>y, <2>1, <2>2, <2>3
       DEF LockInv, ReqInv, ReplyInv, ResetInv, GrantInv, Asking, Acked
  <2> QED
    BY <2>4, <2>5, <2>6, <2>7, <2>8, <2>9 DEF Safe
<1> QED
  BY <1>1, <1>2, <1>3 DEF PingVf, ObtainLockPf

-----------------------------------------------------------------------------
(* The results. *)

\* Every step keeps the inductive invariant.
LEMMA InvPreserved == IInv /\ [Next]_vars => IInv'
<1> SUFFICES ASSUME IInv, [Next]_vars PROVE IInv'
  OBVIOUS
<1>1. TypeOK'
  BY TypePreserved DEF IInv
<1>2. SUFFICES ASSUME ~overlap' PROVE Safe'
  BY <1>1 DEF IInv
<1>3. CASE UNCHANGED vars
  <2>1. UNCHANGED <<lock, buf, icr, sts, v2p, vf, irq, oth, conf,
                  clear_to_send, seen, torn, overlap>>
    BY <1>3 DEF vars
  <2>2. LockInv' /\ BufInv' /\ ReqInv'
    BY <1>2, <2>1, ZenonT(40)
       DEF IInv, Safe, LockInv, BufInv, Consistent, ReqInv, Asking, Acked,
                      ReadV2p
  <2>3. ReplyInv'
    BY <1>2, <2>1 DEF IInv, Safe, ReplyInv, Asking, Acked, ReadV2p
  <2>4. ResetInv' /\ GrantInv'
    BY <1>2, <2>1 DEF IInv, Safe, ResetInv, GrantInv, Asking, Acked, ReadV2p
  <2> QED
    BY <2>2, <2>3, <2>4 DEF Safe
<1>4. CASE Next
  <2>1. ~overlap
    BY <1>2, <1>4, Zenon
       DEF Next, VfStep, IrqStep, VfWrite, VfRequest, VfPoll, VfTimeout, VfRead,
           VfReceive, VfAgain, MsgTask, CheckForMsg, ReadMbx, AckMbx, HandleMsg,
           WriteMbx, SendMbx, CheckForAck, OtherStart, PingVf, PfVars
  <2>2. TypeOK /\ Safe
    BY <2>1 DEF IInv
  <2> QED
    BY <1>2, <1>4, <2>2, VfKeeps, VfAgainKeeps, IrqKeeps, OtherKeeps, PingKeeps
       DEF Next
<1> QED
  BY <1>3, <1>4

\* It holds in the initial state.
LEMMA InitInv == Init => IInv
<1> SUFFICES ASSUME Init PROVE IInv
  OBVIOUS
<1>1. Blank \in Words /\ None \in IdsNone /\ Blank.flag = "none" /\ Blank.id = None
  BY BlankType DEF IdsNone, Blank, Word
<1>2. TypeOK
  <2>1. lock \in Locks /\ buf \in Buffer
    BY <1>1 DEF Init, Locks, Buffer
  <2>2. vf \in VfState /\ vf.pc = "idle"
    BY <1>1 DEF Init, VfState, Requests
  <2>3. irq \in Task
    BY <1>1 DEF Init, Task, Outs, Out
  <2> QED
    BY <2>1, <2>2, <2>3, Zenon DEF Init, TypeOK
<1>3. /\ vf.pc = "idle" /\ vf.ask = "reset" /\ irq.pc = "idle" /\ oth = "idle"
      /\ ~lock.vfu /\ ~lock.pfu /\ ~torn /\ icr = {}
      /\ buf.head = Blank /\ buf.rest = None
  BY DEF Init
<1>4. LockInv /\ BufInv /\ ReqInv
  BY <1>1, <1>3 DEF LockInv, BufInv, Consistent, ReqInv, Asking, Acked
<1>5. ReplyInv /\ ResetInv /\ GrantInv
  BY <1>3 DEF ReplyInv, ResetInv, GrantInv, Asking, Acked
<1> QED
  BY <1>2, <1>4, <1>5 DEF IInv, Safe

\* The invariant holds in every state, whatever requests, resets, timeouts and
\* pings there are (ixgbe_mbx.c, ixgbe_sriov.c).
THEOREM Invariance == Spec => []IInv
<1>1. Spec => Init /\ [][Next]_vars
  BY DEF Spec
<1> QED
  BY <1>1, InitInv, InvPreserved, PTL

\* Unless a ping ran into ixgbe_msg_task, no side ever acts on half a message:
\* the two lock bits keep the PF and the VF apart (ixgbe_obtain_mbx_lock_pf and
\* ixgbe_obtain_mbx_lock_vf).
THEOREM NoTornMessage == Spec => []MessagesWhole
<1>1. IInv => MessagesWhole
  BY DEF IInv, Safe, BufInv, MessagesWhole
<1> QED
  BY Invariance, <1>1, PTL

\* Nor does the VF take the acknowledgement of an older message for its own,
\* though the ACK bit carries no id and survives the read that clears it
\* (ixgbe_write_posted_mbx, ixgbe_read_v2p_mailbox).
THEOREM AckIsForThis == Spec => []AckMeansRead
<1>1. IInv => AckMeansRead
  BY DEF IInv, Safe, ReqInv, Acked, AckMeansRead
<1> QED
  BY Invariance, <1>1, PTL

\* And what the PF granted stands while the VF is clear to send: a reset of the VF
\* that the PF sees late is never later than the grant (ixgbe_msg_task,
\* ixgbe_rcv_msg_from_vf), and the flush of the MAC table by ixgbe_down comes with
\* the VF marked inactive.
THEOREM GrantsStand == Spec => []ConfigStands
<1>1. IInv => ConfigStands
  BY DEF IInv, Safe, GrantInv, ConfigStands
<1> QED
  BY Invariance, <1>1, PTL

=============================================================================
