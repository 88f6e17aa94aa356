--------------------------- MODULE SmpBootProofs ---------------------------
(***************************************************************************)
(* What SmpBoot promises, for any number of APs and any vectors: the       *)
(* guest's writes reach the LAPIC, an AP starts where it was told to, the  *)
(* guest gets its flags back and the interception ends when it is due.     *)
(*                                                                         *)
(* The argument follows one access.  The guest runs with the trap flag     *)
(* clear, and the page is unmapped; or it repeats an access under the trap *)
(* flag, with interrupts masked, and what the handler noted (lapic_op,     *)
(* lapic_reg, the page it mapped and the flags it saved) is about the      *)
(* instruction on top of the stack; or the BSP is in the #DB handler, and  *)
(* the instruction is done.  An interrupt handler can only be above an     *)
(* instruction that is not being repeated.                                 *)
(***************************************************************************)
EXTENDS SmpBoot, SequenceTheorems, TLAPS

Top == stack[Len(stack)]

AllIn == \A a \in APs : sipireceived[a]

Clear == [tf |-> FALSE, if |-> FALSE]

\* The flags with which the instruction of a frame runs, but for the access it
\* repeats.
Own(f) == IF f.irq THEN Clear ELSE f.ret

States == {"start", "waitactive", "go", "waitgo", "appmain", "waitapp", "lapic",
           "guest", "db", "flag", "waitsipi", "woken", "halted"}
Regs == {"icr_low", "icr_high", "other"}
Dests == Cores \cup {Unknown}
Maybe == Vectors \cup {"none"}

Typed ==
    /\ pc \in [Cores -> States]
    /\ sipireceived \in [Cores -> BOOLEAN]
    /\ sipivector \in [Cores -> Maybe]
    /\ cs \in [Cores -> Maybe]
    /\ told \in [Cores -> Maybe]
    /\ eflags \in Flags /\ saved \in Flags
    /\ stack \in Seq(Frame)
    /\ lapic_op \in {"read", "write", "rsvd"}
    /\ lapic_reg \in Regs

\* The page of the hypervisor that stands in for the LAPIC.
VlapicInv ==
    /\ DOMAIN vlapic = Regs
    /\ vlapic["icr_high"] \in Dests

\* At most one interrupt handler, above an instruction or alone; it returns to
\* the flags of what is below.
StackInv ==
    /\ Len(stack) <= 2
    /\ \A i \in 1..Len(stack) : ~stack[i].ret.tf
    /\ Len(stack) = 2 => /\ ~stack[1].irq /\ stack[2].irq
                         /\ stack[2].ret = stack[1].ret

\* The guest does not run yet.
BootInv ==
    pc[BSP] \notin {"guest", "db", "flag", "halted"} =>
        /\ stack = <<>> /\ due = <<>> /\ ~eflags.tf
        /\ \A c \in Cores : ~sipireceived[c] /\ told[c] = "none"

\* The guest runs, and repeats no access.
RunInv ==
    pc[BSP] = "guest" /\ ~eflags.tf =>
        /\ due = <<>>
        /\ AllIn => lapic = "physical"
        /\ ~AllIn => lapic = "unmapped"
        /\ stack # <<>> => eflags = Own(Top)

\* What the fault handler noted is about the instruction on top.
RepeatInv ==
    pc[BSP] = "guest" /\ eflags.tf =>
        /\ due = <<>>
        /\ stack # <<>> /\ Top.ins # Done
        /\ ~AllIn /\ ~eflags.if
        /\ ~saved.tf /\ saved = Own(Top)
        /\ lapic_reg = Top.ins.reg
        /\ lapic_reg # "other" => lapic = "virtual" /\ lapic_op = Top.ins.op
        /\ lapic_reg = "other" => lapic = "physical" /\ lapic_op = "rsvd"

\* The #DB handler runs.
DbInv ==
    pc[BSP] \in {"db", "flag"} =>
        /\ stack # <<>> /\ Top.ins = Done
        /\ ~AllIn
        /\ ~saved.tf /\ saved = Own(Top)

\* An INIT or a STARTUP IPI of the guest is in the page of the hypervisor.
Voided == lapic_op # "write"
          \/ (lapic_reg = "icr_low" /\ vlapic["icr_low"] \in Startups \cup {"init"})

Written == [reg |-> lapic_reg, val |-> vlapic[lapic_reg]]

\* What the #DB handler is to forward.
DueInv ==
    /\ ~stray
    /\ pc[BSP] = "db" => /\ Voided => due = <<>>
                         /\ ~Voided => due = <<Written>>
    /\ pc[BSP] = "flag" => due = <<>>

\* The #DB handler has a STARTUP IPI for core c.
Sipi(c) ==
    /\ pc[BSP] \in {"db", "flag"}
    /\ lapic_op = "write" /\ lapic_reg = "icr_low"
    /\ vlapic["icr_low"] \in Vectors /\ vlapic["icr_high"] = c

\* A core was told iff it has its STARTUP IPI, or the handler is about to store
\* it; the vector is stored before the flag.
ToldInv ==
    /\ \A c \in Cores :
        /\ sipireceived[c] => told[c] # "none" /\ sipivector[c] = told[c]
        /\ told[c] # "none" /\ ~sipireceived[c] => Sipi(c)
        /\ Sipi(c) /\ ~sipireceived[c] => told[c] = vlapic["icr_low"]
    /\ pc[BSP] = "flag" =>
        LET d == vlapic["icr_high"]
        IN  /\ d \in Cores /\ Sipi(d) /\ ~sipireceived[d]
            /\ sipivector[d] = told[d]

\* An AP is past its wait, or in the guest.
ApInv ==
    \A a \in APs :
        /\ pc[a] = "woken" => sipireceived[a]
        /\ pc[a] = "guest" => sipireceived[a] /\ cs[a] = told[a]

IInv == /\ Typed /\ VlapicInv /\ StackInv /\ BootInv /\ RunInv /\ RepeatInv
        /\ DbInv /\ DueInv /\ ToldInv /\ ApInv

-----------------------------------------------------------------------------
Booting == States \ {"guest", "db", "flag", "halted"}

\* An instruction reads or writes a register; what a write to a half of the ICR
\* holds.
LEMMA Accesses ==
    ASSUME NEW ins \in Instrs \cup {EOI}
    PROVE  /\ ins # Done
           /\ ins.op \in {"read", "write"} /\ ins.reg \in Regs
           /\ ins.op = "read" => ins.val = "none"
           /\ ins.op = "write" /\ ins.reg = "icr_high" => ins.val \in Dests
           /\ ins.op = "write" /\ ins.reg = "icr_low" => ins.val \in LowValues
BY DEF Instrs, EOI, Done, Regs, Dests

\* The vectors are told apart from all else the ICR may hold.
LEMMA Values ==
    /\ "init" \notin Startups /\ "ipi" \notin Startups /\ "none" \notin Startups
    /\ "all" \notin Vectors /\ Vectors \subseteq Startups /\ "none" \notin Vectors
    /\ Unknown \notin Cores /\ BSP \in Cores /\ APs \subseteq Cores
    /\ BSP \notin APs /\ APs # {}
BY ConstantsAssumption DEF Startups, Cores

\* The initial state.
LEMMA Initially == Init => IInv
<1> SUFFICES ASSUME Init PROVE IInv
  OBVIOUS
<1> USE Values
<1>1. /\ pc \in [Cores -> States] /\ pc[BSP] = "start"
      /\ \A a \in APs : pc[a] = "start"
  BY DEF Init, States
<1>2. /\ sipireceived \in [Cores -> BOOLEAN]
      /\ \A c \in Cores : ~sipireceived[c]
  BY Zenon DEF Init
<1>3. /\ sipivector \in [Cores -> Maybe] /\ cs \in [Cores -> Maybe]
      /\ told \in [Cores -> Maybe] /\ \A c \in Cores : told[c] = "none"
  BY DEF Init, Maybe
<1>4. /\ eflags \in Flags /\ saved \in Flags /\ ~eflags.tf
  BY DEF Init, Flags
<1>5. /\ stack \in Seq(Frame) /\ stack = <<>> /\ Len(stack) = 0 /\ due = <<>>
  BY DEF Init
<1>6. Typed
  BY <1>1, <1>2, <1>3, <1>4, <1>5 DEF Typed, Init, Regs
<1>7. VlapicInv
  BY DEF VlapicInv, Init, Regs, Dests
<1>8. StackInv /\ BootInv /\ RunInv /\ RepeatInv /\ DbInv
  BY <1>1, <1>2, <1>3, <1>4, <1>5 DEF StackInv, BootInv, RunInv, RepeatInv, DbInv
<1>9. DueInv /\ ToldInv /\ ApInv
  BY <1>1, <1>2, <1>3 DEF DueInv, ToldInv, ApInv, Init
<1> QED
  BY <1>6, <1>7, <1>8, <1>9 DEF IInv

-----------------------------------------------------------------------------
\* What the cores do outside of the guest and of the handlers leaves all that
\* the invariant is about alone.
LEMMA RallyKeeps ==
    ASSUME IInv, UNCHANGED <<trap, guest, sipireceived, sipivector>>,
           pc' \in [Cores -> States], cs' \in [Cores -> Maybe], ApInv',
           pc'[BSP] = pc[BSP] \/ (pc[BSP] \in Booting /\ pc'[BSP] \in Booting)
    PROVE  IInv'
<1> USE DEF IInv
<1>1. UNCHANGED <<lapic, lapic_op, lapic_reg, eflags, saved, vlapic, stack, due,
                  stray, told, sipireceived, sipivector>>
  BY DEF trap, guest
<1>2. pc'[BSP] \in {"guest", "db", "flag", "halted"} => pc'[BSP] = pc[BSP]
  BY DEF Booting
<1>3. Typed' /\ VlapicInv' /\ StackInv'
  BY <1>1 DEF Typed, VlapicInv, StackInv
<1>4. BootInv'
  BY <1>1 DEF BootInv, Booting
<1>5. RunInv' /\ RepeatInv' /\ DbInv'
  BY <1>1, <1>2 DEF RunInv, RepeatInv, DbInv, AllIn, Top
<1>6. DueInv'
  BY <1>1, <1>2 DEF DueInv, Voided, Written
<1>7. \A c \in Cores : Sipi(c)' <=> Sipi(c)
  BY <1>1, <1>2, Values DEF Sipi, Booting
<1>8. ToldInv'
  BY <1>1, <1>2, <1>7 DEF ToldInv
<1> QED
  BY <1>3, <1>4, <1>5, <1>6, <1>8

\* A core that goes on from one point to another.
LEMMA GotoFacts ==
    ASSUME Typed, NEW c \in Cores, NEW from, NEW to \in States, Goto(c, from, to)
    PROVE  /\ pc' \in [Cores -> States] /\ pc[c] = from /\ pc'[c] = to
           /\ \A d \in Cores \ {c} : pc'[d] = pc[d]
BY DEF Typed, Goto

\* The rally of the BSP.
LEMMA BspRally ==
    ASSUME IInv, CountActive(BSP) \/ AwaitActive \/ SetGoSignal \/ CountAppMain(BSP)
                 \/ AwaitAppMain
    PROVE  IInv'
<1> USE Values DEF IInv
<1>1. PICK from \in Booting, to \in Booting : Goto(BSP, from, to)
  BY DEF CountActive, AwaitActive, SetGoSignal, CountAppMain, AwaitAppMain,
         Booting, States
<1>2. UNCHANGED <<sipi, trap, guest>>
  BY DEF CountActive, AwaitActive, SetGoSignal, CountAppMain, AwaitAppMain
<1>3. /\ pc' \in [Cores -> States] /\ pc[BSP] = from /\ pc'[BSP] = to
      /\ \A d \in Cores \ {BSP} : pc'[d] = pc[d]
  BY <1>1, GotoFacts DEF Booting
<1>4. UNCHANGED <<sipireceived, sipivector, cs, told>>
  BY <1>2 DEF sipi, guest
<1>5. ApInv'
  BY <1>3, <1>4 DEF ApInv
<1>6. cs' \in [Cores -> Maybe]
  BY <1>4 DEF Typed
<1> QED
  BY <1>1, <1>2, <1>3, <1>4, <1>5, <1>6, RallyKeeps

\* All an AP does.
LEMMA ApKeeps ==
    ASSUME IInv, NEW c \in APs, ApStep(c)
    PROVE  IInv'
<1> USE Values DEF IInv
<1>1. UNCHANGED <<trap, guest, sipireceived, sipivector>>
  BY DEF ApStep, CountActive, AwaitGoSignal, CountAppMain, AwaitSipi,
         PostCpuWakeup, sipi
<1>2. UNCHANGED told
  BY <1>1 DEF guest
<1>3. CASE CountActive(c) \/ AwaitGoSignal(c) \/ CountAppMain(c)
  <2>1. PICK from \in Booting, to \in Booting \ {"woken"} : Goto(c, from, to)
    BY <1>3 DEF CountActive, AwaitGoSignal, CountAppMain, Booting, States
  <2>2. /\ pc' \in [Cores -> States] /\ pc'[c] = to
        /\ \A d \in Cores \ {c} : pc'[d] = pc[d]
    BY <2>1, GotoFacts DEF Booting
  <2>3. UNCHANGED cs
    BY <1>3 DEF CountActive, AwaitGoSignal, CountAppMain, sipi
  <2>4. ApInv'
    BY <1>1, <1>2, <2>1, <2>2, <2>3 DEF ApInv, Booting
  <2>5. cs' \in [Cores -> Maybe] /\ pc'[BSP] = pc[BSP]
    BY <2>2, <2>3 DEF Typed
  <2> QED
    BY <1>1, <2>2, <2>4, <2>5, RallyKeeps
<1>4. CASE AwaitSipi(c)
  <2>1. Goto(c, "waitsipi", "woken") /\ sipireceived[c] /\ UNCHANGED cs
    BY <1>4 DEF AwaitSipi, sipi
  <2>2. /\ pc' \in [Cores -> States] /\ pc'[c] = "woken"
        /\ \A d \in Cores \ {c} : pc'[d] = pc[d]
    BY <2>1, GotoFacts DEF States
  <2>3. ApInv'
    BY <1>1, <1>2, <2>1, <2>2 DEF ApInv
  <2>4. cs' \in [Cores -> Maybe] /\ pc'[BSP] = pc[BSP]
    BY <2>1, <2>2 DEF Typed
  <2> QED
    BY <1>1, <2>2, <2>3, <2>4, RallyKeeps
<1>5. CASE PostCpuWakeup(c)
  <2>1. Goto(c, "woken", "guest") /\ cs' = [cs EXCEPT ![c] = sipivector[c]]
    BY <1>5 DEF PostCpuWakeup
  <2>2. /\ pc' \in [Cores -> States] /\ pc[c] = "woken" /\ pc'[c] = "guest"
        /\ \A d \in Cores \ {c} : pc'[d] = pc[d]
    BY <2>1, GotoFacts DEF States
  <2>3. /\ cs' \in [Cores -> Maybe] /\ cs'[c] = sipivector[c]
        /\ \A d \in Cores \ {c} : cs'[d] = cs[d]
    BY <2>1 DEF Typed
  <2>4. sipireceived[c] /\ sipivector[c] = told[c]
    BY <2>2 DEF ApInv, ToldInv
  <2>5. ApInv'
    BY <1>1, <1>2, <2>2, <2>3, <2>4 DEF ApInv
  <2> QED
    BY <1>1, <2>2, <2>3, <2>5, RallyKeeps
<1> QED
  BY <1>3, <1>4, <1>5 DEF ApStep

\* The BSP enters the guest with its LAPIC page unmapped.
LEMMA InitializeKeeps == ASSUME IInv, Initialize PROVE IInv'
<1> USE Values DEF IInv
<1>1. /\ pc' \in [Cores -> States] /\ pc[BSP] = "lapic" /\ pc'[BSP] = "guest"
      /\ \A d \in Cores \ {BSP} : pc'[d] = pc[d]
  BY GotoFacts DEF Initialize, States
<1>2. UNCHANGED <<lapic_op, lapic_reg, eflags, saved, vlapic, stack, due,
                  stray, told, sipireceived, sipivector, cs>> /\ lapic' = "unmapped"
  BY DEF Initialize, sipi, guest
<1>3. /\ stack = <<>> /\ due = <<>> /\ ~eflags.tf
      /\ \A c \in Cores : ~sipireceived[c] /\ told[c] = "none"
  BY <1>1 DEF BootInv
<1>4. Typed' /\ VlapicInv' /\ StackInv'
  BY <1>1, <1>2 DEF Typed, VlapicInv, StackInv
<1>5. ~AllIn'
  BY <1>2, <1>3 DEF AllIn
<1>6. BootInv' /\ RunInv' /\ RepeatInv' /\ DbInv'
  BY <1>1, <1>2, <1>3, <1>5 DEF BootInv, RunInv, RepeatInv, DbInv
<1>7. DueInv'
  BY <1>1, <1>2, <1>3 DEF DueInv
<1>8. ToldInv' /\ ApInv'
  BY <1>1, <1>2, <1>3 DEF ToldInv, ApInv, Sipi
<1> QED
  BY <1>4, <1>6, <1>7, <1>8

-----------------------------------------------------------------------------
\* A step of the guest, or a fault, that only moves the stack and the flags.
LEMMA GuestOnly ==
    ASSUME IInv, pc[BSP] = "guest",
           UNCHANGED <<pc, sipi, vlapic, due, stray, told>>,
           stack' \in Seq(Frame), eflags' \in Flags, saved' \in Flags,
           lapic_op' \in {"read", "write", "rsvd"}, lapic_reg' \in Regs,
           StackInv', RunInv', RepeatInv'
    PROVE  IInv'
<1> USE Values DEF IInv
<1>1. UNCHANGED <<sipireceived, sipivector, cs>>
  BY DEF sipi
<1>2. Typed' /\ VlapicInv'
  BY <1>1 DEF Typed, VlapicInv
<1>3. BootInv' /\ DbInv' /\ DueInv'
  BY DEF BootInv, DbInv, DueInv
<1>4. \A c \in Cores : ~Sipi(c) /\ ~Sipi(c)'
  BY DEF Sipi
<1>5. ToldInv' /\ ApInv'
  BY <1>1, <1>4 DEF ToldInv, ApInv
<1> QED
  BY <1>2, <1>3, <1>5

\* The lengths of the stack.
LEMMA OneOrTwo ==
    \A n \in Nat : /\ n <= 2 /\ n # 0 => n \in {1, 2}
                   /\ n < 2 => n \in {0, 1}
OBVIOUS

\* The frame on top of the stack.
LEMMA TopFacts ==
    ASSUME IInv, stack # <<>>
    PROVE  /\ Len(stack) \in {1, 2} /\ Top \in Frame /\ ~Top.ret.tf
           /\ Top = stack[Len(stack)] /\ Last(stack) = Top
           /\ Own(Top) \in Flags /\ ~Own(Top).tf
<1>1. Len(stack) \in {1, 2}
  <2>1. stack \in Seq(Frame) /\ Len(stack) <= 2
    BY DEF IInv, Typed, StackInv
  <2>2. Len(stack) \in Nat /\ Len(stack) # 0
    BY <2>1
  <2> QED
    BY <2>1, <2>2, OneOrTwo, Zenon
<1>2. Top \in Frame /\ ~Top.ret.tf
  BY <1>1 DEF IInv, Typed, StackInv, Top
<1>3. Own(Top) \in Flags /\ ~Own(Top).tf
  BY <1>2 DEF Own, Clear, Frame, Flags
<1> QED
  BY <1>1, <1>2, <1>3 DEF Top, Last

\* The guest comes to an access.
LEMMA FetchKeeps == ASSUME IInv, NEW ins \in Instrs, Fetch(ins) PROVE IInv'
<1> USE Values
<1>1. PICK b \in BOOLEAN : eflags' = [eflags EXCEPT !.if = b]
  BY DEF Fetch
<1>2. pc[BSP] = "guest" /\ stack = <<>> /\ ~eflags.tf
  BY DEF Fetch, IInv, RepeatInv
<1>3. eflags' \in Flags /\ ~eflags'.tf
  BY <1>1, <1>2 DEF IInv, Typed, Flags
<1> DEFINE f == [ins |-> ins, irq |-> FALSE, ret |-> eflags']
<1>4. f \in Frame /\ f.ret = eflags' /\ ~f.irq
  BY <1>3 DEF Frame
<1>5. stack' = <<f>>
  BY DEF Fetch
<1> HIDE DEF f
<1>6. stack' \in Seq(Frame) /\ Len(stack') = 1 /\ stack'[1] = f
  BY <1>4, <1>5
<1>7. UNCHANGED <<pc, sipi, vlapic, due, stray, told, lapic, lapic_op, lapic_reg,
                  saved>>
  BY DEF Fetch
<1>8. StackInv'
  BY <1>3, <1>4, <1>6 DEF StackInv
<1>9. Top' = f /\ Own(f) = eflags'
  BY <1>4, <1>6 DEF Top, Own
<1>10. AllIn' <=> AllIn
  BY <1>7 DEF AllIn, sipi
<1>11. RunInv'
  BY <1>2, <1>7, <1>9, <1>10 DEF IInv, RunInv
<1>12. RepeatInv'
  BY <1>3 DEF RepeatInv
<1>13. /\ saved' \in Flags /\ lapic_op' \in {"read", "write", "rsvd"}
       /\ lapic_reg' \in Regs
  BY <1>7 DEF IInv, Typed
<1> QED
  BY <1>2, <1>3, <1>6, <1>7, <1>8, <1>11, <1>12, <1>13, GuestOnly

\* An interrupt is delivered, never while an access is repeated.
LEMMA InterruptKeeps == ASSUME IInv, Interrupt PROVE IInv'
<1> USE Values
<1>1. pc[BSP] = "guest" /\ eflags.if /\ ~eflags.tf
  BY DEF Interrupt, IInv, RepeatInv
<1> DEFINE f == [ins |-> EOI, irq |-> TRUE, ret |-> eflags]
<1>2. f \in Frame /\ f.ret = eflags /\ f.irq
  BY DEF Frame, IInv, Typed
<1>3. stack' = Append(stack, f) /\ Len(stack) < 2
  BY DEF Interrupt
<1> HIDE DEF f
<1>4. stack \in Seq(Frame)
  BY DEF IInv, Typed
<1>5. /\ stack' \in Seq(Frame) /\ Len(stack') = Len(stack) + 1
      /\ stack'[Len(stack) + 1] = f /\ Len(stack) \in {0, 1}
      /\ \A i \in 1..Len(stack) : stack'[i] = stack[i]
  <2>1. Len(stack) \in Nat
    BY <1>4
  <2>2. stack' \in Seq(Frame) /\ Len(stack') = Len(stack) + 1
    BY <1>2, <1>3, <1>4
  <2>3. stack'[Len(stack) + 1] = f
    BY <1>2, <1>3, <1>4
  <2>4. \A i \in 1..Len(stack) : stack'[i] = stack[i]
    BY <1>2, <1>3, <1>4
  <2> QED
    BY <1>3, <2>1, <2>2, <2>3, <2>4, OneOrTwo, Zenon
<1>6. eflags' = Clear /\ Clear \in Flags /\ ~Clear.tf
  BY DEF Interrupt, Clear, Flags
<1>7. UNCHANGED <<pc, sipi, vlapic, due, stray, told, lapic, lapic_op, lapic_reg,
                  saved>>
  BY DEF Interrupt
<1>8. stack # <<>> => /\ Len(stack) = 1 /\ ~stack[1].irq /\ stack[1].ret = eflags
  <2> SUFFICES ASSUME stack # <<>> PROVE Len(stack) = 1 /\ ~stack[1].irq
                                        /\ stack[1].ret = eflags
    OBVIOUS
  <2>1. Len(stack) = 1
    BY <1>3, <1>4, <1>5
  <2>2. eflags = Own(stack[1])
    BY <1>1, <2>1 DEF IInv, RunInv, Top
  <2> QED
    BY <1>1, <2>1, <2>2 DEF Own, Clear
<1>9. StackInv'
  <2>1. CASE Len(stack) = 0
    BY <1>1, <1>2, <1>5, <2>1 DEF StackInv
  <2>2. CASE Len(stack) = 1
    <3>1. stack # <<>>
      BY <2>2
    <3> QED
      BY <1>1, <1>2, <1>5, <1>8, <2>2, <3>1 DEF StackInv
  <2> QED
    BY <1>5, <2>1, <2>2
<1>10. Top' = f /\ Own(f) = eflags'
  BY <1>2, <1>5, <1>6 DEF Top, Own
<1>11. AllIn' <=> AllIn
  BY <1>7 DEF AllIn, sipi
<1>12. RunInv'
  BY <1>1, <1>7, <1>10, <1>11 DEF IInv, RunInv
<1>13. RepeatInv'
  BY <1>6 DEF RepeatInv
<1>14. /\ saved' \in Flags /\ lapic_op' \in {"read", "write", "rsvd"}
       /\ lapic_reg' \in Regs
  BY <1>7 DEF IInv, Typed
<1> QED
  BY <1>1, <1>5, <1>6, <1>7, <1>9, <1>12, <1>13, <1>14, GuestOnly

\* An instruction is over; a handler returns.
LEMMA RetireKeeps == ASSUME IInv, Retire PROVE IInv'
<1> USE Values
<1>1. pc[BSP] = "guest" /\ stack # <<>> /\ Last(stack).ins = Done
  BY DEF Retire
<1>2. /\ Len(stack) \in {1, 2} /\ Top \in Frame /\ ~Top.ret.tf
      /\ Last(stack) = Top /\ Top = stack[Len(stack)]
  BY <1>1, TopFacts
<1>3. ~eflags.tf
  BY <1>1, <1>2 DEF IInv, RepeatInv
<1>4. eflags = Own(Top)
  BY <1>1, <1>3 DEF IInv, RunInv
<1>5. stack \in Seq(Frame)
  BY DEF IInv, Typed
<1>6. /\ stack' \in Seq(Frame) /\ Len(stack') = Len(stack) - 1
      /\ \A i \in 1..Len(stack') : stack'[i] = stack[i]
  <2>1. stack' = SubSeq(stack, 1, Len(stack) - 1)
    BY DEF Retire, Front
  <2>2. Len(stack) - 1 \in {0, 1}
    BY <1>2
  <2>3. \A i \in 1..Len(stack) - 1 : stack[i] \in Frame
    BY <1>2, <1>5
  <2>4. /\ stack' \in Seq(Frame)
        /\ Len(stack') = IF 1 <= Len(stack) - 1 THEN Len(stack) - 1 - 1 + 1 ELSE 0
        /\ \A i \in 1..Len(stack) - 1 - 1 + 1 : stack'[i] = stack[1 + i - 1]
    BY <1>5, <2>1, <2>2, <2>3, SubSeqProperties
  <2>5. Len(stack') = Len(stack) - 1
    <3>1. CASE Len(stack) = 1
      BY <2>4, <3>1
    <3>2. CASE Len(stack) = 2
      BY <2>4, <3>2
    <3> QED
      BY <1>2, <3>1, <3>2
  <2>6. \A i \in 1..Len(stack') : stack'[i] = stack[i]
    BY <1>2, <2>4, <2>5
  <2> QED
    BY <2>4, <2>5, <2>6
<1>7. eflags' = Top.ret
  BY <1>2, <1>4 DEF Retire, Own
<1>8. eflags' \in Flags /\ ~eflags'.tf
  BY <1>2, <1>7 DEF Frame
<1>9. UNCHANGED <<pc, sipi, vlapic, due, stray, told, lapic, lapic_op, lapic_reg,
                  saved>>
  BY DEF Retire
<1>10. StackInv'
  BY <1>2, <1>6 DEF IInv, StackInv
<1>11. stack' # <<>> => eflags' = Own(Top')
  <2> SUFFICES ASSUME stack' # <<>> PROVE eflags' = Own(Top')
    OBVIOUS
  <2>1. Len(stack) = 2 /\ Len(stack') = 1
    BY <1>2, <1>6
  <2>2. Top' = stack[1] /\ Top = stack[2]
    BY <1>2, <1>6, <2>1 DEF Top
  <2>3. ~stack[1].irq /\ stack[2].ret = stack[1].ret
    BY <2>1 DEF IInv, StackInv
  <2> QED
    BY <1>7, <2>2, <2>3 DEF Own
<1>12. AllIn' <=> AllIn
  BY <1>9 DEF AllIn, sipi
<1>13. RunInv'
  BY <1>1, <1>3, <1>9, <1>11, <1>12 DEF IInv, RunInv
<1>14. RepeatInv'
  BY <1>8 DEF RepeatInv
<1>15. /\ saved' \in Flags /\ lapic_op' \in {"read", "write", "rsvd"}
       /\ lapic_reg' \in Regs
  BY <1>9 DEF IInv, Typed
<1> QED
  BY <1>1, <1>6, <1>8, <1>9, <1>10, <1>13, <1>14, <1>15, GuestOnly

\* An access faults, and is set up to be repeated.
LEMMA FaultKeeps == ASSUME IInv, HwPgTblViolation PROVE IInv'
<1> USE Values
<1>1. /\ pc[BSP] = "guest" /\ stack # <<>> /\ Last(stack).ins # Done
      /\ lapic = "unmapped"
  BY DEF HwPgTblViolation
<1>2. /\ Top \in Frame /\ Last(stack) = Top /\ Own(Top) \in Flags /\ ~Own(Top).tf
  BY <1>1, TopFacts
<1>3. Top.ins \in Instrs \cup {EOI}
  BY <1>1, <1>2 DEF Frame
<1>4. ~eflags.tf /\ ~AllIn /\ due = <<>> /\ eflags = Own(Top)
  BY <1>1 DEF IInv, RepeatInv, RunInv
<1>5. /\ Top.ins.op \in {"read", "write"} /\ Top.ins.reg \in Regs
  BY <1>3, Accesses
<1>6. saved' = eflags /\ eflags' = Masked(eflags) /\ lapic_reg' = Top.ins.reg
  BY <1>2 DEF HwPgTblViolation
<1>7. eflags' \in Flags /\ eflags'.tf /\ ~eflags'.if
  BY <1>2, <1>4, <1>6, Zenon DEF Masked, Flags
<1>8. /\ lapic_reg' # "other" => lapic' = "virtual" /\ lapic_op' = Top.ins.op
      /\ lapic_reg' = "other" => lapic' = "physical" /\ lapic_op' = "rsvd"
  BY <1>2, <1>5 DEF HwPgTblViolation, Regs
<1>9. UNCHANGED <<pc, sipi, vlapic, due, stray, told, stack>>
  BY DEF HwPgTblViolation, guest
<1>10. StackInv' /\ stack' \in Seq(Frame) /\ Top' = Top /\ (AllIn' <=> AllIn)
  BY <1>9 DEF IInv, StackInv, Typed, Top, AllIn, sipi
<1>11. RunInv'
  BY <1>7 DEF RunInv
<1>12. RepeatInv'
  BY <1>1, <1>2, <1>4, <1>6, <1>7, <1>8, <1>9, <1>10 DEF RepeatInv
<1>13. /\ saved' \in Flags /\ lapic_op' \in {"read", "write", "rsvd"}
       /\ lapic_reg' \in Regs
  BY <1>2, <1>4, <1>5, <1>6, <1>8
<1> QED
  BY <1>1, <1>7, <1>9, <1>10, <1>11, <1>12, <1>13, GuestOnly

-----------------------------------------------------------------------------
\* The instruction on top is executed: the frame stays, with nothing to do.
LEMMA ExecutedTop ==
    ASSUME IInv, Execute
    PROVE  /\ stack # <<>> /\ Top.ins \in Instrs \cup {EOI} /\ Last(stack) = Top
           /\ stack' \in Seq(Frame) /\ Len(stack') = Len(stack) /\ stack' # <<>>
           /\ StackInv' /\ Top'.ins = Done /\ Own(Top') = Own(Top)
<1>1. stack # <<>> /\ Last(stack).ins # Done
  BY DEF Execute
<1>2. /\ Len(stack) \in {1, 2} /\ Top \in Frame /\ ~Top.ret.tf
      /\ Top = stack[Len(stack)] /\ Last(stack) = Top
  BY <1>1, TopFacts
<1>3. Top.ins \in Instrs \cup {EOI}
  BY <1>1, <1>2 DEF Frame
<1>4. stack \in Seq(Frame) /\ stack \in [1..Len(stack) -> Frame]
  BY LenProperties DEF IInv, Typed
<1> DEFINE f == [Top EXCEPT !.ins = Done]
<1>5. f \in Frame /\ f.ins = Done /\ f.irq = Top.irq /\ f.ret = Top.ret
  BY <1>2 DEF Frame
<1>6. stack' = [stack EXCEPT ![Len(stack)] = f]
  BY <1>2 DEF Execute
<1> HIDE DEF f
<1>7. stack' \in Seq(Frame) /\ Len(stack') = Len(stack)
  BY <1>2, <1>4, <1>5, <1>6, ExceptSeq
<1>8. /\ stack'[Len(stack)] = f
      /\ \A i \in 1..Len(stack) : i # Len(stack) => stack'[i] = stack[i]
  BY <1>2, <1>4, <1>6
<1>9. Top' = f /\ Own(f) = Own(Top)
  BY <1>5, <1>7, <1>8 DEF Top, Own
<1>10. StackInv'
  <2>1. CASE Len(stack) = 1
    BY <1>2, <1>5, <1>7, <1>8, <2>1 DEF StackInv
  <2>2. CASE Len(stack) = 2
    <3>1. ~stack[1].ret.tf /\ ~stack[1].irq /\ Top.irq /\ Top.ret = stack[1].ret
      BY <1>2, <2>2 DEF IInv, StackInv
    <3>2. stack'[1] = stack[1] /\ stack'[2] = f
      BY <1>8, <2>2
    <3> QED
      BY <1>2, <1>5, <1>7, <2>2, <3>1, <3>2 DEF StackInv
  <2> QED
    BY <1>2, <2>1, <2>2
<1>11. stack' # <<>>
  BY <1>2, <1>7
<1> QED
  BY <1>1, <1>2, <1>3, <1>5, <1>7, <1>9, <1>10, <1>11

\* Once the interception is over the guest's writes go to the LAPIC.
LEMMA ExecuteFree == ASSUME IInv, Execute, ~eflags.tf PROVE IInv'
<1> USE Values
<1>1. /\ pc[BSP] = "guest" /\ lapic # "unmapped"
      /\ UNCHANGED <<boot, sipi, trap>>
  BY DEF Execute
<1>2. due = <<>> /\ AllIn /\ lapic = "physical" /\ (stack # <<>> => eflags = Own(Top))
  BY <1>1 DEF IInv, RunInv
<1>3. /\ stack # <<>> /\ Top.ins \in Instrs \cup {EOI} /\ Last(stack) = Top
      /\ stack' \in Seq(Frame) /\ Len(stack') = Len(stack) /\ stack' # <<>>
      /\ StackInv' /\ Top'.ins = Done /\ Own(Top') = Own(Top)
  BY ExecutedTop
<1>4. pc' = pc
  BY <1>1 DEF Execute, IInv, Typed
<1> DEFINE w == [reg |-> Top.ins.reg, val |-> Top.ins.val]
<1>5. Top.ins.op = "read" \/ Reach(w, Append(due, w))
  BY <1>2, <1>3 DEF Execute, AllIn
<1> HIDE DEF w
<1>6. UNCHANGED <<vlapic, told>>
  BY <1>2, <1>3, Accesses DEF Execute, AllIn
<1>7. UNCHANGED <<due, stray>>
  <2>1. CASE Top.ins.op = "read"
    BY <1>3, <2>1 DEF Execute
  <2>2. CASE Reach(w, Append(due, w))
    <3>1. Append(due, w) = <<w>> /\ Head(<<w>>) = w /\ Tail(<<w>>) = <<>>
          /\ <<w>> # <<>>
      BY <1>2
    <3> QED
      BY <1>2, <2>2, <3>1 DEF Reach
  <2> QED
    BY <1>5, <2>1, <2>2
<1>8. UNCHANGED <<sipireceived, lapic, lapic_op, lapic_reg, eflags, saved>>
  BY <1>1 DEF sipi, trap
<1>9. AllIn' <=> AllIn
  BY <1>8 DEF AllIn
<1>10. RunInv' /\ RepeatInv'
  BY <1>2, <1>3, <1>7, <1>8, <1>9 DEF RunInv, RepeatInv
<1>11. /\ eflags' \in Flags /\ saved' \in Flags /\ lapic_reg' \in Regs
       /\ lapic_op' \in {"read", "write", "rsvd"}
  BY <1>8 DEF IInv, Typed
<1> QED
  BY <1>1, <1>3, <1>4, <1>6, <1>7, <1>10, <1>11, GuestOnly

\* A repeated access: what it wrote, and what is due.
LEMMA Repeated ==
    ASSUME IInv, Execute, eflags.tf
    PROVE  /\ VlapicInv' /\ ~stray'
           /\ Voided' => due' = <<>>
           /\ ~Voided' => due' = <<Written>>'
<1> USE Values
<1>1. /\ pc[BSP] = "guest" /\ lapic # "unmapped"
      /\ UNCHANGED <<boot, sipi, trap>>
  BY DEF Execute
<1>2. /\ stack # <<>> /\ Top.ins \in Instrs \cup {EOI} /\ Last(stack) = Top
  BY ExecutedTop
<1>3. /\ due = <<>> /\ ~AllIn /\ lapic_reg = Top.ins.reg
      /\ lapic_reg # "other" => lapic = "virtual" /\ lapic_op = Top.ins.op
      /\ lapic_reg = "other" => lapic = "physical" /\ lapic_op = "rsvd"
  BY <1>1 DEF IInv, RepeatInv
<1>4. /\ Top.ins.op \in {"read", "write"} /\ Top.ins.reg \in Regs
      /\ Top.ins.op = "read" => Top.ins.val = "none"
      /\ Top.ins.op = "write" /\ Top.ins.reg = "icr_high" => Top.ins.val \in Dests
      /\ Top.ins.op = "write" /\ Top.ins.reg = "icr_low" => Top.ins.val \in LowValues
  BY <1>2, Accesses
<1>5. UNCHANGED <<lapic, lapic_op, lapic_reg>> /\ ~stray
      /\ DOMAIN vlapic = Regs /\ vlapic["icr_high"] \in Dests
  BY <1>1 DEF trap, IInv, DueInv, VlapicInv
<1> DEFINE w == [reg |-> Top.ins.reg, val |-> Top.ins.val]
           held == /\ Top.ins.reg = "icr_low"
                   /\ Top.ins.val \in Startups \cup {"init"}
<1>6. CASE Top.ins.op = "read"
  <2>1. UNCHANGED <<vlapic, due, stray>>
    BY <1>2, <1>6 DEF Execute
  <2>2. Voided'
    BY <1>3, <1>5, <1>6 DEF Voided
  <2> QED
    BY <1>3, <1>5, <2>1, <2>2 DEF VlapicInv
<1>7. CASE Top.ins.op = "write" /\ lapic_reg # "other"
  <2>1. /\ vlapic' = [vlapic EXCEPT ![lapic_reg] = Top.ins.val]
        /\ due' = IF held THEN <<>> ELSE Append(<<>>, w)
        /\ UNCHANGED stray
    BY <1>2, <1>3, <1>7 DEF Execute, AllIn
  <2>2. /\ DOMAIN vlapic' = Regs /\ vlapic'[lapic_reg] = Top.ins.val
        /\ \A r \in Regs : r # lapic_reg => vlapic'[r] = vlapic[r]
    BY <1>3, <1>4, <1>5, <2>1
  <2>3. VlapicInv'
    <3>1. CASE lapic_reg = "icr_high"
      BY <1>3, <1>4, <1>7, <2>2, <3>1 DEF VlapicInv
    <3>2. CASE lapic_reg # "icr_high"
      <4>1. vlapic'["icr_high"] = vlapic["icr_high"]
        BY <2>2, <3>2 DEF Regs
      <4> QED
        BY <1>5, <2>2, <4>1 DEF VlapicInv
    <3> QED
      BY <3>1, <3>2
  <2>4. Voided' <=> held
    BY <1>3, <1>5, <1>7, <2>2 DEF Voided
  <2>5. Written' = w
    BY <1>3, <1>5, <2>2 DEF Written
  <2>6. Append(<<>>, w) = <<w>>
    OBVIOUS
  <2> HIDE DEF w, held
  <2> QED
    BY <1>5, <2>1, <2>3, <2>4, <2>5, <2>6
<1>8. CASE Top.ins.op = "write" /\ lapic_reg = "other"
  <2>1. Reach(w, Append(due, w)) /\ UNCHANGED vlapic
    BY <1>2, <1>3, <1>8 DEF Execute
  <2> HIDE DEF w
  <2>2. Append(due, w) = <<w>> /\ Head(<<w>>) = w /\ Tail(<<w>>) = <<>>
        /\ <<w>> # <<>>
    BY <1>3
  <2>3. due' = <<>> /\ UNCHANGED stray
    BY <2>1, <2>2 DEF Reach
  <2>4. Voided'
    BY <1>3, <1>5, <1>8 DEF Voided
  <2> QED
    BY <1>5, <2>1, <2>3, <2>4 DEF VlapicInv
<1> QED
  BY <1>4, <1>6, <1>7, <1>8

\* A STARTUP IPI for a core that is not started yet is what it is told first.
LEMMA RepeatedTold ==
    ASSUME IInv, Execute, eflags.tf
    PROVE  /\ told' \in [Cores -> Maybe]
           /\ \A c \in Cores :
                /\ sipireceived[c] => told'[c] = told[c]
                /\ ~sipireceived[c] /\ ~Sipi(c)' => told'[c] = "none"
                /\ ~sipireceived[c] /\ Sipi(c)' => told'[c] = vlapic'["icr_low"]
<1> USE Values
<1>1. /\ pc[BSP] = "guest" /\ UNCHANGED trap
      /\ pc' = [pc EXCEPT ![BSP] = "db"]
  BY DEF Execute
<1>2. /\ stack # <<>> /\ Top.ins \in Instrs \cup {EOI} /\ Last(stack) = Top
  BY ExecutedTop
<1>3. /\ ~AllIn /\ lapic_reg = Top.ins.reg
      /\ lapic_reg # "other" => lapic = "virtual" /\ lapic_op = Top.ins.op
      /\ lapic_reg = "other" => lapic_op = "rsvd"
  BY <1>1 DEF IInv, RepeatInv
<1>4. /\ Top.ins.op \in {"read", "write"}
      /\ Top.ins.op = "read" => Top.ins.val = "none"
  BY <1>2, Accesses
<1>5. /\ UNCHANGED <<lapic_op, lapic_reg>> /\ pc'[BSP] = "db"
      /\ vlapic["icr_high"] \in Dests /\ DOMAIN vlapic = Regs
      /\ told \in [Cores -> Maybe]
  BY <1>1 DEF trap, IInv, VlapicInv, Typed
<1>6. \A c \in Cores : /\ sipireceived[c] => told[c] # "none"
                       /\ ~sipireceived[c] => told[c] = "none"
  BY <1>1 DEF IInv, ToldInv, Sipi
<1> DEFINE v == Top.ins.val
           d == vlapic["icr_high"]
<1>7. CASE Top.ins.reg = "icr_low" /\ v \in Vectors /\ d # Unknown
  <2>1. d \in Cores /\ Top.ins.op = "write"
    BY <1>4, <1>5, <1>7 DEF Dests
  <2>2. told' = [told EXCEPT ![d] = IF told[d] = "none" THEN v ELSE told[d]]
    BY <1>2, <1>3, <1>7 DEF Execute, AllIn
  <2>3. /\ told' \in [Cores -> Maybe]
        /\ told'[d] = (IF told[d] = "none" THEN v ELSE told[d])
        /\ \A c \in Cores : c # d => told'[c] = told[c]
    BY <1>5, <1>7, <2>1, <2>2 DEF Maybe
  <2>4. vlapic' = [vlapic EXCEPT !["icr_low"] = v]
    BY <1>2, <1>3, <1>7, <2>1 DEF Execute
  <2>5. vlapic'["icr_low"] = v /\ vlapic'["icr_high"] = d
    BY <1>5, <2>4 DEF Regs
  <2>6. \A c \in Cores : Sipi(c)' <=> c = d
    BY <1>3, <1>5, <1>7, <2>1, <2>5 DEF Sipi
  <2> HIDE DEF v, d
  <2> SUFFICES ASSUME NEW c \in Cores
               PROVE  /\ sipireceived[c] => told'[c] = told[c]
                      /\ ~sipireceived[c] /\ ~Sipi(c)' => told'[c] = "none"
                      /\ ~sipireceived[c] /\ Sipi(c)' => told'[c] = vlapic'["icr_low"]
    BY <2>3
  <2>7. /\ sipireceived[c] => told[c] # "none"
        /\ ~sipireceived[c] => told[c] = "none"
    BY <1>6
  <2>8. CASE c = d
    <3>1. Sipi(c)'
      BY <2>6, <2>8
    <3>2. /\ sipireceived[c] => told'[c] = told[c]
          /\ ~sipireceived[c] => told'[c] = v
      BY <2>3, <2>7, <2>8
    <3> QED
      BY <2>5, <3>1, <3>2
  <2>9. CASE c # d
    <3>1. ~Sipi(c)'
      BY <2>6, <2>9
    <3>2. told'[c] = told[c]
      BY <2>3, <2>9
    <3> QED
      BY <2>7, <3>1, <3>2
  <2> QED
    BY <2>8, <2>9
<1>8. CASE ~(Top.ins.reg = "icr_low" /\ v \in Vectors /\ d # Unknown)
  <2>1. UNCHANGED told
    BY <1>2, <1>8 DEF Execute
  <2>2. \A c \in Cores : ~Sipi(c)'
    <3> SUFFICES ASSUME NEW c \in Cores, Sipi(c)' PROVE FALSE
      OBVIOUS
    <3>1. /\ lapic_op = "write" /\ lapic_reg = "icr_low"
          /\ vlapic'["icr_low"] \in Vectors /\ vlapic'["icr_high"] = c
      BY <1>5 DEF Sipi
    <3>2. vlapic' = [vlapic EXCEPT !["icr_low"] = v]
      BY <1>2, <1>3, <3>1 DEF Execute
    <3>3. vlapic'["icr_low"] = v /\ vlapic'["icr_high"] = d
      BY <1>5, <3>2 DEF Regs
    <3> QED
      BY <1>3, <1>8, <3>1, <3>3
  <2> SUFFICES ASSUME NEW c \in Cores
               PROVE  /\ sipireceived[c] => told'[c] = told[c]
                      /\ ~sipireceived[c] /\ ~Sipi(c)' => told'[c] = "none"
                      /\ ~sipireceived[c] /\ Sipi(c)' => told'[c] = vlapic'["icr_low"]
    BY <1>5, <2>1
  <2>3. ~Sipi(c)'
    BY <2>2
  <2>4. told'[c] = told[c]
    BY <2>1
  <2>5. ~sipireceived[c] => told[c] = "none"
    BY <1>6
  <2> QED
    BY <2>3, <2>4, <2>5
<1> QED
  BY <1>7, <1>8

\* An access is repeated, and the #DB follows.
LEMMA ExecuteRepeated == ASSUME IInv, Execute, eflags.tf PROVE IInv'
<1> USE Values
<1>1. /\ pc[BSP] = "guest" /\ UNCHANGED <<sipi, trap>>
      /\ pc' = [pc EXCEPT ![BSP] = "db"]
  BY DEF Execute
<1>2. /\ stack # <<>> /\ stack' \in Seq(Frame) /\ stack' # <<>>
      /\ StackInv' /\ Top'.ins = Done /\ Own(Top') = Own(Top)
  BY ExecutedTop
<1>3. UNCHANGED <<sipireceived, sipivector, cs, lapic, lapic_op, lapic_reg, eflags,
                  saved>>
  BY <1>1 DEF sipi, trap
<1>4. /\ pc' \in [Cores -> States] /\ pc'[BSP] = "db"
      /\ \A a \in APs : pc'[a] = pc[a]
  BY <1>1 DEF IInv, Typed, States
<1>5. ~AllIn /\ ~saved.tf /\ saved = Own(Top)
  BY <1>1 DEF IInv, RepeatInv
<1>6. /\ VlapicInv' /\ ~stray'
      /\ Voided' => due' = <<>>
      /\ ~Voided' => due' = <<Written>>'
  BY Repeated
<1>7. /\ told' \in [Cores -> Maybe]
      /\ \A c \in Cores :
           /\ sipireceived[c] => told'[c] = told[c]
           /\ ~sipireceived[c] /\ ~Sipi(c)' => told'[c] = "none"
           /\ ~sipireceived[c] /\ Sipi(c)' => told'[c] = vlapic'["icr_low"]
  BY RepeatedTold
<1>8. Typed'
  BY <1>2, <1>3, <1>4, <1>7, Zenon DEF IInv, Typed
<1>9. BootInv' /\ RunInv' /\ RepeatInv'
  BY <1>4 DEF BootInv, RunInv, RepeatInv
<1>10. DbInv'
  BY <1>2, <1>3, <1>5, Zenon DEF DbInv, AllIn
<1>11. DueInv'
  BY <1>4, <1>6 DEF DueInv
<1>a. ToldInv /\ ApInv
  BY Zenon DEF IInv
<1>12. ToldInv'
  BY <1>3, <1>4, <1>7, <1>a DEF ToldInv
<1>13. ApInv'
  BY <1>3, <1>4, <1>7, <1>a, Zenon DEF ApInv
<1> QED
  BY <1>2, <1>6, <1>8, <1>9, <1>10, <1>11, <1>12, <1>13, Zenon DEF IInv

-----------------------------------------------------------------------------
\* The #DB handler is left: the guest has its flags again, and the page is
\* mapped iff all APs have their STARTUP IPI.
LEMMA LeaveKeeps ==
    ASSUME IInv, pc[BSP] \in {"db", "flag"}, NEW delink \in BOOLEAN, Leave(delink),
           UNCHANGED <<cs, lapic_op, lapic_reg, saved, vlapic, stack, told>>,
           sipireceived' \in [Cores -> BOOLEAN], sipivector' = sipivector,
           delink <=> AllIn', due' = <<>>, ~stray',
           \A c \in Cores : /\ sipireceived[c] => sipireceived'[c]
                            /\ sipireceived'[c] => told[c] # "none"
                                                  /\ sipivector[c] = told[c]
                            /\ told[c] # "none" => sipireceived'[c]
    PROVE  IInv'
<1> USE Values
<1>1. /\ pc' = [pc EXCEPT ![BSP] = "guest"] /\ eflags' = saved
      /\ delink => lapic' = "physical"
      /\ ~delink => lapic' = "unmapped"
  BY DEF Leave
<1>2. /\ pc' \in [Cores -> States] /\ pc'[BSP] = "guest"
      /\ \A a \in APs : pc'[a] = pc[a]
  BY <1>1 DEF IInv, Typed, States
<1>3. stack # <<>> /\ ~saved.tf /\ saved = Own(Top)
  BY DEF IInv, DbInv
<1>4. Typed' /\ VlapicInv' /\ StackInv'
  BY <1>1, <1>2 DEF IInv, Typed, VlapicInv, StackInv
<1>5. BootInv' /\ DbInv' /\ DueInv'
  BY <1>2 DEF BootInv, DbInv, DueInv
<1>6. Top' = Top
  BY DEF Top
<1>7. RunInv' /\ RepeatInv'
  BY <1>1, <1>3, <1>6 DEF RunInv, RepeatInv
<1>8. ToldInv'
  BY <1>2 DEF ToldInv, Sipi
<1>9. ApInv'
  BY <1>2 DEF IInv, ApInv
<1> QED
  BY <1>4, <1>5, <1>7, <1>8, <1>9 DEF IInv

\* The #DB handler, for anything but a STARTUP IPI.
LEMMA DbKeeps == ASSUME IInv, DbException PROVE IInv'
<1> USE Values
<1>1. /\ pc[BSP] = "db" /\ Leave(FALSE)
      /\ UNCHANGED <<boot, sipi, lapic_op, lapic_reg, saved, vlapic, stack, told>>
      /\ ~(lapic_op = "write" /\ lapic_reg = "icr_low"
           /\ vlapic[lapic_reg] \in Startups)
  BY Zenon DEF DbException
<1>2. /\ Voided => UNCHANGED <<due, stray>>
      /\ ~Voided => Reach(Written, due)
  BY <1>1 DEF DbException, Voided, Written
<1>3. /\ ~stray /\ ~AllIn
      /\ Voided => due = <<>>
      /\ ~Voided => due = <<Written>>
  BY <1>1 DEF IInv, DueInv, DbInv
<1>4. due' = <<>> /\ ~stray'
  <2>1. CASE Voided
    BY <1>2, <1>3, <2>1
  <2>2. CASE ~Voided
    <3>1. Head(<<Written>>) = Written /\ Tail(<<Written>>) = <<>> /\ <<Written>> # <<>>
      OBVIOUS
    <3> QED
      BY <1>2, <1>3, <2>2, <3>1, Zenon DEF Reach
  <2> QED
    BY <2>1, <2>2
<1>5. UNCHANGED <<sipireceived, sipivector, cs>>
  BY <1>1 DEF sipi
<1>6. \A c \in Cores : ~Sipi(c)
  BY <1>1 DEF Sipi
<1>7. \A c \in Cores : /\ sipireceived[c] => told[c] # "none"
                                            /\ sipivector[c] = told[c]
                       /\ told[c] # "none" => sipireceived[c]
  BY <1>6 DEF IInv, ToldInv
<1>8. ~AllIn' /\ sipireceived' \in [Cores -> BOOLEAN]
  BY <1>3, <1>5 DEF AllIn, IInv, Typed
<1>9. (FALSE <=> AllIn') /\ pc[BSP] \in {"db", "flag"}
  BY <1>1, <1>8
<1>10. \A c \in Cores : /\ sipireceived[c] => sipireceived'[c]
                        /\ sipireceived'[c] => told[c] # "none"
                                              /\ sipivector[c] = told[c]
                        /\ told[c] # "none" => sipireceived'[c]
  BY <1>5, <1>7
<1> QED
  BY <1>1, <1>4, <1>5, <1>8, <1>9, <1>10, LeaveKeeps, Zenon

\* The hypervisor halts.
LEMMA HaltKeeps ==
    ASSUME IInv, pc[BSP] = "db", pc' = [pc EXCEPT ![BSP] = "halted"],
           UNCHANGED <<sipi, trap, guest>>, \A c \in Cores : ~Sipi(c)
    PROVE  IInv'
<1> USE Values
<1>1. UNCHANGED <<sipireceived, sipivector, cs, lapic_op, lapic_reg, eflags, saved,
                  vlapic, stack, due, stray, told>>
  BY DEF sipi, trap, guest
<1>2. /\ pc' \in [Cores -> States] /\ pc'[BSP] = "halted"
      /\ \A a \in APs : pc'[a] = pc[a]
  BY DEF IInv, Typed, States
<1>3. Typed' /\ VlapicInv' /\ StackInv'
  BY <1>1, <1>2, ZenonT(40) DEF IInv, Typed, VlapicInv, StackInv
<1>4. BootInv' /\ RunInv' /\ RepeatInv' /\ DbInv'
  BY <1>2, Zenon DEF BootInv, RunInv, RepeatInv, DbInv
<1>5. DueInv'
  BY <1>1, <1>2 DEF IInv, DueInv
<1>6. ToldInv'
  BY <1>1, <1>2 DEF IInv, ToldInv, Sipi
<1>7. ApInv'
  BY <1>1, <1>2 DEF IInv, ApInv
<1> QED
  BY <1>3, <1>4, <1>5, <1>6, <1>7 DEF IInv

\* The vector of a first STARTUP IPI is stored.
LEMMA StoreKeeps ==
    ASSUME IInv, pc[BSP] = "db", lapic_op = "write", lapic_reg = "icr_low",
           NEW d \in Cores, d = vlapic["icr_high"], ~sipireceived[d],
           vlapic["icr_low"] \in Vectors,
           sipivector' = [sipivector EXCEPT ![d] = vlapic["icr_low"]],
           pc' = [pc EXCEPT ![BSP] = "flag"],
           UNCHANGED <<sipireceived, cs, trap, guest>>
    PROVE  IInv'
<1> USE Values
<1>1. UNCHANGED <<sipireceived, cs, lapic_op, lapic_reg, eflags, saved,
                  vlapic, stack, due, stray, told>>
  BY DEF trap, guest
<1>2. /\ pc' \in [Cores -> States] /\ pc'[BSP] = "flag"
      /\ \A a \in APs : pc'[a] = pc[a]
  BY DEF IInv, Typed, States
<1>3. /\ sipivector' \in [Cores -> Maybe] /\ sipivector'[d] = vlapic["icr_low"]
      /\ \A c \in Cores : c # d => sipivector'[c] = sipivector[c]
  BY DEF IInv, Typed, Maybe
<1>4. \A c \in Cores : Sipi(c) <=> c = d
  BY DEF Sipi
<1>5. \A c \in Cores : Sipi(c)' <=> c = d
  BY <1>1, <1>2 DEF Sipi
<1>6. Typed' /\ VlapicInv' /\ StackInv'
  BY <1>1, <1>2, <1>3 DEF IInv, Typed, VlapicInv, StackInv
<1>7. BootInv' /\ RunInv' /\ RepeatInv'
  BY <1>2 DEF BootInv, RunInv, RepeatInv
<1>8. DbInv'
  BY <1>1, <1>2 DEF IInv, DbInv, AllIn, Top
<1>9. DueInv'
  <2>1. Voided
    BY DEF Voided
  <2> QED
    BY <1>1, <1>2, <2>1 DEF IInv, DueInv
<1>10. told[d] = vlapic["icr_low"]
  BY <1>4 DEF IInv, ToldInv
<1>11. ToldInv'
  <2>1. \A c \in Cores :
           /\ sipireceived[c] => told[c] # "none" /\ sipivector'[c] = told[c]
           /\ told[c] # "none" /\ ~sipireceived[c] => Sipi(c)'
           /\ Sipi(c)' /\ ~sipireceived[c] => told[c] = vlapic["icr_low"]
    BY <1>3, <1>4, <1>5, <1>10 DEF IInv, ToldInv
  <2>2. d = vlapic'["icr_high"] /\ Sipi(d)' /\ ~sipireceived'[d]
        /\ sipivector'[d] = told'[d]
    BY <1>1, <1>3, <1>5, <1>10
  <2> QED
    BY <1>1, <2>1, <2>2 DEF ToldInv
<1>12. ApInv'
  BY <1>1, <1>2 DEF IInv, ApInv
<1> QED
  BY <1>6, <1>7, <1>8, <1>9, <1>11, <1>12 DEF IInv

\* processSIPI halts, ignores the STARTUP IPI or stores its vector.
LEMMA ProcessKeeps == ASSUME IInv, ProcessSIPI PROVE IInv'
<1> USE Values
<1> DEFINE v == vlapic["icr_low"]
           d == vlapic["icr_high"]
           halts == v = "all" \/ d = Unknown
<1>1. /\ pc[BSP] = "db" /\ lapic_op = "write" /\ lapic_reg = "icr_low"
      /\ v \in Startups
      /\ UNCHANGED <<boot, sipireceived, cs, lapic_op, lapic_reg, saved, guest>>
  BY DEF ProcessSIPI
<1>2. ~halts => d \in Cores /\ v \in Vectors
  BY <1>1 DEF IInv, VlapicInv, Dests, Startups
<1>3. /\ \/ /\ halts /\ pc' = [pc EXCEPT ![BSP] = "halted"]
            /\ UNCHANGED <<sipivector, lapic, eflags>>
         \/ /\ ~halts /\ sipireceived[d]
            /\ Leave(AllReceived(sipireceived)) /\ UNCHANGED sipivector
         \/ /\ ~halts /\ ~sipireceived[d]
            /\ sipivector' = [sipivector EXCEPT ![d] = v]
            /\ pc' = [pc EXCEPT ![BSP] = "flag"]
            /\ UNCHANGED <<lapic, eflags>>
  BY DEF ProcessSIPI
<1>4. CASE halts /\ pc' = [pc EXCEPT ![BSP] = "halted"]
           /\ UNCHANGED <<sipivector, lapic, eflags>>
  <2>1. \A c \in Cores : ~Sipi(c)
    BY <1>4 DEF Sipi
  <2>2. UNCHANGED <<sipi, trap, guest>>
    BY <1>1, <1>4 DEF sipi, trap
  <2> QED
    BY <1>1, <1>4, <2>1, <2>2, HaltKeeps
<1>5. CASE ~halts /\ sipireceived[d]
           /\ Leave(AllReceived(sipireceived)) /\ UNCHANGED sipivector
  <2>1. d \in Cores /\ \A c \in Cores : Sipi(c) => c = d
    BY <1>2, <1>5 DEF Sipi
  <2>2. \A c \in Cores : /\ sipireceived[c] => /\ told[c] # "none"
                                               /\ sipivector[c] = told[c]
                         /\ told[c] # "none" => sipireceived[c]
    BY <1>5, <2>1 DEF IInv, ToldInv
  <2>3. UNCHANGED <<vlapic, stack, due, stray, told>>
    BY <1>1 DEF guest
  <2>4. due = <<>> /\ ~stray /\ ~AllIn /\ sipireceived \in [Cores -> BOOLEAN]
    BY <1>1 DEF IInv, DueInv, DbInv, Voided, Typed
  <2>5. Leave(FALSE)
    <3>1. ~AllReceived(sipireceived)
      BY <2>4 DEF AllIn, AllReceived
    <3> QED
      BY <1>5, <3>1 DEF Leave
  <2>6. ~AllIn'
    BY <1>1, <2>4 DEF AllIn
  <2>7. \A c \in Cores : /\ sipireceived[c] => sipireceived'[c]
                         /\ sipireceived'[c] => /\ told[c] # "none"
                                                /\ sipivector[c] = told[c]
                         /\ told[c] # "none" => sipireceived'[c]
    BY <1>1, <2>2
  <2>8. sipireceived' \in [Cores -> BOOLEAN] /\ due' = <<>> /\ ~stray'
    BY <1>1, <2>3, <2>4
  <2>9. pc[BSP] \in {"db", "flag"} /\ (FALSE <=> AllIn')
    BY <1>1, <2>6
  <2>10. UNCHANGED <<cs, lapic_op, lapic_reg, saved, vlapic, stack, told>>
         /\ sipivector' = sipivector
    BY <1>1, <1>5, <2>3
  <2> HIDE DEF v, d, halts
  <2> QED
    BY <2>5, <2>7, <2>8, <2>9, <2>10, LeaveKeeps, Zenon
<1>6. CASE ~halts /\ ~sipireceived[d]
           /\ sipivector' = [sipivector EXCEPT ![d] = v]
           /\ pc' = [pc EXCEPT ![BSP] = "flag"]
           /\ UNCHANGED <<lapic, eflags>>
  <2>1. UNCHANGED trap
    BY <1>1, <1>6 DEF trap
  <2> QED
    BY <1>1, <1>2, <1>6, <2>1, StoreKeeps, ZenonT(40)
<1> QED
  BY <1>3, <1>4, <1>5, <1>6

\* The flag the core waits for is set.
LEMMA SetKeeps == ASSUME IInv, SetSipiReceived PROVE IInv'
<1> USE Values
<1> DEFINE d == vlapic["icr_high"]
<1>1. /\ pc[BSP] = "flag"
      /\ sipireceived' = [sipireceived EXCEPT ![d] = TRUE]
      /\ Leave(AllReceived(sipireceived'))
      /\ UNCHANGED <<boot, sipivector, cs, lapic_op, lapic_reg, saved, guest>>
  BY DEF SetSipiReceived
<1>2. d \in Cores /\ Sipi(d) /\ ~sipireceived[d] /\ sipivector[d] = told[d]
  BY <1>1 DEF IInv, ToldInv
<1>3. told[d] # "none" /\ \A c \in Cores : Sipi(c) => c = d
  BY <1>2 DEF IInv, ToldInv, Sipi
<1>4. /\ sipireceived' \in [Cores -> BOOLEAN] /\ sipireceived'[d]
      /\ \A c \in Cores : c # d => sipireceived'[c] = sipireceived[c]
  BY <1>1, <1>2 DEF IInv, Typed
<1>5. UNCHANGED <<vlapic, stack, due, stray, told>> /\ due = <<>> /\ ~stray
  BY <1>1 DEF guest, IInv, DueInv
<1>6. AllReceived(sipireceived') <=> AllIn'
  BY DEF AllReceived, AllIn
<1>7. \A c \in Cores : /\ sipireceived[c] => sipireceived'[c]
                       /\ sipireceived'[c] => /\ told[c] # "none"
                                              /\ sipivector[c] = told[c]
                       /\ told[c] # "none" => sipireceived'[c]
  <2> HIDE DEF d
  <2>1. \A c \in Cores :
          /\ sipireceived[c] => told[c] # "none" /\ sipivector[c] = told[c]
          /\ told[c] # "none" /\ ~sipireceived[c] => Sipi(c)
    BY DEF IInv, ToldInv
  <2> QED
    BY <1>2, <1>3, <1>4, <2>1
<1>8. PICK e \in BOOLEAN : Leave(e) /\ (e <=> AllIn')
  <2>1. CASE AllIn'
    BY <1>1, <1>6, <2>1, Zenon DEF Leave
  <2>2. CASE ~AllIn'
    BY <1>1, <1>6, <2>2, Zenon DEF Leave
  <2> QED
    BY <2>1, <2>2
<1>9. /\ pc[BSP] \in {"db", "flag"} /\ due' = <<>> /\ ~stray'
      /\ UNCHANGED <<cs, lapic_op, lapic_reg, saved, vlapic, stack, told>>
      /\ sipivector' = sipivector
  BY <1>1, <1>5
<1> HIDE DEF d
<1> QED
  BY <1>4, <1>7, <1>8, <1>9, LeaveKeeps

-----------------------------------------------------------------------------
\* Every step keeps the invariant.
LEMMA Preserved == IInv /\ [Next]_vars => IInv'
<1> SUFFICES ASSUME IInv, [Next]_vars PROVE IInv'
  OBVIOUS
<1>1. CASE BspStep
  BY <1>1, BspRally, InitializeKeeps, DbKeeps, ProcessKeeps, SetKeeps DEF BspStep
<1>2. CASE GuestStep
  BY <1>2, FetchKeeps, InterruptKeeps, FaultKeeps, ExecuteFree, ExecuteRepeated,
     RetireKeeps DEF GuestStep
<1>3. CASE \E c \in APs : ApStep(c)
  BY <1>3, ApKeeps
<1>4. CASE UNCHANGED vars
  <2>1. /\ UNCHANGED <<trap, guest, sipireceived, sipivector>>
        /\ UNCHANGED <<pc, cs, told>>
    BY <1>4 DEF vars, sipi, guest
  <2>2. pc' \in [Cores -> States] /\ cs' \in [Cores -> Maybe]
    BY <2>1 DEF IInv, Typed
  <2>3. ApInv' /\ pc'[BSP] = pc[BSP]
    BY <2>1 DEF IInv, ApInv
  <2> QED
    BY <2>1, <2>2, <2>3, RallyKeeps
<1> QED
  BY <1>1, <1>2, <1>3, <1>4 DEF Next

\* The invariant of the boot and of the interception, of smpg-x86vmx.c, for any
\* set of APs and any vectors.
THEOREM Invariance == Spec => []IInv
BY Initially, Preserved, PTL DEF Spec

\* Every write of the guest to the LAPIC arrives there, once and unchanged, but
\* for the INIT and STARTUP IPIs that start the cores (smpg-x86vmx.c:391-425).
THEOREM WritesArrive == Spec => []IpisForwarded
<1>1. IInv => IpisForwarded
  BY DEF IInv, RunInv, RepeatInv, DueInv, IpisForwarded
<1> QED
  BY <1>1, Invariance, PTL

\* An AP enters the guest only when told to, at the vector of the first STARTUP
\* IPI sent to it (processSIPI, smpg-x86vmx.c:228-232).
THEOREM ApsStartAsTold == Spec => []ApStartsAsTold
<1>1. IInv => ApStartsAsTold
  BY Values DEF IInv, ApInv, ToldInv, ApStartsAsTold
<1> QED
  BY <1>1, Invariance, PTL

\* The guest gets back the flags it had when its access faulted, also when
\* interrupts arrive meanwhile (smpg-x86vmx.c:310-321, 449-451).
THEOREM FlagsComeBack == Spec => []GuestFlagsKept
<1>1. IInv => GuestFlagsKept
  <2> SUFFICES ASSUME IInv, pc[BSP] = "guest", stack # <<>>, Last(stack).ins = Done
               PROVE  eflags = IF Last(stack).irq THEN [tf |-> FALSE, if |-> FALSE]
                                                  ELSE Last(stack).ret
    BY DEF GuestFlagsKept
  <2>1. Last(stack) = Top
    BY TopFacts
  <2>2. eflags = Own(Top)
    BY <2>1 DEF IInv, RunInv, RepeatInv
  <2> QED
    BY <2>1, <2>2 DEF Own, Clear
<1> QED
  BY <1>1, Invariance, PTL

\* The page of the LAPIC is unmapped until the last AP has its STARTUP IPI, and
\* mapped from then on (smpg-x86vmx.c:440-446).
THEOREM InterceptionIsDelinked == Spec => []InterceptionEnds
<1>1. IInv => InterceptionEnds
  BY DEF IInv, RunInv, AllIn, InterceptionEnds
<1> QED
  BY <1>1, Invariance, PTL
=============================================================================
