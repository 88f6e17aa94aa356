------------------------------ MODULE SmpBoot ------------------------------
(***************************************************************************)
(* How the cores of the machine start on Intel VMX: the rally of the       *)
(* hypervisor (bplt-x86-smp.c, xmhf-startup/runtime.c), and then the       *)
(* interception of the BSP's LAPIC page (smpg-x86vmx.c), by which the      *)
(* hypervisor keeps the guest's INIT and STARTUP IPIs from the cores it    *)
(* runs on and starts the guest on them itself.                            *)
(*                                                                         *)
(* While intercepted, the LAPIC page is unmapped.  An access faults; the   *)
(* handler maps the page, to the LAPIC or, for the two halves of the       *)
(* interrupt command register, to a page of its own, and lets the guest    *)
(* repeat the instruction under the trap flag; the #DB handler then does   *)
(* what the access asked for and unmaps the page again.                    *)
(*                                                                         *)
(* The guest of the BSP is a stack of frames: the instruction it is at,    *)
(* and above it that of an interrupt handler.  Only instructions that      *)
(* access the LAPIC are shown.                                             *)
(***************************************************************************)
EXTENDS Integers, Sequences, SequencesExt, FiniteSets

CONSTANTS BSP, APs,
          Unknown,   \* a LAPIC id that is not in g_midtable
          Vectors    \* vectors of STARTUP IPIs

ASSUME ConstantsAssumption ==
    /\ IsFiniteSet(APs) /\ APs # {}
    /\ BSP \notin APs /\ Unknown \notin APs \cup {BSP}
    /\ Vectors \cap {"init", "all", "ipi", "eoi", "none"} = {}

Cores == APs \cup {BSP}
N     == Cardinality(Cores)    \* g_midtable_numentries

\* What the guest writes to the low half of the ICR: INIT, a STARTUP IPI with a
\* vector, one with a destination shorthand, any other IPI.
Startups  == Vectors \cup {"all"}
LowValues == Startups \cup {"init", "ipi"}

Instrs ==
    {[op |-> "write", reg |-> "icr_high", val |-> d] : d \in Cores \cup {Unknown}}
    \cup {[op |-> "write", reg |-> "icr_low", val |-> v] : v \in LowValues}
    \cup {[op |-> "read", reg |-> r, val |-> "none"] : r \in {"icr_low", "other"}}

\* The end of interrupt that an interrupt handler writes.
EOI  == [op |-> "write", reg |-> "other", val |-> "eoi"]
Done == [op |-> "done", reg |-> "other", val |-> "none"]

VARIABLES
    pc,                         \* what each core does
    g_cpus_active, g_ap_go_signal, g_appmain_success_counter,
    sipireceived, sipivector,   \* of the vcpu of each core
    cs,                         \* the vector at which a core entered the guest
    lapic,                      \* what the LAPIC page of the BSP is mapped to
    vlapic,                     \* g_vmx_virtual_LAPIC_base
    lapic_op, lapic_reg,        \* g_vmx_lapic_op, g_vmx_lapic_reg
    eflags,                     \* TF and IF of the BSP's guest
    saved,                      \* g_vmx_lapic_guest_eflags_tfifmask
    stack,                      \* the guest of the BSP
    due,                        \* history: writes the LAPIC is still to get
    stray,                      \* history: it got one it should not have
    told                        \* history: the first vector for each core

boot  == <<g_cpus_active, g_ap_go_signal, g_appmain_success_counter>>
sipi  == <<sipireceived, sipivector, cs>>
trap  == <<lapic, lapic_op, lapic_reg, eflags, saved>>
guest == <<vlapic, stack, due, stray, told>>
vars  == <<pc, boot, sipi, trap, guest>>

Flags == [tf : BOOLEAN, if : BOOLEAN]
Frame == [ins : Instrs \cup {EOI, Done}, irq : BOOLEAN, ret : Flags]

TypeOK ==
    /\ pc \in [Cores -> {"start", "waitactive", "go", "waitgo", "appmain",
                         "waitapp", "lapic", "guest", "db", "flag", "waitsipi",
                         "woken", "halted"}]
    /\ g_cpus_active \in 0..N
    /\ g_ap_go_signal \in BOOLEAN
    /\ g_appmain_success_counter \in 0..N
    /\ sipireceived \in [Cores -> BOOLEAN]
    /\ sipivector \in [Cores -> Vectors \cup {"none"}]
    /\ cs \in [Cores -> Vectors \cup {"none"}]
    /\ lapic \in {"unmapped", "virtual", "physical"}
    /\ DOMAIN vlapic = {"icr_low", "icr_high", "other"}
    /\ lapic_op \in {"read", "write", "rsvd"}
    /\ lapic_reg \in {"icr_low", "icr_high", "other"}
    /\ eflags \in Flags /\ saved \in Flags
    /\ stack \in Seq(Frame) /\ Len(stack) <= 2
    /\ Len(due) <= 1
    /\ stray \in BOOLEAN
    /\ told \in [Cores -> Vectors \cup {"none"}]

Init ==
    /\ pc = [c \in Cores |-> "start"]
    /\ g_cpus_active = 0
    /\ g_ap_go_signal = FALSE
    /\ g_appmain_success_counter = 0
    /\ sipireceived = [c \in Cores |-> FALSE]
    /\ sipivector = [c \in Cores |-> "none"]
    /\ cs = [c \in Cores |-> "none"]
    /\ lapic = "physical"
    /\ vlapic = [icr_low |-> "none", icr_high |-> BSP, other |-> "none"]
    /\ lapic_op = "rsvd"
    /\ lapic_reg = "other"
    /\ eflags = [tf |-> FALSE, if |-> TRUE]
    /\ saved = [tf |-> FALSE, if |-> FALSE]
    /\ stack = <<>>
    /\ due = <<>>
    /\ stray = FALSE
    /\ told = [c \in Cores |-> "none"]

-----------------------------------------------------------------------------
\* Core c goes on from one point to another.
Goto(c, from, to) == pc[c] = from /\ pc' = [pc EXCEPT ![c] = to]

\* The write w reaches the LAPIC; it is the one that is due, or it is a stray.
Reach(w, dues) ==
    IF dues # <<>> /\ Head(dues) = w
    THEN due' = Tail(dues) /\ UNCHANGED stray
    ELSE due' = dues /\ stray' = TRUE

\* Mutant of AllReceived: one core that has its STARTUP IPI is enough.
AnyReceived(received) == \E a \in APs : received[a]

\* have_all_cores_recievedSIPI
AllReceived(received) == \A a \in APs : received[a]

-----------------------------------------------------------------------------
(***************************************************************************)
(* The rally of the hypervisor.                                            *)
(***************************************************************************)

\* xmhf_baseplatform_arch_x86_smpinitialize_commonstart: every core counts
\* itself, the APs wait for the BSP, and the BSP for all of them.
CountActive(c) ==
    /\ Goto(c, "start", IF c = BSP THEN "waitactive" ELSE "waitgo")
    /\ g_cpus_active' = g_cpus_active + 1
    /\ UNCHANGED <<g_ap_go_signal, g_appmain_success_counter, sipi, trap, guest>>

\* Mutant of AwaitActive: it waits for one core too many.
AwaitTooMany ==
    /\ Goto(BSP, "waitactive", "go")
    /\ g_cpus_active > N
    /\ UNCHANGED <<boot, sipi, trap, guest>>

AwaitActive ==
    /\ Goto(BSP, "waitactive", "go")
    /\ g_cpus_active >= N
    /\ UNCHANGED <<boot, sipi, trap, guest>>

SetGoSignal ==
    /\ Goto(BSP, "go", "appmain")
    /\ g_ap_go_signal' = TRUE
    /\ UNCHANGED <<g_cpus_active, g_appmain_success_counter, sipi, trap, guest>>

AwaitGoSignal(c) ==
    /\ Goto(c, "waitgo", "appmain")
    /\ g_ap_go_signal
    /\ UNCHANGED <<boot, sipi, trap, guest>>

\* xmhf_runtime_main: the hypapp initialises on every core, and the BSP waits
\* for all cores once more.
CountAppMain(c) ==
    /\ Goto(c, "appmain", IF c = BSP THEN "waitapp" ELSE "waitsipi")
    /\ g_appmain_success_counter' = g_appmain_success_counter + 1
    /\ UNCHANGED <<g_cpus_active, g_ap_go_signal, sipi, trap, guest>>

AwaitAppMain ==
    /\ Goto(BSP, "waitapp", "lapic")
    /\ g_appmain_success_counter >= N
    /\ UNCHANGED <<boot, sipi, trap, guest>>

\* xmhf_smpguest_arch_x86vmx_initialize unmaps the LAPIC page of the BSP, which
\* then enters the guest.
Initialize ==
    /\ Goto(BSP, "lapic", "guest")
    /\ lapic' = "unmapped"
    /\ UNCHANGED <<boot, sipi, lapic_op, lapic_reg, eflags, saved, guest>>

\* Mutant of AwaitSipi: the core waits for the STARTUP IPIs of all cores.
AwaitAllSipis(c) ==
    /\ Goto(c, "waitsipi", "woken")
    /\ AllReceived(sipireceived)
    /\ UNCHANGED <<boot, sipi, trap, guest>>

\* while(!vcpu->sipireceived); then the AP reads the vector ...
AwaitSipi(c) ==
    /\ Goto(c, "waitsipi", "woken")
    /\ sipireceived[c]
    /\ UNCHANGED <<boot, sipi, trap, guest>>

\* ... and enters the guest there (postCPUwakeup).
PostCpuWakeup(c) ==
    /\ Goto(c, "woken", "guest")
    /\ cs' = [cs EXCEPT ![c] = sipivector[c]]
    /\ UNCHANGED <<boot, sipireceived, sipivector, trap, guest>>

-----------------------------------------------------------------------------
(***************************************************************************)
(* The guest on the BSP.                                                   *)
(***************************************************************************)

\* It comes to an instruction that accesses the LAPIC, with interrupts enabled
\* or not.
Fetch(ins) ==
    /\ pc[BSP] = "guest"
    /\ stack = <<>>
    /\ \E b \in BOOLEAN : eflags' = [eflags EXCEPT !.if = b]
    /\ stack' = <<[ins |-> ins, irq |-> FALSE, ret |-> eflags']>>
    /\ UNCHANGED <<pc, boot, sipi, lapic, lapic_op, lapic_reg, saved, vlapic,
                   due, stray, told>>

\* It is interrupted, at any instruction; the handler ends the interrupt by a
\* write to the LAPIC.  An interrupt gate clears TF and IF.
Interrupt ==
    /\ pc[BSP] = "guest"
    /\ eflags.if
    /\ Len(stack) < 2
    /\ stack' = Append(stack, [ins |-> EOI, irq |-> TRUE, ret |-> eflags])
    /\ eflags' = [tf |-> FALSE, if |-> FALSE]
    /\ UNCHANGED <<pc, boot, sipi, lapic, lapic_op, lapic_reg, saved, vlapic,
                   due, stray, told>>

\* It executes an instruction on the page the LAPIC is mapped to.  A write is
\* due at the LAPIC, unless it is an INIT or STARTUP IPI while some core still
\* waits for its STARTUP IPI.  Under the trap flag a #DB follows.
Execute ==
    LET ins  == Last(stack).ins
        w    == [reg |-> ins.reg, val |-> ins.val]
        held == /\ ins.reg = "icr_low" /\ ins.val \in Startups \cup {"init"}
                /\ \E a \in APs : ~sipireceived[a]
        dues == IF held THEN due ELSE Append(due, w)
        d    == vlapic.icr_high
    IN  /\ pc[BSP] = "guest"
        /\ stack # <<>> /\ ins # Done
        /\ lapic # "unmapped"
        /\ stack' = [stack EXCEPT ![Len(stack)].ins = Done]
        /\ \/ /\ ins.op = "read"
              /\ UNCHANGED <<vlapic, due, stray>>
           \/ /\ ins.op = "write" /\ lapic = "virtual"
              /\ vlapic' = [vlapic EXCEPT ![ins.reg] = ins.val]
              /\ due' = dues
              /\ UNCHANGED stray
           \/ /\ ins.op = "write" /\ lapic = "physical"
              /\ Reach(w, dues)
              /\ UNCHANGED vlapic
        /\ told' = IF held /\ ins.val \in Vectors /\ d # Unknown
                   THEN [told EXCEPT ![d] = IF @ = "none" THEN ins.val ELSE @]
                   ELSE told
        /\ pc' = [pc EXCEPT ![BSP] = IF eflags.tf THEN "db" ELSE "guest"]
        /\ UNCHANGED <<boot, sipi, trap>>

\* The instruction is over; a handler returns to what it interrupted.
Retire ==
    /\ pc[BSP] = "guest"
    /\ stack # <<>> /\ Last(stack).ins = Done
    /\ stack' = Front(stack)
    /\ eflags' = IF Last(stack).irq THEN Last(stack).ret ELSE eflags
    /\ UNCHANGED <<pc, boot, sipi, lapic, lapic_op, lapic_reg, saved, vlapic,
                   due, stray, told>>

-----------------------------------------------------------------------------
(***************************************************************************)
(* The handlers of the BSP.                                                *)
(***************************************************************************)

\* Mutant of Masked: interrupts stay enabled while the instruction is repeated.
TrapOnly(f) == [f EXCEPT !.tf = TRUE]

\* The flags under which the guest repeats the instruction.
Masked(f) == [f EXCEPT !.tf = TRUE, !.if = FALSE]

\* xmhf_smpguest_arch_x86vmx_eventhandler_hwpgtblviolation: the access faults.
HwPgTblViolation ==
    LET ins == Last(stack).ins
        icr == ins.reg \in {"icr_low", "icr_high"}
    IN  /\ pc[BSP] = "guest"
        /\ stack # <<>> /\ ins # Done
        /\ lapic = "unmapped"
        /\ lapic_reg' = ins.reg
        /\ lapic_op' = IF icr THEN ins.op ELSE "rsvd"
        /\ lapic' = IF icr THEN "virtual" ELSE "physical"
        /\ saved' = eflags
        /\ eflags' = Masked(eflags)
        /\ UNCHANGED <<pc, boot, sipi, guest>>

\* Mutant of Leave: the flags of the guest are not restored.
LeaveMasked(delink) ==
    /\ pc' = [pc EXCEPT ![BSP] = "guest"]
    /\ lapic' = IF delink THEN "physical" ELSE "unmapped"
    /\ eflags' = [saved EXCEPT !.if = FALSE]

\* How the #DB handler ends: the interception goes on unless it is to be
\* delinked, and the guest gets its flags back.
Leave(delink) ==
    /\ pc' = [pc EXCEPT ![BSP] = "guest"]
    /\ lapic' = IF delink THEN "physical" ELSE "unmapped"
    /\ eflags' = saved

\* xmhf_smpguest_arch_x86vmx_eventhandler_dbexception, for anything but a
\* STARTUP IPI: an INIT IPI is voided, any other write goes to the LAPIC.
DbException ==
    LET v == vlapic[lapic_reg]
        startup == lapic_op = "write" /\ lapic_reg = "icr_low" /\ v \in Startups
        void == lapic_op # "write" \/ (lapic_reg = "icr_low" /\ v = "init")
    IN  /\ pc[BSP] = "db"
        /\ ~startup
        /\ IF void THEN UNCHANGED <<due, stray>>
                   ELSE Reach([reg |-> lapic_reg, val |-> v], due)
        /\ Leave(FALSE)
        /\ UNCHANGED <<boot, sipi, lapic_op, lapic_reg, saved, vlapic, stack, told>>

\* Mutant of ProcessSIPI: a second STARTUP IPI replaces the vector.
ReplaceVector ==
    LET v == vlapic.icr_low
        d == vlapic.icr_high
        halts == v = "all" \/ d = Unknown
    IN  /\ pc[BSP] = "db"
        /\ lapic_op = "write" /\ lapic_reg = "icr_low" /\ v \in Startups
        /\ IF halts
           THEN /\ pc' = [pc EXCEPT ![BSP] = "halted"]
                /\ UNCHANGED <<sipivector, lapic, eflags>>
           ELSE /\ sipivector' = [sipivector EXCEPT ![d] = v]
                /\ pc' = [pc EXCEPT ![BSP] = "flag"]
                /\ UNCHANGED <<lapic, eflags>>
        /\ UNCHANGED <<boot, sipireceived, cs, lapic_op, lapic_reg, saved, guest>>

\* processSIPI: the hypervisor halts on a destination it does not know, ignores
\* a second STARTUP IPI, and stores the vector of a first one ...
ProcessSIPI ==
    LET v == vlapic.icr_low
        d == vlapic.icr_high
        halts == v = "all" \/ d = Unknown
    IN  /\ pc[BSP] = "db"
        /\ lapic_op = "write" /\ lapic_reg = "icr_low" /\ v \in Startups
        /\ \/ /\ halts
              /\ pc' = [pc EXCEPT ![BSP] = "halted"]
              /\ UNCHANGED <<sipivector, lapic, eflags>>
           \/ /\ ~halts /\ sipireceived[d]
              /\ Leave(AllReceived(sipireceived))
              /\ UNCHANGED sipivector
           \/ /\ ~halts /\ ~sipireceived[d]
              /\ sipivector' = [sipivector EXCEPT ![d] = v]
              /\ pc' = [pc EXCEPT ![BSP] = "flag"]
              /\ UNCHANGED <<lapic, eflags>>
        /\ UNCHANGED <<boot, sipireceived, cs, lapic_op, lapic_reg, saved, guest>>

\* ... before the flag the core waits for.
SetSipiReceived ==
    /\ pc[BSP] = "flag"
    /\ sipireceived' = [sipireceived EXCEPT ![vlapic.icr_high] = TRUE]
    /\ Leave(AllReceived(sipireceived'))
    /\ UNCHANGED <<boot, sipivector, cs, lapic_op, lapic_reg, saved, guest>>

-----------------------------------------------------------------------------
\* What the hypervisor does on core c: its start, and the handlers of the BSP.
ApStep(c) ==
    \/ CountActive(c) \/ AwaitGoSignal(c) \/ CountAppMain(c)
    \/ AwaitSipi(c) \/ PostCpuWakeup(c)

BspStep ==
    \/ CountActive(BSP) \/ AwaitActive \/ SetGoSignal
    \/ CountAppMain(BSP) \/ AwaitAppMain \/ Initialize
    \/ DbException \/ ProcessSIPI \/ SetSipiReceived

GuestStep ==
    \/ \E ins \in Instrs : Fetch(ins)
    \/ Interrupt \/ HwPgTblViolation \/ Execute \/ Retire

Next == BspStep \/ GuestStep \/ \E c \in APs : ApStep(c)

Spec == Init /\ [][Next]_vars

\* Every core runs, so what the hypervisor does on it goes on; nothing is
\* assumed of the guest.
FairSpec == Spec /\ WF_vars(BspStep) /\ \A c \in APs : WF_vars(ApStep(c))

-----------------------------------------------------------------------------
\* Every write of the guest reaches the LAPIC, as it was written and in its
\* turn, before the guest goes on; only the INIT and STARTUP IPIs by which it
\* starts the cores never do (smpg-x86vmx.c:391-425).
IpisForwarded == ~stray /\ (pc[BSP] = "guest" => due = <<>>)

\* A core enters the guest only when it is told to, at the vector of the first
\* STARTUP IPI, whatever else is sent to it meanwhile (smpg-x86vmx.c:228-232).
ApStartsAsTold ==
    \A a \in APs : pc[a] = "guest" => told[a] # "none" /\ cs[a] = told[a]

\* After the access the guest has the flags it had before, and its interrupt
\* handlers run with the trap flag clear (smpg-x86vmx.c:310-321, 449-451).
GuestFlagsKept ==
    pc[BSP] = "guest" /\ stack # <<>> /\ Last(stack).ins = Done =>
        eflags = IF Last(stack).irq THEN [tf |-> FALSE, if |-> FALSE]
                                    ELSE Last(stack).ret

\* Except while an access is repeated the page is unmapped, up to the STARTUP
\* IPI of the last AP and not beyond (smpg-x86vmx.c:440-446).
InterceptionEnds ==
    pc[BSP] = "guest" /\ ~eflags.tf =>
        lapic = IF \A a \in APs : sipireceived[a] THEN "physical" ELSE "unmapped"

\* The cores do not wait for each other for ever: the guest is started.
HypervisorBoots == <>(pc[BSP] = "guest")

\* A core that the guest starts does enter the guest, whether or not the guest
\* ever starts the others.
SipiStarts == \A a \in APs : told[a] # "none" ~> pc[a] = "guest"
=============================================================================
