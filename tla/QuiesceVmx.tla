----------------------------- MODULE QuiesceVmx -----------------------------
(***************************************************************************)
(* The quiesce protocol of the xmhf-secure-router hypervisor on Intel VMX  *)
(* (xmhf-smpguest/arch/x86/vmx/smpg-x86vmx.c): an intercept on one core    *)
(* stops all the others with an NMI, the hypapp handles the intercept, and *)
(* endquiesce hands the worker cores, one at a time, to prepare_context,   *)
(* which moves them into ring 3 of the hypervisor for good.                *)
(*                                                                         *)
(* Core 0 is lcore 0 (LAPIC id 0x0); cores 1..NW are the worker cores.     *)
(* The code unrolls the protocol for NW = 3 (ids 0xc, 0xe and 0x1a), with  *)
(* one variable c<i>_vmx_quiesce_resume_signal and c<i>_gdt_signal each.   *)
(* Others are cores whose id the switch of the NMI handler does not name.  *)
(*                                                                         *)
(* Every access to a shared variable is a step of its own, except that the *)
(* bodies protected by g_vmx_lock_quiesce_counter and by                   *)
(* g_vmx_lock_quiesce_resume_counter, which are one write each, are atomic.*)
(* The increments of the resume counter in prepare_context take no lock    *)
(* and are a load and a store.                                             *)
(***************************************************************************)
EXTENDS Integers, FiniteSets

CONSTANTS NW,          \* number of worker cores (3 in the code)
          Others,      \* cores the switch in the NMI handler does not name
          Initiators,  \* cores whose guest code causes intercepts
          Kinds,       \* the intercepts that occur, a subset of AllKinds
          Interruptible, \* workers whose LAPIC gets maskable interrupts
          MaxRounds,   \* bound: intercepts in a behaviour
          MaxGuestNMI  \* bound: NMIs that are not the quiesce IPI

Workers == 1..NW
Cores   == (0..NW) \cup Others
NoCore  == -1

\* A hypercall the hypapp knows, one it does not, an intercepted I/O port
\* access, an EPT violation.
AllKinds == {"vmcall", "badcall", "io", "ept"}

ASSUME ConstantsAssumption ==
    /\ NW \in Nat \ {0}
    /\ IsFiniteSet(Others)
    /\ Others \cap (-1..NW) = {}
    /\ Initiators \subseteq Cores
    /\ Kinds \subseteq AllKinds
    /\ Interruptible \subseteq Workers
    /\ MaxRounds \in Nat
    /\ MaxGuestNMI \in Nat

VARIABLES
    pc,               \* what each core does below its NMI handler
    h,                \* where each core is in the NMI handler
    nmi,              \* the NMI latched in the LAPIC of each core
    quiesced,         \* vcpu->quiesced
    g_vmx_quiesce,
    g_vmx_quiesce_counter,
    g_vmx_quiesce_resume_counter,
    g_vmx_lock_quiesce,       \* the core that holds the lock, or NoCore
    resume_signal,    \* c<i>_vmx_quiesce_resume_signal
    gdt_signal,       \* c<i>_gdt_signal
    k,                \* the stage endquiesce is at
    tmp,              \* register of each core: the loaded resume counter
    tss_esp0,         \* whose stack user_tss.esp0 points to
    mapped,           \* the application's pages are in the hypervisor's tables
    slave_resume,     \* slave_resume_signal of the DPDK application
    kind,             \* the intercept each core handles
    rounds, raised,   \* counters for the bounds
    injected,         \* NMIs injected into the guest
    halted            \* cores that an exception has stopped for good

shared == <<quiesced, g_vmx_quiesce, g_vmx_quiesce_counter,
            g_vmx_quiesce_resume_counter, g_vmx_lock_quiesce, resume_signal,
            gdt_signal>>
world  == <<tss_esp0, mapped, slave_resume, kind, rounds, raised, injected,
            halted>>
vars   == <<pc, h, nmi, shared, k, tmp, world>>

N == Cardinality(Cores)

\* The value endquiesce gives the resume counter when every stage is over (8
\* in the code, where the 2 * 3 stages count up to 6).
AllResumed == 2 * NW + 2

MainStates == {"guest", "lock", "mark", "reset", "announce", "signal",
               "collect", "app", "wake", "zero", "set", "await", "finish",
               "unmark", "close", "unlock", "user"}
HandlerStates == {"none", "entry", "count", "wait", "gdt", "tss", "load1",
                  "store1", "waitgdt", "load2", "store2", "waitall", "rally",
                  "clear"}

TypeOK ==
    /\ pc \in [Cores -> MainStates]
    /\ h \in [Cores -> HandlerStates]
    /\ nmi \in [Cores -> BOOLEAN]
    /\ quiesced \in [Cores -> BOOLEAN]
    /\ g_vmx_quiesce \in BOOLEAN
    /\ g_vmx_quiesce_counter \in Nat
    /\ g_vmx_quiesce_resume_counter \in Nat
    /\ g_vmx_lock_quiesce \in Cores \cup {NoCore}
    /\ resume_signal \in [0..NW -> BOOLEAN]
    /\ gdt_signal \in [Workers -> BOOLEAN]
    /\ k \in 0..2 * NW
    /\ tmp \in [Cores -> Nat]
    /\ tss_esp0 \in Cores \cup {NoCore}
    /\ mapped \in BOOLEAN
    /\ slave_resume \in BOOLEAN
    /\ kind \in [Cores -> AllKinds]
    /\ rounds \in 0..MaxRounds
    /\ raised \in 0..MaxGuestNMI
    /\ injected \in Nat
    /\ halted \subseteq Cores

Init ==
    /\ pc = [c \in Cores |-> "guest"]
    /\ h = [c \in Cores |-> "none"]
    /\ nmi = [c \in Cores |-> FALSE]
    /\ quiesced = [c \in Cores |-> FALSE]
    /\ g_vmx_quiesce = FALSE
    /\ g_vmx_quiesce_counter = 0
    /\ g_vmx_quiesce_resume_counter = 0
    /\ g_vmx_lock_quiesce = NoCore
    /\ resume_signal = [i \in 0..NW |-> FALSE]
    /\ gdt_signal = [i \in Workers |-> FALSE]
    /\ k = 0
    /\ tmp = [c \in Cores |-> 0]
    /\ tss_esp0 = NoCore
    /\ mapped = FALSE
    /\ slave_resume = FALSE
    /\ kind = [c \in Cores |-> "vmcall"]
    /\ rounds = 0
    /\ raised = 0
    /\ injected = 0
    /\ halted = {}

-----------------------------------------------------------------------------
\* A step of core c outside its NMI handler.
Main(c, from, to) ==
    /\ pc[c] = from
    /\ h[c] = "none" /\ c \notin halted
    /\ pc' = [pc EXCEPT ![c] = to]

\* A step of core c in its NMI handler that leaves the rest of c alone.
Handler(c, from, to) ==
    /\ h[c] = from /\ c \notin halted
    /\ h' = [h EXCEPT ![c] = to]
    /\ UNCHANGED <<pc, nmi>>

-----------------------------------------------------------------------------
(***************************************************************************)
(* Mutants: actions as a plausible slip in the code would make them.  Each *)
(* is used by a mutation run only; Next does not contain them.             *)
(***************************************************************************)

\* The quiesce flag is not set before the NMI is sent.
AnnounceNothing(c) ==
    /\ Main(c, "announce", "signal")
    /\ UNCHANGED <<h, nmi, shared, k, tmp, world>>

\* The initiator waits for one core too few.
CollectTooFew(c) ==
    /\ Main(c, "collect", "app")
    /\ g_vmx_quiesce_counter >= N - 2
    /\ UNCHANGED <<h, nmi, shared, k, tmp, world>>

\* The initiator waits for itself, too.
CollectTooMany(c) ==
    /\ Main(c, "collect", "app")
    /\ g_vmx_quiesce_counter >= N
    /\ UNCHANGED <<h, nmi, shared, k, tmp, world>>

\* endquiesce goes on to the next stage without waiting for the worker.
AwaitNothing(c) ==
    /\ Main(c, "await", IF k < 2 * NW THEN "set" ELSE "finish")
    /\ UNCHANGED <<h, nmi, shared, k, tmp, world>>

\* The bounds of the wait loops of endquiesce are one too small.
AwaitPreviousStage(c) ==
    /\ Main(c, "await", IF k < 2 * NW THEN "set" ELSE "finish")
    /\ g_vmx_quiesce_resume_counter >= k - 1
    /\ UNCHANGED <<h, nmi, shared, k, tmp, world>>

\* The bounds of the wait loops of endquiesce are one too large.
AwaitNextStage(c) ==
    /\ Main(c, "await", IF k < 2 * NW THEN "set" ELSE "finish")
    /\ g_vmx_quiesce_resume_counter >= k + 1
    /\ UNCHANGED <<h, nmi, shared, k, tmp, world>>

\* The last wait of prepare_context ends when the first pass is complete.
SwitchTooEarly(c) ==
    /\ h[c] = "waitall" /\ c \notin halted
    /\ g_vmx_quiesce_resume_counter >= NW
    /\ h' = [h EXCEPT ![c] = "none"]
    /\ pc' = [pc EXCEPT ![c] = "user"]
    /\ UNCHANGED <<nmi, shared, k, tmp, world>>

\* The NMI is sent once more when the wait for the others is over.
CollectAndSignal(c) ==
    /\ Main(c, "collect", "app")
    /\ g_vmx_quiesce_counter >= N - 1
    /\ nmi' = [d \in Cores |-> d # c \/ nmi[d]]
    /\ UNCHANGED <<h, shared, k, tmp, world>>

-----------------------------------------------------------------------------
(***************************************************************************)
(* The core that handles an intercept.                                     *)
(***************************************************************************)

\* A VMCALL, an intercepted I/O instruction or an EPT violation outside the
\* LAPIC page: each handler calls quiesce, the hypapp, endquiesce.
Intercept(c) ==
    /\ c \in Initiators
    /\ rounds < MaxRounds
    /\ Main(c, "guest", "lock")
    /\ rounds' = rounds + 1
    /\ \E kd \in Kinds : kind' = [kind EXCEPT ![c] = kd]
    /\ UNCHANGED <<h, nmi, shared, k, tmp, tss_esp0, mapped, slave_resume,
                   raised, injected, halted>>

LockQuiesce(c) ==
    /\ Main(c, "lock", "mark")
    /\ g_vmx_lock_quiesce = NoCore
    /\ g_vmx_lock_quiesce' = c
    /\ UNCHANGED <<h, nmi, quiesced, g_vmx_quiesce, g_vmx_quiesce_counter,
                   g_vmx_quiesce_resume_counter, resume_signal, gdt_signal,
                   k, tmp, world>>

MarkQuiesced(c) ==
    /\ Main(c, "mark", "reset")
    /\ quiesced' = [quiesced EXCEPT ![c] = TRUE]
    /\ UNCHANGED <<h, nmi, g_vmx_quiesce, g_vmx_quiesce_counter,
                   g_vmx_quiesce_resume_counter, g_vmx_lock_quiesce,
                   resume_signal, gdt_signal, k, tmp, world>>

ResetCounter(c) ==
    /\ Main(c, "reset", "announce")
    /\ g_vmx_quiesce_counter' = 0
    /\ UNCHANGED <<h, nmi, quiesced, g_vmx_quiesce,
                   g_vmx_quiesce_resume_counter, g_vmx_lock_quiesce,
                   resume_signal, gdt_signal, k, tmp, world>>

Announce(c) ==
    /\ Main(c, "announce", "signal")
    /\ g_vmx_quiesce' = TRUE
    /\ UNCHANGED <<h, nmi, quiesced, g_vmx_quiesce_counter,
                   g_vmx_quiesce_resume_counter, g_vmx_lock_quiesce,
                   resume_signal, gdt_signal, k, tmp, world>>

\* The NMI goes to all cores but the sender.  An NMI that is already latched
\* is not latched twice.
SendQuiesceSignal(c) ==
    /\ Main(c, "signal", "collect")
    /\ nmi' = [d \in Cores |-> d # c \/ nmi[d]]
    /\ UNCHANGED <<h, shared, k, tmp, world>>

\* while(g_vmx_quiesce_counter < (g_midtable_numentries-1) );
Collect(c) ==
    /\ Main(c, "collect", "app")
    /\ g_vmx_quiesce_counter >= N - 1
    /\ UNCHANGED <<h, nmi, shared, k, tmp, world>>

\* The hypapp.  The quiesce hypercall copies the application's memory map into
\* the hypervisor's page tables and then sets *slave_resume_signal_p.  For an
\* unknown hypercall it prints a message and reports APP_SUCCESS all the same,
\* so that the halt of the event hub is never reached; the handlers of the other
\* intercepts change nothing either.
HandleApp(c) ==
    /\ \/ /\ kind[c] = "vmcall"
          /\ Main(c, "app", "wake")
          /\ mapped' = TRUE
       \/ /\ kind[c] # "vmcall"
          /\ Main(c, "app", "zero")
          /\ UNCHANGED mapped
    /\ UNCHANGED <<h, nmi, shared, k, tmp, tss_esp0, slave_resume, kind,
                   rounds, raised, injected, halted>>

WakeSlaves(c) ==
    /\ Main(c, "wake", "zero")
    /\ slave_resume' = TRUE
    /\ UNCHANGED <<h, nmi, shared, k, tmp, tss_esp0, mapped, kind, rounds,
                   raised, injected, halted>>

\* endquiesce: the resume counter starts again from zero.
ZeroResumeCounter(c) ==
    /\ Main(c, "zero", "set")
    /\ g_vmx_quiesce_resume_counter' = 0
    /\ k' = 0
    /\ UNCHANGED <<h, nmi, quiesced, g_vmx_quiesce, g_vmx_quiesce_counter,
                   g_vmx_lock_quiesce, resume_signal, gdt_signal, tmp, world>>

\* Stage k + 1 of endquiesce releases one worker: stages 1..NW let worker k + 1
\* leave the NMI handler's wait, stages NW+1..2*NW let it load its tables.
SetSignal(c) ==
    /\ Main(c, "set", "await")
    /\ k' = k + 1
    /\ IF k < NW
       THEN /\ resume_signal' = [resume_signal EXCEPT ![k + 1] = TRUE]
            /\ UNCHANGED gdt_signal
       ELSE /\ gdt_signal' = [gdt_signal EXCEPT ![k + 1 - NW] = TRUE]
            /\ UNCHANGED resume_signal
    /\ UNCHANGED <<h, nmi, quiesced, g_vmx_quiesce, g_vmx_quiesce_counter,
                   g_vmx_quiesce_resume_counter, g_vmx_lock_quiesce, tmp, world>>

\* while(g_vmx_quiesce_resume_counter < k);
AwaitStage(c) ==
    /\ Main(c, "await", IF k < 2 * NW THEN "set" ELSE "finish")
    /\ g_vmx_quiesce_resume_counter >= k
    /\ UNCHANGED <<h, nmi, shared, k, tmp, world>>

FinishResume(c) ==
    /\ Main(c, "finish", "unmark")
    /\ g_vmx_quiesce_resume_counter' = AllResumed
    /\ UNCHANGED <<h, nmi, quiesced, g_vmx_quiesce, g_vmx_quiesce_counter,
                   g_vmx_lock_quiesce, resume_signal, gdt_signal, k, tmp, world>>

UnmarkQuiesced(c) ==
    /\ Main(c, "unmark", "close")
    /\ quiesced' = [quiesced EXCEPT ![c] = FALSE]
    /\ UNCHANGED <<h, nmi, g_vmx_quiesce, g_vmx_quiesce_counter,
                   g_vmx_quiesce_resume_counter, g_vmx_lock_quiesce,
                   resume_signal, gdt_signal, k, tmp, world>>

CloseQuiesce(c) ==
    /\ Main(c, "close", "unlock")
    /\ g_vmx_quiesce' = FALSE
    /\ UNCHANGED <<h, nmi, quiesced, g_vmx_quiesce_counter,
                   g_vmx_quiesce_resume_counter, g_vmx_lock_quiesce,
                   resume_signal, gdt_signal, k, tmp, world>>

UnlockQuiesce(c) ==
    /\ Main(c, "unlock", "guest")
    /\ g_vmx_lock_quiesce' = NoCore
    /\ UNCHANGED <<h, nmi, quiesced, g_vmx_quiesce, g_vmx_quiesce_counter,
                   g_vmx_quiesce_resume_counter, resume_signal, gdt_signal,
                   k, tmp, world>>

-----------------------------------------------------------------------------
(***************************************************************************)
(* The NMI handler.  Further NMIs are blocked until the handler returns,   *)
(* or until the iretl of switch_to_user_space.                             *)
(***************************************************************************)

\* An NMI that nothing in this protocol sent (a watchdog of the guest, say).
RaiseGuestNMI(c) ==
    /\ raised < MaxGuestNMI
    /\ raised' = raised + 1
    /\ nmi' = [nmi EXCEPT ![c] = TRUE]
    /\ UNCHANGED <<pc, h, shared, k, tmp, tss_esp0, mapped, slave_resume, kind,
                   rounds, injected, halted>>

\* A core takes a latched NMI wherever it is: a VM exit from the guest, the
\* hypervisor's own IDT (xcph-x86.c) in the hypervisor and in ring 3, there on the
\* one stack user_tss.esp0 points to.
TakeNMI(c) ==
    /\ nmi[c]
    /\ h[c] = "none" /\ c \notin halted
    /\ nmi' = [nmi EXCEPT ![c] = FALSE]
    /\ h' = [h EXCEPT ![c] = "entry"]
    /\ UNCHANGED <<pc, shared, k, tmp, world>>

\* The IDT stub (xcph-stubs.S) loads DS for the hypervisor and does not restore
\* it, and its iretl to ring 3 clears a DS of ring 0: the core faults at its next
\* access to memory, and the default case of xmhf_xcphandler_hub halts it.
ReturnFromNmi(c) ==
    halted' = IF pc[c] = "user" THEN halted \cup {c} ELSE halted

\* Outside a quiesce, an NMI whose VM exit came from the guest is injected
\* back, unless the exception bitmap has the bit the code tests, that of #DB, set
\* while a LAPIC access is stepped.  The exit reason of a core inside another
\* intercept says the NMI did not come from the guest, and a core in ring 3 never
\* enters the guest again.
NmiOutsideQuiesce(c) ==
    /\ Handler(c, "entry", "none")
    /\ ~g_vmx_quiesce
    /\ \/ pc[c] = "guest" /\ injected' = injected + 1
       \/ UNCHANGED injected
    /\ ReturnFromNmi(c)
    /\ UNCHANGED <<shared, k, tmp, tss_esp0, mapped, slave_resume, kind, rounds,
                   raised>>

\* "if this core has been quiesced, simply return"
NmiAlreadyQuiesced(c) ==
    /\ Handler(c, "entry", "none")
    /\ g_vmx_quiesce /\ quiesced[c]
    /\ ReturnFromNmi(c)
    /\ UNCHANGED <<shared, k, tmp, tss_esp0, mapped, slave_resume, kind, rounds,
                   raised, injected>>

NmiQuiesce(c) ==
    /\ Handler(c, "entry", "count")
    /\ g_vmx_quiesce /\ ~quiesced[c]
    /\ quiesced' = [quiesced EXCEPT ![c] = TRUE]
    /\ UNCHANGED <<g_vmx_quiesce, g_vmx_quiesce_counter,
                   g_vmx_quiesce_resume_counter, g_vmx_lock_quiesce,
                   resume_signal, gdt_signal, k, tmp, world>>

\* A core the switch does not name has nothing to wait for.
CountQuiesced(c) ==
    /\ Handler(c, "count", IF c \in Others THEN "rally" ELSE "wait")
    /\ g_vmx_quiesce_counter' = g_vmx_quiesce_counter + 1
    /\ UNCHANGED <<quiesced, g_vmx_quiesce, g_vmx_quiesce_resume_counter,
                   g_vmx_lock_quiesce, resume_signal, gdt_signal, k, tmp, world>>

\* while(!c<i>_vmx_quiesce_resume_signal); core 0 then leaves the switch, a
\* worker sets IF and goes on to prepare_context.
WaitResume(c) ==
    /\ Handler(c, "wait", IF c = 0 THEN "rally" ELSE "gdt")
    /\ resume_signal[c]
    /\ UNCHANGED <<shared, k, tmp, world>>

\* update_gdt_remote_core rewrites the one GDT and the one TSS all cores share:
\* write_tss clears user_tss ...
UpdateGdt(c) ==
    /\ Handler(c, "gdt", "tss")
    /\ tss_esp0' = NoCore
    /\ UNCHANGED <<shared, k, tmp, mapped, slave_resume, kind, rounds, raised,
                   injected, halted>>

\* ... and then makes esp0 the stack of this core.
WriteTss(c) ==
    /\ Handler(c, "tss", "load1")
    /\ tss_esp0' = c
    /\ UNCHANGED <<shared, k, tmp, mapped, slave_resume, kind, rounds, raised,
                   injected, halted>>

\* g_vmx_quiesce_resume_counter++ in prepare_context, without a lock.
LoadResumeCounter(c) ==
    /\ \/ Handler(c, "load1", "store1")
       \/ Handler(c, "load2", "store2")
    /\ tmp' = [tmp EXCEPT ![c] = g_vmx_quiesce_resume_counter]
    /\ UNCHANGED <<shared, k, world>>

StoreResumeCounter(c) ==
    /\ \/ Handler(c, "store1", "waitgdt")
       \/ Handler(c, "store2", "waitall")
    /\ g_vmx_quiesce_resume_counter' = tmp[c] + 1
    /\ UNCHANGED <<quiesced, g_vmx_quiesce, g_vmx_quiesce_counter,
                   g_vmx_lock_quiesce, resume_signal, gdt_signal, k, tmp, world>>

\* while(!c<i>_gdt_signal); then the core reloads its GDT and IDT registers.
WaitGdt(c) ==
    /\ Handler(c, "waitgdt", "load2")
    /\ gdt_signal[c]
    /\ UNCHANGED <<shared, k, tmp, world>>

\* With IF set a maskable interrupt reaches a worker in prepare_context.  The IDT of
\* the hypervisor has gates for the 32 exceptions and for the two vectors the hypapp
\* adds.  One of these, 0xEF, returns and is left out; any other vector is, or ends
\* in, an exception that xmhf_xcphandler_hub has no case for and halts the core.
InterruptHalts(c) ==
    /\ c \in Interruptible
    /\ h[c] \in {"gdt", "tss", "load1", "store1", "waitgdt", "load2", "store2",
                 "waitall"}
    /\ halted' = halted \cup {c}
    /\ UNCHANGED <<pc, h, nmi, shared, k, tmp, tss_esp0, mapped, slave_resume, kind,
                   rounds, raised, injected>>

\* while(g_vmx_quiesce_resume_counter<8); switch_to_user_space clears IF for good
\* and never returns: its iretl ends the handler, and vcpu->quiesced stays set.
SwitchToUserSpace(c) ==
    /\ h[c] = "waitall" /\ c \notin halted
    /\ g_vmx_quiesce_resume_counter >= AllResumed
    /\ h' = [h EXCEPT ![c] = "none"]
    /\ pc' = [pc EXCEPT ![c] = "user"]
    /\ UNCHANGED <<nmi, shared, k, tmp, world>>

\* The cores that do not go to user space rally under the lock ...
RallyResume(c) ==
    /\ Handler(c, "rally", "clear")
    /\ g_vmx_quiesce_resume_counter' = g_vmx_quiesce_resume_counter + 1
    /\ UNCHANGED <<quiesced, g_vmx_quiesce, g_vmx_quiesce_counter,
                   g_vmx_lock_quiesce, resume_signal, gdt_signal, k, tmp, world>>

\* ... and return to what the NMI interrupted.
ClearQuiesced(c) ==
    /\ Handler(c, "clear", "none")
    /\ quiesced' = [quiesced EXCEPT ![c] = FALSE]
    /\ UNCHANGED <<g_vmx_quiesce, g_vmx_quiesce_counter,
                   g_vmx_quiesce_resume_counter, g_vmx_lock_quiesce,
                   resume_signal, gdt_signal, k, tmp, world>>

-----------------------------------------------------------------------------
\* What core c does in the hypervisor once it is there.
HypervisorStep(c) ==
    \/ LockQuiesce(c) \/ MarkQuiesced(c) \/ ResetCounter(c) \/ Announce(c)
    \/ SendQuiesceSignal(c) \/ Collect(c) \/ HandleApp(c) \/ WakeSlaves(c)
    \/ ZeroResumeCounter(c) \/ SetSignal(c) \/ AwaitStage(c)
    \/ FinishResume(c) \/ UnmarkQuiesced(c) \/ CloseQuiesce(c)
    \/ UnlockQuiesce(c)
    \/ TakeNMI(c) \/ NmiOutsideQuiesce(c) \/ NmiAlreadyQuiesced(c)
    \/ NmiQuiesce(c) \/ CountQuiesced(c) \/ WaitResume(c) \/ UpdateGdt(c)
    \/ WriteTss(c) \/ LoadResumeCounter(c) \/ StoreResumeCounter(c)
    \/ WaitGdt(c) \/ SwitchToUserSpace(c) \/ RallyResume(c) \/ ClearQuiesced(c)

Next ==
    \E c \in Cores : \/ HypervisorStep(c) \/ Intercept(c) \/ RaiseGuestNMI(c)
                    \/ InterruptHalts(c)

Spec == Init /\ [][Next]_vars

\* A core that can take a step in the hypervisor takes it: cores run in
\* parallel, and what interrupts the hypervisor is modelled.  The guest may never
\* cause an intercept, and foreign NMIs and interrupts may never come.
Fairness == \A c \in Cores : WF_vars(HypervisorStep(c))

FairSpec == Spec /\ Fairness

-----------------------------------------------------------------------------
(***************************************************************************)
(* Properties.                                                             *)
(***************************************************************************)

\* While the hypapp handles an intercept, no other core executes guest or
\* application code: each is held in its NMI handler (smpg-x86vmx.c, quiesce:
\* "switch all guest cores into hypervisor mode").
StopTheWorld ==
    \A c \in Cores : pc[c] \in {"app", "wake"} =>
        \A d \in Cores \ {c} : h[d] \notin {"none", "entry"}

\* At most one core is between the first write to the shared GDT and TSS and the
\* store of the resume counter that tells endquiesce it is done, and none
\* once a core is in ring 3, which needs the stack in user_tss: the staged
\* release of endquiesce replaces the lock that update_gdt_remote_core and
\* the increments in prepare_context do without.
UpdateSerial ==
    /\ \A c, d \in Cores :
          /\ h[c] \in {"gdt", "tss", "load1", "store1", "load2", "store2"}
          /\ h[d] \in {"gdt", "tss", "load1", "store1", "load2", "store2"}
          => c = d
    /\ \A c \in Cores : pc[c] = "user" => tss_esp0 = NW

\* No increment of the resume counter is lost, though it is a load and a store
\* without a lock: endquiesce ends its stages only when every worker has passed
\* the point at which the last of them has it wait.
StageMeansReleased ==
    \A c \in Cores : pc[c] \in {"finish", "unmark", "close", "unlock"} =>
        \A w \in Workers : h[w] = "waitall" \/ pc[w] = "user"

\* When the first intercept is the router's hypercall, a worker enters ring 3
\* only after the application's pages are mapped and its wait loop has been
\* released, and only when every worker has taken over the new GDT.
UserSpaceReady ==
    rounds = 1 /\ (\A c \in Cores : kind[c] = "vmcall") =>
        \A w \in Cores : pc[w] = "user" =>
            /\ mapped /\ slave_resume
            /\ \A v \in Workers : h[v] = "waitall" \/ pc[v] = "user"

\* As long as there is one intercept and no foreign NMI, no core is halted in ring
\* 3, whichever core the intercept is on and whether or not the NMI handler names
\* it: each core takes the quiesce IPI once, before it gets there, and none is left
\* latched for ring 3, where the return from it would be fatal.
UserCoresRun ==
    rounds <= 1 /\ raised = 0 =>
        \A c \in Cores : pc[c] = "user" => c \notin halted

\* An NMI is injected into the guest only if it was raised outside the protocol:
\* the quiesce IPI never reaches the guest.
NoSpuriousNMI == injected <= raised

\* An intercept gets through its quiesce as long as no worker has gone to ring 3
\* or was halted on its way:
\* "the quiesce counter, all CPUs except for the one requesting the quiesce will
\* increment this when they get their quiesce signal" (smpg-x86vmx-data.c).  A
\* core in ring 3 has vcpu->quiesced set and never counts again.
QuiesceCompletes ==
    \A c \in Cores : pc[c] = "collect" ~> \/ pc[c] = "app"
                                          \/ \E w \in Workers : pc[w] = "user"
                                          \/ halted # {}

\* The hypercall of lcore 0 returns to the guest, with every worker in ring 3:
\* endquiesce is "in atomic processsing mode" for its core (smpg-x86vmx.c).
HypercallReturns ==
    (pc[0] = "lock") ~> (pc[0] = "guest" /\ \A w \in Workers : pc[w] = "user")

\* It does return as long as no second intercept, no foreign NMI and no interrupt
\* in prepare_context comes in between.
LoneHypercallReturns ==
    (pc[0] = "lock" /\ rounds = 1) ~>
        \/ pc[0] = "guest" /\ \A w \in Workers : pc[w] = "user"
        \/ rounds > 1 \/ raised > 0 \/ halted # {}
=============================================================================
