----------------------------- MODULE QuiesceSvm -----------------------------
(***************************************************************************)
(* The quiesce protocol of the hypervisor on AMD SVM                       *)
(* (xmhf-smpguest/arch/x86/svm/smpg-x86svm.c), which is symmetric in the   *)
(* cores and sends every core back to the guest.                           *)
(*                                                                         *)
(* After a #VMEXIT the global interrupt flag is clear and the host does    *)
(* not set it, except in _svm_handle_nmi: a core takes NMIs while it runs  *)
(* the guest, and holds them pending in every other state.                 *)
(*                                                                         *)
(* Every access to a shared variable is a step of its own; the bodies      *)
(* under the counter and signal locks, one access each, are atomic.        *)
(***************************************************************************)
EXTENDS Integers, FiniteSets

CONSTANTS Cores,
          NoCore,
          Initiators,  \* cores whose guest code causes intercepts
          MaxRounds,   \* bound: intercepts in a behaviour
          MaxGuestNMI  \* bound: NMIs that are not the quiesce IPI

ASSUME ConstantsAssumption ==
    /\ IsFiniteSet(Cores)
    /\ NoCore \notin Cores
    /\ Initiators \subseteq Cores
    /\ MaxRounds \in Nat
    /\ MaxGuestNMI \in Nat

VARIABLES
    pc,            \* what each core does: guest, quiesce, hypapp, endquiesce
    h,             \* where each core is in the NMI handler
    nmi,           \* the NMI pending at each core
    quiesced,      \* vcpu->quiesced
    g_svm_quiesce,
    g_svm_quiesce_counter,
    g_svm_quiesce_resume_counter,
    g_svm_lock_quiesce,            \* the core that holds the lock, or NoCore
    g_svm_quiesce_resume_signal,
    rounds, raised,                \* counters for the bounds
    injected                       \* NMIs injected into the guest

counts == <<rounds, raised, injected>>
vars   == <<pc, h, nmi, quiesced, g_svm_quiesce, g_svm_quiesce_counter,
            g_svm_quiesce_resume_counter, g_svm_lock_quiesce,
            g_svm_quiesce_resume_signal, counts>>

N == Cardinality(Cores)

MainStates == {"guest", "lock", "mark", "reset", "announce", "signal",
               "collect", "app", "zero", "release", "rally", "unmark", "close",
               "clear", "unlock"}
HandlerStates == {"none", "entry", "count", "wait", "rally", "done"}

TypeOK ==
    /\ pc \in [Cores -> MainStates]
    /\ h \in [Cores -> HandlerStates]
    /\ nmi \in [Cores -> BOOLEAN]
    /\ quiesced \in [Cores -> BOOLEAN]
    /\ g_svm_quiesce \in BOOLEAN
    /\ g_svm_quiesce_counter \in Nat
    /\ g_svm_quiesce_resume_counter \in Nat
    /\ g_svm_lock_quiesce \in Cores \cup {NoCore}
    /\ g_svm_quiesce_resume_signal \in BOOLEAN
    /\ rounds \in 0..MaxRounds
    /\ raised \in 0..MaxGuestNMI
    /\ injected \in Nat

Init ==
    /\ pc = [c \in Cores |-> "guest"]
    /\ h = [c \in Cores |-> "none"]
    /\ nmi = [c \in Cores |-> FALSE]
    /\ quiesced = [c \in Cores |-> FALSE]
    /\ g_svm_quiesce = FALSE
    /\ g_svm_quiesce_counter = 0
    /\ g_svm_quiesce_resume_counter = 0
    /\ g_svm_lock_quiesce = NoCore
    /\ g_svm_quiesce_resume_signal = FALSE
    /\ rounds = 0
    /\ raised = 0
    /\ injected = 0

-----------------------------------------------------------------------------
\* A step of core c on its way through an intercept.  The core is not in its NMI
\* handler, and takes no NMI before it is back in the guest.
Main(c, from, to) ==
    /\ pc[c] = from
    /\ h[c] = "none"
    /\ pc' = [pc EXCEPT ![c] = to]
    /\ UNCHANGED h

\* A step of core c in its NMI handler.
Handler(c, from, to) ==
    /\ h[c] = from
    /\ h' = [h EXCEPT ![c] = to]
    /\ UNCHANGED pc

-----------------------------------------------------------------------------
(***************************************************************************)
(* Mutants: actions as a plausible slip in the code would make them, used  *)
(* by mutation runs only.                                                  *)
(***************************************************************************)

\* The wait of quiesce ends one core too early.
CollectTooFew(c) ==
    /\ Main(c, "collect", "app")
    /\ g_svm_quiesce_counter >= N - 2
    /\ UNCHANGED <<nmi, quiesced, g_svm_quiesce, g_svm_quiesce_counter,
                   g_svm_quiesce_resume_counter, g_svm_lock_quiesce,
                   g_svm_quiesce_resume_signal, counts>>

\* quiesce does not reset its counter.
ResetNothing(c) ==
    /\ Main(c, "reset", "announce")
    /\ UNCHANGED <<nmi, quiesced, g_svm_quiesce, g_svm_quiesce_counter,
                   g_svm_quiesce_resume_counter, g_svm_lock_quiesce,
                   g_svm_quiesce_resume_signal, counts>>

\* endquiesce does not take the resume signal back.
ClearNothing(c) ==
    /\ Main(c, "clear", "unlock")
    /\ UNCHANGED <<nmi, quiesced, g_svm_quiesce, g_svm_quiesce_counter,
                   g_svm_quiesce_resume_counter, g_svm_lock_quiesce,
                   g_svm_quiesce_resume_signal, counts>>

\* The NMI handler leaves vcpu->quiesced set.
DoneStillQuiesced(c) ==
    /\ Handler(c, "done", "none")
    /\ UNCHANGED <<nmi, quiesced, g_svm_quiesce, g_svm_quiesce_counter,
                   g_svm_quiesce_resume_counter, g_svm_lock_quiesce,
                   g_svm_quiesce_resume_signal, counts>>

\* The resume counter is not reset: the rally of an earlier quiesce counts.
ZeroNothing(c) ==
    /\ Main(c, "zero", "release")
    /\ UNCHANGED <<nmi, quiesced, g_svm_quiesce, g_svm_quiesce_counter,
                   g_svm_quiesce_resume_counter, g_svm_lock_quiesce,
                   g_svm_quiesce_resume_signal, counts>>

-----------------------------------------------------------------------------
(***************************************************************************)
(* The core that handles an intercept.                                     *)
(***************************************************************************)

\* A hypercall, an intercepted I/O instruction or a nested page fault outside
\* the LAPIC page: each handler calls quiesce, the hypapp, endquiesce.
Intercept(c) ==
    /\ c \in Initiators
    /\ rounds < MaxRounds
    /\ Main(c, "guest", "lock")
    /\ rounds' = rounds + 1
    /\ UNCHANGED <<nmi, quiesced, g_svm_quiesce, g_svm_quiesce_counter,
                   g_svm_quiesce_resume_counter, g_svm_lock_quiesce,
                   g_svm_quiesce_resume_signal, raised, injected>>

LockQuiesce(c) ==
    /\ Main(c, "lock", "mark")
    /\ g_svm_lock_quiesce = NoCore
    /\ g_svm_lock_quiesce' = c
    /\ UNCHANGED <<nmi, quiesced, g_svm_quiesce, g_svm_quiesce_counter,
                   g_svm_quiesce_resume_counter, g_svm_quiesce_resume_signal,
                   counts>>

MarkQuiesced(c) ==
    /\ Main(c, "mark", "reset")
    /\ quiesced' = [quiesced EXCEPT ![c] = TRUE]
    /\ UNCHANGED <<nmi, g_svm_quiesce, g_svm_quiesce_counter,
                   g_svm_quiesce_resume_counter, g_svm_lock_quiesce,
                   g_svm_quiesce_resume_signal, counts>>

ResetCounter(c) ==
    /\ Main(c, "reset", "announce")
    /\ g_svm_quiesce_counter' = 0
    /\ UNCHANGED <<nmi, quiesced, g_svm_quiesce, g_svm_quiesce_resume_counter,
                   g_svm_lock_quiesce, g_svm_quiesce_resume_signal, counts>>

Announce(c) ==
    /\ Main(c, "announce", "signal")
    /\ g_svm_quiesce' = TRUE
    /\ UNCHANGED <<nmi, quiesced, g_svm_quiesce_counter,
                   g_svm_quiesce_resume_counter, g_svm_lock_quiesce,
                   g_svm_quiesce_resume_signal, counts>>

\* The NMI goes to all cores but the sender; a pending NMI is not doubled.
SendQuiesceSignal(c) ==
    /\ Main(c, "signal", "collect")
    /\ nmi' = [d \in Cores |-> d # c \/ nmi[d]]
    /\ UNCHANGED <<quiesced, g_svm_quiesce, g_svm_quiesce_counter,
                   g_svm_quiesce_resume_counter, g_svm_lock_quiesce,
                   g_svm_quiesce_resume_signal, counts>>

\* while(g_svm_quiesce_counter < (g_midtable_numentries-1) );
Collect(c) ==
    /\ Main(c, "collect", "app")
    /\ g_svm_quiesce_counter >= N - 1
    /\ UNCHANGED <<nmi, quiesced, g_svm_quiesce, g_svm_quiesce_counter,
                   g_svm_quiesce_resume_counter, g_svm_lock_quiesce,
                   g_svm_quiesce_resume_signal, counts>>

\* The hypapp's callback, which reports APP_SUCCESS for every intercept.
HandleApp(c) ==
    /\ Main(c, "app", "zero")
    /\ UNCHANGED <<nmi, quiesced, g_svm_quiesce, g_svm_quiesce_counter,
                   g_svm_quiesce_resume_counter, g_svm_lock_quiesce,
                   g_svm_quiesce_resume_signal, counts>>

ZeroResumeCounter(c) ==
    /\ Main(c, "zero", "release")
    /\ g_svm_quiesce_resume_counter' = 0
    /\ UNCHANGED <<nmi, quiesced, g_svm_quiesce, g_svm_quiesce_counter,
                   g_svm_lock_quiesce, g_svm_quiesce_resume_signal, counts>>

Release(c) ==
    /\ Main(c, "release", "rally")
    /\ g_svm_quiesce_resume_signal' = TRUE
    /\ UNCHANGED <<nmi, quiesced, g_svm_quiesce, g_svm_quiesce_counter,
                   g_svm_quiesce_resume_counter, g_svm_lock_quiesce, counts>>

\* while(g_svm_quiesce_resume_counter < (g_midtable_numentries-1) );
AwaitRally(c) ==
    /\ Main(c, "rally", "unmark")
    /\ g_svm_quiesce_resume_counter >= N - 1
    /\ UNCHANGED <<nmi, quiesced, g_svm_quiesce, g_svm_quiesce_counter,
                   g_svm_quiesce_resume_counter, g_svm_lock_quiesce,
                   g_svm_quiesce_resume_signal, counts>>

UnmarkQuiesced(c) ==
    /\ Main(c, "unmark", "close")
    /\ quiesced' = [quiesced EXCEPT ![c] = FALSE]
    /\ UNCHANGED <<nmi, g_svm_quiesce, g_svm_quiesce_counter,
                   g_svm_quiesce_resume_counter, g_svm_lock_quiesce,
                   g_svm_quiesce_resume_signal, counts>>

CloseQuiesce(c) ==
    /\ Main(c, "close", "clear")
    /\ g_svm_quiesce' = FALSE
    /\ UNCHANGED <<nmi, quiesced, g_svm_quiesce_counter,
                   g_svm_quiesce_resume_counter, g_svm_lock_quiesce,
                   g_svm_quiesce_resume_signal, counts>>

ClearSignal(c) ==
    /\ Main(c, "clear", "unlock")
    /\ g_svm_quiesce_resume_signal' = FALSE
    /\ UNCHANGED <<nmi, quiesced, g_svm_quiesce, g_svm_quiesce_counter,
                   g_svm_quiesce_resume_counter, g_svm_lock_quiesce, counts>>

UnlockQuiesce(c) ==
    /\ Main(c, "unlock", "guest")
    /\ g_svm_lock_quiesce' = NoCore
    /\ UNCHANGED <<nmi, quiesced, g_svm_quiesce, g_svm_quiesce_counter,
                   g_svm_quiesce_resume_counter, g_svm_quiesce_resume_signal,
                   counts>>

-----------------------------------------------------------------------------
(***************************************************************************)
(* The NMI handler: "other NMIs (if any) are held pending by the platform  *)
(* until we return".                                                       *)
(***************************************************************************)

\* An NMI that nothing in this protocol sent.
RaiseGuestNMI(c) ==
    /\ raised < MaxGuestNMI
    /\ raised' = raised + 1
    /\ nmi' = [nmi EXCEPT ![c] = TRUE]
    /\ UNCHANGED <<pc, h, quiesced, g_svm_quiesce, g_svm_quiesce_counter,
                   g_svm_quiesce_resume_counter, g_svm_lock_quiesce,
                   g_svm_quiesce_resume_signal, rounds, injected>>

\* SVM_VMEXIT_NMI: _svm_handle_nmi opens the interrupt flag for the handler.
TakeNMI(c) ==
    /\ nmi[c]
    /\ pc[c] = "guest"
    /\ Handler(c, "none", "entry")
    /\ nmi' = [nmi EXCEPT ![c] = FALSE]
    /\ UNCHANGED <<quiesced, g_svm_quiesce, g_svm_quiesce_counter,
                   g_svm_quiesce_resume_counter, g_svm_lock_quiesce,
                   g_svm_quiesce_resume_signal, counts>>

\* nmiinhvm is 0 when the exit code is SVM_VMEXIT_NMI, and the NMI is injected
\* when nmiinhvm is not 0: an NMI that left the guest is not injected.
NmiOutsideQuiesce(c) ==
    /\ Handler(c, "entry", "none")
    /\ ~g_svm_quiesce
    /\ injected' = IF pc[c] = "guest" THEN injected ELSE injected + 1
    /\ UNCHANGED <<nmi, quiesced, g_svm_quiesce, g_svm_quiesce_counter,
                   g_svm_quiesce_resume_counter, g_svm_lock_quiesce,
                   g_svm_quiesce_resume_signal, rounds, raised>>

\* A core that is quiesced already returns, any other one marks itself.
NmiQuiesce(c) ==
    /\ g_svm_quiesce
    /\ Handler(c, "entry", IF quiesced[c] THEN "none" ELSE "count")
    /\ quiesced' = [quiesced EXCEPT ![c] = TRUE]
    /\ UNCHANGED <<nmi, g_svm_quiesce, g_svm_quiesce_counter,
                   g_svm_quiesce_resume_counter, g_svm_lock_quiesce,
                   g_svm_quiesce_resume_signal, counts>>

CountQuiesced(c) ==
    /\ Handler(c, "count", "wait")
    /\ g_svm_quiesce_counter' = g_svm_quiesce_counter + 1
    /\ UNCHANGED <<nmi, quiesced, g_svm_quiesce, g_svm_quiesce_resume_counter,
                   g_svm_lock_quiesce, g_svm_quiesce_resume_signal, counts>>

\* while(!g_svm_quiesce_resume_signal);
WaitResume(c) ==
    /\ Handler(c, "wait", "rally")
    /\ g_svm_quiesce_resume_signal
    /\ UNCHANGED <<nmi, quiesced, g_svm_quiesce, g_svm_quiesce_counter,
                   g_svm_quiesce_resume_counter, g_svm_lock_quiesce,
                   g_svm_quiesce_resume_signal, counts>>

CountResumed(c) ==
    /\ Handler(c, "rally", "done")
    /\ g_svm_quiesce_resume_counter' = g_svm_quiesce_resume_counter + 1
    /\ UNCHANGED <<nmi, quiesced, g_svm_quiesce, g_svm_quiesce_counter,
                   g_svm_lock_quiesce, g_svm_quiesce_resume_signal, counts>>

ClearQuiesced(c) ==
    /\ Handler(c, "done", "none")
    /\ quiesced' = [quiesced EXCEPT ![c] = FALSE]
    /\ UNCHANGED <<nmi, g_svm_quiesce, g_svm_quiesce_counter,
                   g_svm_quiesce_resume_counter, g_svm_lock_quiesce,
                   g_svm_quiesce_resume_signal, counts>>

-----------------------------------------------------------------------------
HypervisorStep(c) ==
    \/ LockQuiesce(c) \/ MarkQuiesced(c) \/ ResetCounter(c) \/ Announce(c)
    \/ SendQuiesceSignal(c) \/ Collect(c) \/ HandleApp(c)
    \/ ZeroResumeCounter(c) \/ Release(c) \/ AwaitRally(c)
    \/ UnmarkQuiesced(c) \/ CloseQuiesce(c) \/ ClearSignal(c)
    \/ UnlockQuiesce(c)
    \/ TakeNMI(c) \/ NmiOutsideQuiesce(c) \/ NmiQuiesce(c) \/ CountQuiesced(c)
    \/ WaitResume(c) \/ CountResumed(c) \/ ClearQuiesced(c)

Next == \E c \in Cores : HypervisorStep(c) \/ Intercept(c) \/ RaiseGuestNMI(c)

Spec == Init /\ [][Next]_vars

\* Cores run in parallel and nothing preempts the hypervisor; the guest need not
\* cause an intercept, and a foreign NMI need not come.
Fairness == \A c \in Cores : WF_vars(HypervisorStep(c))

FairSpec == Spec /\ Fairness

-----------------------------------------------------------------------------
(***************************************************************************)
(* Properties.                                                             *)
(***************************************************************************)

\* While the hypapp handles an intercept every other core waits in its NMI
\* handler, having counted itself in (smpg-x86svm.c, quiesce).
StopTheWorld ==
    \A c \in Cores : pc[c] = "app" => \A d \in Cores \ {c} : h[d] = "wait"

\* The protocol implements the promise of StopWorld: the core whose intercept
\* the hypapp handles owns a machine on which no core runs guest code, and no
\* core resumes before it is done.
World == INSTANCE StopWorld WITH
    running <- {c \in Cores : pc[c] = "guest" /\ h[c] = "none"},
    owner   <- IF g_svm_lock_quiesce # NoCore /\ pc[g_svm_lock_quiesce] = "app"
               THEN g_svm_lock_quiesce ELSE NoCore
ImplementsStopWorld == World!Spec

\* A core leaves the wait of its NMI handler only after the hypapp is done and
\* before the lock is released: no resume signal of an earlier quiesce is still
\* up when a core starts to wait in a later one.
ResumeOnlyAfterApp ==
    [][\A d \in Cores : h[d] = "wait" /\ h'[d] # "wait" =>
          \E c \in Cores : pc[c] \in {"rally", "unmark", "close", "clear"}]_vars

\* Every intercept gets through its quiesce: "the quiesce counter, all CPUs
\* except for the one requesting the quiesce will increment this when they get
\* their quiesce signal" (smpg-x86svm-data.c).  Not so when another core waits
\* for the lock, where it holds its NMIs.
QuiesceCompletes ==
    \A c \in Cores : pc[c] = "collect" ~> \/ pc[c] = "app"
                                          \/ raised > 0
                                          \/ \E d \in Cores : pc[d] = "lock"

\* A core that was stopped comes back to the guest, in every quiesce: "endquiesce
\* interface to resume all guest cores after a quiesce" (smpg-x86svm.c).
EveryoneResumes ==
    \A c \in Cores : h[c] = "wait" ~> \/ h[c] = "none"
                                      \/ raised > 0
                                      \/ \E d \in Cores : pc[d] = "lock"
=============================================================================
