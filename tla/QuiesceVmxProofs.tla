-------------------------- MODULE QuiesceVmxProofs --------------------------
(***************************************************************************)
(* Proofs about QuiesceVmx for any number of workers, any set of           *)
(* initiators, and any number of intercepts and foreign NMIs.              *)
(*                                                                         *)
(* UserCoresRun holds whatever other cores there are.  The other           *)
(* invariants are proved for the machine the code was written for, where   *)
(* the switch of the NMI handler names every core (Others = {}): a core it *)
(* does not name counts itself into both counters out of turn.             *)
(*                                                                         *)
(* The protocol can get past quiesce once only, since the workers never    *)
(* leave ring 3.  So there are three phases, told apart by k: before the   *)
(* first stage (k = 0), the stages of endquiesce, and afterwards.          *)
(***************************************************************************)
EXTENDS QuiesceVmx, FiniteSetTheorems, TLAPS

\* The cores that have counted themselves in and wait for their signal.
Waiting == {d \in Cores : h[d] = "wait"}

\* A core in the handshake, between its mark and its unmark, or in ring 3 has
\* vcpu->quiesced set, and is in one of these places only.
QuiescedInv ==
    \A c \in Cores :
        /\ \/ h[c] \notin {"none", "entry"}
           \/ pc[c] \in {"reset", "announce", "signal", "collect", "app", "wake",
                         "zero", "set", "await", "finish", "unmark", "user"}
           => quiesced[c]
        /\ h[c] \notin {"none", "entry"} =>
              pc[c] \in {"guest", "lock", "mark", "close", "unlock"}

\* A core past the lock holds it, so that there is one such core at most.
LockInv ==
    \A c \in Cores :
        pc[c] \notin {"guest", "lock", "user"} => g_vmx_lock_quiesce = c

\* There is a stage left when the holder is about to set a signal.
StageInv == \A c \in Cores : pc[c] = "set" => k < 2 * NW

\* What holds whether or not the switch of the NMI handler names all cores.
BaseInv == TypeOK /\ QuiescedInv /\ LockInv /\ StageInv

\* g_vmx_quiesce is up while its holder is between the two writes to it.
OpenInv ==
    g_vmx_quiesce =>
        \E c \in Cores : pc[c] \in {"signal", "collect", "app", "wake", "zero",
                                    "set", "await", "finish", "unmark", "close"}

\* Before the first stage of endquiesce nobody has a signal, and the counter
\* counts no core that does not wait.
FreshInv ==
    /\ \A c \in Cores :
          /\ h[c] \in {"none", "entry", "count", "wait"}
          /\ pc[c] \notin {"await", "finish", "unmark", "close", "unlock", "user"}
          /\ h[c] \in {"count", "wait"} => g_vmx_quiesce
          /\ pc[c] \notin {"guest", "lock"} => h[c] \in {"none", "entry"}
          /\ pc[c] \in {"announce", "signal", "collect"} =>
                g_vmx_quiesce_counter <= Cardinality(Waiting)
          /\ pc[c] \in {"app", "wake", "zero", "set"} =>
                \A d \in Cores \ {c} : h[d] = "wait"
          /\ pc[c] = "set" => g_vmx_quiesce_resume_counter = 0
    /\ \A i \in 0..NW : ~resume_signal[i]
    /\ \A w \in Workers : ~gdt_signal[w]

\* Stage k is over: its worker has stored the resume counter.
Arrived == \/ k <= NW /\ h[k] = "waitgdt"
           \/ k > NW /\ h[k - NW] = "waitall"

\* Core c has set the signals of k stages.  A worker as initiator never gets
\* beyond its own first stage, and core 0 never out of its wait.
Leading(c) ==
    /\ pc[c] \in {"set", "await", "finish"}
    /\ pc[c] = "finish" => k = 2 * NW
    /\ h[c] \in {"none", "entry"}
    /\ c # 0 => k < c \/ (k = c /\ pc[c] = "await")
    /\ c # 0 => h[0] = "wait"

\* Where worker w is then: c may still wait for the worker of the last stage.
Following(c, w) ==
    /\ w > k => h[w] = "wait"
    /\ w = k /\ pc[c] = "await" =>
          h[w] \in {"wait", "gdt", "tss", "load1", "store1", "waitgdt"}
    /\ (w < k \/ (w = k /\ pc[c] # "await")) /\ w + NW > k => h[w] = "waitgdt"
    /\ w + NW = k /\ pc[c] = "await" =>
          h[w] \in {"waitgdt", "load2", "store2", "waitall"}
    /\ (w + NW < k \/ (w + NW = k /\ pc[c] # "await")) => h[w] = "waitall"
    /\ h[w] \in {"store1", "store2"} => tmp[w] = k - 1

Counted(c) ==
    g_vmx_quiesce_resume_counter =
        IF pc[c] = "await" /\ ~Arrived THEN k - 1 ELSE k

Signalled ==
    /\ ~resume_signal[0]
    /\ \A w \in Workers : /\ resume_signal[w] => w <= k
                          /\ gdt_signal[w] => w + NW <= k

\* The last worker of the first pass has written the one TSS last.
TssLast(c) ==
    \/ k > NW
    \/ k = NW /\ (pc[c] # "await" \/ h[NW] \in {"load1", "store1", "waitgdt"})
    => tss_esp0 = NW

Staged(c) ==
    /\ Leading(c) /\ Counted(c) /\ Signalled /\ TssLast(c)
    /\ \A w \in Workers \ {c} : Following(c, w)
    /\ \A d \in Cores : pc[d] # "user"

\* When endquiesce is over, only core 0 is left in the guest.
After ==
    /\ \A w \in Workers : \/ h[w] = "waitall" /\ pc[w] \in {"guest", "lock"}
                          \/ pc[w] = "user"
    /\ pc[0] \in {"guest", "lock", "mark", "reset", "announce", "signal", "collect",
                  "unmark", "close", "unlock"}
    /\ h[0] \in {"none", "entry", "count", "wait"}
    /\ h[0] \in {"count", "wait"} => pc[0] = "close"
    /\ pc[0] \in {"announce", "signal", "collect"} => g_vmx_quiesce_counter = 0
    /\ ~resume_signal[0]
    /\ tss_esp0 = NW

PhaseInv ==
    /\ k = 0 => FreshInv
    /\ k > 0 => (\E c \in Cores : Staged(c)) \/ After

\* The inductive invariant of the handshake.
IInv == BaseInv /\ OpenInv /\ PhaseInv

\* Before the first intercept nothing has happened, and endquiesce after the
\* router's hypercall comes after the two effects of the hypapp.
AppInv ==
    /\ rounds = 0 => k = 0 /\ \A c \in Cores : pc[c] = "guest"
    /\ \A c \in Cores :
          /\ pc[c] = "wake" => mapped
          /\ pc[c] \in {"zero", "set", "await"} /\ kind[c] = "vmcall" =>
                mapped /\ slave_resume
    /\ k > 0 /\ rounds = 1 /\ (\A c \in Cores : kind[c] = "vmcall") =>
          mapped /\ slave_resume

\* The places of a core that has an intercept, up to the sending of the IPI.
Unsent == {"lock", "mark", "reset", "announce", "signal"}

\* One intercept and no foreign NMI: one core has the intercept, nothing has
\* happened to the others until it sends the IPI, and a core has the IPI ahead of it
\* only while it is in the guest and has not come to its handshake.
LoneInv ==
    rounds <= 1 /\ raised = 0 =>
        /\ rounds = 0 => \A c \in Cores : pc[c] = "guest" /\ h[c] = "none" /\ ~nmi[c]
        /\ \A c, d \in Cores :
              pc[c] \notin {"guest", "user"} /\ pc[d] \notin {"guest", "user"} => c = d
        /\ \A c, d \in Cores :
              pc[c] \in Unsent => h[d] = "none" /\ ~nmi[d] /\ pc[d] # "user"
        /\ \A c \in Cores : /\ nmi[c] => h[c] = "none"
                            /\ nmi[c] \/ h[c] = "entry" => pc[c] = "guest"
        /\ \A c \in Cores : pc[c] = "user" => c \notin halted

\* Conversely g_vmx_quiesce is up from one of its two writes to the other.
UpInv ==
    \A c \in Cores : pc[c] \in {"signal", "collect", "app", "wake", "zero", "set",
                                "await", "finish", "unmark", "close"} => g_vmx_quiesce

\* Core c has sent the IPI and waits for the others or resumes them.
Sent(c) == pc[c] \in {"collect", "app", "wake", "zero", "set", "await", "finish"}

Latched == {c \in Cores : nmi[c]}
Entered == {c \in Cores : h[c] = "entry"}
One(b)  == IF b THEN 1 ELSE 0

\* Until the IPI is sent every NMI on its way to the guest was raised outside;
\* from then on this is so for core 0 alone, unless a worker sent it.
NmiInv ==
    /\ injected <= raised
    /\ k = 0 /\ (\A c \in Cores : ~Sent(c)) =>
          injected + Cardinality(Latched) + Cardinality(Entered) <= raised
    /\ (k > 0 \/ Sent(0)) /\ (\A w \in Workers : ~Sent(w)) =>
          injected + One(nmi[0]) + One(h[0] = "entry") <= raised

-----------------------------------------------------------------------------
(***************************************************************************)
(* Whatever cores there are.                                               *)
(***************************************************************************)

\* The steps of the protocol, and the steps that at most halt a core.
Step  == \E c \in Cores : HypervisorStep(c) \/ Intercept(c) \/ RaiseGuestNMI(c)
Still == UNCHANGED vars \/ \E c \in Cores : InterruptHalts(c)

LEMMA StepOrStill == [Next]_vars => Step \/ Still
BY Zenon DEF Next, Step, Still

\* The variables, but for the halted cores, spelled out for the steps that change
\* nothing else.
LEMMA Stutter ==
    Still =>
        UNCHANGED <<pc, h, nmi, quiesced, g_vmx_quiesce, g_vmx_quiesce_counter,
                    g_vmx_quiesce_resume_counter, g_vmx_lock_quiesce,
                    resume_signal, gdt_signal, k, tmp, tss_esp0, mapped,
                    slave_resume, kind, rounds, raised, injected>>
BY DEF Still, vars, shared, world, InterruptHalts

\* The mark of a free lock is no core.
LEMMA NoCoreApart == NoCore \notin Cores
<1>1. NoCore \notin 0..NW /\ NoCore \in -1..NW
  BY ConstantsAssumption DEF NoCore
<1> QED
  BY <1>1, ConstantsAssumption DEF Cores

\* Every step keeps the types; endquiesce has a signal for each of its stages.
LEMMA TypePreserved == TypeOK /\ StageInv /\ [Next]_vars => TypeOK'
<1> SUFFICES ASSUME TypeOK, StageInv, [Next]_vars PROVE TypeOK'
  OBVIOUS
<1> USE ConstantsAssumption
<1>1. CASE Still
  <2>1. halted' \subseteq Cores
    BY <1>1, Zenon DEF Still, vars, world, InterruptHalts, TypeOK
  <2> QED
    BY <1>1, <2>1, Stutter DEF TypeOK
<1>2. ASSUME NEW c \in Cores, Intercept(c) PROVE TypeOK'
  BY <1>2 DEF TypeOK, Intercept, Main, MainStates, shared
<1>3. ASSUME NEW c \in Cores, RaiseGuestNMI(c) PROVE TypeOK'
  BY <1>3 DEF TypeOK, RaiseGuestNMI, shared
<1>4. ASSUME NEW c \in Cores, HypervisorStep(c) PROVE TypeOK'
  <2> USE DEF TypeOK, Main, Handler, MainStates, HandlerStates, shared, world
  <2>1. CASE LockQuiesce(c)
    BY <2>1 DEF LockQuiesce
  <2>2. CASE MarkQuiesced(c)
    BY <2>2 DEF MarkQuiesced
  <2>3. CASE ResetCounter(c)
    BY <2>3 DEF ResetCounter
  <2>4. CASE Announce(c)
    BY <2>4 DEF Announce
  <2>5. CASE SendQuiesceSignal(c)
    BY <2>5 DEF SendQuiesceSignal
  <2>6. CASE Collect(c)
    BY <2>6 DEF Collect
  <2>7. CASE HandleApp(c)
    BY <2>7, Zenon DEF HandleApp
  <2>8. CASE WakeSlaves(c)
    BY <2>8 DEF WakeSlaves
  <2>9. CASE ZeroResumeCounter(c)
    BY <2>9 DEF ZeroResumeCounter
  <2>10. CASE SetSignal(c)
    <3>1. k < 2 * NW /\ k' \in 0..2 * NW
      BY <2>10 DEF SetSignal, StageInv
    <3>2. resume_signal' \in [0..NW -> BOOLEAN]
      BY <2>10, Zenon DEF SetSignal
    <3>3. gdt_signal' \in [Workers -> BOOLEAN]
      BY <2>10, Zenon DEF SetSignal
    <3> QED
      BY <2>10, <3>1, <3>2, <3>3 DEF SetSignal
  <2>11. CASE AwaitStage(c)
    BY <2>11 DEF AwaitStage
  <2>12. CASE FinishResume(c)
    BY <2>12 DEF FinishResume, AllResumed
  <2>13. CASE UnmarkQuiesced(c)
    BY <2>13 DEF UnmarkQuiesced
  <2>14. CASE CloseQuiesce(c)
    BY <2>14, Zenon DEF CloseQuiesce
  <2>15. CASE UnlockQuiesce(c)
    BY <2>15 DEF UnlockQuiesce
  <2>16. CASE TakeNMI(c)
    BY <2>16 DEF TakeNMI
  <2>17. CASE NmiOutsideQuiesce(c)
    <3>1. halted' \subseteq Cores /\ injected' \in Nat
      BY <2>17 DEF NmiOutsideQuiesce, ReturnFromNmi
    <3> QED
      BY <2>17, <3>1 DEF NmiOutsideQuiesce
  <2>18. CASE NmiAlreadyQuiesced(c)
    <3>1. halted' \subseteq Cores
      BY <2>18 DEF NmiAlreadyQuiesced, ReturnFromNmi
    <3> QED
      BY <2>18, <3>1 DEF NmiAlreadyQuiesced
  <2>19. CASE NmiQuiesce(c)
    BY <2>19 DEF NmiQuiesce
  <2>20. CASE CountQuiesced(c)
    BY <2>20 DEF CountQuiesced
  <2>21. CASE WaitResume(c)
    BY <2>21 DEF WaitResume
  <2>22. CASE UpdateGdt(c)
    BY <2>22 DEF UpdateGdt
  <2>23. CASE WriteTss(c)
    BY <2>23 DEF WriteTss
  <2>24. CASE LoadResumeCounter(c)
    BY <2>24, Zenon DEF LoadResumeCounter
  <2>25. CASE StoreResumeCounter(c)
    <3>1. h' \in [Cores -> HandlerStates]
      BY <2>25, Zenon DEF StoreResumeCounter
    <3>2. g_vmx_quiesce_resume_counter' \in Nat
      BY <2>25 DEF StoreResumeCounter
    <3> QED
      BY <2>25, <3>1, <3>2 DEF StoreResumeCounter
  <2>26. CASE WaitGdt(c)
    BY <2>26 DEF WaitGdt
  <2>27. CASE SwitchToUserSpace(c)
    BY <2>27 DEF SwitchToUserSpace
  <2>28. CASE RallyResume(c)
    BY <2>28 DEF RallyResume
  <2>29. CASE ClearQuiesced(c)
    BY <2>29 DEF ClearQuiesced
  <2> HIDE DEF TypeOK, Main, Handler, MainStates, HandlerStates, shared, world
  <2> QED
    BY <1>4, <2>1, <2>2, <2>3, <2>4, <2>5, <2>6, <2>7, <2>8, <2>9, <2>10, <2>11,
       <2>12, <2>13, <2>14, <2>15, <2>16, <2>17, <2>18, <2>19, <2>20, <2>21,
       <2>22, <2>23, <2>24, <2>25, <2>26, <2>27, <2>28, <2>29
       DEF HypervisorStep
<1> QED
  BY <1>1, <1>2, <1>3, <1>4, StepOrStill, Zenon DEF Step

\* vcpu->quiesced, the lock and the stage of endquiesce are in step with where
\* the cores are.
LEMMA BasePreserved == BaseInv /\ [Next]_vars => BaseInv'
<1> SUFFICES ASSUME BaseInv, [Next]_vars PROVE BaseInv'
  OBVIOUS
<1> USE ConstantsAssumption
<1>1. TypeOK /\ TypeOK'
  BY TypePreserved DEF BaseInv
<1>2. CASE Still
  BY <1>1, <1>2, Stutter DEF BaseInv, QuiescedInv, LockInv, StageInv
<1>3. ASSUME NEW c \in Cores, Intercept(c) PROVE BaseInv'
  BY <1>1, <1>3 DEF BaseInv, QuiescedInv, LockInv, StageInv, Intercept, Main,
     shared, TypeOK
<1>4. ASSUME NEW c \in Cores, RaiseGuestNMI(c) PROVE BaseInv'
  BY <1>1, <1>4 DEF BaseInv, QuiescedInv, LockInv, StageInv, RaiseGuestNMI, shared
<1>5. ASSUME NEW c \in Cores, HypervisorStep(c) PROVE BaseInv'
  <2> USE <1>1 DEF BaseInv, QuiescedInv, LockInv, StageInv, TypeOK, Main, Handler,
                   shared, world
  <2>1. CASE LockQuiesce(c)
    <3>1. \A d \in Cores : pc[d] \in {"guest", "lock", "user"}
      BY <2>1, NoCoreApart DEF LockQuiesce
    <3> QED
      BY <2>1, <3>1 DEF LockQuiesce
  <2>2. CASE MarkQuiesced(c)
    BY <2>2 DEF MarkQuiesced
  <2>3. CASE ResetCounter(c)
    BY <2>3 DEF ResetCounter
  <2>4. CASE Announce(c)
    BY <2>4 DEF Announce
  <2>5. CASE SendQuiesceSignal(c)
    BY <2>5 DEF SendQuiesceSignal
  <2>6. CASE Collect(c)
    BY <2>6 DEF Collect
  <2>7. CASE HandleApp(c)
    <3>1. CASE pc' = [pc EXCEPT ![c] = "wake"]
      BY <2>7, <3>1 DEF HandleApp
    <3>2. CASE pc' = [pc EXCEPT ![c] = "zero"]
      BY <2>7, <3>2 DEF HandleApp
    <3> QED
      BY <2>7, <3>1, <3>2 DEF HandleApp
  <2>8. CASE WakeSlaves(c)
    BY <2>8 DEF WakeSlaves
  <2>9. CASE ZeroResumeCounter(c)
    BY <2>9 DEF ZeroResumeCounter
  <2>10. CASE SetSignal(c)
    BY <2>10 DEF SetSignal
  <2>11. CASE AwaitStage(c)
    BY <2>11 DEF AwaitStage
  <2>12. CASE FinishResume(c)
    BY <2>12 DEF FinishResume
  <2>13. CASE UnmarkQuiesced(c)
    BY <2>13 DEF UnmarkQuiesced
  <2>14. CASE CloseQuiesce(c)
    BY <2>14 DEF CloseQuiesce
  <2>15. CASE UnlockQuiesce(c)
    BY <2>15, ZenonT(40) DEF UnlockQuiesce
  <2>16. CASE TakeNMI(c)
    BY <2>16 DEF TakeNMI
  <2>17. CASE NmiOutsideQuiesce(c)
    BY <2>17 DEF NmiOutsideQuiesce
  <2>18. CASE NmiAlreadyQuiesced(c)
    BY <2>18 DEF NmiAlreadyQuiesced
  <2>19. CASE NmiQuiesce(c)
    BY <2>19 DEF NmiQuiesce, MainStates
  <2>20. CASE CountQuiesced(c)
    BY <2>20 DEF CountQuiesced
  <2>21. CASE WaitResume(c)
    BY <2>21 DEF WaitResume
  <2>22. CASE UpdateGdt(c)
    BY <2>22 DEF UpdateGdt
  <2>23. CASE WriteTss(c)
    BY <2>23 DEF WriteTss
  <2>24. CASE LoadResumeCounter(c)
    BY <2>24 DEF LoadResumeCounter
  <2>25. CASE StoreResumeCounter(c)
    BY <2>25, ZenonT(40) DEF StoreResumeCounter
  <2>26. CASE WaitGdt(c)
    BY <2>26 DEF WaitGdt
  <2>27. CASE SwitchToUserSpace(c)
    BY <2>27 DEF SwitchToUserSpace
  <2>28. CASE RallyResume(c)
    BY <2>28 DEF RallyResume
  <2>29. CASE ClearQuiesced(c)
    BY <2>29 DEF ClearQuiesced
  <2> HIDE DEF BaseInv, QuiescedInv, LockInv, StageInv, TypeOK, Main, Handler,
               shared, world
  <2> QED
    BY <1>5, <2>1, <2>2, <2>3, <2>4, <2>5, <2>6, <2>7, <2>8, <2>9, <2>10, <2>11,
       <2>12, <2>13, <2>14, <2>15, <2>16, <2>17, <2>18, <2>19, <2>20, <2>21,
       <2>22, <2>23, <2>24, <2>25, <2>26, <2>27, <2>28, <2>29
       DEF HypervisorStep
<1> QED
  BY <1>2, <1>3, <1>4, <1>5, StepOrStill, Zenon DEF Step

\* Initially every core is in the guest.
LEMMA BaseInitially == Init => BaseInv
<1> SUFFICES ASSUME Init PROVE BaseInv
  OBVIOUS
<1> USE ConstantsAssumption
<1>1. TypeOK
  <2>1. nmi \in [Cores -> BOOLEAN] /\ quiesced \in [Cores -> BOOLEAN]
    BY Zenon DEF Init
  <2>2. resume_signal \in [0..NW -> BOOLEAN] /\ gdt_signal \in [Workers -> BOOLEAN]
    BY Zenon DEF Init
  <2>3. pc \in [Cores -> MainStates] /\ h \in [Cores -> HandlerStates]
    BY DEF Init, MainStates, HandlerStates
  <2>4. g_vmx_quiesce \in BOOLEAN /\ mapped \in BOOLEAN /\ slave_resume \in BOOLEAN
    BY Zenon DEF Init
  <2>5. tmp \in [Cores -> Nat] /\ kind \in [Cores -> AllKinds]
    BY DEF Init, AllKinds
  <2>6. /\ g_vmx_quiesce_counter \in Nat /\ g_vmx_quiesce_resume_counter \in Nat
        /\ g_vmx_lock_quiesce \in Cores \cup {NoCore}
        /\ tss_esp0 \in Cores \cup {NoCore}
        /\ k \in 0..2 * NW /\ rounds \in 0..MaxRounds
        /\ raised \in 0..MaxGuestNMI /\ injected \in Nat
        /\ halted \subseteq Cores
    BY DEF Init
  <2> QED
    BY <2>1, <2>2, <2>3, <2>4, <2>5, <2>6 DEF TypeOK
<1>2. QuiescedInv /\ LockInv /\ StageInv
  BY DEF Init, QuiescedInv, LockInv, StageInv
<1> QED
  BY <1>1, <1>2 DEF BaseInv

\* The types, and the order of vcpu->quiesced, the lock and the stages, hold
\* for any cores.
THEOREM BaseInvariance == Spec => []BaseInv
BY BaseInitially, BasePreserved, PTL DEF Spec

\* A step of the core with the intercept other than the one that sends the IPI.
LEMMA LoneMain ==
    ASSUME LoneInv, pc \in [Cores -> MainStates], NEW c \in Cores, NEW p, NEW q,
           Main(c, p, q), p \notin {"guest", "user"}, q # "user",
           q \in Unsent => p \in Unsent,
           UNCHANGED <<h, nmi, rounds, raised, halted>>
    PROVE  LoneInv'
BY Zenon DEF LoneInv, Main

\* A step of a core in its handshake, or its return from it.
LEMMA LoneHandler ==
    ASSUME LoneInv, h \in [Cores -> HandlerStates], NEW c \in Cores, NEW p, NEW q,
           Handler(c, p, q), p \notin {"none", "entry"}, q # "entry",
           UNCHANGED <<rounds, raised, halted>>
    PROVE  LoneInv'
BY Zenon DEF LoneInv, Handler

\* No step takes an IPI to a core in ring 3, or halts one there.
LEMMA LonePreserved == BaseInv /\ LoneInv /\ [Next]_vars => LoneInv'
<1> SUFFICES ASSUME BaseInv, LoneInv, [Next]_vars PROVE LoneInv'
  OBVIOUS
<1>t. /\ pc \in [Cores -> MainStates] /\ h \in [Cores -> HandlerStates]
      /\ nmi \in [Cores -> BOOLEAN]
  BY Zenon DEF BaseInv, TypeOK
<1>1. CASE Still
  <2>1. CASE UNCHANGED vars
    BY <2>1, Zenon DEF vars, world, LoneInv
  <2>2. CASE \E c \in Cores : InterruptHalts(c)
    <3>1. PICK c \in Cores : InterruptHalts(c)
      BY <2>2, Zenon
    <3>2. pc[c] # "user"
      BY <3>1 DEF InterruptHalts, BaseInv, QuiescedInv
    <3> QED
      BY <3>1, <3>2, Zenon DEF InterruptHalts, LoneInv
  <2> QED
    BY <1>1, <2>1, <2>2, Zenon DEF Still
<1>2. ASSUME NEW c \in Cores, Intercept(c) PROVE LoneInv'
  BY <1>2, <1>t DEF Intercept, Main, LoneInv, Unsent, BaseInv, TypeOK
<1>3. ASSUME NEW c \in Cores, RaiseGuestNMI(c) PROVE LoneInv'
  BY <1>3 DEF RaiseGuestNMI, LoneInv, BaseInv, TypeOK
<1>4. ASSUME NEW c \in Cores, HypervisorStep(c) PROVE LoneInv'
  <2>1. CASE \/ LockQuiesce(c) \/ MarkQuiesced(c) \/ ResetCounter(c) \/ Announce(c)
             \/ Collect(c) \/ HandleApp(c) \/ WakeSlaves(c)
             \/ ZeroResumeCounter(c) \/ SetSignal(c) \/ AwaitStage(c)
             \/ FinishResume(c) \/ UnmarkQuiesced(c) \/ CloseQuiesce(c)
             \/ UnlockQuiesce(c)
    <3>1. PICK p, q : /\ Main(c, p, q) /\ p \notin {"guest", "user"} /\ q # "user"
                      /\ q \in Unsent => p \in Unsent
                      /\ UNCHANGED <<h, nmi, rounds, raised, halted>>
      BY <2>1, Zenon DEF LockQuiesce, MarkQuiesced, ResetCounter, Announce, Collect,
         HandleApp, WakeSlaves, ZeroResumeCounter, SetSignal, AwaitStage,
         FinishResume, UnmarkQuiesced, CloseQuiesce, UnlockQuiesce, Unsent, world
    <3> QED
      BY <3>1, <1>t, LoneMain, Zenon
  <2>2. CASE SendQuiesceSignal(c)
    BY <2>2, <1>t DEF SendQuiesceSignal, Main, LoneInv, Unsent, world
  <2>3. CASE TakeNMI(c)
    BY <2>3, <1>t, Zenon DEF TakeNMI, LoneInv, world
  <2>4. CASE NmiOutsideQuiesce(c) \/ NmiAlreadyQuiesced(c)
    BY <2>4, <1>t, Zenon DEF NmiOutsideQuiesce, NmiAlreadyQuiesced, ReturnFromNmi,
       Handler, LoneInv
  <2>5. CASE NmiQuiesce(c)
    BY <2>5, <1>t, Zenon DEF NmiQuiesce, Handler, LoneInv, world
  <2>6. CASE \/ CountQuiesced(c) \/ WaitResume(c) \/ UpdateGdt(c)
             \/ WriteTss(c) \/ LoadResumeCounter(c) \/ StoreResumeCounter(c)
             \/ WaitGdt(c) \/ RallyResume(c) \/ ClearQuiesced(c)
    <3>1. PICK p, q : /\ Handler(c, p, q) /\ p \notin {"none", "entry"}
                      /\ q # "entry" /\ UNCHANGED <<rounds, raised, halted>>
      BY <2>6, Zenon DEF CountQuiesced, WaitResume, UpdateGdt, WriteTss,
         LoadResumeCounter, StoreResumeCounter, WaitGdt, RallyResume,
         ClearQuiesced, world
    <3> QED
      BY <3>1, <1>t, LoneHandler, Zenon
  <2>7. CASE SwitchToUserSpace(c)
    BY <2>7, <1>t, Zenon DEF SwitchToUserSpace, LoneInv, Unsent, world
  <2> QED
    BY <1>4, <2>1, <2>2, <2>3, <2>4, <2>5, <2>6, <2>7, Zenon DEF HypervisorStep
<1> QED
  BY <1>1, <1>2, <1>3, <1>4, StepOrStill, Zenon DEF Step

\* For any number of workers and of cores the NMI handler does not name, and
\* whichever core has the intercept, one intercept without a foreign NMI brings no
\* core to a halt in ring 3: the IPI reaches each core before its handshake and
\* never again (smpg-x86vmx.c, quiesce and the NMI handler).
THEOREM LoneInterceptLeavesUserCores == Spec => []UserCoresRun
<1>1. Init => LoneInv
  BY DEF Init, LoneInv, Unsent
<1>2. LoneInv => UserCoresRun
  BY Zenon DEF LoneInv, UserCoresRun
<1> QED
  BY BaseInvariance, LonePreserved, <1>1, <1>2, PTL DEF Spec

-----------------------------------------------------------------------------
(***************************************************************************)
(* The machine whose cores are all named in the NMI handler.               *)
(***************************************************************************)

\* Then the cores are the boot core and the workers.
LEMMA NamedCores ==
    ASSUME Others = {}
    PROVE  /\ Cores = 0..NW /\ 0 \in Cores /\ Workers = Cores \ {0}
           /\ IsFiniteSet(Cores) /\ N = NW + 1
<1>1. Cores = 0..NW /\ 0 \in Cores /\ Workers = Cores \ {0}
  BY ConstantsAssumption DEF Cores, Workers
<1>2. IsFiniteSet(0..NW) /\ Cardinality(0..NW) = NW + 1
  BY ConstantsAssumption, FS_Interval
<1> QED
  BY <1>1, <1>2 DEF N

\* The same without the cardinalities.
LEMMA NumberedCores ==
    ASSUME Others = {}
    PROVE  /\ Cores = 0..NW /\ 0 \in Cores /\ Workers = Cores \ {0}
           /\ NW \in Nat /\ NW >= 1
BY NamedCores, ConstantsAssumption

\* The types and the invariants of every core that the steps below use.
LEMMA BaseTypes ==
    ASSUME BaseInv
    PROVE  /\ pc \in [Cores -> MainStates] /\ h \in [Cores -> HandlerStates]
           /\ nmi \in [Cores -> BOOLEAN] /\ kind \in [Cores -> AllKinds]
           /\ k \in Nat /\ rounds \in Nat /\ raised \in Nat /\ injected \in Nat
           /\ g_vmx_quiesce_counter \in Nat /\ g_vmx_quiesce_resume_counter \in Nat
           /\ QuiescedInv /\ LockInv
BY ConstantsAssumption DEF BaseInv, TypeOK

\* Facts about the counter: the waiting cores are finitely many, a core that
\* starts to wait adds one, and when as many wait as there are other cores, all
\* the others wait (smpg-x86vmx.c, the wait loop of quiesce).
LEMMA WaitingFacts ==
    ASSUME Others = {}
    PROVE  /\ IsFiniteSet(Waiting)
           /\ Cardinality(Waiting) \in Nat
           /\ \A c \in Cores : h[c] # "wait" =>
                 /\ Cardinality(Waiting \cup {c}) = Cardinality(Waiting) + 1
                 /\ Cardinality(Waiting) >= N - 1 =>
                       \A d \in Cores \ {c} : h[d] = "wait"
<1>1. IsFiniteSet(Waiting) /\ Cardinality(Waiting) \in Nat
  BY NamedCores, FS_Subset, FS_CardinalityType, Zenon DEF Waiting
<1>2. ASSUME NEW c \in Cores, h[c] # "wait"
      PROVE  Cardinality(Waiting \cup {c}) = Cardinality(Waiting) + 1
  BY <1>1, <1>2, FS_AddElement, Zenon DEF Waiting
<1>3. ASSUME NEW c \in Cores, h[c] # "wait", Cardinality(Waiting) >= N - 1
      PROVE  \A d \in Cores \ {c} : h[d] = "wait"
  <2>1. IsFiniteSet(Cores \ {c}) /\ Cardinality(Cores \ {c}) = N - 1
    BY NamedCores, FS_RemoveElement, Zenon DEF N
  <2>2. Waiting \subseteq Cores \ {c}
    BY <1>3 DEF Waiting
  <2>3. Cardinality(Waiting) <= N - 1 /\ N - 1 \in Nat
    BY <2>1, <2>2, FS_Subset, FS_CardinalityType
  <2>4. Cardinality(Waiting) = Cardinality(Cores \ {c})
    BY <1>1, <1>3, <2>1, <2>3
  <2>5. Waiting = Cores \ {c}
    BY <2>1, <2>2, <2>4, FS_Subset
  <2> QED
    BY <2>5 DEF Waiting
<1> QED
  BY <1>1, <1>2, <1>3

\* Before the first stage nobody is past it.
LEMMA FreshExcluded ==
    ASSUME Others = {}, FreshInv, NEW c \in Cores
    PROVE  /\ ~AwaitStage(c) /\ ~FinishResume(c) /\ ~UnmarkQuiesced(c) /\ ~CloseQuiesce(c)
           /\ ~UnlockQuiesce(c) /\ ~WaitResume(c) /\ ~UpdateGdt(c) /\ ~WriteTss(c)
           /\ ~LoadResumeCounter(c) /\ ~StoreResumeCounter(c) /\ ~WaitGdt(c)
           /\ ~SwitchToUserSpace(c) /\ ~RallyResume(c) /\ ~ClearQuiesced(c)
<1>1. /\ h[c] \in {"none", "entry", "count", "wait"} /\ ~resume_signal[c]
      /\ pc[c] \notin {"await", "finish", "unmark", "close", "unlock", "user"}
  BY NumberedCores, Zenon DEF FreshInv
<1>2. ~AwaitStage(c) /\ ~FinishResume(c) /\ ~UnmarkQuiesced(c) /\ ~CloseQuiesce(c)
  BY <1>1, Zenon DEF AwaitStage, FinishResume, UnmarkQuiesced, CloseQuiesce, Main
<1>3. ~UnlockQuiesce(c) /\ ~WaitResume(c) /\ ~UpdateGdt(c) /\ ~WriteTss(c)
  BY <1>1, Zenon DEF UnlockQuiesce, WaitResume, UpdateGdt, WriteTss, Main, Handler
<1>4. ~LoadResumeCounter(c) /\ ~StoreResumeCounter(c) /\ ~WaitGdt(c)
  BY <1>1, Zenon DEF LoadResumeCounter, StoreResumeCounter, WaitGdt, Handler
<1>5. ~SwitchToUserSpace(c) /\ ~RallyResume(c) /\ ~ClearQuiesced(c)
  BY <1>1, Zenon DEF SwitchToUserSpace, RallyResume, ClearQuiesced, Handler
<1> QED
  BY <1>2, <1>3, <1>4, <1>5, Zenon

\* What the initiator does up to the stages, its wait for the others apart.
LEMMA FreshInitiator ==
    ASSUME Others = {}, BaseInv, OpenInv, k = 0, FreshInv, NEW c \in Cores
    PROVE  (\/ Intercept(c) \/ RaiseGuestNMI(c) \/ LockQuiesce(c) \/ MarkQuiesced(c)
            \/ ResetCounter(c) \/ Announce(c) \/ SendQuiesceSignal(c)
            \/ HandleApp(c) \/ WakeSlaves(c) \/ ZeroResumeCounter(c))
           => OpenInv' /\ FreshInv' /\ k' = 0
<1>w. h' = h => Waiting' = Waiting
  BY Zenon DEF Waiting
<1>t. /\ pc \in [Cores -> MainStates] /\ h \in [Cores -> HandlerStates]
      /\ g_vmx_quiesce_counter \in Nat
  BY BaseTypes, Zenon
<1>1. CASE Intercept(c)
  BY <1>1, <1>t, <1>w
     DEF Intercept, OpenInv, FreshInv, Main, shared, world
<1>2. CASE RaiseGuestNMI(c)
  BY <1>2, <1>t, <1>w
     DEF RaiseGuestNMI, OpenInv, FreshInv, Main, shared, world
<1>3. CASE LockQuiesce(c)
  BY <1>3, <1>t, <1>w
     DEF LockQuiesce, OpenInv, FreshInv, Main, shared, world
<1>4. CASE MarkQuiesced(c)
  BY <1>4, <1>t, <1>w
     DEF MarkQuiesced, OpenInv, FreshInv, Main, shared, world
<1>5. CASE Announce(c)
  BY <1>5, <1>t, <1>w
     DEF Announce, OpenInv, FreshInv, Main, shared, world
<1>6. CASE SendQuiesceSignal(c)
  BY <1>6, <1>t, <1>w, Zenon
     DEF SendQuiesceSignal, OpenInv, FreshInv, Main, shared, world
<1>7. CASE HandleApp(c)
  BY <1>7, <1>t, <1>w
     DEF HandleApp, OpenInv, FreshInv, Main, shared, world
<1>8. CASE WakeSlaves(c)
  BY <1>8, <1>t, <1>w
     DEF WakeSlaves, OpenInv, FreshInv, Main, shared, world
<1>9. CASE ZeroResumeCounter(c)
  BY <1>9, <1>t, <1>w
     DEF ZeroResumeCounter, OpenInv, FreshInv, Main, shared, world
<1>10. CASE ResetCounter(c)
  <2>1. /\ pc' = [pc EXCEPT ![c] = "announce"] /\ pc[c] = "reset"
        /\ g_vmx_quiesce_counter' = 0
        /\ UNCHANGED <<h, g_vmx_quiesce, g_vmx_quiesce_resume_counter, k,
                       resume_signal, gdt_signal>>
    BY <1>10, Zenon DEF ResetCounter, Main
  <2>2. Waiting' = Waiting /\ 0 <= Cardinality(Waiting)
    BY <1>w, <2>1, WaitingFacts
  <2>3. OpenInv'
    BY <1>t, <2>1, Zenon DEF OpenInv
  <2>4. FreshInv'
    BY <1>t, <2>1, <2>2 DEF FreshInv
  <2> QED
    BY <2>1, <2>3, <2>4
<1> QED
  BY <1>1, <1>2, <1>3, <1>4, <1>5, <1>6, <1>7, <1>8, <1>9, <1>10, Zenon

\* The NMI handler up to the announcement.
LEMMA FreshNmi ==
    ASSUME BaseInv, OpenInv, k = 0, FreshInv, NEW c \in Cores,
           \/ TakeNMI(c) \/ NmiOutsideQuiesce(c) \/ NmiAlreadyQuiesced(c) \/ NmiQuiesce(c)
    PROVE  OpenInv' /\ FreshInv' /\ k' = 0
<1>t. /\ pc \in [Cores -> MainStates] /\ h \in [Cores -> HandlerStates]
      /\ QuiescedInv /\ LockInv
  BY BaseTypes, Zenon
<1>1. Waiting' = Waiting
  BY <1>t DEF TakeNMI, NmiOutsideQuiesce, NmiAlreadyQuiesced, NmiQuiesce, Handler, Waiting
<1>2. /\ UNCHANGED <<pc, k, g_vmx_quiesce, g_vmx_quiesce_counter, resume_signal, gdt_signal,
                     g_vmx_quiesce_resume_counter>>
      /\ h[c] # "wait"
  BY Zenon DEF TakeNMI, NmiOutsideQuiesce, NmiAlreadyQuiesced, NmiQuiesce, Handler,
     shared, world
<1>3. \/ h' = [h EXCEPT ![c] = "none"] \/ h' = [h EXCEPT ![c] = "entry"]
      \/ h' = [h EXCEPT ![c] = "count"] /\ g_vmx_quiesce /\ ~quiesced[c]
  BY Zenon DEF TakeNMI, NmiOutsideQuiesce, NmiAlreadyQuiesced, NmiQuiesce, Handler
<1>4. g_vmx_quiesce /\ ~quiesced[c] => pc[c] \in {"guest", "lock"}
  <2> SUFFICES ASSUME g_vmx_quiesce, ~quiesced[c] PROVE pc[c] \in {"guest", "lock"}
    OBVIOUS
  <2>1. PICK e \in Cores : pc[e] \in {"signal", "collect", "app", "wake", "zero", "set"}
    BY DEF OpenInv, FreshInv
  <2>2. g_vmx_lock_quiesce = e /\ quiesced[e]
    BY <1>t, <2>1 DEF LockInv, QuiescedInv
  <2>3. pc[c] \notin {"await", "finish", "unmark", "close", "unlock", "user"}
    BY Zenon DEF FreshInv
  <2> QED
    BY <1>t, <2>2, <2>3 DEF LockInv
<1>5. OpenInv'
  BY <1>2, Zenon DEF OpenInv
<1>6. FreshInv'
  BY <1>t, <1>1, <1>2, <1>3, <1>4 DEF FreshInv
<1> QED
  BY <1>2, <1>5, <1>6, Zenon

\* The initiator goes on when all others wait.
LEMMA FreshCollect ==
    ASSUME Others = {}, BaseInv, OpenInv, k = 0, FreshInv, NEW c \in Cores, Collect(c)
    PROVE  OpenInv' /\ FreshInv' /\ k' = 0
<1>t. /\ pc \in [Cores -> MainStates] /\ h \in [Cores -> HandlerStates]
      /\ g_vmx_quiesce_counter \in Nat /\ QuiescedInv /\ LockInv
  BY BaseTypes, Zenon
<1> USE <1>t DEF QuiescedInv, LockInv, OpenInv, FreshInv, PhaseInv, Main, Handler,
             shared, world
<1>1. h[c] # "wait" /\ Cardinality(Waiting) >= N - 1
  <2>1. /\ h[c] = "none" /\ g_vmx_quiesce_counter >= N - 1
        /\ g_vmx_quiesce_counter <= Cardinality(Waiting)
    BY DEF Collect
  <2>2. Cardinality(Waiting) \in Nat /\ N \in Nat
    BY WaitingFacts, NamedCores, ConstantsAssumption
  <2> HIDE DEF FreshInv, OpenInv, PhaseInv, LockInv, QuiescedInv
  <2> QED
    BY <2>1, <2>2
<1>2. \A d \in Cores \ {c} : h[d] = "wait"
  BY <1>1, WaitingFacts, ZenonT(40)
<1>3. Waiting' = Waiting
  BY Zenon DEF Collect, Waiting
<1> QED
  BY <1>2, <1>3 DEF Collect

\* A core that counts itself in waits from then on.
LEMMA FreshCount ==
    ASSUME Others = {}, BaseInv, OpenInv, k = 0, FreshInv, NEW c \in Cores, CountQuiesced(c)
    PROVE  OpenInv' /\ FreshInv' /\ k' = 0
<1>t. /\ pc \in [Cores -> MainStates] /\ h \in [Cores -> HandlerStates]
      /\ g_vmx_quiesce_counter \in Nat /\ QuiescedInv /\ LockInv
  BY BaseTypes, Zenon
<1> USE <1>t DEF QuiescedInv, LockInv, OpenInv, FreshInv, PhaseInv, Main, Handler,
             shared, world
<1>1. /\ h[c] = "count" /\ h' = [h EXCEPT ![c] = "wait"] /\ pc' = pc
      /\ g_vmx_quiesce_counter' = g_vmx_quiesce_counter + 1
      /\ UNCHANGED <<g_vmx_quiesce, g_vmx_quiesce_resume_counter, resume_signal,
                     gdt_signal, k>>
  BY DEF CountQuiesced
<1>2. Waiting' = Waiting \cup {c}
  BY <1>1 DEF Waiting
<1>3. Cardinality(Waiting') = Cardinality(Waiting) + 1 /\ Cardinality(Waiting) \in Nat
  BY <1>1, <1>2, WaitingFacts, Zenon
<1>4. ASSUME NEW d \in Cores, pc[d] \in {"announce", "signal", "collect"}
      PROVE  g_vmx_quiesce_counter' <= Cardinality(Waiting')
  <2>1. g_vmx_quiesce_counter <= Cardinality(Waiting)
    BY <1>4, Zenon
  <2> HIDE DEF FreshInv, OpenInv, PhaseInv, LockInv, QuiescedInv
  <2> QED
    BY <2>1, <1>1, <1>3
<1>5. g_vmx_quiesce
  BY <1>1, Zenon
<1> QED
  BY <1>1, <1>4, <1>5

\* The first stage: everybody else waits, and nobody but worker 1 has a signal.
LEMMA FreshSet ==
    ASSUME Others = {}, BaseInv, OpenInv, k = 0, FreshInv, NEW c \in Cores, SetSignal(c)
    PROVE  OpenInv' /\ k' = 1 /\ Staged(c)'
<1>t. /\ pc \in [Cores -> MainStates] /\ h \in [Cores -> HandlerStates]
      /\ g_vmx_quiesce_counter \in Nat /\ QuiescedInv /\ LockInv
  BY BaseTypes, Zenon
<1> USE <1>t DEF QuiescedInv, LockInv, OpenInv, FreshInv, PhaseInv, Main, Handler,
             shared, world
<1>1. k' = 1 /\ 0 < NW /\ pc[c] = "set"
  BY ConstantsAssumption DEF SetSignal
<1>2. /\ pc'[c] = "await" /\ h' = h /\ h[c] = "none"
      /\ g_vmx_quiesce_resume_counter' = 0 /\ gdt_signal' = gdt_signal
      /\ \A d \in Cores \ {c} : h[d] = "wait"
      /\ \A w \in Workers : ~gdt_signal[w]
  BY <1>1 DEF SetSignal
<1>r. resume_signal \in [0..NW -> BOOLEAN]
  BY Zenon DEF BaseInv, TypeOK
<1>3. \A i \in 0..NW : resume_signal'[i] => i = 1
  BY <1>1, <1>r DEF SetSignal
<1>4. \A d \in Cores : pc'[d] # "user"
  BY DEF SetSignal
<1>5. OpenInv'
  BY DEF SetSignal
<1> HIDE DEF QuiescedInv, LockInv, OpenInv, FreshInv
<1>n. /\ Cores = 0..NW /\ 0 \in Cores /\ Workers = Cores \ {0}
      /\ NW \in Nat /\ NW >= 1
  BY NumberedCores, Zenon
<1> USE <1>n
<1>6. /\ 1 \in Cores /\ NW \in Cores /\ h[1] \in {"none", "wait"}
      /\ h[NW] \in {"none", "wait"}
  BY <1>2
<1>7. ~Arrived'
  BY <1>1, <1>2, <1>6 DEF Arrived
<1>8. \A w \in Workers : w \in 1..NW /\ w \in Cores
  BY DEF Workers
<1>9. c # 0 => 1 < c \/ 1 = c
  OBVIOUS
<1>10. \A w \in Workers \ {c} : h'[w] = "wait"
  BY <1>2, <1>8
<1>11. Leading(c)'
  BY <1>1, <1>2, <1>9 DEF Leading
<1>12. Counted(c)' /\ Signalled'
  BY <1>1, <1>2, <1>3, <1>7, <1>8 DEF Counted, Signalled
<1>13. TssLast(c)'
  BY <1>1, <1>2, <1>6 DEF TssLast
<1>14. ASSUME NEW w \in Workers \ {c} PROVE Following(c, w)'
  BY <1>1, <1>2, <1>8, <1>10 DEF Following
<1> QED
  BY <1>1, <1>4, <1>5, <1>11, <1>12, <1>13, <1>14 DEF Staged

\* Before the first stage: a core enters the handshake at most once, and the
\* hypapp runs only when all others are in it.
LEMMA FreshStep ==
    ASSUME Others = {}, BaseInv, OpenInv, k = 0, FreshInv,
           NEW c \in Cores, HypervisorStep(c) \/ Intercept(c) \/ RaiseGuestNMI(c)
    PROVE  OpenInv' /\ PhaseInv'
<1>1. \/ OpenInv' /\ FreshInv' /\ k' = 0
      \/ OpenInv' /\ Staged(c)' /\ k' = 1
  BY FreshExcluded, FreshInitiator, FreshNmi, FreshCollect, FreshCount, FreshSet, Zenon
     DEF HypervisorStep
<1>2. k' = 0 => ~(k' > 0)
  OBVIOUS
<1>3. k' = 1 => k' # 0
  OBVIOUS
<1> QED
  BY <1>1, <1>2, <1>3, Zenon DEF PhaseInv

\* While endquiesce runs, every other core waits in the handler or takes its
\* stage, which only the worker of stage k does.
LEMMA Followers ==
    ASSUME Others = {}, BaseInv, k > 0, NEW e \in Cores, Staged(e),
           NEW c \in Cores \ {e}
    PROVE  /\ h[c] \in {"wait", "gdt", "tss", "load1", "store1", "waitgdt",
                        "load2", "store2", "waitall"}
           /\ pc[c] \in {"guest", "lock"}
           /\ h[c] \in {"gdt", "tss", "load1", "store1"} \/ (h[c] = "wait" /\ resume_signal[c])
                 => c \in Workers /\ c = k /\ pc[e] = "await"
           /\ h[c] \in {"load2", "store2"} \/ (h[c] = "waitgdt" /\ gdt_signal[c])
                 => c \in Workers /\ c + NW = k /\ pc[e] = "await"
<1>n. /\ Cores = 0..NW /\ 0 \in Cores /\ Workers = Cores \ {0}
      /\ NW \in Nat /\ NW >= 1
  BY NumberedCores, Zenon
<1> USE <1>n
<1>1. k \in Nat /\ k <= 2 * NW
  BY DEF BaseInv, TypeOK
<1>2. pc[c] \in {"guest", "lock"}
  BY DEF BaseInv, LockInv, Staged, Leading
<1>3. CASE c = 0
  BY <1>2, <1>3 DEF Staged, Leading, Signalled
<1>4. CASE c # 0
  <2>1. c \in Workers \ {e} /\ c \in 1..NW
    BY <1>4
  <2>2. Following(e, c)
    BY <2>1 DEF Staged
  <2>3. (resume_signal[c] => c <= k) /\ (gdt_signal[c] => c + NW <= k)
    BY <2>1 DEF Staged, Signalled
  <2>4. pc[e] \in {"set", "await", "finish"}
    BY DEF Staged, Leading
  <2> QED
    BY <1>1, <1>2, <2>1, <2>2, <2>3, <2>4 DEF Following
<1> QED
  BY <1>3, <1>4

\* What the step of one worker in the handler leaves as it was.
LEMMA OthersFollow ==
    ASSUME Others = {}, NEW e \in Cores, Staged(e), NEW c \in Workers \ {e},
           k' = k, pc' = pc, resume_signal' = resume_signal, gdt_signal' = gdt_signal,
           \A d \in Cores \ {c} : h'[d] = h[d] /\ tmp'[d] = tmp[d]
    PROVE  /\ Leading(e)' /\ Signalled'
           /\ \A w \in Workers \ {c, e} : Following(e, w)'
           /\ \A d \in Cores : pc'[d] # "user"
<1>n. /\ Cores = 0..NW /\ 0 \in Cores /\ Workers = Cores \ {0}
      /\ NW \in Nat /\ NW >= 1
  BY NumberedCores, Zenon
<1> USE <1>n DEF Staged
<1>1. Leading(e)'
  BY DEF Leading
<1>2. Signalled'
  BY Zenon DEF Signalled
<1>3. ASSUME NEW w \in Workers \ {c, e} PROVE Following(e, w)'
  BY <1>3 DEF Following
<1> QED
  BY <1>1, <1>2, <1>3

\* A worker takes its stage: it leaves the wait, writes the GDT and the TSS, and
\* adds one to the resume counter, alone.
Moves(c) ==
    /\ UNCHANGED <<pc, k, resume_signal, gdt_signal>>
    /\ \A d \in Cores \ {c} : h'[d] = h[d] /\ tmp'[d] = tmp[d]
    /\ \/ /\ h[c] = "wait" /\ resume_signal[c] /\ (c \in Workers => h'[c] = "gdt")
          /\ UNCHANGED <<tss_esp0, g_vmx_quiesce_resume_counter>>
       \/ /\ h[c] = "gdt" /\ h'[c] = "tss"
          /\ UNCHANGED g_vmx_quiesce_resume_counter
       \/ /\ h[c] = "tss" /\ h'[c] = "load1" /\ tss_esp0' = c
          /\ UNCHANGED g_vmx_quiesce_resume_counter
       \/ /\ (h[c] = "load1" /\ h'[c] = "store1") \/ (h[c] = "load2" /\ h'[c] = "store2")
          /\ tmp'[c] = g_vmx_quiesce_resume_counter
          /\ UNCHANGED <<tss_esp0, g_vmx_quiesce_resume_counter>>
       \/ /\ (h[c] = "store1" /\ h'[c] = "waitgdt") \/ (h[c] = "store2" /\ h'[c] = "waitall")
          /\ g_vmx_quiesce_resume_counter' = tmp[c] + 1
          /\ UNCHANGED tss_esp0
       \/ /\ h[c] = "waitgdt" /\ gdt_signal[c] /\ h'[c] = "load2"
          /\ UNCHANGED <<tss_esp0, g_vmx_quiesce_resume_counter>>

\* The steps of the handler that take a core through its stages.
StageStep(c) == \/ WaitResume(c) \/ UpdateGdt(c) \/ WriteTss(c) \/ LoadResumeCounter(c)
                \/ StoreResumeCounter(c) \/ WaitGdt(c)

\* The steps of the handler are moves.
LEMMA StageMoves ==
    ASSUME TypeOK, NEW c \in Cores, StageStep(c)
    PROVE  Moves(c)
<1>t. h \in [Cores -> HandlerStates] /\ tmp \in [Cores -> Nat]
  BY DEF TypeOK
<1> USE <1>t DEF Handler, Moves, shared, world
<1>1. CASE WaitResume(c)
  BY <1>1, ConstantsAssumption DEF WaitResume, Workers
<1>2. CASE UpdateGdt(c)
  BY <1>2 DEF UpdateGdt
<1>3. CASE WriteTss(c)
  BY <1>3 DEF WriteTss
<1>4. CASE LoadResumeCounter(c)
  BY <1>4, Zenon DEF LoadResumeCounter
<1>5. CASE StoreResumeCounter(c)
  BY <1>5, Zenon DEF StoreResumeCounter
<1>6. CASE WaitGdt(c)
  BY <1>6 DEF WaitGdt
<1> QED
  BY <1>1, <1>2, <1>3, <1>4, <1>5, <1>6, Zenon DEF StageStep

\* A core that does not lead makes no other step.
LEMMA OnlyMoves ==
    ASSUME Others = {}, BaseInv, k > 0, NEW e \in Cores, Staged(e),
           NEW c \in Cores \ {e}, HypervisorStep(c)
    PROVE  StageStep(c)
<1>1. /\ h[c] \in {"wait", "gdt", "tss", "load1", "store1", "waitgdt", "load2", "store2",
                   "waitall"}
      /\ pc[c] \in {"guest", "lock"}
  BY Followers
<1>2. g_vmx_quiesce_resume_counter < AllResumed
  <2>1. k \in Nat /\ k <= 2 * NW /\ g_vmx_quiesce_resume_counter \in Nat /\ Counted(e)
    BY DEF BaseInv, TypeOK, Staged
  <2> QED
    BY <2>1, ConstantsAssumption DEF Counted, AllResumed
<1>3. ~SwitchToUserSpace(c)
  <2>1. g_vmx_quiesce_resume_counter \in Nat /\ AllResumed \in Nat
    BY ConstantsAssumption DEF BaseInv, TypeOK, AllResumed
  <2> QED
    BY <1>2, <2>1 DEF SwitchToUserSpace
<1> QED
  BY <1>1, <1>3, Zenon DEF HypervisorStep, StageStep, Main, Handler, LockQuiesce, MarkQuiesced,
     ResetCounter, Announce, SendQuiesceSignal, Collect, HandleApp, WakeSlaves,
     ZeroResumeCounter, SetSignal, AwaitStage, FinishResume, UnmarkQuiesced, CloseQuiesce,
     UnlockQuiesce, TakeNMI, NmiOutsideQuiesce, NmiAlreadyQuiesced, NmiQuiesce,
     CountQuiesced, RallyResume, ClearQuiesced

\* A step of a worker in the handler keeps the stages in order.
LEMMA FollowerStep ==
    ASSUME Others = {}, BaseInv, k > 0, NEW e \in Cores, Staged(e),
           NEW c \in Cores \ {e}, HypervisorStep(c)
    PROVE  Staged(e)' /\ k' = k
<1>n. /\ Cores = 0..NW /\ 0 \in Cores /\ Workers = Cores \ {0}
      /\ NW \in Nat /\ NW >= 1
  BY NumberedCores, Zenon
<1> USE <1>n
<1>t. k \in Nat /\ g_vmx_quiesce_resume_counter \in Nat /\ TypeOK
  BY DEF BaseInv, TypeOK
<1>m. Moves(c)
  BY <1>t, OnlyMoves, StageMoves
<1>w. /\ c \in Workers /\ c \in 1..NW /\ pc[e] = "await" /\ pc' = pc /\ k' = k
      /\ \/ c = k /\ h[c] \in {"wait", "gdt", "tss", "load1", "store1"}
         \/ c + NW = k /\ h[c] \in {"waitgdt", "load2", "store2"}
  BY <1>m, Followers DEF Moves
<1>s. Counted(e) /\ TssLast(e) /\ (h[c] \in {"store1", "store2"} => tmp[c] = k - 1)
  BY <1>w DEF Staged, Following
<1>o. /\ Leading(e)' /\ Signalled' /\ (\A d \in Cores : pc'[d] # "user")
      /\ \A w \in Workers \ {c, e} : Following(e, w)'
  <2>1. /\ UNCHANGED <<pc, k, resume_signal, gdt_signal>>
        /\ \A d \in Cores \ {c} : h'[d] = h[d] /\ tmp'[d] = tmp[d]
    BY <1>m, Zenon DEF Moves
  <2>2. c \in Workers \ {e}
    BY <1>w, Zenon
  <2> QED
    BY <2>1, <2>2, OthersFollow, Zenon
<1>1. CASE c = k /\ h[c] \in {"wait", "gdt", "tss", "load1", "store1"}
  <2>1. (Arrived <=> h[c] = "waitgdt") /\ (Arrived' <=> h'[c] = "waitgdt") /\ k <= NW
    BY <1>1, <1>t, <1>w DEF Arrived
  <2>2. g_vmx_quiesce_resume_counter = k - 1
    BY <1>1, <1>s, <1>w, <2>1 DEF Counted
  <2>3. Following(e, c)'
    <3>1. /\ h'[c] \in {"gdt", "tss", "load1", "store1", "waitgdt"}
          /\ h'[c] = "store1" => tmp'[c] = k - 1
      BY <1>1, <1>m, <1>w, <2>2 DEF Moves
    <3>2. ~(c > k) /\ ~(c < k) /\ c + NW > k
      BY <1>1, <1>w
    <3> QED
      BY <1>t, <1>w, <3>1, <3>2 DEF Following
  <2>4. Counted(e)'
    <3>1. /\ h'[c] = "waitgdt" => g_vmx_quiesce_resume_counter' = tmp[c] + 1 /\ tmp[c] = k - 1
          /\ h'[c] # "waitgdt" => g_vmx_quiesce_resume_counter' = k - 1
      BY <1>1, <1>m, <1>s, <2>2 DEF Moves
    <3>2. k - 1 + 1 = k /\ k' = k /\ pc'[e] = "await"
      BY <1>t, <1>w
    <3> QED
      BY <3>1, <3>2, <2>1, Zenon DEF Counted
  <2>5. TssLast(e)'
    <3>1. CASE k = NW
      <4>1. h[c] \in {"load1", "store1"} => tss_esp0 = NW
        BY <1>1, <1>s, <3>1, Zenon DEF TssLast
      <4>2. h'[c] \in {"load1", "store1", "waitgdt"} => tss_esp0' = NW
        BY <1>1, <1>m, <3>1, <4>1 DEF Moves
      <4>3. c = NW /\ k' = NW /\ ~(k' > NW) /\ pc'[e] = "await"
        BY <1>1, <1>w, <3>1
      <4> QED
        BY <4>2, <4>3, Zenon DEF TssLast
    <3>2. CASE k # NW
      <4>1. k' = k /\ ~(k > NW)
        BY <1>t, <1>w, <2>1
      <4> QED
        BY <3>2, <4>1, Zenon DEF TssLast
    <3> QED
      BY <3>1, <3>2, Zenon
  <2> QED
    BY <1>o, <1>w, <2>3, <2>4, <2>5 DEF Staged
<1>2. CASE c + NW = k /\ h[c] \in {"waitgdt", "load2", "store2"}
  <2>1. (Arrived <=> h[c] = "waitall") /\ (Arrived' <=> h'[c] = "waitall") /\ k > NW
    BY <1>2, <1>t, <1>w DEF Arrived
  <2>2. g_vmx_quiesce_resume_counter = k - 1
    BY <1>2, <1>s, <1>w, <2>1 DEF Counted
  <2>3. Following(e, c)'
    <3>1. /\ h'[c] \in {"load2", "store2", "waitall"} /\ h'[c] # "store1"
          /\ h'[c] = "store2" => tmp'[c] = k - 1
      BY <1>2, <1>m, <2>2 DEF Moves
    <3>2. /\ k' = k /\ pc'[e] = "await"
          /\ ~(c > k) /\ c # k /\ ~(c + NW > k) /\ ~(c + NW < k) /\ c + NW = k
      BY <1>2, <1>t, <1>w
    <3> QED
      BY <3>1, <3>2, Zenon DEF Following
  <2>4. Counted(e)'
    BY <1>2, <1>m, <1>s, <1>t, <1>w, <2>1, <2>2 DEF Moves, Counted
  <2>5. TssLast(e)'
    BY <1>2, <1>m, <1>s, <1>t, <1>w, <2>1 DEF Moves, TssLast
  <2> QED
    BY <1>o, <1>w, <2>3, <2>4, <2>5 DEF Staged
<1> QED
  BY <1>w, <1>1, <1>2

\* endquiesce goes from stage to stage, and when the last one is over every
\* worker is on its way to user space: only core 0 gets there.
LEMMA LeaderStep ==
    ASSUME Others = {}, BaseInv, k > 0, NEW e \in Cores, Staged(e),
           HypervisorStep(e)
    PROVE  k' > 0 /\ (Staged(e)' \/ After')
<1>x. \/ SetSignal(e) \/ AwaitStage(e) \/ FinishResume(e)
      \/ TakeNMI(e) \/ NmiOutsideQuiesce(e) \/ NmiAlreadyQuiesced(e)
  <2>1. pc[e] \in {"set", "await", "finish"} /\ h[e] \in {"none", "entry"}
    BY DEF Staged, Leading
  <2>2. ~NmiQuiesce(e)
    BY <2>1, Zenon DEF NmiQuiesce, BaseInv, QuiescedInv
  <2> QED
    BY <2>1, <2>2, Zenon DEF HypervisorStep, Main, Handler, LockQuiesce, MarkQuiesced,
       ResetCounter, Announce, SendQuiesceSignal, Collect, HandleApp, WakeSlaves,
       ZeroResumeCounter, UnmarkQuiesced, CloseQuiesce, UnlockQuiesce, CountQuiesced,
       WaitResume, UpdateGdt, WriteTss, LoadResumeCounter, StoreResumeCounter, WaitGdt,
       SwitchToUserSpace, RallyResume, ClearQuiesced
<1>n. /\ Cores = 0..NW /\ 0 \in Cores /\ Workers = Cores \ {0}
      /\ NW \in Nat /\ NW >= 1
  BY NumberedCores, Zenon
<1> USE <1>n DEF Main, Handler, shared, world
<1>t. /\ k \in Nat /\ k <= 2 * NW /\ h \in [Cores -> HandlerStates] /\ e \in 0..NW
      /\ pc \in [Cores -> MainStates] /\ g_vmx_quiesce_resume_counter \in Nat
      /\ resume_signal \in [0..NW -> BOOLEAN] /\ gdt_signal \in [Workers -> BOOLEAN]
      /\ \A w \in Workers : w \in 1..NW
  BY DEF BaseInv, TypeOK
<1>p. Leading(e) /\ Counted(e) /\ Signalled /\ TssLast(e)
  BY DEF Staged
<1>f. \A w \in Workers \ {e} : Following(e, w)
  BY DEF Staged
<1>u. \A d \in Cores : pc[d] # "user"
  BY DEF Staged
<1>1. CASE SetSignal(e)
  <2>1. /\ pc[e] = "set" /\ pc'[e] = "await" /\ h' = h /\ k' = k + 1 /\ k < 2 * NW
        /\ g_vmx_quiesce_resume_counter' = k /\ tmp' = tmp /\ tss_esp0' = tss_esp0
    BY <1>1, <1>t, <1>p DEF SetSignal, Counted, BaseInv, StageInv
  <2>2. Leading(e)'
    BY <2>1, <1>t, <1>p DEF Leading
  <2>3. ASSUME NEW w \in Workers \ {e} PROVE Following(e, w)'
    <3>1. Following(e, w) /\ w \in 1..NW
      BY <1>f, <1>t
    <3> QED
      BY <3>1, <2>1, <1>t DEF Following
  <2>4. ~Arrived'
    <3>1. CASE k < NW
      <4>1. k + 1 \in Cores /\ (k + 1 = e \/ k + 1 \in Workers \ {e})
        BY <3>1, <1>t
      <4>2. h[k + 1] \in {"none", "entry", "wait"}
        BY <4>1, <3>1, <1>t, <1>p, <1>f DEF Leading, Following
      <4> QED
        BY <4>2, <3>1, <2>1, <1>t DEF Arrived
    <3>2. CASE k >= NW
      <4>1. e = 0 /\ k + 1 - NW \in Workers \ {e}
        <5>1. e = 0
          BY <3>2, <2>1, <1>t, <1>p DEF Leading
        <5>2. k + 1 - NW \in 1..NW
          BY <3>2, <2>1, <1>t
        <5>3. k + 1 - NW \in Cores /\ k + 1 - NW # 0
          BY <5>2
        <5> QED
          BY <5>1, <5>3, Zenon
      <4>2. h[k + 1 - NW] = "waitgdt"
        <5> DEFINE w == k + 1 - NW
        <5>1. Following(e, w) /\ w + NW > k /\ w <= k /\ w \in Int
          BY <4>1, <3>2, <1>t, <1>f
        <5> HIDE DEF w
        <5>2. h[w] = "waitgdt"
          BY <5>1, <2>1, <1>t DEF Following
        <5> QED
          BY <5>2 DEF w
      <4> QED
        BY <4>2, <3>2, <2>1, <1>t DEF Arrived
    <3> QED
      BY <3>1, <3>2, <1>t
  <2>5. Counted(e)'
    BY <2>1, <2>4, <1>t DEF Counted
  <2>6. Signalled'
    <3>1. ~resume_signal'[0]
      BY <1>1, <1>t, <1>p DEF SetSignal, Signalled
    <3>2. ASSUME NEW w \in Workers PROVE resume_signal'[w] => w <= k'
      <4>1. w \in 1..NW /\ (resume_signal[w] => w <= k)
        BY <1>t, <1>p DEF Signalled
      <4> QED
        BY <4>1, <1>1, <2>1, <1>t DEF SetSignal
    <3>3. ASSUME NEW w \in Workers PROVE gdt_signal'[w] => w + NW <= k'
      <4>1. w \in 1..NW /\ (gdt_signal[w] => w + NW <= k)
        BY <1>t, <1>p DEF Signalled
      <4>2. \/ gdt_signal' = gdt_signal
            \/ gdt_signal' = [gdt_signal EXCEPT ![k + 1 - NW] = TRUE]
        BY <1>1 DEF SetSignal
      <4>3. w = k + 1 - NW \/ gdt_signal'[w] = gdt_signal[w]
        BY <4>2, <1>t
      <4>4. k' = k + 1 /\ k \in Int /\ NW \in Int /\ w \in Int
        BY <4>1, <2>1, <1>t
      <4>5. (w = k + 1 - NW \/ w + NW <= k) => w + NW <= k'
        BY <4>4
      <4> QED
        BY <4>1, <4>3, <4>5, Zenon
    <3> QED
      BY <3>1, <3>2, <3>3, Zenon DEF Signalled
  <2>7. TssLast(e)'
    <3>1. CASE k + 1 = NW
      <4>1. NW = e \/ (NW \in Workers \ {e} /\ Following(e, NW) /\ NW > k)
        <5>1. NW \in 0..NW /\ NW # 0 /\ NW > k
          BY <3>1, <1>t
        <5>2. NW \in Workers
          BY <5>1, Zenon
        <5> QED
          BY <5>1, <5>2, <1>f, Zenon
      <4>2. h[NW] \in {"none", "entry", "wait"}
        BY <4>1, <1>p DEF Leading, Following
      <4> QED
        BY <4>2, <3>1, <2>1, <1>t DEF TssLast
    <3>2. CASE k + 1 # NW
      BY <3>2, <2>1, <1>t, <1>p DEF TssLast
    <3> QED
      BY <3>1, <3>2
  <2>8. \A d \in Cores : pc'[d] # "user"
    BY <1>1, <1>t, <1>u DEF SetSignal
  <2> QED
    BY <2>1, <2>2, <2>3, <2>5, <2>6, <2>7, <2>8, <1>t DEF Staged
<1>2. CASE AwaitStage(e)
  <2>1. /\ pc[e] = "await" /\ pc'[e] = (IF k < 2 * NW THEN "set" ELSE "finish")
        /\ h' = h /\ k' = k /\ g_vmx_quiesce_resume_counter >= k
        /\ UNCHANGED <<tmp, tss_esp0, resume_signal, gdt_signal,
                       g_vmx_quiesce_resume_counter>>
    BY <1>2, <1>t DEF AwaitStage
  <2>2. Arrived /\ g_vmx_quiesce_resume_counter = k
    BY <2>1, <1>t, <1>p DEF Counted
  <2>3. e # 0 => k < e
    BY <2>1, <2>2, <1>t, <1>p DEF Leading, Arrived
  <2>4. Leading(e)'
    BY <2>1, <2>3, <1>t, <1>p DEF Leading
  <2>5. ASSUME NEW w \in Workers \ {e} PROVE Following(e, w)'
    <3>1. Following(e, w) /\ w \in 1..NW
      BY <1>f, <1>t
    <3>2. (w = k => h[w] = "waitgdt") /\ (w + NW = k => h[w] = "waitall")
      <4>1. w = k => ~(k > NW)
        BY <3>1, <1>t
      <4>2. w + NW = k => ~(k <= NW) /\ k - NW = w
        BY <3>1, <1>t
      <4> QED
        BY <4>1, <4>2, <2>2, Zenon DEF Arrived
    <3> QED
      BY <3>1, <3>2, <2>1, <1>t, Zenon DEF Following
  <2>6. Counted(e)' /\ Signalled'
    BY <2>1, <2>2, <1>t, <1>p, Zenon DEF Counted, Signalled
  <2>7. TssLast(e)'
    BY <2>1, <2>2, <1>t, <1>p, Zenon DEF TssLast, Arrived
  <2>8. \A d \in Cores : pc'[d] # "user"
    BY <1>2, <1>t, <1>u DEF AwaitStage
  <2> QED
    BY <2>1, <2>4, <2>5, <2>6, <2>7, <2>8, <1>t DEF Staged
<1>3. CASE FinishResume(e)
  <2>1. /\ pc[e] = "finish" /\ pc' = [pc EXCEPT ![e] = "unmark"] /\ h' = h /\ k' = k
        /\ tss_esp0' = tss_esp0 /\ resume_signal' = resume_signal
    BY <1>3 DEF FinishResume
  <2>2. e = 0 /\ k = 2 * NW
    BY <2>1, <1>t, <1>p DEF Leading
  <2>3. tss_esp0 = NW /\ ~resume_signal[0] /\ h[0] \in {"none", "entry"}
    BY <2>2, <1>t, <1>p DEF TssLast, Signalled, Leading
  <2>4. ASSUME NEW w \in Workers PROVE h'[w] = "waitall" /\ pc'[w] \in {"guest", "lock"}
    <3>1. w \in Cores \ {e} /\ w \in 1..NW /\ Following(e, w)
      BY <2>2, <1>f, <1>t
    <3>2. pc[w] \in {"guest", "lock"}
      BY <3>1, Followers
    <3> QED
      BY <3>1, <3>2, <2>1, <2>2, <1>t DEF Following
  <2>5. pc'[0] = "unmark"
    BY <2>1, <2>2, <1>t
  <2>6. After'
    BY <2>1, <2>3, <2>4, <2>5 DEF After
  <2> QED
    BY <2>1, <2>6
<1>4. CASE TakeNMI(e) \/ NmiOutsideQuiesce(e) \/ NmiAlreadyQuiesced(e)
  <2>1. /\ UNCHANGED <<pc, k, tmp, tss_esp0, resume_signal, gdt_signal,
                       g_vmx_quiesce_resume_counter>>
        /\ h'[e] \in {"none", "entry"} /\ \A d \in Cores \ {e} : h'[d] = h[d]
    BY <1>4, <1>t, Zenon DEF TakeNMI, NmiOutsideQuiesce, NmiAlreadyQuiesced
  <2>2. Leading(e)' /\ Signalled' /\ \A d \in Cores : pc'[d] # "user"
    BY <2>1, <1>p, <1>u DEF Leading, Signalled
  <2>3. ASSUME NEW w \in Workers \ {e} PROVE Following(e, w)'
    <3>1. Following(e, w) /\ h'[w] = h[w]
      BY <2>1, <1>f
    <3> QED
      BY <3>1, <2>1 DEF Following
  <2>4. Arrived' <=> Arrived
    BY <2>1, <1>t, <1>p DEF Arrived, Leading
  <2>5. Counted(e)'
    BY <2>1, <2>4, <1>p DEF Counted
  <2>6. TssLast(e)'
    BY <2>1, <1>t, <1>p DEF TssLast
  <2> QED
    BY <2>1, <2>2, <2>3, <2>5, <2>6 DEF Staged
<1> QED
  BY <1>x, <1>1, <1>2, <1>3, <1>4

\* After endquiesce only core 0 acts in the guest.  When it starts another
\* round, nobody is left to count in: it waits in quiesce for good.
LEMMA AfterStep ==
    ASSUME Others = {}, BaseInv, OpenInv, k > 0, After, NEW c \in Cores,
           HypervisorStep(c) \/ Intercept(c) \/ RaiseGuestNMI(c)
    PROVE  OpenInv' /\ After' /\ k' = k
<1>n. 0 \in Cores /\ Workers = Cores \ {0}
  BY NamedCores, Zenon
<1>t. /\ k \in Nat /\ h \in [Cores -> HandlerStates] /\ pc \in [Cores -> MainStates]
      /\ g_vmx_quiesce_counter \in Nat /\ NW \in Nat /\ NW >= 1 /\ N - 1 = NW
  BY ConstantsAssumption, NamedCores DEF BaseInv, TypeOK
<1>q. \A d \in Cores : /\ pc[d] = "user" => quiesced[d] /\ h[d] \in {"none", "entry"}
                       /\ h[d] = "waitall" => quiesced[d]
                       /\ pc[d] \in {"reset", "announce", "signal", "collect", "unmark"} =>
                             quiesced[d] /\ h[d] \in {"none", "entry"}
  BY <1>t DEF BaseInv, QuiescedInv, HandlerStates
<1>w. \A w \in Workers : \/ h[w] = "waitall" /\ pc[w] \in {"guest", "lock"}
                         \/ pc[w] = "user" /\ h[w] \in {"none", "entry"}
  BY <1>n, <1>q DEF After
<1>g. g_vmx_quiesce => pc[0] \in {"signal", "collect", "unmark", "close"}
  BY <1>n DEF After, OpenInv
<1>x. \/ Intercept(c) \/ RaiseGuestNMI(c) \/ LockQuiesce(c) \/ MarkQuiesced(c)
      \/ ResetCounter(c) \/ Announce(c) \/ SendQuiesceSignal(c) \/ UnmarkQuiesced(c)
      \/ CloseQuiesce(c) \/ UnlockQuiesce(c) \/ TakeNMI(c) \/ NmiOutsideQuiesce(c)
      \/ NmiAlreadyQuiesced(c) \/ NmiQuiesce(c) \/ CountQuiesced(c) \/ SwitchToUserSpace(c)
  <2>1. /\ pc[c] \in {"guest", "lock", "mark", "reset", "announce", "signal", "collect",
                      "unmark", "close", "unlock", "user"}
        /\ h[c] \in {"none", "entry", "count", "wait", "waitall"}
        /\ h[c] = "wait" => ~resume_signal[c]
    BY <1>n, <1>w DEF After
  <2>2. ~Collect(c)
    BY <1>n, <1>t, <1>w DEF After, Collect, Main
  <2> QED
    BY <2>1, <2>2, Zenon DEF HypervisorStep, Main, Handler, HandleApp, WakeSlaves,
       ZeroResumeCounter, SetSignal, AwaitStage, FinishResume, WaitResume, UpdateGdt,
       WriteTss, LoadResumeCounter, StoreResumeCounter, WaitGdt, RallyResume, ClearQuiesced
<1> USE <1>n, <1>t, <1>q, <1>w, <1>g DEF After, OpenInv, Main, Handler, shared, world
<1>1. CASE Intercept(c)
  BY <1>1, Zenon DEF Intercept
<1>2. CASE RaiseGuestNMI(c)
  BY <1>2, Zenon DEF RaiseGuestNMI
<1>3. CASE LockQuiesce(c)
  BY <1>3, Zenon DEF LockQuiesce
<1>4. CASE MarkQuiesced(c)
  BY <1>4, Zenon DEF MarkQuiesced
<1>5. CASE ResetCounter(c)
  BY <1>5, Zenon DEF ResetCounter
<1>6. CASE Announce(c)
  BY <1>6, Zenon DEF Announce
<1>7. CASE SendQuiesceSignal(c)
  BY <1>7, Zenon DEF SendQuiesceSignal
<1>8. CASE UnmarkQuiesced(c)
  BY <1>8, Zenon DEF UnmarkQuiesced
<1>9. CASE CloseQuiesce(c)
  BY <1>9, Zenon DEF CloseQuiesce
<1>10. CASE UnlockQuiesce(c)
  BY <1>10, Zenon DEF UnlockQuiesce
<1>11. CASE TakeNMI(c)
  BY <1>11, Zenon DEF TakeNMI
<1>12. CASE NmiOutsideQuiesce(c)
  BY <1>12, Zenon DEF NmiOutsideQuiesce
<1>13. CASE NmiAlreadyQuiesced(c)
  BY <1>13, Zenon DEF NmiAlreadyQuiesced
<1>14. CASE NmiQuiesce(c)
  BY <1>14, Zenon DEF NmiQuiesce
<1>15. CASE CountQuiesced(c)
  BY <1>15, Zenon DEF CountQuiesced
<1>16. CASE SwitchToUserSpace(c)
  BY <1>16, Zenon DEF SwitchToUserSpace
<1> HIDE <1>n, <1>t, <1>q, <1>w, <1>g DEF After, OpenInv, Main, Handler, shared, world
<1> QED
  BY <1>x, <1>1, <1>2, <1>3, <1>4, <1>5, <1>6, <1>7, <1>8,
     <1>9, <1>10, <1>11, <1>12, <1>13, <1>14, <1>15, <1>16, Zenon

\* The three phases follow one another, whatever core takes the step.
LEMMA PhasePreserved ==
    ASSUME Others = {}, IInv, Step
    PROVE  OpenInv' /\ PhaseInv'
<1>1. PICK c \in Cores : HypervisorStep(c) \/ Intercept(c) \/ RaiseGuestNMI(c)
  BY DEF Step
<1>2. k \in Nat
  BY BaseTypes, Zenon DEF IInv
<1>3. CASE k = 0
  BY <1>1, <1>3, FreshStep DEF IInv, PhaseInv
<1>4. CASE k > 0 /\ After
  <2>1. OpenInv' /\ After' /\ k' = k
    <3>1. BaseInv /\ OpenInv
      BY DEF IInv
    <3> QED
      BY <1>1, <1>4, <3>1, AfterStep
  <2> QED
    BY <2>1, <1>2, <1>4 DEF PhaseInv
<1>5. CASE k > 0 /\ \E e \in Cores : Staged(e)
  <2>1. PICK e \in Cores : Staged(e)
    BY <1>5
  <2>2. pc[e] \in {"set", "await", "finish"} /\ h[e] \in {"none", "entry"}
    BY <2>1 DEF Staged, Leading
  <2>3. OpenInv'
    <3>1. /\ pc \in [Cores -> MainStates]
          /\ \A d \in Cores \ {e} : pc[d] \in {"guest", "lock"} /\ h[d] # "none"
      BY <2>1, <1>5, Followers, BaseTypes, Zenon DEF IInv
    <3>2. pc'[e] \in {"set", "await", "finish", "unmark"}
      BY <1>1, <2>2, <3>1, Zenon
         DEF HypervisorStep, Intercept, LockQuiesce, MarkQuiesced, ResetCounter,
             Announce, SendQuiesceSignal, Collect, HandleApp, WakeSlaves,
             ZeroResumeCounter, SetSignal, AwaitStage, FinishResume,
             UnmarkQuiesced, CloseQuiesce, UnlockQuiesce, RaiseGuestNMI, TakeNMI,
             NmiOutsideQuiesce, NmiAlreadyQuiesced, NmiQuiesce, CountQuiesced,
             WaitResume, UpdateGdt, WriteTss, LoadResumeCounter,
             StoreResumeCounter, WaitGdt, SwitchToUserSpace, RallyResume,
             ClearQuiesced, Main, Handler
    <3> QED
      BY <3>2 DEF OpenInv
  <2>4. CASE HypervisorStep(c) /\ c = e
    <3>1. k' > 0 /\ (Staged(e)' \/ After')
      BY <1>5, <2>1, <2>4, LeaderStep DEF IInv
    <3>2. k' # 0
      BY <3>1
    <3> QED
      BY <2>3, <3>1, <3>2, Zenon DEF PhaseInv
  <2>5. CASE HypervisorStep(c) /\ c # e
    <3>1. Staged(e)' /\ k' = k
      BY <1>5, <2>1, <2>5, FollowerStep DEF IInv
    <3> QED
      BY <2>3, <3>1, <1>2, <1>5 DEF PhaseInv
  <2>6. CASE Intercept(c)
    <3>1. pc[c] = "guest" /\ h[c] = "none"
      BY <2>6, Zenon DEF Intercept, Main
    <3>2. c # e
      BY <2>2, <3>1
    <3> QED
      BY <1>5, <2>1, <3>1, <3>2, Followers DEF IInv
  <2>7. CASE RaiseGuestNMI(c)
    <3>1. UNCHANGED <<pc, h, k, tmp, tss_esp0, resume_signal, gdt_signal,
                      g_vmx_quiesce_resume_counter>>
      BY <2>7 DEF RaiseGuestNMI, shared
    <3>2. Staged(e)'
      BY <2>1, <3>1, Zenon
         DEF Staged, Leading, Counted, Arrived, Signalled, TssLast, Following
    <3> QED
      BY <2>3, <3>1, <3>2, <1>2, <1>5 DEF PhaseInv
  <2> QED
    BY <1>1, <2>4, <2>5, <2>6, <2>7
<1> QED
  BY <1>2, <1>3, <1>4, <1>5 DEF IInv, PhaseInv

\* Every step keeps the inductive invariant of the handshake.
LEMMA InvPreserved == ASSUME Others = {} PROVE IInv /\ [Next]_vars => IInv'
<1> SUFFICES ASSUME IInv, [Next]_vars PROVE IInv'
  OBVIOUS
<1>1. BaseInv'
  BY BasePreserved DEF IInv
<1>2. CASE Step
  BY <1>1, <1>2, PhasePreserved DEF IInv
<1>3. CASE Still
  <2>1. OpenInv'
    BY <1>3, Stutter, Zenon DEF IInv, OpenInv
  <2>2. Waiting' = Waiting
    BY <1>3, Stutter, Zenon DEF Waiting
  <2>a. UNCHANGED <<pc, h, g_vmx_quiesce, g_vmx_quiesce_counter, resume_signal,
                    gdt_signal, g_vmx_quiesce_resume_counter>>
    BY <1>3, Stutter, Zenon
  <2>3. FreshInv' <=> FreshInv
    BY <2>a, <2>2, Zenon DEF FreshInv
  <2>4. After' <=> After
    BY <1>3, Stutter DEF After
  <2>5. ASSUME NEW e \in Cores PROVE Staged(e)' <=> Staged(e)
    BY <1>3, Stutter, Zenon
       DEF Staged, Leading, Counted, Arrived, Signalled, TssLast, Following
  <2>6. k' = k
    BY <1>3, Stutter
  <2> QED
    BY <1>1, <2>1, <2>3, <2>4, <2>5, <2>6 DEF IInv, PhaseInv
<1> QED
  BY <1>2, <1>3, StepOrStill, Zenon

\* It holds when the machine starts.
LEMMA Initially == ASSUME Others = {} PROVE Init => IInv
<1> SUFFICES ASSUME Init PROVE IInv
  OBVIOUS
<1>1. BaseInv
  BY BaseInitially
<1>2. OpenInv
  BY DEF Init, OpenInv
<1>3. FreshInv
  BY NamedCores DEF Init, FreshInv
<1> QED
  BY <1>1, <1>2, <1>3 DEF IInv, PhaseInv, Init

\* The three phases describe the handshake of smpg-x86vmx.c at all times, for
\* any number of workers, initiators, rounds and foreign NMIs.
THEOREM Invariance == ASSUME Others = {} PROVE Spec => []IInv
BY Initially, InvPreserved, PTL DEF Spec

\* Where the handshake stands gives what the initiator may rely on.
LEMMA HandshakeSafe ==
    ASSUME Others = {}, IInv
    PROVE  StopTheWorld /\ UpdateSerial /\ StageMeansReleased
<1>n. /\ Cores = 0..NW /\ 0 \in Cores /\ Workers = Cores \ {0}
      /\ NW \in Nat /\ NW >= 1
  BY NumberedCores, Zenon
<1> USE <1>n
<1>t. k \in Nat /\ \A w \in Workers : w \in 1..NW
  BY DEF IInv, BaseInv, TypeOK
<1>1. CASE k = 0
  <2>1. FreshInv
    BY <1>1 DEF IInv, PhaseInv
  <2> QED
    BY <2>1 DEF FreshInv, StopTheWorld, UpdateSerial, StageMeansReleased
<1>2. CASE After
  BY <1>2 DEF After, StopTheWorld, UpdateSerial, StageMeansReleased, IInv, BaseInv,
              QuiescedInv
<1>3. CASE k > 0 /\ \E e \in Cores : Staged(e)
  <2>1. PICK e \in Cores : Staged(e)
    BY <1>3
  <2>2. /\ pc[e] \in {"set", "await", "finish"} /\ h[e] \in {"none", "entry"}
        /\ pc[e] = "finish" => k = 2 * NW /\ e = 0
    BY <1>t, <2>1 DEF Staged, Leading
  <2>3. \A c \in Cores \ {e} : pc[c] \in {"guest", "lock"}
    BY <1>3, <2>1, Followers DEF IInv
  <2>4. \A c \in Cores \ {e} :
           h[c] \in {"gdt", "tss", "load1", "store1", "load2", "store2"} =>
             c \in Workers /\ (c = k \/ c + NW = k)
    BY <1>3, <2>1, Followers DEF IInv
  <2>5. StopTheWorld
    BY <2>2, <2>3 DEF StopTheWorld
  <2>6. UpdateSerial
    BY <1>t, <2>2, <2>3, <2>4 DEF UpdateSerial
  <2>7. StageMeansReleased
    <3> SUFFICES ASSUME NEW c \in Cores, pc[c] \in {"finish", "unmark", "close", "unlock"},
                        NEW w \in Workers
                 PROVE  h[w] = "waitall"
      BY DEF StageMeansReleased
    <3>1. c = e /\ pc[e] = "finish" /\ k = 2 * NW /\ e = 0
      BY <2>2, <2>3
    <3>2. Following(e, w) /\ w \in 1..NW
      BY <1>t, <2>1, <3>1 DEF Staged
    <3> QED
      BY <3>1, <3>2 DEF Following
  <2> QED
    BY <2>5, <2>6, <2>7
<1> QED
  BY <1>t, <1>1, <1>2, <1>3 DEF IInv, PhaseInv

\* While the hypapp handles an intercept, every other core is held in its NMI
\* handler (smpg-x86vmx.c, quiesce), for any number of workers, initiators,
\* rounds and foreign NMIs, on a machine whose cores the NMI handler all names.
THEOREM WorldStops == ASSUME Others = {} PROVE Spec => []StopTheWorld
BY Invariance, HandshakeSafe, PTL

\* The staged release of endquiesce lets one core at a time rewrite the shared
\* GDT and TSS and count itself, and none after a core has gone to ring 3, with
\* the last worker's stack in user_tss (smpg-x86vmx.c,
\* prepare_context).
THEOREM UpdatesSerial == ASSUME Others = {} PROVE Spec => []UpdateSerial
BY Invariance, HandshakeSafe, PTL

\* The unlocked increments of the resume counter are all there: endquiesce ends
\* only when every worker has passed the stages it was released for.
THEOREM StagesReleased == ASSUME Others = {} PROVE Spec => []StageMeansReleased
BY Invariance, HandshakeSafe, PTL

-----------------------------------------------------------------------------
(***************************************************************************)
(* The hypapp and the NMIs of the guest.                                   *)
(***************************************************************************)

\* The steps of the NMI handler but the last one of a worker.
NmiStep(c) ==
    \/ RaiseGuestNMI(c) \/ TakeNMI(c) \/ NmiOutsideQuiesce(c) \/ NmiAlreadyQuiesced(c)
    \/ NmiQuiesce(c) \/ CountQuiesced(c) \/ WaitResume(c) \/ UpdateGdt(c) \/ WriteTss(c)
    \/ LoadResumeCounter(c) \/ StoreResumeCounter(c) \/ WaitGdt(c) \/ RallyResume(c)
    \/ ClearQuiesced(c)

\* They leave alone what the intercept handlers and the hypapp have written.
LEMMA NmiStepsApart ==
    ASSUME NEW c, NmiStep(c)
    PROVE  UNCHANGED <<pc, k, kind, rounds, mapped, slave_resume, g_vmx_quiesce>>
BY Zenon DEF NmiStep, Handler, shared, world, RaiseGuestNMI, TakeNMI, NmiOutsideQuiesce,
   NmiAlreadyQuiesced, NmiQuiesce, CountQuiesced, WaitResume, UpdateGdt, WriteTss,
   LoadResumeCounter, StoreResumeCounter, WaitGdt, RallyResume, ClearQuiesced

\* The effects of the hypapp are not undone.
LEMMA AppPreserved ==
    ASSUME Others = {}, IInv, AppInv, Step
    PROVE  AppInv'
<1>c. PICK c \in Cores : HypervisorStep(c) \/ Intercept(c) \/ RaiseGuestNMI(c)
  BY DEF Step
<1>t. /\ pc \in [Cores -> MainStates] /\ kind \in [Cores -> AllKinds] /\ k \in Nat
      /\ rounds \in Nat
  BY BaseTypes, Zenon DEF IInv
<1>h. k = 0 => \A d \in Cores : h[d] # "waitall"
  BY Zenon DEF IInv, PhaseInv, FreshInv
<1>k. Kinds \subseteq AllKinds
  BY ConstantsAssumption, Zenon
<1> USE <1>k, <1>t, <1>h DEF AppInv, Main, shared, world
<1>1. CASE Intercept(c)
  <2>1. /\ pc[c] = "guest" /\ pc' = [pc EXCEPT ![c] = "lock"]
        /\ rounds' = rounds + 1 /\ UNCHANGED <<k, mapped, slave_resume>>
        /\ \A d \in Cores \ {c} : kind'[d] = kind[d]
    BY <1>1 DEF Intercept
  <2>2. rounds' # 0 /\ (rounds' = 1 => k' = 0)
    BY <2>1
  <2>3. \A d \in Cores : (pc'[d] = pc[d] /\ d # c) \/ pc'[d] = "lock"
    BY <2>1, Zenon
  <2> QED
    BY <2>1, <2>2, <2>3
<1>2. CASE LockQuiesce(c)
  BY <1>2, Zenon DEF LockQuiesce
<1>3. CASE MarkQuiesced(c)
  BY <1>3, Zenon DEF MarkQuiesced
<1>4. CASE ResetCounter(c)
  BY <1>4, Zenon DEF ResetCounter
<1>5. CASE Announce(c)
  BY <1>5, Zenon DEF Announce
<1>6. CASE SendQuiesceSignal(c)
  BY <1>6, Zenon DEF SendQuiesceSignal
<1>7. CASE Collect(c)
  BY <1>7, Zenon DEF Collect
<1>8. CASE HandleApp(c)
  BY <1>8, Zenon DEF HandleApp
<1>9. CASE WakeSlaves(c)
  BY <1>9, Zenon DEF WakeSlaves
<1>10. CASE ZeroResumeCounter(c)
  BY <1>10, Zenon DEF ZeroResumeCounter
<1>11. CASE SetSignal(c)
  BY <1>11, Zenon DEF SetSignal
<1>12. CASE AwaitStage(c)
  BY <1>12, Zenon DEF AwaitStage
<1>13. CASE FinishResume(c)
  BY <1>13, Zenon DEF FinishResume
<1>14. CASE UnmarkQuiesced(c)
  BY <1>14, Zenon DEF UnmarkQuiesced
<1>15. CASE CloseQuiesce(c)
  BY <1>15, Zenon DEF CloseQuiesce
<1>16. CASE UnlockQuiesce(c)
  BY <1>16, Zenon DEF UnlockQuiesce
<1>17. CASE SwitchToUserSpace(c)
  BY <1>17, Zenon DEF SwitchToUserSpace
<1> HIDE <1>k, <1>t, <1>h DEF AppInv, Main, shared, world
<1>18. CASE NmiStep(c)
  BY <1>18, NmiStepsApart, Zenon DEF AppInv
<1> QED
  BY <1>c, <1>1, <1>2, <1>3, <1>4, <1>5, <1>6, <1>7, <1>8, <1>9, <1>10, <1>11, <1>12,
     <1>13, <1>14, <1>15, <1>16, <1>17, <1>18, Zenon
     DEF HypervisorStep, NmiStep

\* When the first intercept is the router's hypercall, a worker enters ring 3
\* only with the application's pages mapped, its wait loop released and every
\* worker past the reload of its tables (the quiesce hypercall of the hypapp).
THEOREM RouterFindsItsPages == ASSUME Others = {} PROVE Spec => []UserSpaceReady
<1>1. Init => AppInv
  BY DEF Init, AppInv
<1>2. IInv /\ AppInv /\ [Next]_vars => AppInv'
  <2>1. IInv /\ AppInv /\ Step => AppInv'
    BY AppPreserved
  <2>2. AppInv /\ Still => AppInv'
    BY Stutter, Zenon DEF AppInv
  <2> QED
    BY <2>1, <2>2, StepOrStill, Zenon
<1>3. IInv /\ AppInv => UserSpaceReady
  <2> SUFFICES ASSUME IInv, AppInv, NEW c \in Cores, pc[c] = "user",
                      rounds = 1, \A d \in Cores : kind[d] = "vmcall"
               PROVE  /\ mapped /\ slave_resume
                      /\ \A v \in Workers : h[v] = "waitall" \/ pc[v] = "user"
    BY DEF UserSpaceReady
  <2>1. k \in Nat
    BY BaseTypes, Zenon DEF IInv
  <2>2. k # 0
    BY DEF IInv, PhaseInv, FreshInv
  <2>3. k > 0
    BY <2>1, <2>2
  <2>4. After
    BY <2>3, Zenon DEF IInv, PhaseInv, Staged
  <2> QED
    BY <2>3, <2>4, Zenon DEF AppInv, After
<1> QED
  BY Invariance, <1>1, <1>2, <1>3, PTL DEF Spec

\* Only the holder of the lock lowers g_vmx_quiesce.
LEMMA UpPreserved ==
    ASSUME BaseInv, UpInv, Step
    PROVE  UpInv'
<1>c. PICK c \in Cores : HypervisorStep(c) \/ Intercept(c) \/ RaiseGuestNMI(c)
  BY DEF Step
<1>t. pc \in [Cores -> MainStates] /\ LockInv
  BY DEF BaseInv, TypeOK
<1> USE <1>t DEF UpInv, Main, shared
<1>1. CASE Intercept(c)
  BY <1>1 DEF Intercept
<1>2. CASE LockQuiesce(c)
  BY <1>2 DEF LockQuiesce
<1>3. CASE MarkQuiesced(c)
  BY <1>3 DEF MarkQuiesced
<1>4. CASE ResetCounter(c)
  BY <1>4 DEF ResetCounter
<1>5. CASE Announce(c)
  BY <1>5 DEF Announce
<1>6. CASE SendQuiesceSignal(c)
  BY <1>6 DEF SendQuiesceSignal
<1>7. CASE Collect(c)
  BY <1>7 DEF Collect
<1>8. CASE HandleApp(c)
  BY <1>8, Zenon DEF HandleApp
<1>9. CASE WakeSlaves(c)
  BY <1>9 DEF WakeSlaves
<1>10. CASE ZeroResumeCounter(c)
  BY <1>10 DEF ZeroResumeCounter
<1>11. CASE SetSignal(c)
  BY <1>11 DEF SetSignal
<1>12. CASE AwaitStage(c)
  BY <1>12 DEF AwaitStage
<1>13. CASE FinishResume(c)
  BY <1>13 DEF FinishResume
<1>14. CASE UnmarkQuiesced(c)
  BY <1>14 DEF UnmarkQuiesced
<1>15. CASE CloseQuiesce(c)
  BY <1>15 DEF CloseQuiesce, LockInv
<1>16. CASE UnlockQuiesce(c)
  BY <1>16 DEF UnlockQuiesce
<1>17. CASE SwitchToUserSpace(c)
  BY <1>17 DEF SwitchToUserSpace
<1> HIDE <1>t DEF UpInv, Main, shared
<1>18. CASE NmiStep(c)
  BY <1>18, NmiStepsApart DEF UpInv
<1> QED
  BY <1>c, <1>1, <1>2, <1>3, <1>4, <1>5, <1>6, <1>7, <1>8, <1>9, <1>10, <1>11, <1>12,
     <1>13, <1>14, <1>15, <1>16, <1>17, <1>18, Zenon
     DEF HypervisorStep, NmiStep

\* Counting one NMI more or less, latched or taken.
LEMMA NmiCounts ==
    ASSUME Others = {}
    PROVE  /\ Cardinality(Latched) \in Nat /\ Cardinality(Entered) \in Nat
           /\ \A c \in Cores :
                 /\ c \in Latched =>
                       /\ Cardinality(Latched \ {c}) = Cardinality(Latched) - 1
                       /\ Cardinality(Latched) >= 1
                 /\ Cardinality(Latched \cup {c}) \in Nat
                 /\ Cardinality(Latched \cup {c}) <= Cardinality(Latched) + 1
                 /\ c \notin Entered =>
                       Cardinality(Entered \cup {c}) = Cardinality(Entered) + 1
                 /\ c \in Entered =>
                       /\ Cardinality(Entered \ {c}) = Cardinality(Entered) - 1
                       /\ Cardinality(Entered) >= 1
<1>1. IsFiniteSet(Latched) /\ IsFiniteSet(Entered)
  BY NamedCores, FS_Subset, Zenon DEF Latched, Entered
<1>2. Cardinality(Latched) \in Nat /\ Cardinality(Entered) \in Nat
  BY <1>1, FS_CardinalityType
<1>3. ASSUME NEW c \in Cores
      PROVE  /\ c \in Latched => /\ Cardinality(Latched \ {c}) = Cardinality(Latched) - 1
                                 /\ Cardinality(Latched \ {c}) \in Nat
             /\ c \in Entered => /\ Cardinality(Entered \ {c}) = Cardinality(Entered) - 1
                                 /\ Cardinality(Entered \ {c}) \in Nat
  BY <1>1, FS_RemoveElement, FS_CardinalityType
<1>4. ASSUME NEW c \in Cores
      PROVE  /\ Cardinality(Latched \cup {c}) =
                   IF c \in Latched THEN Cardinality(Latched) ELSE Cardinality(Latched) + 1
             /\ c \notin Entered =>
                   Cardinality(Entered \cup {c}) = Cardinality(Entered) + 1
  BY <1>1, FS_AddElement, Zenon
<1>5. ASSUME NEW c \in Cores, c \in Latched PROVE Cardinality(Latched) >= 1
  <2> DEFINE n == Cardinality(Latched)
             m == Cardinality(Latched \ {c})
  <2>1. n \in Nat /\ m = n - 1 /\ m \in Nat
    BY <1>2, <1>3, <1>5, Zenon
  <2> HIDE DEF n, m
  <2>2. n >= 1
    BY <2>1
  <2> QED
    BY <2>2 DEF n
<1>6. ASSUME NEW c \in Cores, c \in Entered PROVE Cardinality(Entered) >= 1
  <2> DEFINE n == Cardinality(Entered)
             m == Cardinality(Entered \ {c})
  <2>1. n \in Nat /\ m = n - 1 /\ m \in Nat
    BY <1>2, <1>3, <1>6, Zenon
  <2> HIDE DEF n, m
  <2>2. n >= 1
    BY <2>1
  <2> QED
    BY <2>2 DEF n
<1>7. ASSUME NEW c \in Cores
      PROVE  /\ Cardinality(Latched \cup {c}) \in Nat
             /\ Cardinality(Latched \cup {c}) <= Cardinality(Latched) + 1
  <2> DEFINE n == Cardinality(Latched)
             m == Cardinality(Latched \cup {c})
  <2>1. n \in Nat /\ (m = n \/ m = n + 1)
    BY <1>2, <1>4, Zenon
  <2> HIDE DEF n, m
  <2>2. m \in Nat /\ m <= n + 1
    BY <2>1
  <2> QED
    BY <2>2 DEF n, m
<1> QED
  BY <1>2, <1>3, <1>4, <1>5, <1>6, <1>7, Zenon

\* What most steps leave alone: the NMIs on their way, and whether a core is at
\* the entry of its NMI handler or has sent the IPI.
Quiet ==
    /\ UNCHANGED <<raised, injected, nmi, k>>
    /\ \A d \in Cores : (h'[d] = "entry" <=> h[d] = "entry") /\ (Sent(d)' <=> Sent(d))

\* The steps that take, raise or inject no NMI and neither send the IPI nor end
\* the wait for the others.
LEMMA QuietSteps ==
    ASSUME pc \in [Cores -> MainStates], h \in [Cores -> HandlerStates],
           QuiescedInv, NEW c \in Cores,
           \/ Intercept(c) \/ LockQuiesce(c) \/ MarkQuiesced(c)
           \/ ResetCounter(c) \/ Announce(c) \/ Collect(c)
           \/ HandleApp(c) \/ WakeSlaves(c) \/ AwaitStage(c)
           \/ UnmarkQuiesced(c) \/ CloseQuiesce(c) \/ UnlockQuiesce(c)
           \/ CountQuiesced(c) \/ WaitResume(c) \/ UpdateGdt(c)
           \/ WriteTss(c) \/ LoadResumeCounter(c) \/ StoreResumeCounter(c)
           \/ WaitGdt(c) \/ SwitchToUserSpace(c) \/ RallyResume(c)
           \/ ClearQuiesced(c)
    PROVE  Quiet
<1>1. CASE \/ Intercept(c) \/ LockQuiesce(c) \/ MarkQuiesced(c)
           \/ ResetCounter(c) \/ Announce(c) \/ Collect(c)
  <2>1. CASE Intercept(c)
    BY <2>1, Zenon DEF Intercept, Quiet, Sent, Main, Handler, world
  <2>2. CASE LockQuiesce(c)
    BY <2>2, Zenon DEF LockQuiesce, Quiet, Sent, Main, Handler, world
  <2>3. CASE MarkQuiesced(c)
    BY <2>3, Zenon DEF MarkQuiesced, Quiet, Sent, Main, Handler, world
  <2>4. CASE ResetCounter(c)
    BY <2>4, Zenon DEF ResetCounter, Quiet, Sent, Main, Handler, world
  <2>5. CASE Announce(c)
    BY <2>5, Zenon DEF Announce, Quiet, Sent, Main, Handler, world
  <2>6. CASE Collect(c)
    BY <2>6, Zenon DEF Collect, Quiet, Sent, Main, Handler, world
  <2> QED
    BY <1>1, <2>1, <2>2, <2>3, <2>4, <2>5, <2>6, Zenon
<1>2. CASE \/ HandleApp(c) \/ WakeSlaves(c) \/ AwaitStage(c)
           \/ UnmarkQuiesced(c) \/ CloseQuiesce(c) \/ UnlockQuiesce(c)
  <2>1. CASE HandleApp(c)
    BY <2>1, Zenon DEF HandleApp, Quiet, Sent, Main, Handler, world
  <2>2. CASE WakeSlaves(c)
    BY <2>2, Zenon DEF WakeSlaves, Quiet, Sent, Main, Handler, world
  <2>3. CASE AwaitStage(c)
    BY <2>3, Zenon DEF AwaitStage, Quiet, Sent, Main, Handler, world
  <2>4. CASE UnmarkQuiesced(c)
    BY <2>4, Zenon DEF UnmarkQuiesced, Quiet, Sent, Main, Handler, world
  <2>5. CASE CloseQuiesce(c)
    BY <2>5, Zenon DEF CloseQuiesce, Quiet, Sent, Main, Handler, world
  <2>6. CASE UnlockQuiesce(c)
    BY <2>6, Zenon DEF UnlockQuiesce, Quiet, Sent, Main, Handler, world
  <2> QED
    BY <1>2, <2>1, <2>2, <2>3, <2>4, <2>5, <2>6, Zenon
<1>3. CASE \/ CountQuiesced(c) \/ WaitResume(c) \/ UpdateGdt(c)
           \/ WriteTss(c) \/ LoadResumeCounter(c)
  <2>1. CASE CountQuiesced(c)
    BY <2>1, Zenon DEF CountQuiesced, Quiet, Sent, Main, Handler, world
  <2>2. CASE WaitResume(c)
    BY <2>2, Zenon DEF WaitResume, Quiet, Sent, Main, Handler, world
  <2>3. CASE UpdateGdt(c)
    BY <2>3, Zenon DEF UpdateGdt, Quiet, Sent, Main, Handler, world
  <2>4. CASE WriteTss(c)
    BY <2>4, Zenon DEF WriteTss, Quiet, Sent, Main, Handler, world
  <2>5. CASE LoadResumeCounter(c)
    BY <2>5, Zenon DEF LoadResumeCounter, Quiet, Sent, Main, Handler, world
  <2> QED
    BY <1>3, <2>1, <2>2, <2>3, <2>4, <2>5, Zenon
<1>4. CASE \/ StoreResumeCounter(c) \/ WaitGdt(c) \/ SwitchToUserSpace(c)
           \/ RallyResume(c) \/ ClearQuiesced(c)
  <2>1. CASE StoreResumeCounter(c)
    BY <2>1, Zenon DEF StoreResumeCounter, Quiet, Sent, Main, Handler, world
  <2>2. CASE WaitGdt(c)
    BY <2>2, Zenon DEF WaitGdt, Quiet, Sent, Main, Handler, world
  <2>3. CASE SwitchToUserSpace(c)
    BY <2>3, Zenon DEF SwitchToUserSpace, Quiet, Sent, Main, Handler, world, QuiescedInv
  <2>4. CASE RallyResume(c)
    BY <2>4, Zenon DEF RallyResume, Quiet, Sent, Main, Handler, world
  <2>5. CASE ClearQuiesced(c)
    BY <2>5, Zenon DEF ClearQuiesced, Quiet, Sent, Main, Handler, world
  <2> QED
    BY <1>4, <2>1, <2>2, <2>3, <2>4, <2>5, Zenon
<1> QED
  BY <1>1, <1>2, <1>3, <1>4, Zenon

\* They keep the bound on the NMIs.
LEMMA QuietKeeps ==
    ASSUME Others = {}, NmiInv, Quiet
    PROVE  NmiInv'
<1>1. Latched' = Latched /\ Entered' = Entered
  BY Zenon DEF Quiet, Latched, Entered
<1>2. /\ UNCHANGED <<raised, injected, nmi, k>>
      /\ \A d \in Cores : Sent(d)' <=> Sent(d)
      /\ (h'[0] = "entry") <=> (h[0] = "entry")
  BY NamedCores DEF Quiet
<1>3. One(h'[0] = "entry") = One(h[0] = "entry")
  BY <1>2 DEF One
<1> QED
  BY <1>1, <1>2, <1>3, NamedCores, Zenon DEF NmiInv

\* The types the bound on the NMIs is about, with the boot core among the cores.
NmiTyped ==
    /\ pc \in [Cores -> MainStates] /\ h \in [Cores -> HandlerStates]
    /\ nmi \in [Cores -> BOOLEAN] /\ k \in Nat /\ raised \in Nat /\ injected \in Nat
    /\ 0 \in Cores /\ Workers = Cores \ {0}

LEMMA NmiTypes ==
    ASSUME Others = {}, IInv
    PROVE  NmiTyped
BY NumberedCores, BaseTypes, Zenon DEF IInv, NmiTyped

\* A step that sends no IPI keeps the bound if it keeps both sums below the
\* number raised.
LEMMA NmiKept ==
    ASSUME NmiTyped, NmiInv, k' = k, \A d \in Cores : Sent(d)' <=> Sent(d),
           injected' <= raised',
           injected + Cardinality(Latched) + Cardinality(Entered) <= raised =>
              injected' + Cardinality(Latched') + Cardinality(Entered') <= raised',
           injected + One(nmi[0]) + One(h[0] = "entry") <= raised =>
              injected' + One(nmi'[0]) + One(h'[0] = "entry") <= raised'
    PROVE  NmiInv'
BY Zenon DEF NmiInv, NmiTyped

\* A foreign NMI: one raised more, and at most one latched more.
LEMMA NmiMore ==
    ASSUME Others = {}, NmiTyped, NmiInv, NEW c \in Cores, injected <= raised,
           UNCHANGED <<k, injected, h>>, raised' = raised + 1,
           nmi' = [nmi EXCEPT ![c] = TRUE], \A d \in Cores : Sent(d)' <=> Sent(d)
    PROVE  NmiInv'
<1> DEFINE l == Cardinality(Latched \cup {c})
           x == Cardinality(Latched)
           y == Cardinality(Entered)
           a == One(nmi[0])
           b == One(h[0] = "entry")
           u == One(nmi'[0])
<1>1. x \in Nat /\ y \in Nat /\ l \in Nat /\ l <= x + 1
  BY NmiCounts, Zenon
<1>2. a \in Nat /\ b \in Nat /\ u \in Nat /\ u <= a + 1 /\ One(h'[0] = "entry") = b
  BY DEF One
<1>3. raised \in Nat /\ injected \in Nat
  BY Zenon DEF NmiTyped
<1>4. Latched' = Latched \cup {c} /\ Entered' = Entered
  BY DEF Latched, Entered, NmiTyped
<1> HIDE DEF l, x, y, a, b, u
<1>5. /\ injected' <= raised'
      /\ injected + x + y <= raised => injected' + l + y <= raised'
      /\ injected + a + b <= raised => injected' + u + b <= raised'
  BY <1>1, <1>2, <1>3
<1> QED
  BY <1>2, <1>4, <1>5, NmiKept, Zenon DEF l, x, y, a, b, u

\* An NMI taken moves from the latched ones to the entered ones.
LEMMA NmiTaken ==
    ASSUME Others = {}, NmiTyped, NmiInv, NEW c \in Cores, injected <= raised,
           UNCHANGED <<k, injected, raised>>, nmi[c], h[c] = "none",
           nmi' = [nmi EXCEPT ![c] = FALSE], h' = [h EXCEPT ![c] = "entry"],
           \A d \in Cores : Sent(d)' <=> Sent(d)
    PROVE  NmiInv'
<1> DEFINE x == Cardinality(Latched)
           y == Cardinality(Entered)
           a == One(nmi[0])
           b == One(h[0] = "entry")
           u == One(nmi'[0])
           v == One(h'[0] = "entry")
<1>1. Latched' = Latched \ {c} /\ c \in Latched
  BY DEF Latched, NmiTyped
<1>2. Entered' = Entered \cup {c} /\ c \notin Entered
  BY DEF Entered, NmiTyped
<1>3. /\ x \in Nat /\ y \in Nat /\ Cardinality(Latched') = x - 1
      /\ Cardinality(Entered') = y + 1
  BY <1>1, <1>2, NmiCounts, Zenon
<1>4. 0 \in Cores /\ nmi \in [Cores -> BOOLEAN] /\ h \in [Cores -> HandlerStates]
      /\ raised \in Nat /\ injected \in Nat
  BY Zenon DEF NmiTyped
<1>5. a \in Nat /\ b \in Nat /\ u + v = a + b /\ u \in Nat /\ v \in Nat
  <2>1. CASE c = 0
    <3>1. h'[0] = "entry" /\ h[0] # "entry"
      BY <1>4, <2>1
    <3>2. nmi[0] /\ ~nmi'[0]
      BY <1>4, <2>1, Zenon
    <3>3. a = 1 /\ u = 0
      BY <3>2 DEF One
    <3>4. b = 0 /\ v = 1
      BY <3>1 DEF One
    <3> HIDE DEF a, b, u, v
    <3> QED
      BY <3>3, <3>4
  <2>2. CASE c # 0
    <3>1. nmi'[0] = nmi[0] /\ h'[0] = h[0]
      BY <1>4, <2>2, Zenon
    <3>2. u = a /\ v = b
      BY <3>1, Zenon
    <3>3. a \in Nat /\ b \in Nat
      BY DEF One
    <3> HIDE DEF a, b, u, v
    <3> QED
      BY <3>2, <3>3
  <2> QED
    BY <2>1, <2>2, Zenon
<1> HIDE DEF x, y, a, b, u, v
<1>6. /\ injected + x + y <= raised => injected' + (x - 1) + (y + 1) <= raised'
      /\ injected + a + b <= raised => injected' + u + v <= raised'
      /\ injected' <= raised'
  BY <1>3, <1>4, <1>5
<1> QED
  BY <1>3, <1>6, NmiKept, Zenon DEF x, y, a, b, u, v

\* An NMI of the protocol leaves the entered ones and reaches nobody.
LEMMA NmiAbsorbed ==
    ASSUME Others = {}, NmiTyped, NmiInv, NEW c \in Cores, injected <= raised,
           UNCHANGED <<k, injected, raised, nmi>>, h[c] = "entry",
           h' = [h EXCEPT ![c] = "none"] \/ h' = [h EXCEPT ![c] = "count"],
           \A d \in Cores : Sent(d)' <=> Sent(d)
    PROVE  NmiInv'
<1> DEFINE x == Cardinality(Latched)
           y == Cardinality(Entered)
           a == One(nmi[0])
           b == One(h[0] = "entry")
           e == One(h'[0] = "entry")
<1>1. Latched' = Latched /\ Entered' = Entered \ {c} /\ c \in Entered
  BY DEF Latched, Entered, NmiTyped
<1>2. /\ x \in Nat /\ y \in Nat /\ Cardinality(Latched') = x
      /\ Cardinality(Entered') = y - 1
  BY <1>1, NmiCounts, Zenon
<1>3. a \in Nat /\ b \in Nat /\ e \in Nat /\ e <= b /\ One(nmi'[0]) = a
  BY DEF One, NmiTyped
<1>4. raised \in Nat /\ injected \in Nat
  BY Zenon DEF NmiTyped
<1> HIDE DEF x, y, a, b, e
<1>5. /\ injected + x + y <= raised => injected' + x + (y - 1) <= raised'
      /\ injected + a + b <= raised => injected' + a + e <= raised'
  BY <1>2, <1>3, <1>4
<1> QED
  BY <1>2, <1>3, <1>5, NmiKept, Zenon DEF x, y, a, b, e

\* The IPI: when core 0 sends it, the NMIs counted for core 0 were counted for
\* all cores before; when a worker sends it, nothing is claimed of core 0.
LEMMA NmiSend ==
    ASSUME Others = {}, NmiTyped, LockInv, NmiInv, NEW c \in Cores, SendQuiesceSignal(c)
    PROVE  NmiInv'
<1>1. /\ UNCHANGED <<raised, injected, h, k>> /\ Sent(c)' /\ pc[c] = "signal"
      /\ (c = 0 => nmi'[0] = nmi[0])
  BY DEF SendQuiesceSignal, Main, world, Sent, NmiTyped
<1>2. \A d \in Cores : ~Sent(d)
  BY <1>1, Zenon DEF LockInv, Sent
<1>3. injected <= raised
  BY Zenon DEF NmiInv
<1>4. CASE c # 0
  <2>1. c \in Workers
    BY <1>4, Zenon DEF NmiTyped
  <2> QED
    BY <1>1, <1>3, <2>1, Zenon DEF NmiInv
<1>5. CASE c = 0
  <2> DEFINE a == One(nmi[0])
             b == One(h[0] = "entry")
             x == Cardinality(Latched)
             y == Cardinality(Entered)
  <2>1. k = 0 => injected + x + y <= raised
    BY <1>2, Zenon DEF NmiInv
  <2>2. k > 0 => injected + a + b <= raised
    BY <1>2, Zenon DEF NmiInv, NmiTyped
  <2>3. x \in Nat /\ y \in Nat /\ (nmi[0] => x >= 1) /\ (h[0] = "entry" => y >= 1)
    BY NmiCounts, Zenon DEF Latched, Entered, NmiTyped
  <2>4. a \in Nat /\ b \in Nat /\ a <= x /\ b <= y
    BY <2>3 DEF One
  <2>5. k \in Nat /\ raised \in Nat /\ injected \in Nat
    BY Zenon DEF NmiTyped
  <2> HIDE DEF a, b, x, y
  <2>6. injected + a + b <= raised
    BY <2>1, <2>2, <2>4, <2>5, <2>3
  <2> QED
    BY <1>1, <1>3, <1>5, <2>6, Zenon DEF NmiInv, a, b
<1> QED
  BY <1>4, <1>5, Zenon

\* Outside a quiesce nobody has sent the IPI, so that the NMI a core injects was
\* counted; with k > 0 only core 0 is left to inject one.
LEMMA NmiOutside ==
    ASSUME Others = {}, NmiTyped, NmiInv, NEW c \in Cores, NmiOutsideQuiesce(c),
           \A d \in Cores : ~Sent(d),
           k > 0 => \A w \in Workers : h[w] = "entry" => pc[w] = "user"
    PROVE  NmiInv'
<1> DEFINE o == One(injected' # injected)
           a == One(nmi[0])
           b == One(h[0] = "entry")
           e == One(h'[0] = "entry")
           x == Cardinality(Latched)
           y == Cardinality(Entered)
<1>1. /\ UNCHANGED <<k, pc, raised, nmi>> /\ h[c] = "entry" /\ injected' = injected + o
      /\ h' = [h EXCEPT ![c] = "none"] /\ (pc[c] # "guest" => o = 0)
  BY DEF NmiOutsideQuiesce, Handler, One, NmiTyped
<1>2. \A d \in Cores : Sent(d)' <=> Sent(d)
  BY <1>1, Zenon DEF Sent
<1>3. Latched' = Latched /\ Entered' = Entered \ {c} /\ c \in Entered
  BY <1>1 DEF Latched, Entered, NmiTyped
<1>4. /\ x \in Nat /\ y \in Nat /\ y >= 1
      /\ Cardinality(Latched') = x /\ Cardinality(Entered') = y - 1
  BY <1>3, NmiCounts, Zenon
<1>5. o \in Nat /\ o <= 1 /\ a \in Nat /\ b \in Nat /\ e \in Nat
  BY DEF One
<1>6. k > 0 => o + e <= b
  <2>1. CASE c = 0
    <3>1. b = 1 /\ e = 0
      BY <1>1, <2>1 DEF One, NmiTyped
    <3> QED
      BY <3>1, <1>5
  <2>2. CASE c # 0 /\ k > 0
    <3>1. c \in Workers /\ pc[c] = "user" /\ h'[0] = h[0]
      BY <1>1, <2>2 DEF NmiTyped
    <3>2. o = 0 /\ e = b
      BY <1>1, <3>1
    <3> QED
      BY <3>2, <1>5
  <2> QED
    BY <2>1, <2>2, Zenon
<1>7. /\ k = 0 => injected + x + y <= raised
      /\ k > 0 => injected + a + b <= raised
      /\ injected <= raised
  BY Zenon DEF NmiInv, NmiTyped
<1>8. k \in Nat /\ raised \in Nat /\ injected \in Nat /\ raised' = raised
      /\ One(nmi'[0]) = a
  BY <1>1, Zenon DEF NmiTyped
<1> HIDE DEF o, a, b, e, x, y
<1>9. /\ k = 0 => injected' + x + (y - 1) <= raised'
      /\ k > 0 => injected' + a + e <= raised'
      /\ injected' <= raised'
  BY <1>1, <1>4, <1>5, <1>6, <1>7, <1>8
<1>10. ~(k > 0) \/ ~(k = 0)
  BY <1>8
<1>11. 0 \in Cores
  BY Zenon DEF NmiTyped
<1> QED
  BY <1>1, <1>2, <1>4, <1>8, <1>9, <1>10, <1>11, Zenon DEF NmiInv, e

\* No step puts more NMIs on their way to the guest than were raised outside.
LEMMA NmiPreserved ==
    ASSUME Others = {}, IInv, UpInv, NmiInv, Step
    PROVE  NmiInv'
<1>c. PICK c \in Cores : HypervisorStep(c) \/ Intercept(c) \/ RaiseGuestNMI(c)
  BY DEF Step
<1>t. NmiTyped
  BY NmiTypes
<1>1. injected <= raised
  BY DEF NmiInv
\* A core that has sent the IPI holds g_vmx_quiesce up, and a worker that has
\* done so never finishes.
<1>5. \A d \in Cores : Sent(d) => g_vmx_quiesce
  BY Zenon DEF Sent, UpInv
<1>6. ASSUME NEW d \in Cores, pc[d] = "finish" PROVE d = 0 /\ k > 0
  <2>a. k # 0
    BY <1>6, Zenon DEF IInv, PhaseInv, FreshInv
  <2>b. ~After
    BY <1>6, <1>t DEF After, NmiTyped
  <2>c. k \in Nat
    BY <1>t, Zenon DEF NmiTyped
  <2>1. k > 0 /\ ~After
    BY <2>a, <2>b, <2>c
  <2>2. PICK e \in Cores : Staged(e)
    BY <2>1, Zenon DEF IInv, PhaseInv
  <2>3. d = e
    BY <1>6, <2>1, <2>2, Followers DEF IInv
  <2>4. k = 2 * NW /\ (d # 0 => k <= d) /\ d \in 0..NW
    BY <1>6, <2>1, <2>2, <2>3, <1>t, NumberedCores DEF Staged, Leading, NmiTyped
  <2>5. NW \in Nat /\ NW >= 1
    BY NumberedCores, Zenon
  <2> QED
    BY <2>1, <2>4, <2>5
\* A core of the guest that takes an NMI outside a quiesce is core 0, or no
\* stage has been reached.
<1>7. ~g_vmx_quiesce /\ k > 0 => \A w \in Workers : h[w] = "entry" => pc[w] = "user"
  <2> SUFFICES ASSUME ~g_vmx_quiesce, k > 0 PROVE After
    BY DEF After
  <2>1. \A e \in Cores : Staged(e) => Sent(e)
    BY DEF Staged, Leading, Sent
  <2> QED
    BY <2>1, <1>5, Zenon DEF IInv, PhaseInv
<1>10. CASE \/ Intercept(c) \/ LockQuiesce(c) \/ MarkQuiesced(c)
            \/ ResetCounter(c) \/ Announce(c) \/ Collect(c)
            \/ HandleApp(c) \/ WakeSlaves(c) \/ AwaitStage(c)
            \/ UnmarkQuiesced(c) \/ CloseQuiesce(c) \/ UnlockQuiesce(c)
            \/ CountQuiesced(c) \/ WaitResume(c) \/ UpdateGdt(c)
            \/ WriteTss(c) \/ LoadResumeCounter(c) \/ StoreResumeCounter(c)
            \/ WaitGdt(c) \/ SwitchToUserSpace(c) \/ RallyResume(c)
            \/ ClearQuiesced(c)
  <2>1. Quiet
    BY <1>10, <1>t, QuietSteps, Zenon DEF IInv, BaseInv, NmiTyped
  <2> QED
    BY <2>1, QuietKeeps, Zenon
<1>33. CASE SendQuiesceSignal(c)
  BY <1>33, <1>t, NmiSend, Zenon DEF IInv, BaseInv
\* The stages leave the NMIs alone, and a worker that sets a signal has sent the
\* IPI.
<1>34. CASE ZeroResumeCounter(c) \/ SetSignal(c)
  <2>1. UNCHANGED <<raised, injected, nmi, h>> /\ Sent(c)' /\ Sent(c)
    BY <1>34, <1>t, Zenon DEF ZeroResumeCounter, SetSignal, Main, world, Sent, NmiTyped
  <2>2. \A d \in Cores : Sent(d)' <=> Sent(d)
    BY <1>34, <1>t, Zenon DEF ZeroResumeCounter, SetSignal, Main, Sent, NmiTyped
  <2>3. c = 0 \/ c \in Workers
    BY <1>t, Zenon DEF NmiTyped
  <2> QED
    BY <1>1, <1>t, <2>1, <2>2, <2>3, Zenon DEF NmiInv, NmiTyped
<1>36. CASE FinishResume(c)
  <2>1. UNCHANGED <<raised, injected, nmi, h, k>> /\ c = 0 /\ k > 0 /\ Sent(0)
    BY <1>36, <1>6 DEF FinishResume, Main, world, Sent
  <2>2. \A w \in Workers : Sent(w)' <=> Sent(w)
    BY <1>36, <2>1, <1>t DEF FinishResume, Main, Sent, NmiTyped
  <2>3. k # 0
    BY <2>1
  <2> QED
    BY <1>1, <2>1, <2>2, <2>3, Zenon DEF NmiInv
<1>37. CASE RaiseGuestNMI(c)
  <2>1. /\ UNCHANGED <<k, pc, injected, h>> /\ raised' = raised + 1
        /\ nmi' = [nmi EXCEPT ![c] = TRUE]
    BY <1>37 DEF RaiseGuestNMI
  <2>2. \A d \in Cores : Sent(d)' <=> Sent(d)
    BY <2>1, Zenon DEF Sent
  <2> QED
    BY <1>1, <1>t, <2>1, <2>2, NmiMore, Zenon
<1>38. CASE TakeNMI(c)
  <2>1. /\ UNCHANGED <<k, pc, injected, raised>> /\ nmi[c] /\ h[c] = "none"
        /\ nmi' = [nmi EXCEPT ![c] = FALSE] /\ h' = [h EXCEPT ![c] = "entry"]
    BY <1>38 DEF TakeNMI, world
  <2>2. \A d \in Cores : Sent(d)' <=> Sent(d)
    BY <2>1, Zenon DEF Sent
  <2> QED
    BY <1>1, <1>t, <2>1, <2>2, NmiTaken, Zenon
<1>39. CASE NmiAlreadyQuiesced(c) \/ NmiQuiesce(c)
  <2>1. /\ UNCHANGED <<k, pc, injected, raised, nmi>> /\ h[c] = "entry"
        /\ h' = [h EXCEPT ![c] = "none"] \/ h' = [h EXCEPT ![c] = "count"]
    BY <1>39, Zenon DEF NmiAlreadyQuiesced, NmiQuiesce, Handler, world
  <2>2. \A d \in Cores : Sent(d)' <=> Sent(d)
    BY <2>1, Zenon DEF Sent
  <2> QED
    BY <1>1, <1>t, <2>1, <2>2, NmiAbsorbed
<1>41. CASE NmiOutsideQuiesce(c)
  <2>1. ~g_vmx_quiesce
    BY <1>41 DEF NmiOutsideQuiesce
  <2> QED
    BY <1>41, <1>t, <1>5, <1>7, <2>1, NmiOutside, Zenon
<1> QED
  BY <1>c, <1>10, <1>33, <1>34, <1>36, <1>37, <1>38, <1>39, <1>41, Zenon
     DEF HypervisorStep

\* The quiesce IPI never reaches the guest: an NMI is injected only if one was
\* raised outside the protocol (smpg-x86vmx.c, the branch of the NMI handler
\* outside a quiesce), whoever initiates, and however the IPI and the foreign
\* NMIs merge in the one latch of a core.
THEOREM IpiStaysOutOfGuest == ASSUME Others = {} PROVE Spec => []NoSpuriousNMI
<1>1. Init => UpInv /\ NmiInv
  <2> SUFFICES ASSUME Init PROVE UpInv /\ NmiInv
    OBVIOUS
  <2>1. UpInv /\ injected = 0 /\ raised = 0 /\ k = 0 /\ \A c \in Cores : ~Sent(c)
    BY DEF Init, UpInv, Sent
  <2>2. Latched = {} /\ Entered = {}
    BY DEF Init, Latched, Entered
  <2>3. Cardinality(Latched) = 0 /\ Cardinality(Entered) = 0
    BY <2>2, FS_EmptySet, Zenon
  <2>4. 0 \in Cores /\ ~Sent(0) /\ ~(k > 0)
    <3>1. 0 \in Cores
      BY NamedCores, Zenon
    <3>2. ~Sent(0)
      BY <2>1, <3>1, Zenon
    <3>3. k = 0
      BY <2>1, Zenon
    <3> QED
      BY <3>1, <3>2, <3>3
  <2> QED
    BY <2>1, <2>3, <2>4 DEF NmiInv
<1>2. IInv /\ UpInv /\ NmiInv /\ [Next]_vars => UpInv' /\ NmiInv'
  <2> SUFFICES ASSUME IInv, UpInv, NmiInv, [Next]_vars PROVE UpInv' /\ NmiInv'
    OBVIOUS
  <2>1. CASE Step
    BY <2>1, UpPreserved, NmiPreserved DEF IInv
  <2>2. CASE Still
    <3>1. UpInv'
      <4>1. pc' = pc /\ (g_vmx_quiesce' <=> g_vmx_quiesce)
        BY <2>2, Stutter
      <4> QED
        BY <4>1 DEF UpInv
    <3>3. Latched' = Latched /\ Entered' = Entered
      BY <2>2, Stutter, Zenon DEF Latched, Entered
    <3>2. \A c \in Cores : Sent(c)' <=> Sent(c)
      BY <2>2, Stutter DEF Sent
    <3> QED
      BY <2>2, <3>1, <3>2, <3>3, Stutter, NamedCores, Zenon DEF NmiInv
  <2> QED
    BY <2>1, <2>2, StepOrStill, Zenon
<1>3. NmiInv => NoSpuriousNMI
  BY DEF NmiInv, NoSpuriousNMI
<1> QED
  BY Invariance, <1>1, <1>2, <1>3, PTL DEF Spec

=============================================================================
