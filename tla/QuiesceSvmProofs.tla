-------------------------- MODULE QuiesceSvmProofs --------------------------
(***************************************************************************)
(* Proofs about QuiesceSvm for any finite set of cores, any set of         *)
(* initiators and any number of intercepts and foreign NMIs.               *)
(***************************************************************************)
EXTENDS QuiesceSvm, FiniteSetTheorems, TLAPS

\* The cores that have counted themselves in and wait for the resume signal.
Waiting == {d \in Cores : h[d] = "wait"}

\* A core past the lock holds it, so that there is one such core at most.
LockInv ==
    \A c \in Cores : pc[c] \notin {"guest", "lock"} => g_svm_lock_quiesce = c

\* Only a core in the guest takes an NMI: the interrupt flag is clear elsewhere.
HandlerInv == \A c \in Cores : h[c] # "none" => pc[c] = "guest"

\* The resume signal is up only while its sender is in endquiesce.
SignalInv ==
    g_svm_quiesce_resume_signal =>
        \E c \in Cores : pc[c] \in {"rally", "unmark", "close", "clear"}

\* Once the counter is reset, no core is counted that does not wait.
CounterInv ==
    (\E c \in Cores : pc[c] \in {"announce", "signal", "collect"}) =>
        g_svm_quiesce_counter <= Cardinality(Waiting)

\* The inductive invariant behind StopTheWorld.
IInv == /\ TypeOK
        /\ LockInv
        /\ HandlerInv
        /\ SignalInv
        /\ CounterInv
        /\ StopTheWorld

\* The tuple of variables, spelled out for the steps that change nothing.
LEMMA Stutter ==
    ASSUME UNCHANGED vars
    PROVE  UNCHANGED <<pc, h, nmi, quiesced, g_svm_quiesce,
                       g_svm_quiesce_counter, g_svm_quiesce_resume_counter,
                       g_svm_lock_quiesce, g_svm_quiesce_resume_signal, rounds,
                       raised, injected>>
BY DEF vars, counts

\* Every action of every core keeps the variables in their types
\* (smpg-x86svm.c, the protocol's state).
LEMMA TypePreserved == TypeOK /\ [Next]_vars => TypeOK'
<1> SUFFICES ASSUME TypeOK, [Next]_vars PROVE TypeOK'
  OBVIOUS
<1> USE ConstantsAssumption
<1>1. CASE UNCHANGED vars
  BY <1>1, Stutter DEF TypeOK
<1>2. ASSUME NEW c \in Cores, Intercept(c) PROVE TypeOK'
  BY <1>2 DEF TypeOK, Intercept, Main, MainStates
<1>3. ASSUME NEW c \in Cores, RaiseGuestNMI(c) PROVE TypeOK'
  BY <1>3 DEF TypeOK, RaiseGuestNMI
<1>4. ASSUME NEW c \in Cores, HypervisorStep(c) PROVE TypeOK'
  <2> USE DEF TypeOK, Main, Handler, MainStates, HandlerStates, counts
  <2>1. CASE LockQuiesce(c) BY <2>1 DEF LockQuiesce
  <2>2. CASE MarkQuiesced(c) BY <2>2 DEF MarkQuiesced
  <2>3. CASE ResetCounter(c) BY <2>3 DEF ResetCounter
  <2>4. CASE Announce(c) BY <2>4 DEF Announce
  <2>5. CASE SendQuiesceSignal(c) BY <2>5 DEF SendQuiesceSignal
  <2>6. CASE Collect(c) BY <2>6 DEF Collect
  <2>7. CASE HandleApp(c) BY <2>7 DEF HandleApp
  <2>8. CASE ZeroResumeCounter(c) BY <2>8 DEF ZeroResumeCounter
  <2>9. CASE Release(c) BY <2>9 DEF Release
  <2>10. CASE AwaitRally(c) BY <2>10 DEF AwaitRally
  <2>11. CASE UnmarkQuiesced(c) BY <2>11 DEF UnmarkQuiesced
  <2>12. CASE CloseQuiesce(c) BY <2>12, Zenon DEF CloseQuiesce
  <2>13. CASE ClearSignal(c) BY <2>13, Zenon DEF ClearSignal
  <2>14. CASE UnlockQuiesce(c) BY <2>14 DEF UnlockQuiesce
  <2>15. CASE TakeNMI(c) BY <2>15 DEF TakeNMI
  <2>16. CASE NmiOutsideQuiesce(c) BY <2>16 DEF NmiOutsideQuiesce
  <2>17. CASE NmiQuiesce(c) BY <2>17 DEF NmiQuiesce
  <2>18. CASE CountQuiesced(c) BY <2>18 DEF CountQuiesced
  <2>19. CASE WaitResume(c) BY <2>19 DEF WaitResume
  <2>20. CASE CountResumed(c) BY <2>20 DEF CountResumed
  <2>21. CASE ClearQuiesced(c) BY <2>21 DEF ClearQuiesced
  <2> HIDE DEF TypeOK, Main, Handler, MainStates, HandlerStates, counts
  <2> QED
    BY <1>4, <2>1, <2>2, <2>3, <2>4, <2>5, <2>6, <2>7, <2>8, <2>9, <2>10,
       <2>11, <2>12, <2>13, <2>14, <2>15, <2>16, <2>17, <2>18, <2>19, <2>20,
       <2>21 DEF HypervisorStep
<1> QED
  BY <1>1, <1>2, <1>3, <1>4 DEF Next

\* Facts about the counter: the waiting cores are finitely many, a core that
\* starts to wait adds one, and when as many wait as there are other cores, all
\* the others wait (smpg-x86svm.c, the wait loop of quiesce).
LEMMA WaitingFacts ==
    ASSUME TypeOK
    PROVE  /\ IsFiniteSet(Waiting)
           /\ Cardinality(Waiting) \in Nat
           /\ \A c \in Cores : h[c] # "wait" =>
                 /\ Cardinality(Waiting \cup {c}) = Cardinality(Waiting) + 1
                 /\ Cardinality(Waiting) >= N - 1 =>
                       \A d \in Cores \ {c} : h[d] = "wait"
<1>1. IsFiniteSet(Waiting) /\ Cardinality(Waiting) \in Nat
  BY ConstantsAssumption, FS_Subset, FS_CardinalityType DEF Waiting
<1>2. ASSUME NEW c \in Cores, h[c] # "wait"
      PROVE  Cardinality(Waiting \cup {c}) = Cardinality(Waiting) + 1
  BY <1>1, <1>2, FS_AddElement, Zenon DEF Waiting
<1>3. ASSUME NEW c \in Cores, h[c] # "wait", Cardinality(Waiting) >= N - 1
      PROVE  \A d \in Cores \ {c} : h[d] = "wait"
  <2>1. IsFiniteSet(Cores \ {c}) /\ Cardinality(Cores \ {c}) = N - 1
    BY ConstantsAssumption, FS_RemoveElement DEF N
  <2>2. Waiting \subseteq Cores \ {c}
    BY <1>3 DEF Waiting
  <2>3. Cardinality(Waiting) <= N - 1 /\ N - 1 \in Nat
    BY <2>1, <2>2, FS_Subset, FS_CardinalityType
  <2>4. Cardinality(Waiting) = Cardinality(Cores \ {c})
    BY <1>1, <1>3, <2>1, <2>3
  <2>5. Waiting = Cores \ {c}
    BY <2>1, <2>2, <2>4, FS_Subset
  <2> QED
    BY <2>5 DEF Waiting
<1> QED
  BY <1>1, <1>2, <1>3

\* Every step keeps the inductive invariant.
LEMMA InvPreserved == IInv /\ [Next]_vars => IInv'
<1> SUFFICES ASSUME IInv, [Next]_vars PROVE IInv'
  OBVIOUS
<1> USE ConstantsAssumption
<1>1. TypeOK /\ TypeOK'
  BY TypePreserved DEF IInv
<1>2. CASE UNCHANGED vars
  BY <1>1, <1>2, Stutter DEF IInv, LockInv, HandlerInv, SignalInv, CounterInv,
     StopTheWorld, Waiting
<1>3. ASSUME NEW c \in Cores, Intercept(c) PROVE IInv'
  BY <1>1, <1>3 DEF IInv, LockInv, HandlerInv, SignalInv, CounterInv,
     StopTheWorld, Waiting, Intercept, Main, TypeOK
<1>4. ASSUME NEW c \in Cores, RaiseGuestNMI(c) PROVE IInv'
  BY <1>1, <1>4 DEF IInv, LockInv, HandlerInv, SignalInv, CounterInv,
     StopTheWorld, Waiting, RaiseGuestNMI
<1>5. ASSUME NEW c \in Cores, HypervisorStep(c) PROVE IInv'
  <2> USE <1>1 DEF IInv, LockInv, HandlerInv, SignalInv, CounterInv,
                   StopTheWorld, Waiting, Main, Handler, TypeOK
  <2>1. CASE LockQuiesce(c)
    BY <2>1 DEF LockQuiesce
  <2>2. CASE MarkQuiesced(c)
    BY <2>2 DEF MarkQuiesced
  <2>3. CASE ResetCounter(c)
    BY <2>3, WaitingFacts DEF ResetCounter
  <2>4. CASE Announce(c)
    BY <2>4 DEF Announce
  <2>5. CASE SendQuiesceSignal(c)
    BY <2>5 DEF SendQuiesceSignal
  <2>6. CASE HandleApp(c)
    BY <2>6 DEF HandleApp
  <2>7. CASE ZeroResumeCounter(c)
    BY <2>7 DEF ZeroResumeCounter
  <2>8. CASE Release(c)
    BY <2>8 DEF Release
  <2>9. CASE AwaitRally(c)
    BY <2>9 DEF AwaitRally
  <2>10. CASE UnmarkQuiesced(c)
    BY <2>10 DEF UnmarkQuiesced
  <2>11. CASE CloseQuiesce(c)
    BY <2>11 DEF CloseQuiesce
  <2>12. CASE ClearSignal(c)
    BY <2>12 DEF ClearSignal
  <2>13. CASE UnlockQuiesce(c)
    BY <2>13 DEF UnlockQuiesce
  <2>14. CASE TakeNMI(c)
    <3>1. Waiting' = Waiting
      BY <2>14 DEF TakeNMI
    <3> QED
      BY <2>14, <3>1 DEF TakeNMI
  <2>15. CASE NmiOutsideQuiesce(c)
    <3>1. Waiting' = Waiting
      BY <2>15 DEF NmiOutsideQuiesce
    <3> QED
      BY <2>15, <3>1, Zenon DEF NmiOutsideQuiesce
  <2>16. CASE NmiQuiesce(c)
    <3>1. Waiting' = Waiting
      BY <2>16 DEF NmiQuiesce
    <3> QED
      BY <2>16, <3>1 DEF NmiQuiesce
  <2>17. CASE CountResumed(c)
    <3>1. Waiting' = Waiting
      BY <2>17 DEF CountResumed
    <3> QED
      BY <2>17, <3>1 DEF CountResumed
  <2>18. CASE ClearQuiesced(c)
    <3>1. Waiting' = Waiting
      BY <2>18 DEF ClearQuiesced
    <3> QED
      BY <2>18, <3>1 DEF ClearQuiesced
  <2>19. CASE Collect(c)
    <3>1. h[c] # "wait" /\ Cardinality(Waiting) >= N - 1
      BY <2>19, WaitingFacts, FS_CardinalityType DEF Collect, N
    <3>2. \A d \in Cores \ {c} : h[d] = "wait"
      BY <3>1, WaitingFacts, Zenon
    <3> QED
      BY <2>19, <3>2 DEF Collect
  <2>20. CASE CountQuiesced(c)
    <3>1. Waiting' = Waiting \cup {c}
      BY <2>20 DEF CountQuiesced
    <3>2. Cardinality(Waiting') = Cardinality(Waiting) + 1
      BY <2>20, <3>1, WaitingFacts DEF CountQuiesced
    <3>3. CounterInv'
      BY <2>20, <3>2, WaitingFacts DEF CountQuiesced
    <3> QED
      BY <2>20, <3>3 DEF CountQuiesced
  <2>21. CASE WaitResume(c)
    <3>1. PICK i \in Cores : pc[i] \in {"rally", "unmark", "close", "clear"}
      BY <2>21 DEF WaitResume
    <3>2. \A d \in Cores : pc[d] \notin {"announce", "signal", "collect", "app"}
      BY <3>1
    <3> QED
      BY <2>21, <3>2 DEF WaitResume
  <2> HIDE DEF IInv, LockInv, HandlerInv, SignalInv, CounterInv, StopTheWorld,
               Waiting, Main, Handler, TypeOK
  <2> QED
    BY <1>5, <2>1, <2>2, <2>3, <2>4, <2>5, <2>6, <2>7, <2>8, <2>9, <2>10, <2>11,
       <2>12, <2>13, <2>14, <2>15, <2>16, <2>17, <2>18, <2>19, <2>20, <2>21
    DEF HypervisorStep
<1> QED
  BY <1>2, <1>3, <1>4, <1>5 DEF Next

\* The invariant holds when the machine starts.
LEMMA InvInitially == Init => IInv
<1> SUFFICES ASSUME Init PROVE IInv
  OBVIOUS
<1> USE ConstantsAssumption
<1>1. TypeOK
  <2>1. nmi \in [Cores -> BOOLEAN] /\ quiesced \in [Cores -> BOOLEAN]
    BY Zenon DEF Init
  <2>2. pc \in [Cores -> MainStates] /\ h \in [Cores -> HandlerStates]
    BY DEF Init, MainStates, HandlerStates
  <2>3. g_svm_quiesce \in BOOLEAN /\ g_svm_quiesce_resume_signal \in BOOLEAN
    BY Zenon DEF Init
  <2>4. /\ g_svm_quiesce_counter \in Nat
        /\ g_svm_quiesce_resume_counter \in Nat
        /\ g_svm_lock_quiesce \in Cores \cup {NoCore}
        /\ rounds \in 0..MaxRounds
        /\ raised \in 0..MaxGuestNMI
        /\ injected \in Nat
    BY DEF Init
  <2> QED
    BY <2>1, <2>2, <2>3, <2>4 DEF TypeOK
<1>2. LockInv /\ HandlerInv /\ SignalInv /\ CounterInv /\ StopTheWorld
  BY DEF Init, LockInv, HandlerInv, SignalInv, CounterInv, StopTheWorld
<1> QED
  BY <1>1, <1>2 DEF IInv

\* The inductive invariant holds in every reachable state.
THEOREM Invariance == Spec => []IInv
<1>1. Init => IInv
  BY InvInitially
<1>2. IInv /\ [Next]_vars => IInv'
  BY InvPreserved
<1> QED
  BY <1>1, <1>2, PTL DEF Spec

\* The variables of the protocol keep their types.
THEOREM TypeCorrect == Spec => []TypeOK
<1>1. IInv => TypeOK
  BY DEF IInv
<1> QED
  BY <1>1, Invariance, PTL

\* While the hypapp handles an intercept, every other core waits in its NMI
\* handler, however many cores there are, whichever cause intercepts at the same
\* time and whatever other NMIs arrive (smpg-x86svm.c, quiesce).
THEOREM MachineStops == Spec => []StopTheWorld
<1>1. IInv => StopTheWorld
  BY DEF IInv
<1> QED
  BY <1>1, Invariance, PTL

\* The step in which a core leaves its wait needs the resume signal, and the
\* signal is up in endquiesce alone.
THEOREM ResumeDiscipline == Spec => ResumeOnlyAfterApp
<1> DEFINE Discipline ==
      \A d \in Cores : h[d] = "wait" /\ h'[d] # "wait" =>
          \E c \in Cores : pc[c] \in {"rally", "unmark", "close", "clear"}
<1>1. IInv /\ [Next]_vars => [Discipline]_vars
  <2> SUFFICES ASSUME IInv, Next, NEW d \in Cores, h[d] = "wait", h'[d] # "wait"
               PROVE  g_svm_quiesce_resume_signal
    BY DEF IInv, SignalInv
  <2>1. PICK c \in Cores : HypervisorStep(c) \/ Intercept(c) \/ RaiseGuestNMI(c)
    BY DEF Next
  <2>2. WaitResume(c)
    BY <2>1 DEF HypervisorStep, Intercept, RaiseGuestNMI, Main, Handler,
       LockQuiesce, MarkQuiesced, ResetCounter, Announce, SendQuiesceSignal,
       Collect, HandleApp, ZeroResumeCounter, Release, AwaitRally,
       UnmarkQuiesced, CloseQuiesce, ClearSignal, UnlockQuiesce, TakeNMI,
       NmiOutsideQuiesce, NmiQuiesce, CountQuiesced, CountResumed,
       ClearQuiesced, IInv, TypeOK
  <2> QED
    BY <2>2 DEF WaitResume
<1> QED
  BY <1>1, Invariance, PTL DEF Spec, ResumeOnlyAfterApp

-----------------------------------------------------------------------------
(***************************************************************************)
(* The protocol implements StopWorld.                                      *)
(***************************************************************************)

\* The refinement mapping: the cores that run guest code, and the core that has
\* stopped them.
Running == {c \in Cores : pc[c] = "guest" /\ h[c] = "none"}
Owner   == IF g_svm_lock_quiesce # NoCore /\ pc[g_svm_lock_quiesce] = "app"
           THEN g_svm_lock_quiesce ELSE NoCore

\* The core at the hypapp is the owner, and there is none otherwise.
LEMMA OwnerFacts ==
    ASSUME IInv
    PROVE  /\ \A c \in Cores : pc[c] = "app" => Owner = c
           /\ (\A c \in Cores : pc[c] # "app") => Owner = NoCore
BY ConstantsAssumption DEF IInv, TypeOK, LockInv, Owner

\* Each step of the protocol is a step of StopWorld or changes nothing in it.
LEMMA StepRefines ==
    ASSUME IInv, IInv', Next
    PROVE  World!Next \/ UNCHANGED <<Running, Owner>>
<1> USE ConstantsAssumption
<1>1. PICK c \in Cores : HypervisorStep(c) \/ Intercept(c) \/ RaiseGuestNMI(c)
  BY DEF Next
<1>2. CASE Intercept(c)
  <2>1. World!Leave(c)
    BY <1>2 DEF Intercept, Main, World!Leave, IInv, TypeOK, LockInv
  <2> QED
    BY <2>1 DEF World!Next
<1>3. CASE TakeNMI(c)
  <2>1. World!Leave(c)
    BY <1>3 DEF TakeNMI, Handler, World!Leave, IInv, TypeOK
  <2> QED
    BY <2>1 DEF World!Next
<1>4. CASE Collect(c)
  <2>1. pc'[c] = "app" /\ (\A d \in Cores : pc[d] # "app")
    BY <1>4 DEF Collect, Main, IInv, LockInv, TypeOK
  <2>2. Owner = NoCore /\ Owner' = c
    BY <2>1, OwnerFacts, <1>4 DEF Collect, Main, IInv, LockInv, Owner
  <2>3. Running = {} /\ Running' = {}
    BY <1>4, <2>1 DEF Collect, Main, Running, IInv, StopTheWorld, TypeOK
  <2>4. World!Own(c)
    BY <2>2, <2>3 DEF World!Own, Owner, Running
  <2> QED
    BY <2>4 DEF World!Next
<1>5. CASE HandleApp(c)
  <2>1. World!Disown(c)
    BY <1>5 DEF HandleApp, Main, World!Disown, IInv, TypeOK, LockInv
  <2> QED
    BY <2>1 DEF World!Next
<1>6. CASE UnlockQuiesce(c)
  <2>1. World!Resume(c)
    BY <1>6 DEF UnlockQuiesce, Main, World!Resume, IInv, TypeOK, LockInv
  <2> QED
    BY <2>1 DEF World!Next
<1>7. CASE NmiOutsideQuiesce(c) \/ NmiQuiesce(c) \/ ClearQuiesced(c)
  <2>1. \A d \in Cores : pc[d] # "app"
    BY <1>7 DEF NmiOutsideQuiesce, NmiQuiesce, ClearQuiesced, Handler, IInv,
       StopTheWorld, HandlerInv
  <2>2. Owner = NoCore /\ Owner' = Owner
    BY <1>7, <2>1, OwnerFacts DEF NmiOutsideQuiesce, NmiQuiesce, ClearQuiesced,
       Handler, Owner
  <2>3. pc[c] = "guest" /\ pc' = pc
    BY <1>7 DEF NmiOutsideQuiesce, NmiQuiesce, ClearQuiesced, Handler, IInv,
       HandlerInv
  <2>4. Running' = Running \/ Running' = Running \cup {c}
    BY <1>7, <2>3 DEF NmiOutsideQuiesce, NmiQuiesce, ClearQuiesced, Handler,
       Running, IInv, TypeOK
  <2>5. World!Resume(c) \/ UNCHANGED <<Running, Owner>>
    BY <2>2, <2>4 DEF World!Resume, Running, Owner
  <2> QED
    BY <2>5 DEF World!Next
<1>8. CASE LockQuiesce(c)
  BY <1>8 DEF LockQuiesce, Main, Running, Owner, IInv, TypeOK, LockInv
<1>9. CASE \/ MarkQuiesced(c) \/ ResetCounter(c) \/ Announce(c)
           \/ SendQuiesceSignal(c) \/ ZeroResumeCounter(c) \/ Release(c)
           \/ AwaitRally(c) \/ UnmarkQuiesced(c) \/ CloseQuiesce(c)
           \/ ClearSignal(c)
  <2>1. \E from, to \in MainStates \ {"guest", "app"} : Main(c, from, to)
    BY <1>9 DEF MarkQuiesced, ResetCounter, Announce, SendQuiesceSignal,
       ZeroResumeCounter, Release, AwaitRally, UnmarkQuiesced, CloseQuiesce,
       ClearSignal, MainStates
  <2>2. g_svm_lock_quiesce' = g_svm_lock_quiesce
    BY <1>9 DEF MarkQuiesced, ResetCounter, Announce, SendQuiesceSignal,
       ZeroResumeCounter, Release, AwaitRally, UnmarkQuiesced, CloseQuiesce,
       ClearSignal
  <2> QED
    BY <2>1, <2>2 DEF Main, Running, Owner, IInv, TypeOK
<1>10. CASE CountQuiesced(c) \/ WaitResume(c) \/ CountResumed(c)
  BY <1>10 DEF CountQuiesced, WaitResume, CountResumed, Handler, Running, Owner,
     IInv, TypeOK
<1>11. CASE RaiseGuestNMI(c)
  BY <1>11 DEF RaiseGuestNMI, Running, Owner
<1> QED
  BY <1>1, <1>2, <1>3, <1>4, <1>5, <1>6, <1>7, <1>8, <1>9, <1>10, <1>11
  DEF HypervisorStep

\* The SVM backend keeps the promise of the quiesce interface, for any number
\* of cores: the hypapp owns a stopped machine, and no core resumes before it
\* is done.
THEOREM Refinement == Spec => ImplementsStopWorld
<1>1. Init => World!Init
  BY ConstantsAssumption DEF Init, World!Init
<1>2. IInv /\ IInv' /\ [Next]_vars => [World!Next]_<<Running, Owner>>
  <2>1. CASE Next
    BY <2>1, StepRefines
  <2>2. CASE UNCHANGED vars
    BY <2>2, Stutter DEF Running, Owner
  <2> QED
    BY <2>1, <2>2
<1> QED
  BY <1>1, <1>2, Invariance, PTL
  DEF Spec, ImplementsStopWorld, World!Spec, Running, Owner
=============================================================================
