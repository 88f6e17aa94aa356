------------------------------ MODULE StopWorld ------------------------------
(***************************************************************************)
(* What quiesce and endquiesce promise to the hypapp, without saying how:  *)
(* cores run guest code or do not, and a core may become the owner of the  *)
(* machine only when no core runs; until the owner is done, none resumes.  *)
(*                                                                         *)
(* The promise is the comment on the interface in smpg-x86.c: "quiesce     *)
(* interface to switch all guest cores into hypervisor mode", "endquiesce  *)
(* interface to resume all guest cores after a quiesce".                   *)
(***************************************************************************)
CONSTANTS Cores, NoCore

VARIABLES running,   \* the cores that execute guest code
          owner      \* the core whose intercept the hypapp handles, or NoCore

Init == running = Cores /\ owner = NoCore

\* A core leaves the guest: an intercept or an NMI.
Leave(c) ==
    /\ c \in running
    /\ running' = running \ {c}
    /\ UNCHANGED owner

\* quiesce returns to its caller: the machine is stopped.
Own(c) ==
    /\ running = {}
    /\ owner = NoCore
    /\ owner' = c
    /\ UNCHANGED running

\* The hypapp is done with the intercept.
Disown(c) ==
    /\ owner = c
    /\ owner' = NoCore
    /\ UNCHANGED running

\* A core goes back to the guest.
Resume(c) ==
    /\ owner = NoCore
    /\ running' = running \cup {c}
    /\ UNCHANGED owner

Next == \E c \in Cores : Leave(c) \/ Own(c) \/ Disown(c) \/ Resume(c)

Spec == Init /\ [][Next]_<<running, owner>>
=============================================================================
