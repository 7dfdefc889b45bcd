------------------------------- MODULE MCRings -------------------------------
(***************************************************************************)
(* The protocols over shared words between single threads, checked side by *)
(* side: the control blocks of the workers and the kernel, the request     *)
(* ring of the bridge and the terminal input.  They share no word, so each *)
(* of them moves while the other two are in their initial states.          *)
(***************************************************************************)
EXTENDS SyscallTrap, BridgeRing, StdinRing, TLC

(* Processes 1, the first, and 2 trap; 3 only exits. *)
MCTraps == (1 :> 2) @@ (2 :> 1) @@ (3 :> 0)

RingsNext ==
    \/ TrapInit /\ StdinInit /\ UNCHANGED <<trap, stdin>> /\ Next
    \/ TrapInit /\ kid = 0 /\ UNCHANGED <<trap, vars>> /\ StdinNext
    \/ StdinInit /\ kid = 0 /\ UNCHANGED <<vars, stdin>> /\ TrapNext

RingsInit == Init /\ StdinInit /\ TrapInit

RingsSpec ==
    /\ RingsInit
    /\ [][RingsNext]_<<vars, stdin, trap>>
    /\ Fairness /\ StdinFairness /\ TrapFairness
=============================================================================
