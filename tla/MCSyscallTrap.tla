---------------------------- MODULE MCSyscallTrap ---------------------------
(* An instance of SyscallTrap: process 1 is the first process; it and 2      *)
(* trap twice, 3 only exits.                                                *)
EXTENDS SyscallTrap, TLC

MCTraps == (1 :> 2) @@ (2 :> 2) @@ (3 :> 0)
=============================================================================
