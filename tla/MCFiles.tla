------------------------------- MODULE MCFiles -------------------------------
(***************************************************************************)
(* What a descriptor leads to, checked side by side: the tables of the     *)
(* processes, the files of VirtualFS and the ring of a pipe.  The three    *)
(* models share no variable, so each of them moves while the other two are *)
(* in their initial states.                                                *)
(*                                                                         *)
(* The small tree: the base file /etc, a name /tmp, and /tmp/etc below.    *)
(***************************************************************************)
EXTENDS FdTable, VirtualFS, PipeRing

CONSTANTS etc, tmp

MCBase == <<etc>>
MCArgs == {<<etc>>, <<tmp>>, <<tmp, etc>>}
MCFlags == {{}, {"creat", "append"}, {"creat", "excl"}, {"trunc"}, {"dir"}}

FilesNext ==
    \/ fsCalls = 0 /\ PipeInit /\ UNCHANGED <<fsVars, pipeVars>> /\ Next
    \/ calls = 0 /\ PipeInit /\ UNCHANGED <<vars, pipeVars>> /\ VfsNext
    \/ calls = 0 /\ fsCalls = 0 /\ UNCHANGED <<vars, fsVars>> /\ PipeNext

FilesInit == Init /\ VfsInit /\ PipeInit

FilesSpec == FilesInit /\ [][FilesNext]_<<vars, fsVars, pipeVars>> /\ PipeFairness
=============================================================================
