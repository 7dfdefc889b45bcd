------------------------------ MODULE BytePipe ------------------------------
(***************************************************************************)
(* What a pipe promises: a bounded first-in first-out sequence of bytes    *)
(* and a write end that is closed once and for all.  PipeRing implements   *)
(* it with two indices in shared memory.                                   *)
(***************************************************************************)
EXTENDS Integers, Sequences

CONSTANTS
    Cap,     \* the ring holds Cap - 1 bytes
    Bytes    \* the byte values

VARIABLES buf, taken, closed

vars == <<buf, taken, closed>>

Init == buf = <<>> /\ taken = <<>> /\ closed = FALSE

Put == /\ ~closed /\ Len(buf) < Cap - 1
       /\ \E b \in Bytes : buf' = Append(buf, b)
       /\ UNCHANGED <<taken, closed>>

Take == /\ buf # <<>>
        /\ taken' = Append(taken, Head(buf)) /\ buf' = Tail(buf)
        /\ UNCHANGED closed

Close == ~closed /\ closed' = TRUE /\ UNCHANGED <<buf, taken>>

Next == Put \/ Take \/ Close

Spec == Init /\ [][Next]_vars
=============================================================================
