------------------------------- MODULE MCGuest ------------------------------
(***************************************************************************)
(* One guest in its wasm instance, checked side by side: its memory and    *)
(* its signals.  Neither touches the state of the other: each moves while  *)
(* the other is in its initial state, with no step and no call made.       *)
(***************************************************************************)
EXTENDS MCGuestMemory, MCSignals

GuestNext ==
    \/ used = 0 /\ UNCHANGED thread /\ Next
    \/ steps = 0 /\ UNCHANGED vars /\ SignalsNext

GuestInit == Init /\ SignalsInit

GuestSpec == GuestInit /\ [][GuestNext]_<<vars, thread>> /\ SignalsFairness
=============================================================================
