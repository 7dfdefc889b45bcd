----------------------------- MODULE MCSignals ------------------------------
(* Three signals: the handler of 1 masks 2, that of 2 runs on the alternate  *)
(* stack and masks all, 3 is ignored by default; or all of them run on the   *)
(* main stack.                                                               *)
EXTENDS Signals

Fn(mask, nodefer, onstack) == [handler |-> "fn", mask |-> mask, nodefer |-> nodefer, onstack |-> onstack]
Default == [handler |-> "dfl", mask |-> {}, nodefer |-> FALSE, onstack |-> FALSE]
MCHands == {Fn({2}, FALSE, FALSE), Fn({}, TRUE, FALSE), Fn({1, 2, 3}, FALSE, TRUE), Default}
MCFirstHands == <<Fn({2}, FALSE, FALSE), Fn({1, 2, 3}, FALSE, TRUE), Default>>
MCMainHands == {h \in MCHands : ~h.onstack}
MCMainFirst == <<Fn({2}, FALSE, FALSE), Fn({}, TRUE, FALSE), Fn({}, TRUE, FALSE)>>
MCMasks == {{}, {1, 2}, {1, 2, 3}}
=============================================================================
