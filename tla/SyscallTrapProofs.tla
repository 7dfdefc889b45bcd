-------------------------- MODULE SyscallTrapProofs --------------------------
(***************************************************************************)
(* Proofs about SyscallTrap, for every set of processes and any number of  *)
(* traps: a process that never waits for a child gets the answers to its   *)
(* own requests, each handled once, and no exit is forgotten.              *)
(***************************************************************************)
EXTENDS SyscallTrap, TLAPS

(* Where a request is, for a process that never waited: with the worker, raised and not *)
(* yet handled, or answered and waiting to be picked up.                                *)
Raised(p) == flag[p] = 1 /\ handled[p] = 0
Answered(p) == flag[p] = 0 /\ handled[p] = 1 /\ ret[p] = Own(req[p].seq)

Phase(p) ==
    /\ wpc[p] = "run" => /\ flag[p] = 0 /\ handled[p] <= 1
                         /\ req[p].seq > 0 => handled[p] = 1 /\ result[p] = Own(req[p].seq)
    /\ wpc[p] = "stored" => flag[p] = 0 /\ handled[p] = 0
    /\ wpc[p] = "trapped" => Raised(p) \/ Answered(p)
    /\ wpc[p] = "gone" => flag[p] = 0 /\ handled[p] <= 1
    /\ loop = "yield" /\ kproc = p => flag[p] = 1

Phases == \A p \in Pids \ waiters : Phase(p)

(* Only a process that waited is ever stored as a waiter. *)
WaitersWaited ==
    /\ \A p \in Pids : req[p].call.op = "wait" => p \in waiters
    /\ \A k \in Keys : pending[k] # 0 => pending[k] \in waiters

(* A process leaves the table after its worker is gone. *)
LeftAreGone ==
    /\ \A c \in mail : wpc[c] = "gone"
    /\ \A p \in Pids : p \notin table => wpc[p] = "gone"

IInv == TrapTypeOK /\ NoExitLost /\ Phases /\ WaitersWaited /\ LeftAreGone

-----------------------------------------------------------------------------
(* What the kernel's answer to a trap changes. *)
LEMMA DispatchTypes ==
  ASSUME TrapTypeOK, NEW p \in Pids, Answer(p)
  PROVE  /\ ret' \in [Pids -> Answers] /\ exitCodes' \subseteq Children /\ reaped' \subseteq Children
         /\ pending' \in [Keys -> Pids \cup {0}]
         /\ \A q \in Pids \ {p} : ret'[q] = ret[q]
<1> USE PidsAssumption DEF TrapTypeOK
<1>1. req[p].seq \in Nat /\ req[p].call \in Calls
  OBVIOUS
<1>2. CASE req[p].call.op = "other"
  <2>1. ret' = [ret EXCEPT ![p] = Own(req[p].seq)] /\ UNCHANGED <<exitCodes, pending, reaped>>
    BY <1>2 DEF Answer
  <2>2. Own(req[p].seq) \in Answers
    BY <1>1 DEF Own, Answers
  <2> QED
    BY <2>1, <2>2
<1>3. CASE req[p].call.op = "wait"
  <2> DEFINE c == req[p].call.arg
  <2>1. c \in WaitArgs
    BY <1>1, <1>3 DEF Calls
  <2>2. CASE WaitFound(p, c)
    <3>1. Child(c) \in Answers
      BY <2>2 DEF WaitFound, Child, Answers
    <3> QED
      BY <2>2, <3>1 DEF WaitFound
  <2>3. CASE WaitPending(p, c)
    BY <2>1, <2>3 DEF WaitPending, WaitArgs, Keys
  <2> QED
    BY <1>3, <2>2, <2>3 DEF Answer
<1> QED
  BY <1>2, <1>3 DEF Answer

(* An exit code that is fetched is accounted for. *)
LEMMA DispatchKeeps ==
  ASSUME TrapTypeOK, NEW p \in Pids, Answer(p)
  PROVE  exitCodes \cup reaped \subseteq exitCodes' \cup reaped'
BY DEF Answer, WaitFound, WaitPending

(* The waiter an exit completes. *)
LEMMA ExitWaiter ==
  ASSUME TrapTypeOK, WaitersWaited, NEW c \in Children
  PROVE  LET w == IF pending[c] # 0 THEN pending[c] ELSE pending[1] IN
         w \in Pids \cup {0} /\ (w # 0 => w \in waiters)
BY PidsAssumption DEF TrapTypeOK, WaitersWaited, Keys

LEMMA InitInv == TrapInit => IInv
<1> SUFFICES ASSUME TrapInit PROVE IInv
  OBVIOUS
<1> USE PidsAssumption DEF TrapInit
<1>1. TrapTypeOK
  BY DEF TrapTypeOK, Calls, Answers, Keys
<1>2. NoExitLost
  BY DEF NoExitLost
<1>3. Phases
  BY DEF Phases, Phase
<1>4. WaitersWaited
  BY DEF WaitersWaited
<1>5. LeftAreGone
  BY DEF LeftAreGone
<1> QED
  BY <1>1, <1>2, <1>3, <1>4, <1>5 DEF IInv

-----------------------------------------------------------------------------
(* Types and the account of exits, one step per action. *)
LEMMA TypesPreserved == TrapTypeOK /\ WaitersWaited /\ NoExitLost /\ [TrapNext]_trap => TrapTypeOK' /\ NoExitLost'
<1> SUFFICES ASSUME TrapTypeOK, WaitersWaited, NoExitLost, [TrapNext]_trap PROVE TrapTypeOK' /\ NoExitLost'
  OBVIOUS
<1> USE PidsAssumption
<1>1. ASSUME NEW p \in Pids, StoreArgs(p) PROVE TrapTypeOK' /\ NoExitLost'
  <2>1. PICK c \in Calls :
          /\ req' = [req EXCEPT ![p] = [seq |-> @.seq + 1, call |-> c]]
          /\ waiters' = IF c.op = "other" THEN waiters ELSE waiters \cup {p}
    BY <1>1 DEF StoreArgs
  <2>2. req' \in [Pids -> [seq : Nat, call : Calls]]
    BY <2>1 DEF TrapTypeOK
  <2>3. waiters' \subseteq Pids /\ wpc' \in [Pids -> {"run", "stored", "trapped", "gone"}] /\ handled' \in [Pids -> Nat]
    BY <1>1, <2>1 DEF StoreArgs, TrapTypeOK
  <2> QED
    BY <1>1, <2>2, <2>3 DEF StoreArgs, TrapTypeOK, NoExitLost, kernelWords
<1>2. ASSUME NEW p \in Pids, RaiseTrap(p) PROVE TrapTypeOK' /\ NoExitLost'
  BY <1>2 DEF RaiseTrap, TrapTypeOK, NoExitLost, kernelWords, hist
<1>3. ASSUME NEW p \in Pids, ReturnFromTrap(p) PROVE TrapTypeOK' /\ NoExitLost'
  BY <1>3 DEF ReturnFromTrap, TrapTypeOK, NoExitLost, ctl, kernelWords
<1>4. ASSUME NEW p \in Pids, SeeTrap(p) PROVE TrapTypeOK' /\ NoExitLost'
  BY <1>4 DEF SeeTrap, TrapTypeOK, NoExitLost, ctl, hist
<1>5. ASSUME NEW c \in Children, Exit(c) PROVE TrapTypeOK' /\ NoExitLost'
  BY <1>5 DEF Exit, TrapTypeOK, NoExitLost, ctl, kernelWords, hist
<1>6. ASSUME NEW c \in Children, WorkerExit(c) PROVE TrapTypeOK' /\ NoExitLost'
  <2> DEFINE w == IF pending[c] # 0 THEN pending[c] ELSE pending[1]
  <2>1. w \in Pids \cup {0}
    BY ExitWaiter
  <2>2. Child(c) \in Answers
    BY DEF Child, Answers
  <2>3. ret' \in [Pids -> Answers] /\ flag' \in [Pids -> 0 .. 1] /\ pending' \in [Keys -> Pids \cup {0}]
    <3>1. CASE w = 0
      BY <1>6, <3>1 DEF WorkerExit, TrapTypeOK
    <3>2. CASE w # 0
      <4>1. /\ pending' = [pending EXCEPT ![c] = 0, ![1] = 0]
            /\ ret' = [ret EXCEPT ![w] = Child(c)]
            /\ flag' = [flag EXCEPT ![w] = 0]
        BY <1>6, <3>2 DEF WorkerExit
      <4>2. c \in Keys /\ 1 \in Keys
        BY DEF Keys
      <4>3. w \in Pids
        BY <2>1, <3>2
      <4>4. ret' \in [Pids -> Answers] /\ flag' \in [Pids -> 0 .. 1]
        BY <2>2, <4>1, <4>3 DEF TrapTypeOK
      <4>5. pending' \in [Keys -> Pids \cup {0}]
        BY <4>1, <4>2 DEF TrapTypeOK
      <4> QED
        BY <4>4, <4>5
    <3> QED
      BY <3>1, <3>2
  <2>4. /\ table' = table \ {c} /\ exitCodes' = exitCodes \cup {c} /\ mail' = mail \ {c}
        /\ UNCHANGED <<req, wpc, loop, kproc, hist>>
    BY <1>6 DEF WorkerExit
  <2> QED
    BY <2>3, <2>4 DEF TrapTypeOK, NoExitLost, hist
<1>7. ASSUME HandleTrap PROVE TrapTypeOK' /\ NoExitLost'
  <2>1. kproc \in Pids
    BY DEF TrapTypeOK
  <2>2. /\ ret' \in [Pids -> Answers] /\ exitCodes' \subseteq Children /\ reaped' \subseteq Children
        /\ pending' \in [Keys -> Pids \cup {0}]
        /\ exitCodes \cup reaped \subseteq exitCodes' \cup reaped'
    <3>1. CASE kproc \in table
      BY <1>7, <2>1, <3>1, DispatchTypes, DispatchKeeps DEF HandleTrap
    <3>2. CASE kproc \notin table
      <4>1. [kind |-> "none", id |-> 0] \in Answers
        BY DEF Answers
      <4>2. ret' = [ret EXCEPT ![kproc] = [kind |-> "none", id |-> 0]] /\ UNCHANGED <<exitCodes, pending, reaped>>
        BY <1>7, <3>2 DEF HandleTrap
      <4> QED
        BY <2>1, <4>1, <4>2 DEF TrapTypeOK
    <3> QED
      BY <3>1, <3>2
  <2>3. /\ loop' = "scan" /\ flag' = [flag EXCEPT ![kproc] = 0]
        /\ handled' = [handled EXCEPT ![kproc] = @ + 1]
        /\ UNCHANGED <<req, wpc, table, kproc, mail, result, waiters>>
    BY <1>7 DEF HandleTrap
  <2> QED
    BY <2>1, <2>2, <2>3 DEF TrapTypeOK, NoExitLost
<1>8. ASSUME UNCHANGED trap PROVE TrapTypeOK' /\ NoExitLost'
  BY <1>8 DEF trap, ctl, kernelWords, hist, TrapTypeOK, NoExitLost
<1> QED
  BY <1>1, <1>2, <1>3, <1>4, <1>5, <1>6, <1>7, <1>8 DEF TrapNext

-----------------------------------------------------------------------------
(* Who waits, and who has left. *)
LEMMA BooksPreserved ==
  TrapTypeOK /\ WaitersWaited /\ LeftAreGone /\ [TrapNext]_trap => WaitersWaited' /\ LeftAreGone'
<1> SUFFICES ASSUME TrapTypeOK, WaitersWaited, LeftAreGone, [TrapNext]_trap PROVE WaitersWaited' /\ LeftAreGone'
  OBVIOUS
<1> USE PidsAssumption
<1>1. ASSUME NEW p \in Pids, StoreArgs(p) PROVE WaitersWaited' /\ LeftAreGone'
  <2>1. PICK c \in Calls :
          /\ req' = [req EXCEPT ![p] = [seq |-> @.seq + 1, call |-> c]]
          /\ waiters' = IF c.op = "other" THEN waiters ELSE waiters \cup {p}
    BY <1>1 DEF StoreArgs
  <2>2. \A q \in Pids : req'[q].call.op = "wait" => q \in waiters'
    BY <2>1 DEF TrapTypeOK, WaitersWaited
  <2>3. waiters \subseteq waiters' /\ UNCHANGED <<pending, table, mail>>
    BY <1>1, <2>1 DEF StoreArgs, kernelWords
  <2>4. \A q \in Pids : wpc[q] = "gone" => wpc'[q] = "gone"
    BY <1>1 DEF StoreArgs, TrapTypeOK
  <2> QED
    BY <2>2, <2>3, <2>4 DEF WaitersWaited, LeftAreGone, TrapTypeOK
<1>2. ASSUME NEW p \in Pids, RaiseTrap(p) PROVE WaitersWaited' /\ LeftAreGone'
  BY <1>2 DEF RaiseTrap, TrapTypeOK, WaitersWaited, LeftAreGone, kernelWords, hist
<1>3. ASSUME NEW p \in Pids, ReturnFromTrap(p) PROVE WaitersWaited' /\ LeftAreGone'
  BY <1>3 DEF ReturnFromTrap, TrapTypeOK, WaitersWaited, LeftAreGone, ctl, kernelWords
<1>4. ASSUME NEW p \in Pids, SeeTrap(p) PROVE WaitersWaited' /\ LeftAreGone'
  BY <1>4 DEF SeeTrap, TrapTypeOK, WaitersWaited, LeftAreGone, ctl, hist
<1>5. ASSUME NEW c \in Children, Exit(c) PROVE WaitersWaited' /\ LeftAreGone'
  BY <1>5 DEF Exit, TrapTypeOK, WaitersWaited, LeftAreGone, ctl, kernelWords, hist
<1>6. ASSUME NEW c \in Children, WorkerExit(c) PROVE WaitersWaited' /\ LeftAreGone'
  <2>1. \A k \in Keys : pending'[k] = pending[k] \/ pending'[k] = 0
    BY <1>6 DEF WorkerExit, TrapTypeOK, Keys
  <2>2. /\ c \in mail /\ mail' = mail \ {c} /\ table' = table \ {c}
        /\ UNCHANGED <<req, wpc, hist>>
    BY <1>6 DEF WorkerExit
  <2> QED
    BY <2>1, <2>2 DEF WaitersWaited, LeftAreGone, hist
<1>7. ASSUME HandleTrap PROVE WaitersWaited' /\ LeftAreGone'
  <2>1. UNCHANGED <<req, wpc, table, mail, waiters>> /\ kproc \in Pids
    BY <1>7 DEF HandleTrap, TrapTypeOK
  <2>2. \A k \in Keys : pending'[k] = pending[k] \/ pending'[k] = 0 \/ pending'[k] \in waiters
    <3>1. CASE kproc \in table /\ req[kproc].call.op = "wait"
      <4>1. kproc \in waiters
        BY <2>1, <3>1 DEF WaitersWaited
      <4>2. pending' = pending \/ \E c \in {req[kproc].call.arg} : pending' = [pending EXCEPT ![IF c = 0 THEN kproc ELSE c] = kproc]
        BY <1>7, <3>1 DEF HandleTrap, Answer, WaitFound, WaitPending
      <4> QED
        BY <4>1, <4>2 DEF TrapTypeOK
    <3>2. CASE ~(kproc \in table /\ req[kproc].call.op = "wait")
      BY <1>7, <3>2 DEF HandleTrap, Answer
    <3> QED
      BY <3>1, <3>2
  <2> QED
    BY <2>1, <2>2 DEF WaitersWaited, LeftAreGone
<1>8. ASSUME UNCHANGED trap PROVE WaitersWaited' /\ LeftAreGone'
  BY <1>8 DEF trap, ctl, kernelWords, hist, WaitersWaited, LeftAreGone
<1> QED
  BY <1>1, <1>2, <1>3, <1>4, <1>5, <1>6, <1>7, <1>8 DEF TrapNext

-----------------------------------------------------------------------------
(* The course of a request, one step per action; q is any process that has not waited. *)
LEMMA PhasesPreserved == IInv /\ [TrapNext]_trap => Phases'
<1> SUFFICES ASSUME IInv, [TrapNext]_trap, NEW q \in Pids, q \notin waiters' PROVE Phase(q)'
  BY DEF Phases
<1> USE PidsAssumption
<1>0. q \notin waiters /\ Phase(q) /\ TrapTypeOK
  <2>1. waiters \subseteq waiters'
    BY DEF TrapNext, trap, ctl, kernelWords, hist, StoreArgs, RaiseTrap, ReturnFromTrap, SeeTrap, Exit, WorkerExit, HandleTrap
  <2> QED
    BY <2>1 DEF IInv, Phases
<1>1. ASSUME NEW p \in Pids, StoreArgs(p) PROVE Phase(q)'
  <2>1. UNCHANGED <<flag, ret, loop, kproc, result>>
    BY <1>1 DEF StoreArgs, kernelWords
  <2>2. CASE q = p
    <3>1. flag[q] = 0 /\ wpc'[q] = "stored" /\ handled'[q] = 0
      BY <1>0, <1>1, <2>2 DEF StoreArgs, Phase, TrapTypeOK
    <3> QED
      BY <1>0, <2>1, <3>1 DEF Phase
  <2>3. CASE q # p
    <3>1. wpc'[q] = wpc[q] /\ handled'[q] = handled[q] /\ req'[q] = req[q]
      BY <1>0, <1>1, <2>3 DEF StoreArgs, TrapTypeOK
    <3> QED
      BY <1>0, <2>1, <3>1 DEF Phase, Raised, Answered
  <2> QED
    BY <2>2, <2>3
<1>2. ASSUME NEW p \in Pids, RaiseTrap(p) PROVE Phase(q)'
  <2>1. UNCHANGED <<req, ret, loop, kproc, result, handled>>
    BY <1>2 DEF RaiseTrap, kernelWords, hist
  <2>2. CASE q = p
    <3>1. handled[q] = 0 /\ flag'[q] = 1 /\ wpc'[q] = "trapped"
      BY <1>0, <1>2, <2>2 DEF RaiseTrap, Phase, TrapTypeOK
    <3> QED
      BY <2>1, <3>1 DEF Phase, Raised
  <2>3. CASE q # p
    <3>1. wpc'[q] = wpc[q] /\ flag'[q] = flag[q]
      BY <1>0, <1>2, <2>3 DEF RaiseTrap, TrapTypeOK
    <3> QED
      BY <1>0, <2>1, <3>1 DEF Phase, Raised, Answered
  <2> QED
    BY <2>2, <2>3
<1>3. ASSUME NEW p \in Pids, ReturnFromTrap(p) PROVE Phase(q)'
  <2>1. UNCHANGED <<flag, req, ret, loop, kproc, handled>>
    BY <1>3 DEF ReturnFromTrap, ctl, kernelWords
  <2>2. CASE q = p
    <3>1. Answered(q) /\ result'[q] = ret[q] /\ wpc'[q] = "run"
      BY <1>0, <1>3, <2>2 DEF ReturnFromTrap, Phase, Raised, TrapTypeOK
    <3> QED
      BY <1>0, <2>1, <3>1 DEF Phase, Answered
  <2>3. CASE q # p
    <3>1. wpc'[q] = wpc[q] /\ result'[q] = result[q]
      BY <1>0, <1>3, <2>3 DEF ReturnFromTrap, TrapTypeOK
    <3> QED
      BY <1>0, <2>1, <3>1 DEF Phase, Raised, Answered
  <2> QED
    BY <2>2, <2>3
<1>4. ASSUME NEW p \in Pids, SeeTrap(p) PROVE Phase(q)'
  BY <1>0, <1>4 DEF SeeTrap, Phase, Raised, Answered, ctl, hist
<1>5. ASSUME NEW c \in Children, Exit(c) PROVE Phase(q)'
  <2>1. UNCHANGED <<flag, req, ret, loop, kproc, result, handled>>
    BY <1>5 DEF Exit, ctl, kernelWords, hist
  <2>2. wpc'[q] = wpc[q] \/ (wpc[q] = "run" /\ wpc'[q] = "gone")
    BY <1>0, <1>5 DEF Exit, TrapTypeOK
  <2> QED
    BY <1>0, <2>1, <2>2 DEF Phase, Raised, Answered
<1>6. ASSUME NEW c \in Children, WorkerExit(c) PROVE Phase(q)'
  <2>1. UNCHANGED <<req, wpc, loop, kproc, result, handled>>
    BY <1>6 DEF WorkerExit, hist
  <2>2. ret'[q] = ret[q] /\ flag'[q] = flag[q]
    <3> DEFINE w == IF pending[c] # 0 THEN pending[c] ELSE pending[1]
    <3>1. w \in Pids \cup {0} /\ w # q
      <4>1. w \in Pids \cup {0} /\ (w # 0 => w \in waiters)
        BY ExitWaiter DEF IInv
      <4> QED
        BY <1>0, <4>1
    <3>2. \/ UNCHANGED <<ret, flag>>
          \/ ret' = [ret EXCEPT ![w] = Child(c)] /\ flag' = [flag EXCEPT ![w] = 0]
      BY <1>6 DEF WorkerExit
    <3> QED
      BY <1>0, <3>1, <3>2 DEF TrapTypeOK
  <2> QED
    BY <1>0, <2>1, <2>2 DEF Phase, Raised, Answered
<1>7. ASSUME HandleTrap PROVE Phase(q)'
  <2>1. /\ loop = "yield" /\ loop' = "scan"
        /\ flag' = [flag EXCEPT ![kproc] = 0] /\ handled' = [handled EXCEPT ![kproc] = @ + 1]
        /\ UNCHANGED <<req, wpc, kproc, result>>
    BY <1>7 DEF HandleTrap
  <2>2. CASE kproc = q
    <3>1. flag[q] = 1 /\ wpc[q] = "trapped" /\ handled[q] = 0
      BY <1>0, <2>1, <2>2 DEF Phase, Raised, Answered, TrapTypeOK
    <3>2. q \in table
      BY <3>1 DEF IInv, LeftAreGone
    <3>3. req[q].call.op = "other"
      BY <1>0, <1>7, <2>2, <3>2 DEF HandleTrap, Answer, IInv, WaitersWaited
    <3>4. ret'[q] = Own(req[q].seq)
      BY <1>0, <1>7, <2>2, <3>2, <3>3 DEF HandleTrap, Answer, TrapTypeOK
    <3>5. flag'[q] = 0 /\ handled'[q] = 1
      BY <1>0, <2>1, <2>2, <3>1 DEF TrapTypeOK
    <3> QED
      BY <2>1, <3>1, <3>4, <3>5 DEF Phase, Answered
  <2>3. CASE kproc # q
    <3>1. flag'[q] = flag[q] /\ handled'[q] = handled[q]
      BY <1>0, <2>1, <2>3 DEF TrapTypeOK
    <3>2. ret'[q] = ret[q]
      <4>1. CASE kproc \in table
        BY <1>0, <1>7, <2>3, <4>1, DispatchTypes DEF HandleTrap, TrapTypeOK
      <4>2. CASE kproc \notin table
        BY <1>0, <1>7, <2>3, <4>2 DEF HandleTrap, TrapTypeOK
      <4> QED
        BY <4>1, <4>2
    <3> QED
      BY <1>0, <2>1, <3>1, <3>2 DEF Phase, Raised, Answered
  <2> QED
    BY <2>2, <2>3
<1>8. ASSUME UNCHANGED trap PROVE Phase(q)'
  BY <1>0, <1>8 DEF trap, ctl, kernelWords, hist, Phase, Raised, Answered
<1> QED
  BY <1>1, <1>2, <1>3, <1>4, <1>5, <1>6, <1>7, <1>8 DEF TrapNext

-----------------------------------------------------------------------------
(* The strengthened invariant holds in every reachable state of the trap protocol. *)
THEOREM Inductive == TrapSpec => []IInv
<1>1. IInv /\ [TrapNext]_trap => IInv'
  BY TypesPreserved, BooksPreserved, PhasesPreserved DEF IInv
<1> QED
  BY InitInv, <1>1, PTL DEF TrapSpec

(* trapToKernel of a process that never calls proc_wait returns the answer the kernel   *)
(* stored for that very request, whoever waits and exits meanwhile.                     *)
THEOREM TrapAnswerOwnCorrect == TrapSpec => []TrapAnswerOwn
<1>1. IInv => TrapAnswerOwn
  BY DEF IInv, Phases, Phase, TrapAnswerOwn
<1> QED
  BY Inductive, <1>1, PTL

(* ... and the kernel loop handles the request exactly once, while its worker is blocked. *)
THEOREM HandledOnceCorrect == TrapSpec => []HandledOnce
<1>1. IInv => HandledOnce
  <2> SUFFICES ASSUME IInv, NEW p \in Pids \ waiters
               PROVE  /\ handled[p] <= 1
                      /\ wpc[p] = "run" /\ req[p].seq > 0 => handled[p] = 1
                      /\ wpc[p] = "stored" => handled[p] = 0
    BY DEF HandledOnce
  <2>1. Phase(p) /\ wpc[p] \in {"run", "stored", "trapped", "gone"}
    BY DEF IInv, Phases, TrapTypeOK
  <2> QED
    BY <2>1 DEF Phase, Raised, Answered
<1> QED
  BY Inductive, <1>1, PTL

(* The worker-exit message and proc_wait between them lose no exit code. *)
THEOREM ExitsKeptCorrect == TrapSpec => []ExitsKept
<1>1. IInv => ExitsKept
  BY DEF IInv, ExitsKept
<1> QED
  BY Inductive, <1>1, PTL
=============================================================================
