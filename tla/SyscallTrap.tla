---------------------------- MODULE SyscallTrap -----------------------------
(***************************************************************************)
(* The trap protocol between execution workers (trapToKernel) and the      *)
(* kernel worker (kernelLoop, handleSyscall, the worker-exit message), on  *)
(* one control block per process: a trap flag, the request words and the   *)
(* return word.  The kernel yields to its message queue between seeing a   *)
(* trap and handling it, so a worker-exit may be applied in between.       *)
(*                                                                         *)
(* Data abstraction: a request is [seq, call] where seq numbers the traps  *)
(* of its process; the answer to an ordinary call is [kind |-> "own"] with *)
(* that seq, the answer of proc_wait is [kind |-> "child"] with a pid.     *)
(***************************************************************************)
EXTENDS Integers, FiniteSets

CONSTANTS
    Pids,       \* process ids with a registered worker; 1 is the first
    Children,   \* the ones that may exit while the others run
    MaxTraps    \* bound: MaxTraps[p] traps of process p

ASSUME PidsAssumption == 1 \in Pids /\ Pids \subseteq Nat \ {0} /\ Children \subseteq Pids \ {1}
ASSUME MaxTrapsAssumption == MaxTraps \in [Pids -> Nat]

VARIABLES
    flag,           \* flag[p]: control[0]
    req,            \* req[p]: control[1..7]
    ret,            \* ret[p]: control[8]
    wpc,            \* wpc[p]: the worker: run, stored, trapped or gone
    table,          \* pids in processTable
    loop, kproc,    \* kernelLoop: "scan" or "yield" for process kproc
    exitCodes,      \* pids with a stored exit code
    pending,        \* pending[k]: the process waiting under key k, or 0
    mail,           \* worker-exit messages on their way to the kernel
    result,         \* history: what p's last trap returned
    handled,        \* history: times p's current request was handled
    waiters,        \* history: processes that ever called proc_wait
    reaped          \* history: children some proc_wait fetched from exitCodes

ctl    == <<flag, req, ret>>
kernelWords == <<table, loop, kproc, exitCodes, pending>>
hist   == <<result, handled, waiters, reaped>>
trap   == <<ctl, wpc, kernelWords, mail, hist>>

WaitArgs == Children \cup {0, -1}      \* proc_wait of a pid, of "any" (0), of -1
Calls == [op : {"other"}, arg : {0}] \cup [op : {"wait"}, arg : WaitArgs]
Keys == Pids \cup {-1}
Own(s) == [kind |-> "own", id |-> s]
Child(c) == [kind |-> "child", id |-> c]
Answers == [kind : {"none", "own", "child"}, id : Nat]

TrapTypeOK ==
    /\ flag \in [Pids -> 0 .. 1]
    /\ req \in [Pids -> [seq : Nat, call : Calls]]
    /\ ret \in [Pids -> Answers]
    /\ wpc \in [Pids -> {"run", "stored", "trapped", "gone"}]
    /\ table \subseteq Pids /\ loop \in {"scan", "yield"} /\ kproc \in Pids
    /\ exitCodes \subseteq Children /\ pending \in [Keys -> Pids \cup {0}]
    /\ mail \subseteq Children
    /\ result \in [Pids -> Answers] /\ handled \in [Pids -> Nat]
    /\ waiters \subseteq Pids /\ reaped \subseteq Children

TrapInit ==
    /\ flag = [p \in Pids |-> 0]
    /\ req = [p \in Pids |-> [seq |-> 0, call |-> [op |-> "other", arg |-> 0]]]
    /\ ret = [p \in Pids |-> [kind |-> "none", id |-> 0]]
    /\ wpc = [p \in Pids |-> "run"]
    /\ table = Pids /\ loop = "scan" /\ kproc = 1
    /\ exitCodes = {} /\ pending = [k \in Keys |-> 0] /\ mail = {}
    /\ result = ret /\ handled = [p \in Pids |-> 0]
    /\ waiters = {} /\ reaped = {}

-----------------------------------------------------------------------------
(* The execution worker.                                                   *)

(* Atomics.store of the number and the arguments, before the flag. *)
StoreArgs(p) ==
    /\ wpc[p] = "run" /\ req[p].seq < MaxTraps[p]
    /\ \E c \in Calls :
         /\ c.arg # p
         /\ req' = [req EXCEPT ![p] = [seq |-> @.seq + 1, call |-> c]]
         /\ waiters' = IF c.op = "other" THEN waiters ELSE waiters \cup {p}
    /\ wpc' = [wpc EXCEPT ![p] = "stored"] /\ handled' = [handled EXCEPT ![p] = 0]
    /\ UNCHANGED <<flag, ret, kernelWords, mail, result, reaped>>

RaiseTrap(p) ==
    /\ wpc[p] = "stored"
    /\ flag' = [flag EXCEPT ![p] = 1] /\ wpc' = [wpc EXCEPT ![p] = "trapped"]
    /\ UNCHANGED <<req, ret, kernelWords, mail, hist>>

(* Atomics.wait(ctl, 0, 1) ends once the flag is 0; control[8] is returned. *)
ReturnFromTrap(p) ==
    /\ wpc[p] = "trapped" /\ flag[p] = 0
    /\ result' = [result EXCEPT ![p] = ret[p]] /\ wpc' = [wpc EXCEPT ![p] = "run"]
    /\ UNCHANGED <<ctl, kernelWords, mail, handled, waiters, reaped>>

(* _start returned: 'exit' goes to the main thread, which relays it. *)
Exit(c) ==
    /\ wpc[c] = "run" /\ wpc' = [wpc EXCEPT ![c] = "gone"]
    /\ mail' = mail \cup {c}
    /\ UNCHANGED <<ctl, kernelWords, hist>>

-----------------------------------------------------------------------------
(* The kernel worker.                                                      *)

(* Mutant: the flag is cleared when the trap is seen. *)
SeeAndClear(p) ==
    /\ loop = "scan" /\ p \in table /\ flag[p] = 1
    /\ loop' = "yield" /\ kproc' = p /\ flag' = [flag EXCEPT ![p] = 0]
    /\ UNCHANGED <<req, ret, wpc, table, exitCodes, pending, mail, hist>>

(* kernelLoop finds a raised trap and yields before it handles it. *)
SeeTrap(p) ==
    /\ loop = "scan" /\ p \in table /\ flag[p] = 1
    /\ loop' = "yield" /\ kproc' = p
    /\ UNCHANGED <<ctl, wpc, table, exitCodes, pending, mail, hist>>

(* Mutant: all stored exit codes are dropped with the one fetched. *)
FoundClearsAll(p, c) ==
    /\ c > 0 /\ c \in exitCodes
    /\ exitCodes' = {} /\ reaped' = reaped \cup {c}
    /\ ret' = [ret EXCEPT ![p] = Child(c)]
    /\ UNCHANGED pending

(* SYS_PROC_WAIT of an exited child. *)
WaitFound(p, c) ==
    /\ c > 0 /\ c \in exitCodes
    /\ exitCodes' = exitCodes \ {c} /\ reaped' = reaped \cup {c}
    /\ ret' = [ret EXCEPT ![p] = Child(c)]
    /\ UNCHANGED pending

(* Mutant: the awaited pid is stored where the waiter belongs. *)
PendingSwapped(p, c) ==
    /\ ~(c > 0 /\ c \in exitCodes)
    /\ pending' = [pending EXCEPT ![IF c = 0 THEN p ELSE c] = c]
    /\ UNCHANGED <<ret, exitCodes, reaped>>

(* SYS_PROC_WAIT otherwise: the wait is stored, control[8] is left alone. *)
WaitPending(p, c) ==
    /\ ~(c > 0 /\ c \in exitCodes)
    /\ pending' = [pending EXCEPT ![IF c = 0 THEN p ELSE c] = p]
    /\ UNCHANGED <<ret, exitCodes, reaped>>

Answer(p) ==
    LET c == req[p].call IN
    \/ /\ c.op = "other"
       /\ ret' = [ret EXCEPT ![p] = Own(req[p].seq)]
       /\ UNCHANGED <<exitCodes, pending, reaped>>
    \/ c.op = "wait" /\ (WaitFound(p, c.arg) \/ WaitPending(p, c.arg))

(* Mutant: the loop leaves the flag to the handlers, which only store the    *)
(* answer.                                                                  *)
LeaveRaised ==
    /\ loop = "yield" /\ loop' = "scan" /\ kproc \in table /\ Answer(kproc)
    /\ handled' = [handled EXCEPT ![kproc] = 1]
    /\ UNCHANGED <<flag, req, wpc, table, kproc, mail, result, waiters>>

(* Mutant: the flag is not cleared. *)
NoClear ==
    /\ loop = "yield" /\ loop' = "scan" /\ kproc \in table /\ Answer(kproc)
    /\ handled' = [handled EXCEPT ![kproc] = @ + 1]
    /\ UNCHANGED <<flag, req, wpc, table, kproc, mail, result, waiters>>

(* handleSyscall(pid, control), then the loop clears the flag and notifies,  *)
(* whatever the handler did.                                                *)
HandleTrap ==
    /\ loop = "yield" /\ loop' = "scan"
    /\ IF kproc \in table
         THEN Answer(kproc)
         ELSE /\ ret' = [ret EXCEPT ![kproc] = [kind |-> "none", id |-> 0]]
              /\ UNCHANGED <<exitCodes, pending, reaped>>
    /\ flag' = [flag EXCEPT ![kproc] = 0]
    /\ handled' = [handled EXCEPT ![kproc] = @ + 1]
    /\ UNCHANGED <<req, wpc, table, kproc, mail, result, waiters>>

(* The worker-exit message, handled at a yield of the kernel: a waiter for   *)
(* this pid, or else the one stored under pid 1, is completed on the spot.   *)
WorkerExit(c) ==
    LET w == IF pending[c] # 0 THEN pending[c] ELSE pending[1] IN
    /\ c \in mail /\ mail' = mail \ {c}
    /\ table' = table \ {c} /\ exitCodes' = exitCodes \cup {c}
    /\ IF w # 0
         THEN /\ pending' = [pending EXCEPT ![c] = 0, ![1] = 0]
              /\ ret' = [ret EXCEPT ![w] = Child(c)]
              /\ flag' = [flag EXCEPT ![w] = 0]
         ELSE UNCHANGED <<pending, ret, flag>>
    /\ UNCHANGED <<req, wpc, loop, kproc, hist>>

TrapNext ==
    \/ \E p \in Pids : StoreArgs(p) \/ RaiseTrap(p) \/ ReturnFromTrap(p) \/ SeeTrap(p)
    \/ \E c \in Children : Exit(c) \/ WorkerExit(c)
    \/ HandleTrap

TrapSpec == TrapInit /\ [][TrapNext]_trap

(* Workers run; the loop visits every process of the table in turn; queued   *)
(* messages are delivered.                                                  *)
TrapFairness ==
    /\ WF_trap(HandleTrap)
    /\ \A p \in Pids : /\ WF_trap(RaiseTrap(p)) /\ WF_trap(ReturnFromTrap(p))
                       /\ SF_trap(SeeTrap(p))
    /\ \A c \in Children : WF_trap(WorkerExit(c))

-----------------------------------------------------------------------------
(* Isolation: whatever other processes wait for and whoever exits, a        *)
(* process that never called proc_wait gets the answer to its own request.  *)
TrapAnswerOwn ==
    \A p \in Pids \ waiters :
        wpc[p] = "run" /\ req[p].seq > 0 => result[p] = Own(req[p].seq)

(* ... and its request is handled exactly once, while it is blocked.        *)
HandledOnce ==
    \A p \in Pids \ waiters :
        /\ handled[p] <= 1
        /\ wpc[p] = "run" /\ req[p].seq > 0 => handled[p] = 1
        /\ wpc[p] = "stored" => handled[p] = 0

(* An exit is not forgotten: until a proc_wait fetches it, its code is kept, *)
(* even when the exit was announced before anybody waited.                  *)
NoExitLost == \A c \in Children : c \in reaped \cup exitCodes \cup table

(* Every trap of a call that has its answer at once returns, whatever the    *)
(* kernel is told at its yields.  (What a proc_wait should do is the next.)  *)
TrapReturns ==
    \A p \in Pids :
        (wpc[p] = "trapped" /\ req[p].call.op = "other") ~> (wpc[p] = "run")

(* A proc_wait keeps its caller blocked until a child has exited ("leave     *)
(* parent blocked until child exits", kernel-worker.js:1350).  The loop      *)
(* clears the flag all the same, so that the call returns what control[8]    *)
(* held before.                                                             *)
WaitersStayBlocked ==
    \A p \in Pids :
        wpc[p] = "run" /\ req[p].seq > 0 /\ req[p].call.op = "wait" => result[p].kind = "child"

(* Every exit is accounted for in the table, the kept codes or the results. *)
ExitsKept == TrapTypeOK /\ NoExitLost
=============================================================================
