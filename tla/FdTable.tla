------------------------------ MODULE FdTable -------------------------------
(***************************************************************************)
(* The descriptor tables the kernel worker keeps: one Map per process from *)
(* fd numbers to entry objects, the global VirtualFS.openFiles they point  *)
(* into, and the closed flags of the pipe rings, which the bridge sets by  *)
(* computing a ring from the NUMBER of the closed fd (pipe::close).        *)
(*                                                                         *)
(* File contents and positions are left to VirtualFS; e.desc is a history  *)
(* of which open() an entry stems from, to tell a description from its     *)
(* number.  F_SETFD is left out: its flag lives in an object that fork     *)
(* shares, and no handler but F_GETFD reads it.                            *)
(***************************************************************************)
EXTENDS Integers, FiniteSets, FiniteSetsExt, Maps

CONSTANTS
    MaxCalls,   \* bound: calls made, of all processes together
    MaxPid,     \* bound: processes are 1 .. MaxPid, 1 is the first
    MaxFd,      \* bound: largest fd number
    MaxOpens,   \* bound: calls of vfs.open
    MaxPipes,   \* bound: pipes created
    PipeBase,   \* number of the first pipe fd (100 in pipe.rs)
    Targets,    \* fd numbers the guest names in dup2, dup3 and F_DUPFD
    SlotsBelow  \* ring-sized places below the first ring in the bridge's memory (17)

ASSUME FdBounds ==
    /\ {MaxCalls, MaxPid, MaxFd, MaxOpens, MaxPipes, PipeBase} \subseteq Nat /\ MaxPid >= 1
    /\ Targets \subseteq 0 .. MaxFd
    /\ PipeBase % 2 = 0 /\ SlotsBelow \in Nat
    /\ 4 + MaxOpens <= MaxFd + 1 /\ PipeBase + 2 * MaxPipes <= MaxFd + 1

VARIABLES
    calls,      \* calls so far, for the bound only
    table,      \* table[p]: fdTable of p; the processes are its domain
    nextFd,     \* nextFd[p]: proc.nextFd
    lastPid,    \* the last pid handed out
    open,       \* VirtualFS.openFiles: vfs fd -> which open() made it
    vfsNext,    \* VirtualFS.nextFd
    opens,      \* history: calls of vfs.open so far
    pipes,      \* NEXT_PIPE_SLOT
    closed,     \* <<slot, end>> pairs whose closed flag is 1
    bridgeUp    \* FALSE once the bridge trapped on an address out of range

procs == <<table, nextFd, lastPid>>
vfs   == <<open, vfsNext, opens>>
rings == <<pipes, closed, bridgeUp>>
vars  == <<calls, procs, vfs, rings>>

Pids == 1 .. MaxPid
Fds == 0 .. MaxFd
Entry(t, n, e, d) == [type |-> t, id |-> n, end |-> e, desc |-> d, cloexec |-> FALSE]
Special(n) == Entry("special", n, 0, 0)
File(v, d) == Entry("file", v, 0, d)
Pipe(s, e) == Entry("pipe", s, e, 0)
Entries == [type : {"special", "file", "pipe"}, id : Nat, end : {0, 1}, desc : Nat, cloexec : BOOLEAN]

\* One type invariant: tables hold entries at bounded numbers.
TypeOK ==
    /\ calls \in 0 .. MaxCalls
    /\ DOMAIN table \subseteq Pids /\ DOMAIN nextFd = DOMAIN table
    /\ \A p \in DOMAIN table :
          /\ DOMAIN table[p] \subseteq Fds
          /\ \A fd \in DOMAIN table[p] : table[p][fd] \in Entries
          /\ nextFd[p] \in 0 .. MaxFd + 1
    /\ lastPid \in Pids
    /\ DOMAIN open \subseteq Nat /\ \A v \in DOMAIN open : open[v] \in 0 .. MaxOpens
    /\ vfsNext \in Nat /\ opens \in 0 .. MaxOpens
    /\ pipes \in 0 .. MaxPipes /\ closed \subseteq (Int \X {0, 1})
    /\ bridgeUp \in BOOLEAN

(***************************************************************************)
(* Tables.                                                                 *)
(***************************************************************************)
Has(p, fd) == p \in DOMAIN table /\ fd \in DOMAIN table[p]
NoBump(n, fd) == n                       \* mutant: the counter is left behind
Bump(n, fd) == IF fd >= n THEN fd + 1 ELSE n

Init ==
    /\ calls = 0
    /\ table = [p \in {1} |-> [fd \in 0 .. 2 |-> Special(fd)]]
    /\ nextFd = [p \in {1} |-> 3] /\ lastPid = 1
    /\ open = [v \in 0 .. 2 |-> 0] /\ vfsNext = 4 /\ opens = 0
    /\ pipes = 0 /\ closed = {} /\ bridgeUp = TRUE

(***************************************************************************)
(* pipe::close as the bridge computes it from an fd number.                *)
(***************************************************************************)
SlotOf(fd) == IF fd >= PipeBase THEN (fd - PipeBase) \div 2 ELSE -((PipeBase - fd) \div 2)
EndOf(fd) == fd % 2

\* callBridge(REQ_PIPE_CLOSE, fd): a dead bridge only times out.
BridgeClose(fd) ==
    /\ bridgeUp' = (bridgeUp /\ SlotOf(fd) >= -SlotsBelow)
    /\ closed' = IF bridgeUp' THEN closed \cup {<<SlotOf(fd), EndOf(fd)>>} ELSE closed
    /\ UNCHANGED pipes

BridgeIdle == UNCHANGED <<pipes, closed, bridgeUp>>

VfsClose(v) == open' = Restrict(open, DOMAIN open \ {v}) /\ UNCHANGED <<vfsNext, opens>>

(***************************************************************************)
(* Syscalls of process p.                                                  *)
(***************************************************************************)
\* mutant: vfs.open reuses the lowest free number
LowestVfsFd == Min({n \in 4 .. vfsNext : n \notin DOMAIN open})

\* vfs.open hands out its own next number and the table takes that number.
VfsFd == vfsNext

Open(p) ==
    /\ opens < MaxOpens
    /\ opens' = opens + 1 /\ vfsNext' = vfsNext + 1
    /\ open' = With(open, VfsFd, opens')
    /\ table' = [table EXCEPT ![p] = With(@, VfsFd, File(VfsFd, opens'))]
    /\ nextFd' = [nextFd EXCEPT ![p] = Bump(@, VfsFd)]
    /\ UNCHANGED <<lastPid, rings>>

\* SYS_close: a file's description goes with the first fd that is closed.
Close(p, fd) ==
    /\ Has(p, fd)
    /\ IF table[p][fd].type = "file" THEN VfsClose(table[p][fd].id) ELSE UNCHANGED vfs
    /\ IF table[p][fd].type = "pipe" THEN BridgeClose(fd) ELSE BridgeIdle
    /\ table' = [table EXCEPT ![p] = Without(@, fd)]
    /\ UNCHANGED <<nextFd, lastPid>>

\* SYS_FS_CLOSE: any number, used as the vfs fd; the table is not asked, so
\* the file may be one that only other processes have open.
FsClose(p, fd) ==
    /\ VfsClose(fd)
    /\ table' = [table EXCEPT ![p] = Without(@, fd)]
    /\ UNCHANGED <<nextFd, lastPid, rings>>

\* SYS_PIPE_CLOSE as the guest's close() of an end of pipe id calls it: the
\* handler takes the pipe id for an fd number and does not look at the end.
PipeClose(p, id, end) ==
    /\ IF Has(p, id) /\ table[p][id].type = "pipe" THEN BridgeClose(id) ELSE BridgeIdle
    /\ table' = [table EXCEPT ![p] = Without(@, id)]
    /\ UNCHANGED <<nextFd, lastPid, vfs>>

\* SYS_PIPE_CREATE: the new slot's header is zeroed; nextFd is not touched.
ZeroHeader(s) == closed \ {<<s, 0>>, <<s, 1>>}

PipeCreate(p) ==
    /\ bridgeUp /\ pipes < MaxPipes
    /\ pipes' = pipes + 1 /\ closed' = ZeroHeader(pipes) /\ UNCHANGED bridgeUp
    /\ LET r == PipeBase + 2 * pipes
       IN table' = [table EXCEPT ![p] =
                      With(With(@, r, Pipe(pipes, 0)), r + 1, Pipe(pipes, 1))]
    /\ UNCHANGED <<nextFd, lastPid, vfs>>

\* The copy of an entry that dup, dup2, dup3 and F_DUPFD put at number fd.
CopyTo(p, e, fd, on) ==
    /\ table' = [table EXCEPT ![p] = With(@, fd, [e EXCEPT !.cloexec = on])]
    /\ nextFd' = [nextFd EXCEPT ![p] = Bump(@, fd)]
    /\ UNCHANGED lastPid

\* SYS_dup: the number is proc.nextFd, used or not.
Dup(p, fd) ==
    /\ Has(p, fd) /\ nextFd[p] \in Fds
    /\ CopyTo(p, table[p][fd], nextFd[p], FALSE)
    /\ UNCHANGED <<vfs, rings>>

\* fcntl F_DUPFD and F_DUPFD_CLOEXEC: the lowest free number from `least` on.
FcntlDup(p, fd, least, on) ==
    /\ Has(p, fd)
    /\ LET free == {n \in least .. MaxFd : ~Has(p, n)}
       IN free # {} /\ CopyTo(p, table[p][fd], Min(free), on)
    /\ UNCHANGED <<vfs, rings>>

\* SYS_dup2 closes a file at the target, but leaves a pipe end open.
Dup2(p, old, new) ==
    /\ old # new /\ Has(p, old)
    /\ IF Has(p, new) /\ table[p][new].type = "file"
       THEN VfsClose(table[p][new].id) ELSE UNCHANGED vfs
    /\ CopyTo(p, table[p][old], new, FALSE)
    /\ UNCHANGED rings

\* SYS_dup3 closes a file or a pipe end at the target.
Dup3(p, old, new, on) ==
    /\ old # new /\ Has(p, old)
    /\ IF Has(p, new) /\ table[p][new].type = "file"
       THEN VfsClose(table[p][new].id) ELSE UNCHANGED vfs
    /\ IF Has(p, new) /\ table[p][new].type = "pipe"
       THEN BridgeClose(new) ELSE BridgeIdle
    /\ CopyTo(p, table[p][old], new, on)

\* SYS_FORK_SPAWN: new Map(parentFds) copies every entry, cloexec ones too.
CopyTable(p) ==
    /\ lastPid < MaxPid /\ lastPid' = lastPid + 1
    /\ table' = With(table, lastPid', table[p])
    /\ nextFd' = With(nextFd, lastPid', nextFd[p])
    /\ UNCHANGED <<vfs, rings>>

Fork(p) == CopyTable(p)

\* SYS_FORK_EXEC_SPAWN copies the table in the same way.
ForkExec(p) == CopyTable(p)

\* mutant: the counter outlives the process
ExitKeepsCounter(p) ==
    /\ table' = Restrict(table, DOMAIN table \ {p})
    /\ UNCHANGED <<nextFd, lastPid, vfs, rings>>

\* The worker-exit message: the process is dropped, nothing is closed.
WorkerExit(p) ==
    /\ table' = Restrict(table, DOMAIN table \ {p})
    /\ nextFd' = Restrict(nextFd, DOMAIN nextFd \ {p})
    /\ UNCHANGED <<lastPid, vfs, rings>>

Step(p) ==
    \/ Open(p) \/ PipeCreate(p) \/ Fork(p) \/ ForkExec(p) \/ WorkerExit(p)
    \/ \E fd \in Fds : Close(p, fd) \/ FsClose(p, fd) \/ Dup(p, fd)
    \/ \E id \in 0 .. pipes - 1, end \in {0, 1} : PipeClose(p, id, end)
    \/ \E fd \in Fds, n \in Targets :
          \/ Dup2(p, fd, n)
          \/ \E on \in BOOLEAN : FcntlDup(p, fd, n, on) \/ Dup3(p, fd, n, on)

Next ==
    /\ calls < MaxCalls /\ calls' = calls + 1
    /\ \E p \in DOMAIN table : Step(p)

Spec == Init /\ [][Next]_vars

(***************************************************************************)
(* Properties.                                                             *)
(***************************************************************************)
\* An fd that outlived its description (closed through a copy of it) gets
\* EBADF: its number in openFiles never comes to name another open file.
NeverAnotherFile ==
    \A p \in DOMAIN table : \A fd \in DOMAIN table[p] :
        LET e == table[p][fd]
        IN e.type = "file" /\ e.id \in DOMAIN open => open[e.id] = e.desc

\* dup() takes proc.nextFd without asking whether the number is in use: as
\* long as it is below the pipe numbers it never is, however open, dup2,
\* F_DUPFD, fork and close were mixed before, in this process or in the one it
\* was forked from.  Nothing like it holds of open, which puts the vfs's number
\* over what dup has put there, nor of a dup whose counter has come to the
\* numbers of the pipes.
DupIsFresh ==
    \A p \in DOMAIN table : nextFd[p] < PipeBase => nextFd[p] \notin DOMAIN table[p]

\* The tables are well formed, and below the pipe numbers dup() never lands on
\* a number in use.
NumbersSound == TypeOK /\ DupIsFresh

\* A descriptor that was not closed reaches its open file: close() of a copy,
\* by this process or another, leaves it open (the design counts "how many fds
\* point to this description"; SYS_close does not).
CopiesKeepFile ==
    \A p \in DOMAIN table : \A fd \in DOMAIN table[p] :
        table[p][fd].type = "file" => table[p][fd].id \in DOMAIN open
=============================================================================
