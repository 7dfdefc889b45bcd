----------------------------- MODULE Lifecycle ------------------------------
(***************************************************************************)
(* Processes come and go: a guest's fork traps to the kernel worker, which *)
(* enters the child in its processTable and posts a fork-request; the page *)
(* (main thread) takes an execution worker from its pool, registers it     *)
(* with the kernel and posts it a boot message; at the end the worker      *)
(* posts exit, the page tells the kernel and puts the worker back.  All of *)
(* it runs over postMessage channels, each of them FIFO, none of them      *)
(* ordered with another.                                                   *)
(*                                                                         *)
(* A guest process is a number g, handed out in the order of the forks;    *)
(* its pid is what the three allocators of the code make of it: Blink's    *)
(* nextPidCounter (one per wasm instance), the bridge's NEXT_PID and the   *)
(* kernel's nextPid.  A trap is one step here (SyscallTrap splits it) and  *)
(* of the fd table only the pipes are kept (FdTable has the rest).  A pipe *)
(* is not closed here: the removes that SYS_close posts name the kernel's  *)
(* numbers, and Blink closes a pipe through pipe_close, which posts none.  *)
(***************************************************************************)
EXTENDS Naturals, Sequences, FiniteSets, SequencesExt, Maps

CONSTANTS
    MaxProcs,     \* bound: guest processes, the first one included
    MaxPid,       \* bound: largest pid
    MaxPipes,     \* bound: pipes created
    PoolSize,     \* workers made at boot (4 in the code)
    Forkers,      \* the guest processes that fork
    Kinds,        \* which forks they make: "exec" (vfork + exec) and "full"
    BridgeSlow,   \* whether a request to the bridge may time out
    WasmFails     \* whether instantiating the engine may fail

ASSUME LifecycleBounds ==
    /\ {MaxProcs, MaxPid, PoolSize} \subseteq Nat \ {0} /\ MaxPid >= 2 /\ MaxPipes \in Nat
    /\ Forkers \subseteq 1 .. MaxProcs /\ Kinds \subseteq {"exec", "full"}
    /\ BridgeSlow \in BOOLEAN /\ WasmFails \in BOOLEAN

VARIABLES
    bridge,     \* bridgeSab is set: the bridge booted
    bridgePid,  \* NEXT_PID of the bridge
    nextPid,    \* nextPid of the kernel
    counter,    \* counter[g]: nextPidCounter in the wasm instance of g
    procs,      \* history: guest processes forked so far
    pid,        \* history: pid[g], the pid its worker was booted with (0: none yet)
    told,       \* history: told[g], what the parent's fork() returned for g
    pipesOf,    \* history: pipesOf[g], the pipes g made or inherited
    pipes,      \* pipes created so far
    table,      \* the kernel's processTable: pid -> [ctl, mem, fds]
    exitCodes,  \* the pids in the kernel's _exitCodes
    pool,       \* _workerPool, used as a stack
    made,       \* workers created so far
    exec,       \* _executionWorkers: pid -> worker
    closure,    \* closure[w]: the pid the page's onmessage handler of w holds
    wk,         \* wk[w]: state of worker w
    k2m, m2k,   \* messages kernel -> page and page -> kernel
    m2w, w2m    \* messages page -> worker w and worker w -> page

ids   == <<bridge, bridgePid, nextPid, counter, procs, pid, told, pipesOf, pipes>>
kern  == <<table, exitCodes>>
page  == <<pool, made, exec, closure>>
chans == <<k2m, m2k, m2w, w2m>>
vars  == <<ids, kern, page, wk, chans>>

Procs == 1 .. MaxProcs
PidNums == 0 .. MaxPid
Pipes == 1 .. MaxPipes
Workers == 1 .. (PoolSize + MaxProcs)
Slots == {"kernel", "guest"} \X Pipes     \* keys of localPipeFds: 100 + .., 200 + ..
Msg(t, g, p, S) == [type |-> t, g |-> g, pid |-> p, pipes |-> S]
ForkRequest(t, g, p, S, q) == [type |-> t, g |-> g, pid |-> p, pipes |-> S, parent |-> q]
Entry(c, m, S) == [ctl |-> c, mem |-> m, fds |-> S]
Over(f, h) == [x \in DOMAIN f \cup DOMAIN h |-> IF x \in DOMAIN f THEN f[x] ELSE h[x]]
Live(w) == wk[w].st # "idle"

\* One type invariant: the maps hold workers, processes and pids within bounds.
TypeOK ==
    /\ bridge \in BOOLEAN /\ bridgePid \in PidNums \ {0} /\ nextPid \in 1 .. (MaxPid + 1)
    /\ counter \in [Procs -> 1 .. MaxPid] /\ procs \in Procs /\ pipes \in 0 .. MaxPipes
    /\ pid \in [Procs -> PidNums] /\ told \in [Procs -> PidNums]
    /\ pipesOf \in [Procs -> SUBSET Pipes]
    /\ DOMAIN table \subseteq PidNums /\ exitCodes \subseteq PidNums \ {0}
    /\ \A p \in DOMAIN table : table[p] \in [ctl : 0 .. MaxProcs, mem : 0 .. MaxProcs, fds : SUBSET Pipes]
    /\ \A i \in 1 .. Len(pool) : pool[i] \in 1 .. made
    /\ made \in Workers /\ closure \in [Workers -> PidNums]
    /\ DOMAIN exec \subseteq PidNums \ {0} /\ \A p \in DOMAIN exec : exec[p] \in 1 .. made
    /\ \A w \in Workers :
          /\ wk[w].st \in {"idle", "boot", "settle", "run"} /\ wk[w].g \in 0 .. MaxProcs
          /\ wk[w].kind \in {"boot", "exec", "full"}
          /\ DOMAIN wk[w].cache \subseteq Slots
          /\ \A k \in DOMAIN wk[w].cache : wk[w].cache[k] \in {0, k[2]}

\* The page has filled the pool, taken a worker for PID 1, registered it and
\* sent it its boot message; the bridge booted or did not.
Init ==
    /\ bridge \in BOOLEAN /\ bridgePid = 2 /\ nextPid = 1
    /\ counter = [g \in Procs |-> 1] /\ procs = 1 /\ pipes = 0
    /\ pid = [g \in Procs |-> IF g = 1 THEN 1 ELSE 0] /\ told = pid
    /\ pipesOf = [g \in Procs |-> {}]
    /\ table = << >> /\ exitCodes = {}
    /\ pool = [i \in 1 .. (PoolSize - 1) |-> i] /\ made = PoolSize
    /\ exec = [p \in {1} |-> PoolSize] /\ closure = [w \in Workers |-> IF w = PoolSize THEN 1 ELSE 0]
    /\ wk = [w \in Workers |-> [st |-> "idle", g |-> 0, kind |-> "boot", cache |-> << >>]]
    /\ k2m = << >> /\ m2k = <<Msg("register", 1, 1, {})>>
    /\ m2w = [w \in Workers |-> IF w = PoolSize THEN <<Msg("boot", 1, 1, {})>> ELSE << >>]
    /\ w2m = [w \in Workers |-> << >>]

-----------------------------------------------------------------------------
(* Guest calls.  Served: the kernel loop serves the trap of the control SAB *)
(* in its table, and only once the process's memory is registered.          *)

Running(w) == Live(w) /\ wk[w].st = "run"
Served(g) == pid[g] \in DOMAIN table /\ table[pid[g]].ctl = g /\ table[pid[g]].mem # 0
ForkPid(g) == counter[g] + 1

\* The part of fork both ways share: the child's entry (a copy of the parent's
\* fd table, nothing registered) and the request to the page, whose pipeFds
\* come from that table.
Fork(w, kind, p) ==
    LET g == wk[w].g
        S == table[pid[g]].fds IN
    /\ Running(w) /\ g \in Forkers /\ kind \in Kinds /\ Served(g)
    /\ procs < MaxProcs /\ ForkPid(g) <= MaxPid
    /\ procs' = procs + 1
    /\ counter' = [counter EXCEPT ![g] = ForkPid(g)]
    /\ told' = [told EXCEPT ![procs + 1] = ForkPid(g)]
    /\ pipesOf' = [pipesOf EXCEPT ![procs + 1] = pipesOf[g]]
    /\ table' = With(table, p, Entry(0, 0, S))
    /\ k2m' = Append(k2m, ForkRequest(kind, procs + 1, p, S, pid[g]))
    /\ UNCHANGED <<bridge, pid, pipes, exitCodes, page, wk, m2k, m2w, w2m>>

\* fork, then execve in the vfork window: Blink's own pid goes to the kernel.
ForkExec(w) ==
    LET p == ForkPid(wk[w].g) IN
    /\ Fork(w, "exec", p)
    /\ nextPid' = IF p >= nextPid THEN p + 1 ELSE nextPid
    /\ UNCHANGED bridgePid

\* fork, then a call that is not safe in the window: the kernel asks the bridge
\* for a pid (0 when the request times out; the bridge may serve it later all
\* the same), or takes its own without a bridge.  Blink drops that answer.
FullFork(w) ==
    \/ /\ bridge /\ bridgePid < MaxPid
       /\ Fork(w, "full", bridgePid)
       /\ bridgePid' = bridgePid + 1 /\ UNCHANGED nextPid
    \/ /\ bridge /\ BridgeSlow /\ bridgePid < MaxPid
       /\ Fork(w, "full", 0)
       /\ bridgePid' \in {bridgePid, bridgePid + 1} /\ UNCHANGED nextPid
    \/ /\ ~bridge /\ nextPid < MaxPid
       /\ Fork(w, "full", nextPid)
       /\ nextPid' = nextPid + 1 /\ UNCHANGED bridgePid

\* _exit in the vfork window: the parent's fork() returns -1, its pid is spent.
VforkExit(w) ==
    LET g == wk[w].g IN
    /\ Running(w) /\ g \in Forkers /\ ForkPid(g) < MaxPid
    /\ counter' = [counter EXCEPT ![g] = ForkPid(g)]
    /\ UNCHANGED <<bridge, bridgePid, nextPid, procs, pid, told, pipesOf, pipes, kern, page, wk, chans>>

\* SYS_PIPE_CREATE and what pipe_create of the worker does with the answer.
PipeCreate(w) ==
    LET g == wk[w].g
        q == pipes + 1 IN
    /\ Running(w) /\ bridge /\ pipes < MaxPipes /\ Served(g)
    /\ pipes' = q
    /\ table' = [table EXCEPT ![pid[g]].fds = @ \cup {q}]
    /\ k2m' = Append(k2m, Msg("pipe", 0, pid[g], {q}))
    /\ wk' = [wk EXCEPT ![w].cache = With(@, <<"guest", q>>, q)]
    /\ pipesOf' = [pipesOf EXCEPT ![g] = @ \cup {q}]
    /\ UNCHANGED <<bridge, bridgePid, nextPid, counter, procs, pid, told, exitCodes, page, m2k, m2w, w2m>>

\* _start or restore_fork returned: the worker posts exit.
GuestExit(w) ==
    /\ Running(w)
    /\ wk' = [wk EXCEPT ![w].st = "idle"]
    /\ w2m' = [w2m EXCEPT ![w] = Append(@, Msg("exit", wk[w].g, pid[wk[w].g], {}))]
    /\ UNCHANGED <<ids, kern, page, k2m, m2k, m2w>>

-----------------------------------------------------------------------------
(* The execution worker's event loop: it takes a message unless wasm runs.  *)

Got(w, types) == wk[w].st # "run" /\ m2w[w] # << >> /\ Head(m2w[w]).type \in types

\* boot, fork-exec or restore-fork, up to the await of WebAssembly.instantiate;
\* the inherited pipes enter the cache under the kernel's fd numbers, with the
\* ring at offset 0 of the bridge's memory.
Start(w) ==
    LET m == Head(m2w[w]) IN
    /\ Got(w, {"boot", "exec", "full"})
    /\ wk' = [wk EXCEPT ![w] = [st |-> "boot", g |-> m.g, kind |-> m.type,
                                cache |-> Over([k \in {"kernel"} \X m.pipes |-> 0], wk[w].cache)]]
    /\ m2w' = [m2w EXCEPT ![w] = Tail(@)]
    /\ UNCHANGED <<ids, kern, page, k2m, m2k, w2m>>

\* The engine is there: memory-ready goes out, a restore-fork waits 100 ms.
Instantiated(w) ==
    /\ wk[w].st = "boot"
    /\ wk' = [wk EXCEPT ![w].st = IF wk[w].kind = "full" THEN "settle" ELSE "run"]
    /\ w2m' = [w2m EXCEPT ![w] = Append(@, Msg("memory", wk[w].g, pid[wk[w].g], {}))]
    /\ UNCHANGED <<ids, kern, page, k2m, m2k, m2w>>

\* Instantiating failed: an error message (the page logs it or drops it) and nothing else.
InstantiateFails(w) ==
    /\ WasmFails /\ wk[w].st = "boot"
    /\ wk' = [wk EXCEPT ![w].st = "idle"]
    /\ UNCHANGED <<ids, kern, page, chans>>

\* The 100 ms are over.
Settled(w) ==
    /\ wk[w].st = "settle"
    /\ wk' = [wk EXCEPT ![w].st = "run"]
    /\ UNCHANGED <<ids, kern, page, chans>>

KeepPipes(cache) == cache                        \* mutant: resetWorkerState only
CacheAfterReset(cache) == << >>

\* reset: the worker forgets the process it ran, its pipes too.
Reset(w) ==
    /\ Got(w, {"reset"})
    /\ wk' = [wk EXCEPT ![w].cache = CacheAfterReset(@)]
    /\ m2w' = [m2w EXCEPT ![w] = Tail(@)]
    /\ w2m' = [w2m EXCEPT ![w] = Append(@, Msg("reset-ack", 0, 0, {}))]
    /\ UNCHANGED <<ids, kern, page, k2m, m2k>>

\* pipe-fd-cache: the pipes the kernel made, with their true rings.
PipeFdCache(w) ==
    /\ Got(w, {"pipe"})
    /\ wk' = [wk EXCEPT ![w].cache = Over([k \in {"kernel"} \X Head(m2w[w]).pipes |-> k[2]], @)]
    /\ m2w' = [m2w EXCEPT ![w] = Tail(@)]
    /\ UNCHANGED <<ids, kern, page, k2m, m2k, w2m>>

-----------------------------------------------------------------------------
(* The page (main thread).                                                  *)

RawPid(m) == m.pid                               \* mutant: no fallback
SpawnPid(m) == IF m.pid # 0 THEN m.pid ELSE m.parent + 1

\* _spawnChildWorker: a pooled worker or a new one, its handler, its entry in
\* _executionWorkers, its registration, its boot message.
Spawn ==
    LET m == Head(k2m)
        p == SpawnPid(m)
        w == IF pool # << >> THEN Last(pool) ELSE made + 1 IN
    /\ k2m # << >> /\ m.type \in {"exec", "full"} /\ p <= MaxPid
    /\ k2m' = Tail(k2m)
    /\ pool' = IF pool # << >> THEN Front(pool) ELSE pool
    /\ made' = IF pool # << >> THEN made ELSE w
    /\ exec' = With(exec, p, w)
    /\ closure' = [closure EXCEPT ![w] = p]
    /\ pid' = [pid EXCEPT ![m.g] = p]
    /\ m2k' = Append(m2k, Msg("register", m.g, p, {}))
    /\ m2w' = [m2w EXCEPT ![w] = Append(@, Msg(m.type, m.g, p, m.pipes))]
    /\ UNCHANGED <<bridge, bridgePid, nextPid, counter, procs, told, pipesOf, pipes, kern, wk, w2m>>

\* pipe-fd-cache is passed on to the worker the pid has now, if any.
RelayPipe ==
    LET m == Head(k2m) IN
    /\ k2m # << >> /\ m.type = "pipe"
    /\ k2m' = Tail(k2m)
    /\ m2w' = IF m.pid \in DOMAIN exec THEN [m2w EXCEPT ![exec[m.pid]] = Append(@, m)] ELSE m2w
    /\ UNCHANGED <<ids, kern, page, wk, m2k, w2m>>

FromWorker(w, t) == w2m[w] # << >> /\ Head(w2m[w]).type = t

\* memory-ready becomes register-memory.
RelayMemory(w) ==
    /\ FromWorker(w, "memory")
    /\ m2k' = Append(m2k, Head(w2m[w]))
    /\ w2m' = [w2m EXCEPT ![w] = Tail(@)]
    /\ UNCHANGED <<ids, kern, page, wk, k2m, m2w>>

PoolTwice(w) == pool \o <<w, w>>                 \* mutant: recycled by two handlers
PoolAfter(w) == Append(pool, w)

\* exit: the kernel is told; the worker of a child is reset and pooled again.
ExitMessage(w) ==
    LET m == Head(w2m[w]) IN
    /\ FromWorker(w, "exit")
    /\ w2m' = [w2m EXCEPT ![w] = Tail(@)]
    /\ m2k' = Append(m2k, m)
    /\ exec' = Without(exec, closure[w])
    /\ IF closure[w] = 1
          THEN UNCHANGED <<pool, m2w>>
          ELSE /\ m2w' = [m2w EXCEPT ![w] = Append(@, Msg("reset", 0, 0, {}))]
               /\ pool' = PoolAfter(w)
    /\ UNCHANGED <<ids, kern, made, closure, wk, k2m>>

\* reset-ack: nothing to do.
ResetAck(w) ==
    /\ FromWorker(w, "reset-ack")
    /\ w2m' = [w2m EXCEPT ![w] = Tail(@)]
    /\ UNCHANGED <<ids, kern, page, wk, k2m, m2k, m2w>>

-----------------------------------------------------------------------------
(* The kernel worker's message handler.                                     *)

ToKernel(t) == m2k # << >> /\ Head(m2k).type = t

\* What register-worker keeps of an entry that fork made.
NoExisting(p) == Entry(0, 0, {})                 \* mutant: the entry is made afresh
Existing(p) == IF p \in DOMAIN table THEN table[p] ELSE Entry(0, 0, {})

Register ==
    LET m == Head(m2k) IN
    /\ ToKernel("register")
    /\ m2k' = Tail(m2k)
    /\ nextPid' = IF m.pid >= nextPid THEN m.pid + 1 ELSE nextPid
    /\ table' = With(table, m.pid, [Existing(m.pid) EXCEPT !.ctl = m.g])
    /\ UNCHANGED <<bridge, bridgePid, counter, procs, pid, told, pipesOf, pipes, exitCodes, page, wk, k2m, m2w, w2m>>

RegisterMemory ==
    LET m == Head(m2k) IN
    /\ ToKernel("memory")
    /\ m2k' = Tail(m2k)
    /\ table' = IF m.pid \in DOMAIN table THEN [table EXCEPT ![m.pid].mem = m.g] ELSE table
    /\ UNCHANGED <<ids, exitCodes, page, wk, k2m, m2w, w2m>>

KeepEntry(p) == table                            \* mutant: the entry outlives its process
AfterExit(p) == Without(table, p)

WorkerExit ==
    LET m == Head(m2k) IN
    /\ ToKernel("exit")
    /\ m2k' = Tail(m2k)
    /\ table' = AfterExit(m.pid)
    /\ exitCodes' = exitCodes \cup {m.pid}
    /\ UNCHANGED <<ids, page, wk, k2m, m2w, w2m>>

GuestStep(w) == ForkExec(w) \/ FullFork(w) \/ VforkExit(w) \/ PipeCreate(w) \/ GuestExit(w)
WorkerStep(w) == Start(w) \/ Instantiated(w) \/ InstantiateFails(w) \/ Settled(w) \/ Reset(w) \/ PipeFdCache(w)
PageStep == Spawn \/ RelayPipe \/ \E w \in Workers : RelayMemory(w) \/ ExitMessage(w) \/ ResetAck(w)
KernelStep == Register \/ RegisterMemory \/ WorkerExit
Next == (\E w \in Workers : GuestStep(w) \/ WorkerStep(w)) \/ PageStep \/ KernelStep

Spec == Init /\ [][Next]_vars

\* Event loops run their tasks, instantiating ends, timers fire, and the guest
\* programs are ones that end.
FairSpec ==
    /\ Spec /\ WF_vars(Spawn \/ RelayPipe) /\ WF_vars(KernelStep)
    /\ \A w \in Workers :
          /\ WF_vars(RelayMemory(w) \/ ExitMessage(w) \/ ResetAck(w))
          /\ WF_vars(Start(w) \/ Reset(w) \/ PipeFdCache(w))
          /\ WF_vars(Instantiated(w)) /\ WF_vars(Settled(w)) /\ WF_vars(GuestExit(w))

-----------------------------------------------------------------------------
(* Properties.                                                              *)

\* A pooled worker is in the pool once, runs nothing and is nobody's worker: the
\* next _spawnChildWorker can never boot a process into a worker that has one.
PoolIsIdle ==
    /\ \A i, j \in 1 .. Len(pool) : i # j => pool[i] # pool[j]
    /\ \A i \in 1 .. Len(pool) :
          /\ ~Live(pool[i])
          /\ \A p \in DOMAIN exec : exec[p] # pool[i]
          /\ \A k \in 1 .. Len(m2w[pool[i]]) : m2w[pool[i]][k].type \in {"reset", "pipe"}

\* A process that runs finds only its own pipes in its worker's cache: a reset,
\* posted before the worker is pooled, clears what an earlier process left, even
\* when a pipe-fd-cache message for that one was still under way.
CacheIsOwn ==
    \A w \in Workers : Live(w) => \A k \in DOMAIN wk[w].cache : k[2] \in pipesOf[wk[w].g]

MemorySent(g, q) == \E i \in 1 .. Len(q) : q[i].type = "memory" /\ q[i].g = g

\* A process that runs has its processTable entry, its own control SAB, its own memory
\* and the pipes it inherited or made, from when its memory-ready message has reached
\* the kernel until it ends: otherwise its traps are never served, or are served in
\* another's memory.
LiveKeepsEntry ==
    \A w \in Workers :
        LET g == wk[w].g IN
        wk[w].st \in {"settle", "run"} /\ ~MemorySent(g, w2m[w]) /\ ~MemorySent(g, m2k)
        => Served(g) /\ table[pid[g]].mem = g /\ pipesOf[g] \subseteq table[pid[g]].fds

\* Two processes that run at the same time have different pids, whoever forked them and
\* whichever of the three allocators their pids come from: table, exit codes and page
\* maps are all keyed by pid.
PidsUnique ==
    \A v, w \in Workers : Live(v) /\ Live(w) /\ v # w => pid[wk[v].g] # pid[wk[w].g]

\* Every forked process in the end has its exit code recorded under the pid that fork()
\* returned to the parent, for its wait to find, and nothing of it is left in the
\* kernel's table or the page's maps.
ForkedIsReaped ==
    \A g \in Procs \ {1} :
        (procs >= g) ~> /\ told[g] \in exitCodes /\ pid[g] \notin DOMAIN table
                        /\ pid[g] \notin DOMAIN exec /\ \A w \in Workers : Live(w) => wk[w].g # g

\* The tables and queues are well formed, and pooled workers are idle.
PoolSound == TypeOK /\ PoolIsIdle
=============================================================================
