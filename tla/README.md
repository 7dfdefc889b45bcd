# A TLA+ model of atua-computer

atua-computer runs x86-64 Linux programs in a browser tab. Each guest process is
an instance of Blink (an x86-64 emulator compiled to wasm) in a Web Worker of its
own. One *kernel worker* keeps the files, the descriptor tables and the process
table; a Rust *bridge* (wasm, under Wasmer) hands out pipes and pids; the *page*
(main thread) creates the workers and relays messages. Shared state lives in
SharedArrayBuffers (SABs) accessed with `Atomics`, everything else goes over
`postMessage`. This directory models those protocols and the parts of Blink that a
guest's correctness rests on most (its memory, its integer and string
instructions, its signals), checks them with TLC and proves the protocols correct
with TLAPS.

Paths below are relative to the repository: `execution-worker.js`,
`kernel-worker.js`, `atua-computer.js` and `filesystem.js` are in `src/browser/`,
the bridge is `wasix-bridge/src/`, Blink is `native/blink/blink/`.
`PROJECT.json` maps every definition to its lines, and lists components, runs,
mutants, findings, hazards and theorems.

## 1. Inventory

### Components, their state and their operations

| Component | State | Operations | Module |
|---|---|---|---|
| Pipe ring (`execution-worker.js` localPipe*, `pipe.rs`) | `write_pos`, `read_pos`, `write_closed`, the ring bytes | read, readv, write, writev by two workers; create and close by the bridge | `PipeRing`, `BytePipe` |
| Bridge request ring (`callBridge`, `main.rs`) | write and read position, 32 slots with a status and a payload | the kernel claims, fills, posts, waits; the bridge polls, executes, responds, advances | `BridgeRing` |
| Syscall trap (`trapToKernel`, `kernelLoop`) | a control SAB per process, `_exitCodes`, `_pendingWaits` | trap, scan, yield, handle, wait, worker-exit | `SyscallTrap` |
| Descriptor tables (`kernel-worker.js`, `pipe.rs`) | `fdTable` and `nextFd` per process, `openFiles`, closed flags | open, close, dup, dup2, dup3, fcntl, pipe, fork, fork+exec, exit | `FdTable` |
| File system (`filesystem.js`) | files, dirs, symlinks, whiteouts, the readdir index, open files | open, read, write, seek, truncate, mkdir, unlink, rmdir, rename, link, symlink | `VirtualFS` |
| Process lifecycle (`atua-computer.js`, `kernel-worker.js`, `execution-worker.js`, `syscall.c`) | `processTable`, `_workerPool`, `_executionWorkers`, three pid counters, the pipe cache of each worker, the message queues | fork, fork+exec, spawn, register, boot, exit, recycle | `Lifecycle` |
| Terminal input ring (`writeStdin`, `term_read`) | positions, a count, 4096 bytes | the page stores, advances, counts, notifies; PID 1 waits, copies, counts down | `StdinRing` |
| Overlay persistence (OPFS) | blobs and a metadata file | flush, restore | planned |
| Guest memory (`memorymalloc.c`, `memory.c`, `instruction.c`, `map.c`, memory calls of `syscall.c`) | page pool, `g_hostpages`, free list, page tables, `filemaps`, counters; per machine the translation buffer and the page of code | mmap, munmap, mprotect, brk, load, store, fetch, page fault | `GuestMemory`, `FlatMemory` |
| Integer and string instructions (`alu.c`, `flags.*`, `bcd.c`, `bmi2.c`, `bit.c`, `divmul.c`, `clmul.c`, `string.c`) | registers and the flags word | every operation as a function | `Alu`, `DivMul`, `RepString`, `Cpu` |
| Vector instructions (`mmx.c`, `sse2.c`, `sse.c`, `ssemov.c`) | XMM registers, whose low halves are the MMX registers, general registers, memory | every integer operation and move as a function | `SseLanes`, `SseMoves`, `Vectors` |
| Signals (`signal.c`, signal calls of `syscall.c`, `Actor`) | `signals`, `sigmask`, `attention`, `restored`, `interrupted`, `hands`, the frames on the guest's stacks | tkill, sigaction, sigprocmask, sigsuspend, ppoll, pause, kill, rt_sigreturn, delivery | `Signals` |
| Host side of memory growth | the buffer a process has and the one the kernel knows | memory-ready | planned |
| Network (`wisp-client.js`) | streams, credit, socket SABs | connect, data, close | planned, last |
| The rest of Blink (decoder, loader, x87 and floating point, `blinkenlights`, its own vfs), libz, tar reader, legacy engine workers, demo pages | – | – | not modelled |

### How they interact

* Worker → kernel: the control SAB (request words, flag 1, `Atomics.wait`); the
  kernel polls all of them, yields for 1 ms, handles, clears the flag, notifies.
* Kernel → bridge: the request ring; the kernel blocks for at most 5 s a call.
* Page → PID 1: the terminal input ring, which no other process is given.
* Worker ↔ worker: pipe rings in the bridge's memory, without the kernel.
* Kernel → page → worker: fork-request, pipe-fd-cache; page → kernel:
  register-worker, register-memory, worker-exit. Each channel is FIFO; nothing
  orders one with another.
* Guest instruction → guest memory: every load, store and fetch goes through the
  translation buffer or the page tables; a system call drops both first.
* Signals → interpreter: a delivered signal changes the registers the next
  instruction runs with; a call that waits runs an interpreter loop inside itself.
* Kernel → file system: calls in the same thread; a process's descriptor names an
  open file by its vfs number.

### What is hard

* Unsynchronised loads and stores of two workers on a ring, and sleeping on a
  value that was loaded earlier (`PipeRing`); a count that one side changes atomically
  and the other with a load and a store (`StdinRing`).
* A timeout racing a late answer in a slot that will be used again (`BridgeRing`).
* A kernel loop that yields in the middle of a trap, and answers that are given
  later by a message handler (`SyscallTrap`).
* Sharing: entries copied by dup and fork that name one open file, arrays replaced
  under other descriptors (`FdTable`, `VirtualFS`).
* Three pid allocators, and workers that are recycled while messages for the
  process they ran are still queued (`Lifecycle`).

* Caches over caches: a page table lives in a pool that moves, entries are kept in
  a translation buffer, the code page as a pointer, and frames are used again
  (`GuestMemory`).
* Carries and borrows at every width and count, flags kept in one word together
  with the value parity is computed from, words paired because the build has no
  128-bit integers (`Alu`, `DivMul`), copies cut at page borders (`RepString`).
* Handlers that nest, on two stacks and inside calls that exchange the mask for
  their duration (`Signals`).

The hazards, each at its line with the properties that would catch it, are in
`PROJECT.json`; the ones no property covers yet say why.

### What makes each part correct

* Pipe: bytes arrive once, in order, none invented; EOF only after a close and
  after the last byte; no lost wake-up.
* Bridge ring: a call gets its own answer or a timeout; a request runs at most
  once and in order; a call returns; a slot nobody uses is free.
* Terminal input: typed bytes are read in order, each once, and none is slept through.
* Trap: a process gets the answer to its own request, handled once; a wait lasts
  until a child exits; an exit is kept until it is fetched; every other call returns.
* Descriptors: a number never silently becomes another file; a shared file lives
  until its last descriptor is closed; a pipe ends with its last writer.
* Files: an append goes to the end of the file; a created file can be found; the
  index lists exactly what exists; a path with links means what a walk finds.
* Guest memory: it is a flat array of pages; counters, free list and file maps agree
  with the tables; what is cached is what the tables say.
* Instructions: sequences of them (add and adc, cmp and a condition, shifts of two
  words, mul and div, daa after add, pushf and popf, rep) compute what they stand for.
* Signals: a context is resumed with its registers and mask; no signal is stranded.
* Lifecycle: a pooled worker has no process; a live process keeps its table entry
  and its pipes; pids are unique; a forked process is reaped.

## 2. The modules and the code

`BytePipe` is the abstract pipe: a queue of bytes, `Put`, `Take`, `Close`.

`PipeRing` is the ring: every `Atomics` call of `localPipeRead` and
`localPipeWrite` is a step, with the loop's local variables (`rwp`, `rrp` are the
loads of the reader). The vectored calls run the same loops over the buffers they
are given; a readv stops at the first short buffer, as in the code. The k-th byte
is the number k, so that losses and reorderings show. The writer closes its own end
once (`CloseWriteEnd`); with `Copies` the end has been duplicated by dup or fork, and
the close of a copy stores the flag at any point of the writer's calls, which go on
(`CloseCopy`). `Implements` is the refinement of `BytePipe` (`buf` is the ring's
content, `taken` what was read, and it is closed when its writer is gone, not when the
flag is stored).

`BridgeRing` has the program counter of `callBridge` (`kpc`) and of the bridge's
loop (`bpc`), and each status and position word. A kernel that sleeps is woken by
its timeout only, because the bridge's store executes no notify.

`StdinRing` has the loop of `writeStdin` (`ppc`) and `term_read` (`tpc`). `lost`
counts the additions that the reader's `flag[2] = flag[2] - 1` took back, `overrun`
marks that an unread byte was written over: the properties are about what remains
true with both.

`SyscallTrap` has one control block per process. `SeeTrap` and `HandleTrap` are
split by the loop's `setTimeout`, where `WorkerExit` may come in. Except for
proc_wait, a call is just "answered". `HandleTrap` clears the flag whatever the handler
did, as the loop does, also of a wait that was only stored.

`FdTable` has the tables, the open files they name and the closed flags of the
pipes, set the way `pipe::close` computes them: from the *number* of the closed
descriptor. An entry carries the `open()` it stems from, as a history. SYS_FS_CLOSE takes
any number, standard, stale and foreign ones too. No constant keeps the
number sequences apart: an open lands on whatever the vfs's counter says, and the
counters of dup and of the vfs go on through the pipe numbers. `Maps` has JavaScript's
`Map.set` and `Map.delete`, for this module and for `VirtualFS`, `Lifecycle` and `Signals`.

`VirtualFS` keeps arrays as objects on a heap: files and open files refer to them,
a write inside an array is seen by all who hold it, a write past its end makes a
new array for one descriptor and one path. Paths are sequences of names. Beside the
code's `resolvePath`, which replaces prefixes and starts over, stands `WalkPath`, the
meaning of a path: one name after the other from the root, with a link's target put in
its place.

`Lifecycle` has the queues `k2m`, `m2k`, `m2w`, `w2m`, and one action for each
message handler and each guest call that matters to it. A trap is one step here
(`SyscallTrap` splits it), and of a descriptor table only the pipes are kept
(`FdTable` has the rest).

`FlatMemory` is the abstract memory: an array of pages with a value and a
protection; a call changes its interval, an access sees the last store.

`GuestMemory` is what Blink does for it: `sys` has the page pool (`ram`, `next`,
`cap`, `moved`), `hostpages`, the free list, the root table, the counters and file
maps of `struct System`; `m` the translation buffer, the two invalidation flags and
the pointer to the page of code. Tables have `PerTable` entries in two levels
instead of 512 in four, and a page is one word. `ptr` and `moved` stand for raw
addresses: an address taken before the pool moved leads to memory that is gone.
Nothing there is nondeterministic but the guest. `ImplementsFlatMemory` is the
refinement: a page's value is read through its entry, whether or not it has a frame.

`Alu`, `DivMul` and `RepString` are functions: an operation takes the width, the
flags and the operands, or a small machine with its registers. `Alu` has the three
shapes the code has for shifts (8 and 16 bits, and the wider ones) and the flags
word with the byte parity is computed from; `DivMul` the arithmetic on pairs of
words and the narrow forms; `RepString` the plain loops and the enhanced ones
(`rep movsb`, `rep stosb`) that work in chunks. `Cpu` picks operands and relates
sequences of instructions to arithmetic on numbers.

`SseLanes` has the vector operations that compute, under their names in the code: a
register is a function from positions to bytes, and a few operators on lanes (`OnU`,
`OnS`, `SatU`, `SatS`, `Across`, `Pack`) carry the loops that the code writes out in each of
them. `SseMoves` has what moves bytes: unpacking store by store, because the code does
it in place; the loads, stores and moves over a state of registers and memory; and
the choice of the instruction by opcode and prefixes. `Vectors` extends `Cpu` by
vector operands and compares: the form for 8 bytes with the one for 16, a result with
the same result by other instructions in wider lanes (`LanesAgree`), a value stored
and loaded with itself, a move between registers with the one through memory
(`MovesAgree`).

`Signals` has a record `g` with the fields of `struct Machine` and the two loops:
`Actor`, and one `SignalActor` for each C function that waits for a handler
(`calls`). A frame is where the stack pointer was; `ctx` is a history of the guest's
contexts with the mask each set itself. The guest may do anything anywhere; `orderly` is
a history that turns false when a handler starts where the code loses a context
(`Delicate`, or a wait at `MaxSigDepth`), and never true again.

`MCRings` puts `SyscallTrap`, `BridgeRing` and `StdinRing` side by side, `MCFiles`
`FdTable`, `VirtualFS` and `PipeRing`, `MCGuest` `GuestMemory` and `Signals`. They
compose nothing: the components of one module share no variable, and each of them moves
while the others are in their initial states, so that a run has the behaviours of each.
`MCSyscallTrap`, `MCFiles`, `MCGuestMemory`, `MCCpu` and `MCSignals` also define
instances whose constants a `.cfg` cannot write; the other runs use the component module
itself. An operator marked *mutant* is a plausible wrong version of the next definition;
it is used only to show that a property can fail.

## 3. Runs

### Passing

| Run | Shows | Instance, distinct states |
|---|---|---|
| `rings` | Trap: own answer (`TrapAnswerOwn`), handled once, no exit lost (`ExitsKept`), every trap of a call whose answer is due at once returns. Bridge: the inductive invariant of the proofs (with it: at most once, an answer means execution, a response lies in an unused slot only if its call timed out), own answer, in order (`DispatchInOrder`), a posted call returns. Terminal: what is read is what was typed (`InputSound`), and all of it is, except as many bytes as the count lost (`AllButLostRead`) | 3 processes, of which one traps twice, one once and one only exits; 3 slots, 7 calls; 3 slots, 5 bytes, reads of 1 and 3; 77,000 |
| `files` | Pipe: the inductive invariant of the proofs (`PipeInv`), bytes in order (`InOrder`), the EOF of a read begun after its writer closed is final (`LateEofIsFinal`), refinement of `BytePipe` (`Implements`); the notify alone delivers every byte (`AllDelivered`), the timeout shows the close (`EofSeen`). Descriptors: no number becomes another file; types, and below the pipe numbers dup is fresh (`NumbersSound`). Files: a path means what the walk finds, also where resolution gives up (`PathsSound`), an attached writer writes its file, sharing needs a descriptor that lost its file (`BuffersSound`) | 3 slots, 5 bytes, requests of 1 and 3, closes of copies at any time; 2 processes, 2 opens, 2 pipes, 4 calls; 3 paths, 2 open files, 4 calls, 2 links followed; 290,000 |
| `lifecycle` | the pool holds idle workers only, under nested and mixed forks, bridge timeouts and failing instantiation | 3 processes, pool of 1; 1.7 million |
| `lifecycle_exec` | programs started by PID 1 keep entry, memory and inherited pipes, find no earlier process's pipes in their worker, and are reaped under the pid their parent was told | 3 processes, 1 pipe; 76,000 |
| `guest` | Memory: a flat memory; books and tables agree and no frame has two uses (`BooksExact`); translations and the page of code are current (`CachesCoherent`). Signals: contexts and masks are kept while handlers nest in order (`ContextKept`), attention is kept while a signal can be delivered, a return restores all registers, a signal that can be taken is | 4 pages in 2 tables, 5 accesses or calls; 3 signals, 5 calls; 194,000 |
| `cpu` | conditions decide the comparison they are named for, carries chain words, shifts and rotations compose, flags survive a save, decimal adjustments, double words, strings; vector instructions agree with their other forms (`LanesAgree`) and move each byte where it belongs (`MovesAgree`) | all pairs of bytes with both carries, strings of up to 6 elements over pages of 3; 133,000 |

### Violations: where the code and what it says disagree

| Run | The code | Quoted statement |
|---|---|---|
| `pipe_eof` | a read begun before the close may report EOF with bytes in the ring, because the positions are loaded before the flag | "write end closed = EOF" (`execution-worker.js:101`) |
| `trap_wait` | a proc_wait for a child that runs returns at once with what the return word held: the loop clears the flag of every handled trap (`kernel-worker.js:1478`) | "leave parent blocked until child exits" (`kernel-worker.js:1350`) |
| `fd_copies` | close of one copy of a descriptor closes the open file under the others (`kernel-worker.js:354`) | "how many fds point to this description" (`atua-kernel-architecture.md:199`) |
| `lifecycle_pids` | the first child of a child has the pid of its parent, since each wasm instance counts from the same number (`syscall.c:794`) | "Keep nextPid above all registered PIDs" (`kernel-worker.js:1539`) |
| `guest_memory_grow` | a page fault that makes the page pool grow stores the new entry into the pool that was freed | "an anonymous page is being accessed for the first time" (`memory.c:94`) |
| `signals_nested` | a handler that sigsuspend runs is interrupted by another: the return of the inner one ends the wait (`syscall.c:542`), and the rest of the outer one runs with the mask of the interrupted program | "run the signal handler code inside the i/o routine" (`syscall.c:542`) |

The passing properties say what remains true next to these and to the deviations
below: `LateEofIsFinal` holds where `EofAfterAllBytes` does not, `TrapAnswerOwn` is
about processes that never wait and `TrapReturns` about calls that do not,
`NeverAnotherFile` lets a descriptor lose its file but not find another's,
`WriterStaysAttached` is about descriptors that still have their file, the entry,
cache and reaping properties of `lifecycle_exec` about a guest where only PID 1 forks, `guest` about
page pools that are large enough, and `ContextKept` about the time until a handler
starts in a delicate place.

### Deviations the models contain and no run is about

Protocols:

* A stored proc_wait that a late exit completes clears a trap that was not handled
  (`kernel-worker.js:1608`), where `:10` says "kernel resets to 0 after handling": the
  second half of what `trap_wait` shows.
* dup takes `proc.nextFd`, open the vfs's number, a pipe two numbers from 100 on, and
  nothing keeps these sequences apart. An open replaces what dup has put at its number
  (the entry it replaces is lost, its file stays open), and both counters go on through
  the numbers of the pipes, where an entry of either is replaced by a new pipe. `FdTable`
  has all of this; `NumbersSound` is what holds in spite of it.
* `resolvePath` gives up after `MaxLink` + 1 (41) links and returns the path it has
  (`filesystem.js:126`), which still leads through a link; its caller takes that path
  for the file. `PathsSound` says when this happens and that it happens only then.
* An append through a second descriptor can replace a longer file
  (`filesystem.js:379`), where `:369` says "always write at end".
* The bridge's response wakes nobody (`main.rs:100`; its comment says that it
  does): in `BridgeRing` a kernel that sleeps wakes by its timeout.
* A call that times out before the bridge took it leaves the bridge waiting at
  that slot; a response after a timeout leaves a slot at 2 that the call one round
  later waits for without end (`kernel-worker.js:72`).
* An addition to the count of terminal input between the reader's load and store is
  lost (`execution-worker.js:277`): a byte stays unread until more is typed, and from
  then on the guest is that far behind. The page never looks at the read position
  (`atua-computer.js:258`): a paste of more than 4096 bytes overwrites unread ones.
  A read that waits 30 s returns 0, which a guest takes for the end of the input.
* The first close of a write end, by any process that has a copy, is EOF for a reader
  that finds the ring empty, while the other copies go on writing; the rings refine a
  pipe that is closed by its writer (`PipeRing`). Two processes that write through
  copies at the same time overwrite each other's bytes: not modelled, one writer at a time.
* close-on-exec is never read; SYS_PIPE_CLOSE takes a pipe id for a descriptor (`FdTable`).
* rename and rmdir do not look below a directory, and rename accepts a missing
  source: the readdir index then lists names that do not exist (`VirtualFS`).
* A bridge timeout gives a child the pid 0, for which the page takes the parent's pid + 1
  (`atua-computer.js:271`), which may be in use (`Lifecycle`; `PidsUnique` is about it, too,
  but its counterexample is that of the counters).
* In a full fork the parent is told Blink's pid, the child has the bridge's; the
  inherited pipes are cached under numbers that are never looked up (`Lifecycle`).

Guest memory:

* munmap skips a whole table when its interval starts inside one that is missing,
  and leaves the pages behind it mapped (`memorymalloc.c:878`); IsFullyUnmapped and
  FindVirtual skip the same way.
* When the pool grows, the pointer to the page of code stays in the old pool until
  the translation buffer is reset; so does every address taken before.
* An access that spans two pages is looked up one after the other: the second fault may
  move the first (`memory.c`, not modelled: an access is one page).
* `BeginStore` and `CopyToUser` look at the user bit only, so that a call can write
  to a page the guest may only read.
* brk over an existing mapping replaces it; mprotect with PROT_WRITE alone gives a
  page that cannot be read, mmap one that can; pages of a mapped file that munmap
  removes stay taken in the pool.

Instructions:

* INC never sets AF, NEG sets it for every operand but 0, DAA leaves ZF, SF and PF.
* `rep movsb` with equal source and destination returns without changing cx, di and
  si (`string.c:213`); `RepString` has it, and `StringsMatch` leaves the case out.
* F3 0F BD runs bsr, BT with LOCK keeps the bus lock, `OpLeave` in legacy modes has
  its operands exchanged, `PushN` moves sp before the store can fault, and
  `ExportFlags` sets bit 3 where bit 1 is always set: read, not modelled.
* The 8-byte form of PSADBW leaves the sum of each half of its operands in a 32-bit lane
  (`sse.c:363`), where the instruction leaves one sum in the low word; the 16-byte form
  is right. `MmxPsadbw` is the code's, and `FormsAgree`, which compares the two
  forms of an operation, leaves this one out.
* The 32-bit one-operand imul writes a sign-extended edx (`divmul.c:341`).

Signals:

* A second handler on the alternate stack overwrites the frame of the first
  (`signal.c:132`).
* A handler that a sigprocmask runs after another starts with attention still set, so a
  sigsuspend as its first instruction ends early: the next handler starts inside the
  one it waits for, and the return of the inner ends the wait. It takes three signals
  and seven calls.
* At `MaxSigDepth` the frame is pushed and the call returns at once, before its handler
  has run; a sigsuspend there puts the caller's mask into the handler.
* Each of these three sets `orderly` to false, as does the nesting of `signals_nested`;
  they are steps of the model like any other.
* An ignored signal stops the loop of sigprocmask with others pending; they wait for
  the next instruction that sets attention. `skipped` marks this.
* SA_RESETHAND is accepted and not applied; kill of any pid ends the caller
  (`kernel-worker.js:782`); sigsuspend with nothing pending returns at once.

### Bounds

* Rings: 3 slots wrap several times with 5 bytes or 7 calls; with one slot
  kept empty, 3 is the smallest ring that can hold two bytes. The theorems cover
  every size. With 3 slots and 5 typed bytes
  the page can run a round ahead; 2 waits of 30 let a read give up.
  `MaxStall + 2 <= RingSlots` says that the kernel does not time out
  once for nearly every slot while the bridge is inside one request: with 32 slots
  and 5 s per timeout that is a request of two and a half minutes.
* `SyscallTrap`: the first process traps twice and another once, which may exit, and one
  only exits: a late completion needs a waiter that traps again and an exit.
* `FdTable`: `PipeBase` is 6 and not 100, so that two opens bring the vfs's counter
  to the first pipe number, a dup target lies where the first open lands, and dups pass
  through the numbers of the pipes; four calls suffice for open, dup or fork, close and an
  open or pipe that follows. `SlotsBelow` stands for the memory below the first ring.
* `VirtualFS`: a name, a second name and a path below the second one; files of at most 2
  bytes. `MaxLink` is 1 and not 40: `resolvePath` follows two links and gives up
  at a third, which links that lead to each other or to themselves bring about. The walk takes enough steps (`WalkSteps`) to follow one link more. `MaxDepth` bounds the
  components of a path: `Symlink` takes targets of one component, so that no resolved
  path is deeper than the one given. `Bufs` has one array more than the files and open
  files can refer to.
* `GuestMemory`: two tables of two pages let a table become empty, be freed and its
  frame be used as a page; `TlbSize` 1 makes every second page evict the first; a
  `Chunk` of 3 empties the free list within a behaviour; 5 steps suffice for map,
  touch, unmap, map again and look. `MaxRss` and `MaxVss` are low enough for a call
  to fail. `Ranges` start at a table or stay in one (see the deviation of munmap), and
  `PoolSize` 12 is never outgrown; `guest_memory_grow` has a small pool.
* `Cpu`: the operations are defined for every width; with 8 bits all operands are
  covered, and the halves of a double word are bytes. `PageSize` 3 and `LowSize` 5
  put borders of both kinds inside strings of up to 6 elements.
* `Vectors`: bytes of `W` = 3 bits, so lanes of 3, 6, 12 and 24 bits, because TLC's
  integers end at 32 bits; the operations are written for every width and only their
  names say 8 to 64. The words of the operands take all pairs of 6-bit values.
  Moves are on bytes as they are. Counts go to 40, beyond every lane and register.
* `Signals`: three signals, one with a handler on the alternate stack, one that masks
  another, one ignored by default; five calls suffice to block, raise twice, unblock
  and nest, also in the delicate places. `MaxSigDepth` 8 as in the code is not reached;
  the theorems hold for every depth and number of calls. `signals_nested` has handlers
  on the main stack only, so that nothing but the nesting of waits can go wrong.
* `Lifecycle`: 3 processes give nested forks, siblings and a recycled worker; a
  pool of 1 makes both the pooled and the fresh worker happen. In `lifecycle`
  `MaxPid` 4 leaves room for a pid that a bridge timeout skips. `lifecycle_exec`
  has forks of PID 1 only and no failing instantiation: nested forks reuse pids
  (`lifecycle_pids` has them), and a process that never starts posts no exit.

`CHECK_DEADLOCK FALSE` is set because bounded guests stop: a behaviour ends when
the calls, bytes or processes of the bound are used up.

### Fairness

* Threads run: weak fairness of the reader, writer, kernel and bridge steps that
  are not blocked. Workers are OS threads.
* `Atomics.wait` with a timeout returns: weak fairness of `TimedOut` in `BridgeRing`.
  `PipeFairness` of `PipeRing` leaves the timer out, so that `AllDelivered` shows that
  the notify alone delivers; `EofSeen` has it as its premise (`TimerFires`).
* In `rings`, `files` and `guest` the fairness conditions are those of their components.
  Most of these actions cannot be taken in the initial state of their component, so that
  the conditions ask nothing of the behaviours in which another one moves. A read can
  be: behaviours of `files` that are fair to the reader are those of the pipe, and
  liveness is stated of nothing else there.
* The kernel loop visits all processes in turn, so a trap is seen even when others
  trap again and again: strong fairness of `SeeTrap` for each process.
* Event loops run queued tasks: weak fairness of each message handler. In
  `Lifecycle` instantiating and timers end, and the guests are programs that end
  (`GuestExit`).
* A thread that can run an instruction does, and handlers return: weak fairness of
  `Sigreturn`, `Compute` and `Actor` in `Signals`.
* The terminal's reader reads again once something was typed; its timer is not assumed
  to fire, so that `AllButLostRead` shows that the notify alone wakes it.
* A pipe reader keeps reading (`ReadsOn`): EOF is promised to one that asks.

## 4. Proofs

`DescriptorProofs` proves about `PipeRing`, for every capacity of at least 2
(`CapAssumption`), every set of positive request sizes (`CountsAssumption`) and
every `MaxBytes` (a natural number):

* `TypeCorrect`: `PipeSpec => []PipeTypeOK`;
* `PipeInductive`: `PipeSpec => []PipeInv`, and from it `OrderCorrect` (`InOrder`),
  `NothingLost` (`Conserved`), `EofNeedsClose` (`EofOnlyAfterClose`);
* `LateEofCorrect`: the action property `LateEofIsFinal`;
* `Refinement`: `PipeSpec => Implements`, the ring implements the abstract pipe.

`InOrder` and `Conserved` are not inductive: a reader acts on positions it loaded some
steps ago. `PipeInv` adds what each program point still knows: `ReaderKnows` (a loaded
`read_pos` is current, since only the reader moves it; the loaded `write_pos` is at or
behind the real one, and a slot judged non-empty stays so until the reader stores),
`WriterKnows` (its own position is current; a slot judged free stays free, as the reader
only frees more) and `CloseKnows` (closing its own end is the writer's last step; a copy
may be closed at any time). With these, only `Put`, `Publish` and `Store` touch the
ring's content, and each has a lemma. The arithmetic of wrap-around is in `Next1Cases`:
`Next1(i)` is `i + 1` or, at the end, 0.

The refinement maps `Publish` to `Put`, `Store` to `Take`, `CloseWriteEnd` to
`Close` and every other step to a stutter.

The run `files` checks `PipeInv` itself, of which type correctness, `Conserved` and
`EofOnlyAfterClose` are conjuncts.

`RingProofs` proves about `BridgeRing`, for every number of slots and of
calls, as long as the kernel does not time out once for nearly every slot inside
one request (`StallAssumption`, see Bounds; without it a response can land in a
slot a round later):

* `Inductive`: `Spec => []IInv`, and from it `OwnAnswerCorrect`,
  `ExecutionsCorrect` (at most once; an answer was computed once) and
  `LeftoverCorrect` (what a late response leaves behind);
* `DispatchInOrderCorrect`: the action property `DispatchInOrder`.

Nothing in the ring ties a response to a request: a slot holds a status and bytes,
and both sides find it from their own position. `IInv` supplies the link.
`CallKnows` says what lies in the slot of the call that waits, and that no other
slot says "request". `ServiceKnows` says which request the bridge is serving, that
its slot is the one of that request, and that the kernel has left at most
`stall + 1` calls since, so that it is less than a round ahead. `SameSlot` (two
positions less than a round apart that share a slot are equal) then gives `Apart`:
a later call never works in the slot the bridge writes to. One lemma per action
preserves `IInv`.

`RingProofs` proves about `StdinRing`, too, for every size of the ring, number of
bytes and of waits, `InputCorrect`: `StdinSpec => []InputSound`. `CountKnows` is the heart
of it: the bytes between the positions are those the count knows, those it lost and
the one being added, so that a positive count always means a byte that was stored;
`RingHolds` says where it lies, `ReaderKnows` what the reader may still rely on after
it looked at the count.

`SyscallTrapProofs` proves about `SyscallTrap`, for every set of processes and any
number of traps, `TrapAnswerOwnCorrect`, `HandledOnceCorrect` and `ExitsKeptCorrect`.
`Phase` follows a request of a process that never waited: with its worker (flag 0,
not handled), raised (flag 1, not handled), or answered (flag 0, handled once, its
answer in the return word). What makes it hold is `WaitersWaited`: an exit writes
only to processes stored as waiters, and only a proc_wait stores one. `LeftAreGone`
says that a process leaves the table after its worker ended, so that a trap always
finds its entry.

`DescriptorProofs` proves about `FdTable`, too, for any number of processes, files,
pipes and calls and with no assumption about how the number sequences lie,
`NeverAnotherFileCorrect` and `NumbersSoundCorrect`. The invariant has one conjunct for
a table (`TableOK`): an entry's file number has been handed out, and while it is open it
is the file of that entry; a number in use lies below the counter of dup or among the
pipe numbers. Lemmas say that putting an entry, taking one away, opening and closing any
number keep it, and each call is one or two of those.

`LifecycleProofs` proves about `Lifecycle`, for every number of processes, pids, pipes
and workers, nested and mixed forks, a slow bridge and failing instantiation,
`PoolSoundCorrect`. Its invariant `IInv` (`Inductive`) says that a worker has one life
at a time (`OneLife`): it is in the pool, or a boot message waits for it, or a process
runs in it, or its exit message is on its way, and each of these excludes the others.
`ExecOK` ties `_executionWorkers` to the `pid` each handler closed over; `SpawnOrder`
(fork requests come in the order of the forks) bounds the workers ever made, so that
the model's `Workers` is large enough. `PoolSound` alone is not inductive: nothing in
it says that a worker whose exit message the page handles is not running another
process already.

The second half of `LifecycleProofs` proves the other invariants of `Lifecycle` where only PID 1
forks and only to exec (`FirstForksExec`), as a shell does: `CacheIsOwnCorrect` and
`LiveKeepsEntryCorrect`. Every number remains arbitrary, and
instantiation may fail. The hypothesis is what the code needs for the second: each wasm instance
counts its children from the same number, so that nested forks reuse a pid
(`lifecycle_pids`) and the second process takes over the first one's entry. `CacheIsOwn`
holds on small instances with such forks too, but its proof uses that pids are unique.
`JInv` (`ForkInductive`) adds to `IInv` what each queue may hold:

* `ToldOK`: pids told to the parent are different and at most the counter; `Whose`: a
  worker's boot message, its process, its exit message, the handler's `pid` and the
  entry of `_executionWorkers` name one process;
* `ToKernelOK`, `EntryKept`, `MemoryKept`, `EntryPipes`: a register-worker message
  comes before the others of its pid, an exit only after the page dropped the pid, so
  that an entry, once made, has its own control SAB, memory and pipes until the exit;
* `CacheOK`: every pipe in a worker's cache, or in a message on its way to it, is the
  current process's, or a reset that wipes it out is behind it in the same queue and no
  boot message is before that reset.

`MemorySent` in `LiveKeepsEntry` came out of this proof: from the moment the
memory-ready message has been handled, not just from the first served call, the entry
is complete.

`VirtualFSProofs` proves about `VirtualFS`, for every set of names, depth of paths and
number of open files, bytes and calls, `PathsSoundCorrect` and the action property
`BuffersSoundCorrect`, with no hypothesis about the guest.

* What a method of the name space does to the files is said once per method
  (`AddFileType`, `UnlinkType`, `RenameType` ...): it puts one path, takes one away or
  moves one. With `FreshBufFree` (there is an array nobody refers to, by counting) a
  step then does one of three things: it leaves the arrays alone (`NamesStep`), gives at
  most one path an array nobody has (`QuietStep`, `RenewedDiffers`), or gives a descriptor
  and its path the same one (`ReplaceStep`). Those three keep `SharingNeedsDetached` and
  `WriterStaysAttached`.
* `resolvePath`, `registerParents` and the walk are loops, and what a loop computes needs
  induction. `Climb` is induction up to a number as a statement about a set of numbers,
  proved by the pigeonhole principle; `Iterates` and `Walks` draw from it that such a loop
  is a function. Resolution and walk take steps of different size: a round of
  `resolvePath` is one link, a step of the walk one name. They are tied by the number of
  links followed: while it is at most `MaxLink` + 1, round `links` of the resolution has
  come to what the walk has behind it joined with what lies before it; when the walk
  ends no prefix is a link and no later round changes the path; when the walk goes on
  to one link more, the last round has still left a link in the path.
* The proof corrected two bounds of the model. The number of arrays had been counted from
  the paths the guest names, but links lead to others, so that `FreshBuf` need not exist
  (`Bufs`); and paths had no bound of their own (`MaxDepth`).

`CpuProofs` proves about `Alu`, `DivMul` and `RepString` what `Cpu` checks of
comparison, carry, double words and strings (`OrderAndCarryCorrect`,
`DoubleWordsCorrect`, `StringsCorrect`), for every choice of operands, and behind that
the kernels at every width: `CompareAtEveryWidth`, `CarriesAtEveryWidth`,
`MultiplyAtEveryWidth`, `DivideAtEveryWidth` (carry-less products are proved for the
width of the run, 4 bits). The strings are for every size of memory and of its pages,
every count, both directions and any overlap of source and destination.

* What the theorems assume of a width k are laws of exponents, because the provers
  know none: `Width` (2^k is twice 2^(k - 1)), `Doubles` (2^2k is the square of 2^k), `Halved`,
  `Powers`. Every even k from 4 satisfies them. `CodeWidths`, `CodeDoubles`, `CodeHalves` and
  `CodePowers` confirm it for the widths the provers can write: words up to 32 bits, double
  words up to 32. The 64-bit forms are the same operators at k = 64, whose powers the
  provers cannot write.
* `DubbleMul`: each partial sum of the schoolbook product is below 2^k (`Schoolbook`), so that
  no carry is lost.
* `DubbleDiv` is two loops with one state each. Both are brought into the form `Runs`, a
  function whose values follow each other by `LoopStep`; `Climb`, induction over a set
  of numbers, takes an invariant through them. Going up, value i is d * 2^i until the
  first that exceeds the dividend (`UpNumbers`). Going down, quotient times divisor plus what is left is
  the dividend, and what is left is below the divisor at that place (`DownExact`). If no
  value exceeds the dividend before its top bits fall out, the divisor is lost, and the quotient is not
  exact, but then its upper word is not 0 (`DownLong`) and the instruction raises the
  divide error, as it has to (`TooLarge`).
* `OneQuotient` makes rounding towards zero unique, so that the sign cases of idiv, the
  most negative dividend (`MostNegative`) and the check that the quotient fits
  (`FitsWord`) follow from the magnitudes (`BySigns`).
* The loops of `string.c` are `Runs` as well. `StringIn` says where an instruction may start:
  the elements its count announces are in memory. The loop of single elements leaves
  after j of them the machine `After` (`PlainLoop`). A chunk of `rep movsb` or `rep stosb` is at
  least one and at most the remaining elements (`RemainPositive`), and as many rounds
  of that loop (`MovStepIs`, `StosStepIs`), also where the two strings overlap; so the chunks
  end where the loop does (`MovsbMatches`, `StosbMatches`). `ScanIs` finds the first hit.

`SignalsProofs` proves about `Signals`, for every number of signals, set of
dispositions and masks, number of calls and `MaxSigDepth`:

* `AttentionKeptCorrect`. The invariant is `Base` (the types of the fields, and that
  every handler has a frame where rt_sigreturn looks for it) with `AttentionOK`: each
  operation that unblocks, raises or returns either sets attention or has consumed what
  was deliverable.
* `ContextKeptCorrect` and `ReturnsWholeCorrect`, with no assumption about the guest. Both
  are about the time up to the first handler that starts in a place where the code loses
  a context: the model marks that step (`orderly`), and the invariant `Kept` says `Base`
  and `AttentionOK` of every state and `IInv` of those before the mark. Without it TLC
  refutes the first (`signals_nested`). `IInv` has two cases.
  `Settled` says that the contexts form a stack: each one below the running one is in
  the frame of the handler above it, registers and mask (`Saved`, `FrameMasks`,
  `LastMask`), a handler on the alternate stack is the innermost, and
  the thread's mask is the one its context set itself (`TopMask`). `Free` is that
  state, reached with no call or inside calls of sigprocmask. `Awaits` is the other:
  the innermost call exchanged the mask, so its `oldmask` holds what the frame does
  not, until its handler returns. Deliveries in an orderly place keep
  `Settled`, `SigRestore` undoes the last one, and `Pop` closes the gap of `Awaits`.

Which starts are delicate came out of the proof: waits that begin with attention set, and
those at `MaxSigDepth` (see Deviations), lie beyond the calls of the run.

`GuestMemoryProofs` proves about `GuestMemory`, for every size of tables, translation
buffer, chunk and pool and every sequence of accesses, page faults and memory calls, that
while the page pool has not been moved the machine's caches say what the page tables say
(`CachesAreCoherent`) and no frame has two uses (`FramesStayDisjoint`, a part of
`BooksExact`). `sys.moved = 0` is what the code needs: of a moved pool neither holds, because
`HandlePageFault` stores through an address in the old one (the run `guest_memory_grow`).

* Neither property is inductive. An entry names a frame by its place in `g_hostpages`, and
  nothing in the program says which entry a frame belongs to. The proof adds that:
  `Owned(s, K, G, I)` gives every frame a kind (root, table, page, free, new, none) and
  every table and page the one word that refers to it, and says that free and new frames
  are clear. `Good(s)` says that such owners exist, `MemInv` that the system is good and the
  caches true (`Cached`), and `MemoryStaysIntact` that `MemInv` holds for ever.
* The primitives change the owners of at most one frame: a frame is taken (`TakeFree`,
  `TakeNew`) or given back (`GiveBack`), an entry is put (`PutPte`), a table linked or
  unlinked (`LinkDir`, `UnlinkDir`). In between a frame is nobody's, and these lemmas say so.
* `RemoveVirtual`, `ReserveVirtual`, `ProtectVirtual` and `FreeEmptyPageTables` are loops that
  carry raw addresses. They are brought into the form `Runs`, and `Climb`, induction over a
  set of numbers, takes an invariant through each: `Scans` says that what a scan has passed in
  the table at hand is empty, so that the table it drops has no entry; `At` that the address of
  the table `ReserveVirtual` writes to is the current one.
* `Kept` follows the pages of code through a call: a touched executable page that loses its
  entry sets `exec`, and with it `InvalidateSystem` drops the page of code (`CallCaches`).
  Translations of data need less, since `EnterSyscall` drops them before every call.
* `MemoryBounds` asks for tables of at least 2 entries (512 in the code), for a chunk that
  fits the pool (64 of 2048 pages), and for intervals within the address space, outside
  which the calls answer EINVAL before they do anything (`syscall.c:1421`, `syscall.c:1517`,
  `memorymalloc.c:1242`).

Only model-checked: of `GuestMemory` that it implements `FlatMemory`
(`ImplementsFlatMemory`) and that its counters and file maps are exact (the rest of
`BooksExact`), the rest of the instructions (`ShiftsCompose`, `EncodingsSurvive`,
`LanesAgree`, `MovesAgree`), which are loops over bits, digits or lanes whose length is
the width, and liveness (`EofSeen`, `AllDelivered`, `AllButLostRead`, `PostedReturns`,
`TrapReturns`, `ForkedIsReaped`, `SignalTaken`), which is outside this prover's reach.

## 5. Not modelled

* Vector instructions: faults of unaligned addresses;
  `OpMovntiMdqpGdqp`, which stores a vector register where the instruction
  names a general one (`ssemov.c:82`); a masked store that crosses a page; shifts by a
  count in the register they shift, where the upper half reads the count the lower one
  just changed (`sse.c:1231`): `ShiftBySource` has this, the properties take two
  registers.
* Blink's decoder and dispatch, its loader, x87, floating point (`ssefloat.c`), the debugger
  (`blinkenlights.c`) and its own vfs and JIT, which the build leaves out; libz:
  vendored, sequential. Its threads and page locks: the build has one thread.
* Guest memory beyond one page: copies that span pages, kernel memory of real mode,
  and the lazy copy of a parent's pages into a forked child.
* Signals of the host, SIGPIPE of a write, faults (they end the process in this
  build), and what exec does to dispositions.
* `engine-main-worker.js`, `engine-worker.js`: an earlier design nothing loads.
* `thread.rs`, `signal.rs`, `socket.rs` and REQ_SHUTDOWN: the kernel never sends
  these requests. unregister-worker and stop: the page never posts them.
* File modes, times, `/dev` and `/proc`; formatting of stat and dirent records.
* `read_closed`: set and never read.

## 6. Plan

In this order:

1. `Overlay`: flush and restore of the overlay across awaits, with a crash between
   any two writes; refinement of "restore yields a state that once was".
2. `MemoryGrowth`: the grown buffer's way to the kernel against the 5 ms wait.
3. A composition of `FdTable` and `PipeRing`: EOF reaches the reader of a pipe
   whose writers all exited (worker-exit closes nothing).
4. The rest of `VirtualFS`: negative seeks, sendfile, copy_file_range.
5. Sockets and the Wisp client (credit, reordering of close and data).

Theorems worth proving next: that the counters of `GuestMemory` count the entries, and that
it implements `FlatMemory`.
