---------------------------- MODULE GuestMemory -----------------------------
(***************************************************************************)
(* The memory of one guest process in Blink, as built for the browser      *)
(* (memorymalloc.c, memory.c, instruction.c, map.c and the memory calls of *)
(* syscall.c): frames come from a page pool that is moved when it grows, a *)
(* page table entry names a frame through g_hostpages, a fresh page is     *)
(* only reserved until the guest touches it, freed frames are kept on a    *)
(* list, a translation buffer (tlb) and a pointer to the current page of   *)
(* code are cached across instructions.                                    *)
(*                                                                         *)
(* Data abstraction: addresses are page numbers, the four levels of tables *)
(* are two (one root and tables of PerTable entries), a word of a frame is *)
(* a page table entry or a value, and the guest uses one word of a page.   *)
(* The build has no threads: a call of a routine is one step, and a page   *)
(* lock is taken and released within it.                                   *)
(***************************************************************************)
EXTENDS Integers, Sequences, FiniteSets, SequencesExt

\* A fold over seq that TLC evaluates once per element.
Iterate(Op(_, _), base, seq) ==
    LET f[i \in 0 .. Len(seq)] == IF i = 0 THEN base ELSE Op(f[i - 1], seq[i]) IN f[Len(seq)]

CONSTANTS
    PerTable,    \* entries of a page table (512)
    TlbSize,     \* entries of the translation buffer
    Chunk,       \* pages AllocateAnonymousPage takes from the pool (64)
    PoolSize,    \* pages of the first pool (2048)
    MaxPool,     \* bound: pages of a pool
    MaxSteps,    \* bound: accesses and calls
    MaxRss,      \* limit on resident pages
    MaxVss,      \* limit on mapped pages
    Mmaps,       \* calls of mmap: records how, virt, n, prot, backing
    Ranges,      \* intervals <<virt, n>> of munmap and mprotect
    Prots        \* protections given to mprotect, subsets of {"r", "w", "x"}

NPages == PerTable * PerTable
Pages == 0 .. NPages - 1
Heap == 0        \* where the break starts
AutomapStart == 1
CodePage == NPages - 1
FileVal == 2     \* what a page of a mapped file holds
Vals == 0 .. 2

ASSUME MemoryBounds ==
    /\ {PerTable, TlbSize, Chunk, PoolSize} \subseteq Nat \ {0} /\ PerTable >= 2
    /\ {MaxPool, MaxSteps, MaxRss, MaxVss} \subseteq Nat /\ Chunk <= PoolSize /\ PoolSize <= MaxPool
    /\ Ranges \subseteq Pages \X (1 .. NPages) /\ \A r \in Ranges : r[1] + r[2] <= NPages
    /\ Mmaps \subseteq [how : {"fixed", "noreplace", "hint", "any"}, virt : Pages, n : 1 .. NPages,
                       prot : SUBSET {"r", "w", "x"}, backing : {"anon", "shared", "file"}]
    /\ \A a \in Mmaps : a.virt + a.n <= NPages
    /\ Prots \subseteq SUBSET {"r", "w", "x"}

VARIABLES
    sys,    \* struct System, the pool, g_hostpages, g_allocator and g_pagepool's frames
    m,      \* struct Machine: tlb, invalidated, and the opcache
    out,    \* what the last access of the guest saw
    steps   \* accesses and calls so far, for the bound only

vars == <<sys, m, out, steps>>

Nothing == [page |-> -1, val |-> 0]
Denied == -1
Saw(p, v) == [page |-> p, val |-> v]

(* Words and frames. *)

Zero == [data |-> 0]
Val(v) == [data |-> v]
ZeroFrame == [i \in 0 .. PerTable - 1 |-> Zero]
NoHost == -1

\* A page table entry.  rsrv: no frame has been chosen yet (for a file: not touched yet).
Pte(hp, rsrv, mug, prot, file) == [hp |-> hp, rsrv |-> rsrv, mug |-> mug, prot |-> prot, file |-> file]
Valid(w) == "rsrv" \in DOMAIN w

Dir(p) == p \div PerTable
Index(p) == p % PerTable

(* The page pool. *)

Doubled(cap, need) == CHOOSE c \in {cap * 2^k : k \in 0 .. 8} :
    c >= need /\ \A k \in 0 .. 8 : cap * 2^k >= need => c <= cap * 2^k

\* GrowPagePool copies the frames and corrects g_hostpages and the free list: frames keep
\* their numbers here.  Every pointer held elsewhere is left in the old pool: moved counts.
MovePool(s, cap) == IF cap = s.cap THEN s ELSE [s EXCEPT !.cap = cap, !.moved = @ + 1]
AllocPoolPages(s, n) == MovePool([s EXCEPT !.next = @ + n], Doubled(s.cap, s.next + n))

TrackHostPage(s, frame) == [s EXCEPT !.hostpages = Append(@, frame)]
FindHostPage(s, w) == s.hostpages[w.hp + 1]

FreeAnonymousPage(s, frame) == [s EXCEPT !.free = <<frame>> \o @]

\* Mutant of ChunkRest: the loop also pushes the frame that is handed out.
ChunkAll(first) == [i \in 1 .. Chunk |-> first + i - 1]

\* The frames behind the first of a fresh chunk, in the order of the list.
ChunkRest(first) == [i \in 1 .. Chunk - 1 |-> first + i]

\* The frame it returns is the last one tracked.
AllocateAnonymousPage(s) ==
    IF s.free # <<>>
    THEN TrackHostPage([s EXCEPT !.free = Tail(@), !.rss = @ + 1], Head(s.free))
    ELSE TrackHostPage([AllocPoolPages(s, Chunk) EXCEPT !.free = ChunkRest(s.next), !.rss = @ + 1], s.next)

AllocatePageTable(s) == [AllocateAnonymousPage(s) EXCEPT !.tables = @ + 1]
\* Mutant of FreePageTable: the table stays resident in the books.
FreeTableOnly(s, frame) == [FreeAnonymousPage(s, frame) EXCEPT !.tables = @ - 1]
FreePageTable(s, frame) == [FreeAnonymousPage(s, frame) EXCEPT !.tables = @ - 1, !.rss = @ - 1]

LastTracked(s) == Len(s.hostpages) - 1

(* Page tables. *)

Root(s) == s.hostpages[s.cr3 + 1]
DirEntry(s, p) == s.ram[Root(s)][Dir(p)]
HasTable(s, p) == Valid(DirEntry(s, p))
Table(s, p) == FindHostPage(s, DirEntry(s, p))
LoadPte(s, p) == IF HasTable(s, p) THEN s.ram[Table(s, p)][Index(p)] ELSE Zero
StorePte(s, p, w) == [s EXCEPT !.ram[Table(s, p)][Index(p)] = w]

Span(virt, n) == [i \in 1 .. n |-> virt + i - 1]

FreeEmptyTable(s, d) ==
    LET p == d * PerTable IN
    IF HasTable(s, p) /\ s.ram[Table(s, p)] = ZeroFrame
    THEN [FreePageTable(s, Table(s, p)) EXCEPT !.ram[Root(s)][d] = Zero]
    ELSE s

FreeEmptyRoot(s) == IF s.ram[Root(s)] = ZeroFrame THEN FreePageTable(s, Root(s)) ELSE s
FreeEmptyPageTables(s) == FreeEmptyRoot(Iterate(FreeEmptyTable, s, [i \in 1 .. PerTable |-> i - 1]))

CleanseMemory(s) ==
    IF s.memchurn >= s.rss \div 2
    THEN [FreeEmptyPageTables(s) EXCEPT !.memchurn = 0]
    ELSE s

IsFullyMapped(s, virt, n) == \A p \in virt .. virt + n - 1 : Valid(LoadPte(s, p))

\* A table that is missing is skipped by its full size, wherever in it the scan stands:
\* the positions a scan from virt looks at.
Seen(s, virt, n) ==
    Iterate(LAMBDA acc, p :
                 IF p # acc.at THEN acc
                 ELSE [at |-> IF HasTable(s, p) THEN p + 1 ELSE p + PerTable, pages |-> acc.pages \cup {p}],
             [at |-> virt, pages |-> {}], Span(virt, n)).pages

IsFullyUnmapped(s, virt, n) == \A p \in Seen(s, virt, n) : ~Valid(LoadPte(s, p))

\* A place at or above automap: after a page that is taken the scan starts over behind it.
FindVirtual(s, n) ==
    LET Past(v, taken) == IF v + n > NPages \/ taken = {} THEN v ELSE Min(taken) + 1
        Retry(v, i) == Past(v, {p \in Seen(s, v, n) : Valid(LoadPte(s, p))})
        Found(v) == IF v + n > NPages THEN -1 ELSE v IN
    Found(Iterate(Retry, s.automap, Span(1, NPages)))

(* Removing and adding mappings. *)

\* Mutant of UnmarkFilePage: the mark is left.
LeaveMarked(s, p) == s
UnmarkFilePage(s, p) ==
    LET fms == s.filemaps
        hits == {i \in DOMAIN fms : p \in fms[i]} IN
    IF hits = {} THEN s
    ELSE LET i == CHOOSE j \in hits : \A k \in hits : j <= k
             left == fms[i] \ {p}
             rest == RemoveAt(fms, i) IN
         [s EXCEPT !.filemaps = IF left = {} THEN rest ELSE <<left>> \o rest]

\* Mutant of ClearPage: the frame goes to the free list as it is.
KeepPage(s, frame) == s
ClearPage(s, frame) == [s EXCEPT !.ram[frame] = ZeroFrame]

\* A removed entry: acc carries what RemoveVirtual and ReserveVirtual keep in locals.
FreeFrame(s, w) == FreeAnonymousPage(ClearPage(s, FindHostPage(s, w)), FindHostPage(s, w))
FreeMapped(s, w) ==
    IF w.rsrv THEN [s EXCEPT !.reserved = @ - 1]
    ELSE IF w.mug THEN [s EXCEPT !.committed = @ - 1]
    ELSE FreeFrame([s EXCEPT !.committed = @ - 1], w)
FreePage(acc, p, w) ==
    [acc EXCEPT !.s = FreeMapped(IF w.file THEN UnmarkFilePage(@, p) ELSE @, w),
                !.exec = @ \/ ("x" \in w.prot /\ ~w.rsrv),
                !.rss = IF w.rsrv THEN @ ELSE @ - 1]

\* One position of the scan; from is where it entered the table at hand.
Removed(acc, p, w) ==
    IF Valid(w) THEN FreePage([acc EXCEPT !.s = StorePte(acc.s, p, Zero), !.vss = @ - 1], p, w) ELSE acc
DropTable(s, p) == [FreePageTable(s, Table(s, p)) EXCEPT !.ram[Root(s)][Dir(p)] = Zero]
RemoveAtPage(acc, p) ==
    IF p # acc.at THEN acc
    ELSE IF ~HasTable(acc.s, p) THEN [acc EXCEPT !.at = p + PerTable, !.from = -1]
    ELSE LET from == IF acc.from = -1 \/ Index(p) = 0 THEN Index(p) ELSE acc.from
             full == from = 0 /\ Index(p) = PerTable - 1 IN
         [Removed(acc, p, LoadPte(acc.s, p)) EXCEPT
              !.s = IF full THEN DropTable(@, p) ELSE @, !.at = p + 1, !.from = from]

NoDelta(s, virt) == [s |-> s, at |-> virt, from |-> -1, vss |-> 0, rss |-> 0, exec |-> FALSE]
RemoveVirtual(s, virt, n) == Iterate(RemoveAtPage, NoDelta(s, virt), Span(virt, n))

\* The address of an entry is taken before what the entry needs is allocated: a store
\* through it after the pool moved goes to the old pool.  ptr is the value of moved when
\* the address of the table was taken.
LinkTable(s, p, moved) ==
    IF s.moved # moved THEN s
    ELSE [s EXCEPT !.ram[Root(s)][Dir(p)] = Pte(LastTracked(s), FALSE, FALSE, {"w"}, FALSE)]
WithTable(acc, s, table) == [acc EXCEPT !.s = s, !.table = table, !.ptr = s.moved]
WithNewTable(acc, s, p) == WithTable(acc, LinkTable(s, p, acc.s.moved), Last(s.hostpages))
EnterTable(acc, p) ==
    IF Index(p) # 0 /\ acc.ptr # -1 THEN acc
    ELSE IF HasTable(acc.s, p) THEN WithTable(acc, acc.s, Table(acc.s, p))
    ELSE WithNewTable(acc, AllocatePageTable(acc.s), p)

\* A page of the host, which a file fills when it backs the mapping.
AllocateBig(s, backing) ==
    [TrackHostPage(AllocPoolPages(s, 1), s.next) EXCEPT
         !.ram[s.next] = [ZeroFrame EXCEPT ![0] = Val(IF backing = "file" THEN FileVal ELSE 0)]]
Entry(s, prot, backing, file) ==
    IF backing = "anon" THEN Pte(NoHost, TRUE, FALSE, prot, file)
    ELSE Pte(LastTracked(s), TRUE, TRUE, prot, file)
FreeOld(acc, p, old) == IF Valid(old) THEN FreePage(acc, p, old) ELSE acc
PutEntry(acc, s, p, w) ==
    FreeOld([acc EXCEPT !.s = IF s.moved = acc.ptr THEN [s EXCEPT !.ram[acc.table][Index(p)] = w] ELSE s],
            p, s.ram[acc.table][Index(p)])
AddBacked(acc, s, p, prot, backing, file) == PutEntry(acc, s, p, Entry(s, prot, backing, file))
AddPage(acc, p, prot, backing, file) ==
    AddBacked(acc, IF backing = "anon" THEN acc.s ELSE AllocateBig(acc.s, backing), p, prot, backing, file)

AddDeltas(acc) == [acc EXCEPT !.s.vss = @ + acc.vss, !.s.rss = @ + acc.rss]
ReserveGone(gone, virt, n, prot, backing, file) ==
    LET start == [s |-> [gone.s EXCEPT !.reserved = @ + n,
                             !.filemaps = IF backing = "file" THEN <<virt .. virt + n - 1>> \o @ ELSE @],
                  ptr |-> -1, table |-> -1, vss |-> gone.vss + n, rss |-> gone.rss, exec |-> gone.exec] IN
    AddDeltas(Iterate(LAMBDA acc, p : AddPage(EnterTable(acc, p), p, prot, backing, file \/ backing = "file"),
                      start, Span(virt, n)))
ReserveVirtual(s, virt, n, prot, backing, file) ==
    ReserveGone(RemoveVirtual(s, virt, n), virt, n, prot, backing, file)

Churned(gone) == [gone EXCEPT !.s.memchurn = @ - gone.vss]
FreeVirtual(s, virt, n) == AddDeltas(Churned(RemoveVirtual(s, virt, n)))

(* The machine's caches. *)

NoTlb == [page |-> -1, entry |-> Zero]
NoCode == [virt |-> -1, frame |-> -1, moved |-> -1]
EmptyTlb == [k \in 0 .. TlbSize - 1 |-> NoTlb]

\* OpSyscall makes every first reference of a call miss the translation buffer.
EnterSyscall(mach) == [mach EXCEPT !.invalidated = TRUE]

\* Mutant of InvalidateSystem: the icache flag is not set.
InvalidateTlb(mach, tlb, icache) == [mach EXCEPT !.invalidated = @ \/ tlb]
InvalidateSystem(mach, tlb, icache) ==
    [mach EXCEPT !.invalidated = @ \/ tlb, !.icinvalidated = @ \/ icache]

\* Mutant of ResetTlb: the flag is cleared and the entries stay.
KeepTlb(mach) == [mach EXCEPT !.invalidated = FALSE]
ResetTlb(mach) ==
    IF mach.invalidated
    THEN [mach EXCEPT !.tlb = EmptyTlb, !.invalidated = FALSE, !.code = NoCode]
    ELSE mach

ResetInstructionCache(mach) ==
    IF mach.icinvalidated THEN [mach EXCEPT !.code = NoCode, !.icinvalidated = FALSE] ELSE mach

\* The first touch of a reserved page.  The entry's address is taken before a frame is
\* allocated for it, as in AddPage.
StoreFault(s, p, x, moved) ==
    [s |-> IF s.moved = moved
           THEN StorePte([s EXCEPT !.committed = @ + 1, !.reserved = @ - 1], p, x)
           ELSE [s EXCEPT !.committed = @ + 1, !.reserved = @ - 1],
     entry |-> x]
FaultAnonymous(s, p, w, moved) == StoreFault(s, p, [w EXCEPT !.rsrv = FALSE, !.hp = LastTracked(s)], moved)
HandlePageFault(s, p, w) ==
    IF w.mug THEN StoreFault([s EXCEPT !.rss = @ + 1], p, [w EXCEPT !.rsrv = FALSE], s.moved)
    ELSE FaultAnonymous(AllocateAnonymousPage(s), p, w, s.moved)

\* The entry of a page, through the translation buffer; entry is Zero for a fault.
Miss(mach, p, w) ==
    IF ~Valid(w) THEN [s |-> sys, m |-> mach, entry |-> Zero]
    ELSE LET Cached(r) == [s |-> r.s, entry |-> r.entry,
                           m |-> [mach EXCEPT !.tlb[p % TlbSize] = [page |-> p, entry |-> r.entry]]] IN
         Cached(IF w.rsrv THEN HandlePageFault(sys, p, w) ELSE [s |-> sys, entry |-> w])
FindIn(mach, p) ==
    LET hit == mach.tlb[p % TlbSize] IN
    IF hit.page = p /\ Valid(hit.entry) THEN [s |-> sys, m |-> mach, entry |-> hit.entry]
    ELSE Miss(mach, p, LoadPte(sys, p))
FindPageTableEntry(machine, p) == FindIn(ResetTlb(machine), p)

\* LookupAddress2 with the bits that are needed.
Permits(w, need) == Valid(w) /\ need \subseteq w.prot
Word(s, w) == s.ram[FindHostPage(s, w)][0].data

(* The guest's steps.  It runs while a page of code is mapped. *)

Running == \E p \in Pages : LET w == LoadPte(sys, p) IN Valid(w) /\ "x" \in w.prot

\* Load, and CopyFromUser.
LoadThrough(r, p) ==
    /\ sys' = r.s /\ m' = r.m
    /\ out' = Saw(p, IF Permits(r.entry, {"r"}) THEN Word(r.s, r.entry) ELSE Denied)
Load(p, by) == LoadThrough(FindPageTableEntry(by, p), p)

\* ReserveAddress needs the write bit; BeginStore and CopyToUser look at the user bit only.
StoreThrough(r, p, v, need) ==
    /\ m' = r.m
    /\ IF Permits(r.entry, need)
       THEN sys' = [r.s EXCEPT !.ram[FindHostPage(r.s, r.entry)][0] = Val(v)] /\ out' = Nothing
       ELSE sys' = r.s /\ out' = Saw(p, Denied)
Store(p, v, need, by) == StoreThrough(FindPageTableEntry(by, p), p, v, need)

\* LoadInstruction2: the page of code is looked up once and then used through a pointer,
\* without a look at invalidated.
FetchThrough(r, p) ==
    /\ sys' = r.s
    /\ IF Permits(r.entry, {"x"})
       THEN /\ m' = [r.m EXCEPT !.code = [virt |-> p, frame |-> FindHostPage(r.s, r.entry), moved |-> r.s.moved]]
            /\ out' = Saw(p, Word(r.s, r.entry))
       ELSE m' = r.m /\ out' = Saw(p, Denied)
FetchWith(mach, p) ==
    IF mach.code.virt = p
    THEN m' = mach /\ sys' = sys /\ out' = Saw(p, sys.ram[mach.code.frame][0].data)
    ELSE FetchThrough(FindPageTableEntry(mach, p), p)
Fetch(p) == FetchWith(ResetInstructionCache(m), p)

(* System calls.  Prot2Page: a writable mapping is readable. *)

Prot2Page(prot) == IF "w" \in prot THEN prot \cup {"r"} ELSE prot

Fails(s) == sys' = s /\ m' = EnterSyscall(m) /\ out' = Nothing

Commit(s, tlb, icache) ==
    /\ sys' = s
    /\ m' = InvalidateSystem(EnterSyscall(m), tlb, icache)
    /\ out' = Nothing

AutomapAfter(virt, n) == IF virt + n >= NPages THEN AutomapStart ELSE virt + n

CommitChange(r) == Commit(r.s, r.rss # 0, r.exec)
Limits(s, n) == s.rss < MaxRss /\ n + s.vss <= MaxVss

\* how: "fixed", "noreplace", "hint" (virt is a wish) or "any" (Blink chooses).
Asked(s, how, virt, n) == how = "fixed" \/ (how \in {"noreplace", "hint"} /\ IsFullyUnmapped(s, virt, n))
MapAt(s, place, n, prot, backing, automap) ==
    CommitChange(ReserveVirtual([s EXCEPT !.automap = automap], place, n, Prot2Page(prot), backing, FALSE))
MapAnywhere(s, place, n, prot, backing) ==
    IF place = -1 THEN Fails(s) ELSE MapAt(s, place, n, prot, backing, AutomapAfter(place, n))
MmapCleansed(s, how, virt, n, prot, backing) ==
    IF ~Limits(s, n) THEN Fails(s)
    ELSE IF Asked(s, how, virt, n) THEN MapAt(s, virt, n, prot, backing, s.automap)
    ELSE IF how = "noreplace" THEN Fails(s)
    ELSE MapAnywhere(s, FindVirtual(s, n), n, prot, backing)
SysMmap(how, virt, n, prot, backing) == MmapCleansed(CleanseMemory(sys), how, virt, n, prot, backing)

SysMunmap(virt, n) == CommitChange(FreeVirtual(sys, virt, n))

\* A page keeps its frame; SetProtection takes the bits as they are.
Protected(s, virt, n, prot) ==
    Iterate(LAMBDA acc, p : StorePte(acc, p, [LoadPte(acc, p) EXCEPT !.prot = prot]), s, Span(virt, n))

SysMprotect(virt, n, prot) ==
    IF ~IsFullyMapped(sys, virt, n) THEN Fails(sys)
       ELSE Commit(Protected(sys, virt, n, prot), TRUE,
                   \E p \in virt .. virt + n - 1 : LET w == LoadPte(sys, p) IN
                       "x" \in w.prot /\ "x" \notin prot /\ ~w.rsrv)

\* The first time the heap gets a file map of its own.
Grown(s, addr) ==
    [s EXCEPT !.brk = addr, !.brkchanged = TRUE,
              !.filemaps = IF s.brkchanged THEN @ ELSE <<s.brk .. addr - 1>> \o @]
GrowBreak(s, addr) ==
    LET Enlarged(r) == [r EXCEPT !.s = Grown(@, addr)] IN
    IF s.rss < MaxRss /\ addr - s.brk + s.vss < MaxVss
    THEN CommitChange(Enlarged(ReserveVirtual(s, s.brk, addr - s.brk, {"r", "w"}, "anon", TRUE)))
    ELSE Fails(s)
SysBrk(addr) ==
    /\ addr # sys.brk
    /\ IF addr > sys.brk THEN GrowBreak(CleanseMemory(sys), addr)
       ELSE LET Shrunk(r) == [r EXCEPT !.s.brk = addr] IN
            CommitChange(Shrunk(FreeVirtual(sys, addr, sys.brk - addr)))

(* LoadProgram: the root table, then one page of code from the file, not touched yet. *)

Boot ==
    LET empty == [ram |-> [f \in 0 .. MaxPool - 1 |-> ZeroFrame], hostpages |-> <<>>, free |-> <<>>,
                  next |-> 0, cap |-> PoolSize, moved |-> 0, cr3 |-> 0, filemaps |-> <<>>,
                  rss |-> 0, vss |-> 0, committed |-> 0, reserved |-> 0, tables |-> 0, memchurn |-> 0,
                  brk |-> Heap, brkchanged |-> FALSE, automap |-> AutomapStart] IN
    ReserveVirtual(AllocatePageTable(empty), CodePage, 1, {"r", "x"}, "file", FALSE).s

Init ==
    /\ sys = Boot
    /\ m = [tlb |-> EmptyTlb, invalidated |-> FALSE, icinvalidated |-> FALSE, code |-> NoCode]
    /\ out = Nothing /\ steps = 0

Access ==
    \/ \E p \in Pages : Fetch(p) \/ Load(p, m)
    \/ \E p \in Pages : Store(p, 1, {"r", "w"}, m) \/ Store(p, 1, {"r"}, EnterSyscall(m))

Call ==
    \/ \E a \in Mmaps : SysMmap(a.how, a.virt, a.n, a.prot, a.backing)
    \/ \E r \in Ranges : SysMunmap(r[1], r[2])
    \/ \E r \in Ranges, prot \in Prots : SysMprotect(r[1], r[2], prot)
    \/ \E addr \in Heap .. Heap + 2 : SysBrk(addr)

Next ==
    /\ Running /\ steps < MaxSteps
    /\ steps' = steps + 1
    /\ Access \/ Call

Spec == Init /\ [][Next]_vars

(* Properties. *)

Flat == INSTANCE FlatMemory WITH
    mem <- [p \in Pages |->
              LET w == LoadPte(sys, p) IN
              IF ~Valid(w) THEN [val |-> 0, prot |-> {"none"}]
              ELSE [val |-> IF w.hp = NoHost THEN 0 ELSE Word(sys, w), prot |-> w.prot]],
    Prots <- SUBSET {"r", "w", "x"}

\* The address space is a flat memory: through page faults, reused frames, freed tables
\* and cached translations, an access sees the last value stored at its address, a fresh
\* page reads as zero or as the file, and a call changes its interval and nothing else.
ImplementsFlatMemory == Flat!FlatSpec

Leaves == {p \in Pages : Valid(LoadPte(sys, p))}
Tables == {d \in 0 .. PerTable - 1 : HasTable(sys, d * PerTable)}

\* The counters agree with the page tables at the end of every call, although page
\* faults, unmapping and the freeing of tables each adjust only some of them.
Accounting ==
    LET untouched == {p \in Leaves : LoadPte(sys, p).rsrv} IN
    /\ sys.vss = Cardinality(Leaves)
    /\ sys.reserved = Cardinality(untouched)
    /\ sys.committed = Cardinality(Leaves \ untouched)
    /\ sys.tables = Cardinality(Tables) + 1
    /\ sys.rss = sys.committed + sys.tables

\* No frame has two uses: two pages, a page and a table, or a place on the free list.
FramesDisjoint ==
    LET pages == {p \in Leaves : LoadPte(sys, p).hp # NoHost}
        used == [x \in ({"page"} \X pages) \cup ({"table"} \X Tables) \cup ({"free"} \X DOMAIN sys.free) |->
                   CASE x[1] = "page" -> FindHostPage(sys, LoadPte(sys, x[2]))
                     [] x[1] = "table" -> Table(sys, x[2] * PerTable)
                     [] x[1] = "free" -> sys.free[x[2]]] IN
    /\ \A x, y \in DOMAIN used : x # y => used[x] # used[y]
    /\ \A x \in DOMAIN used : used[x] # Root(sys) /\ used[x] < sys.next

\* A translation the machine would use is the one in the page tables: every change of an
\* entry that may be cached is followed by a reset before the next lookup.
TlbCoherent ==
    ~m.invalidated =>
        \A k \in DOMAIN m.tlb : Valid(m.tlb[k].entry) => m.tlb[k].entry = LoadPte(sys, m.tlb[k].page)

\* The pointer instructions are fetched through leads to the executable page that is
\* mapped at that address; nothing but the icache flag protects its use.
CodeIsCurrent ==
    (~m.icinvalidated /\ m.code.virt # -1) =>
        LET w == LoadPte(sys, m.code.virt) IN
        /\ Permits(w, {"x"}) /\ ~w.rsrv
        /\ FindHostPage(sys, w) = m.code.frame
        /\ m.code.moved = sys.moved

\* A page is marked in at most one file map, and only while it is mapped as file or heap.
FileMapsExact ==
    \A i \in DOMAIN sys.filemaps : \A p \in sys.filemaps[i] :
        /\ Valid(LoadPte(sys, p)) /\ LoadPte(sys, p).file
        /\ \A j \in DOMAIN sys.filemaps : p \in sys.filemaps[j] => i = j

\* "an anonymous page is being accessed for the first time" (HandlePageFault) once: an
\* access leaves the entry of its page with a frame.
TouchedStaysTouched ==
    [][\A p \in Pages : Load(p, m) => LET w == LoadPte(sys', p) IN Valid(w) => ~w.rsrv]_vars

\* The counters, the free list and the file maps agree with the page tables after every
\* operation, the ones that fail halfway included.
BooksExact == Accounting /\ FramesDisjoint /\ FileMapsExact

\* What the machine keeps of the page tables is what they say when it uses it: data
\* translations and the page instructions are fetched from.
CachesCoherent == TlbCoherent /\ CodeIsCurrent
=============================================================================
