------------------------- MODULE GuestMemoryProofs --------------------------
(***************************************************************************)
(* Proofs about GuestMemory, for every size of tables, translation buffer, *)
(* chunk and pool, every set of calls and every number of steps: while the *)
(* page pool has not been moved, no frame has two uses and the machine's   *)
(* caches agree with the page tables.  Of a pool that has moved neither    *)
(* holds: HandlePageFault stores through an address in the old one.        *)
(*                                                                         *)
(* The inductive invariant gives every frame an owner that the program     *)
(* does not record: Owned(s, K, G, I) says what kind of use K[f] frame f   *)
(* has, and in which word, I[f] of frame G[f], the one reference to it     *)
(* lies.  A system is Good if such owners exist.  An operation is Quiet if *)
(* it keeps all entries, Still if it keeps the tables as well; Replaced if *)
(* it changes one entry, and Kept says of a longer one that a touched page *)
(* of code is still there or its end was told of.                          *)
(***************************************************************************)
EXTENDS GuestMemory, FiniteSetTheorems, SequenceTheorems, TLAPS

Slots == 0 .. PerTable - 1
Frames == 0 .. MaxPool - 1
Ptes == [hp : Int, rsrv : BOOLEAN, mug : BOOLEAN, prot : SUBSET {"r", "w", "x"}, file : BOOLEAN]
Words == [data : Int] \cup Ptes

(* Who owns a frame.  kind is what it is used for; a table or a page is owned by the one *)
(* word that refers to it, the word at slot[f] of frame[f].                              *)

Points(s, w, K, G, I, kind, g, i) ==
    /\ w.hp \in 0 .. Len(s.hostpages) - 1
    /\ K[FindHostPage(s, w)] = kind /\ G[FindHostPage(s, w)] = g /\ I[FindHostPage(s, w)] = i

Typed(s) ==
    /\ s.ram \in [Frames -> [Slots -> Words]]
    /\ s.hostpages \in Seq(Frames) /\ s.free \in Seq(Frames)
    /\ s.next \in 0 .. PoolSize /\ s.cap = PoolSize
    /\ s.cr3 = 0 /\ Len(s.hostpages) > 0
RootWords(s, K, G, I) ==
    /\ K[Root(s)] = "root"
    /\ \A d \in Slots : \/ s.ram[Root(s)][d] = Zero
                        \/ /\ s.ram[Root(s)][d] \in Ptes
                           /\ Points(s, s.ram[Root(s)][d], K, G, I, "table", Root(s), d)
\* An entry without a frame is reserved and not of the host; a reserved entry with a frame is.
Backed(s, w, K, G, I, g, i) ==
    IF w.hp = NoHost THEN w.rsrv /\ ~w.mug
    ELSE (w.rsrv => w.mug) /\ Points(s, w, K, G, I, "page", g, i)
TableWords(s, K, G, I) ==
    \A g \in Frames, i \in Slots :
        K[g] = "table" => \/ s.ram[g][i] = Zero
                          \/ s.ram[g][i] \in Ptes /\ Backed(s, s.ram[g][i], K, G, I, g, i)
FreeFrames(s, K) ==
    /\ \A i \in 1 .. Len(s.free) : K[s.free[i]] = "free"
    /\ \A i, j \in 1 .. Len(s.free) : s.free[i] = s.free[j] => i = j
Clean(s, K) == \A f \in Frames : K[f] \in {"free", "new"} => s.ram[f] = ZeroFrame
Fresh(s, K) == \A f \in Frames : f >= s.next <=> K[f] = "new"

Owned(s, K, G, I) ==
    /\ Typed(s) /\ RootWords(s, K, G, I) /\ TableWords(s, K, G, I)
    /\ FreeFrames(s, K) /\ Clean(s, K) /\ Fresh(s, K)

\* What these are about.
Same(s, t) ==
    /\ t.ram = s.ram /\ t.hostpages = s.hostpages /\ t.free = s.free
    /\ t.next = s.next /\ t.cap = s.cap /\ t.cr3 = s.cr3

(* What the assumption says of each size: a table has at least two entries, a chunk is at *)
(* least one page and fits the pool.                                                      *)
LEMMA Bounds ==
    /\ PerTable \in Nat /\ PerTable >= 2 /\ Chunk \in Nat /\ Chunk >= 1
    /\ PoolSize \in Nat /\ PoolSize >= 1 /\ MaxPool \in Nat
    /\ Chunk <= PoolSize /\ PoolSize <= MaxPool /\ TlbSize \in Nat /\ TlbSize >= 1
BY MemoryBounds

(* Words of a frame are data or page table entries, and only an entry has PAGE_V: the     *)
(* zero word and data are not valid.                                                      *)
LEMMA WordsAre ==
    /\ Zero \in Words /\ \A v \in Int : Val(v) \in Words /\ ~Valid(Val(v))
    /\ ~Valid(Zero) /\ Zero \notin Ptes
    /\ \A w \in Ptes : Valid(w) /\ w \in Words
<1>1. \A w \in Ptes : Valid(w)
  BY DEF Ptes, Valid
<1>2. \A v \in Int : Val(v) \in Words /\ ~Valid(Val(v))
  BY DEF Val, Words, Valid
<1>3. Zero \in Words /\ ~Valid(Zero)
  BY DEF Zero, Words, Valid
<1> QED
  BY <1>1, <1>2, <1>3 DEF Words

(* An entry that is put together from its parts is one, and has these parts.              *)
LEMMA PteIs ==
  ASSUME NEW hp \in Int, NEW rsrv \in BOOLEAN, NEW mug \in BOOLEAN, NEW prot \in SUBSET {"r", "w", "x"},
         NEW file \in BOOLEAN
  PROVE  /\ Pte(hp, rsrv, mug, prot, file) \in Ptes
         /\ Pte(hp, rsrv, mug, prot, file).hp = hp /\ Pte(hp, rsrv, mug, prot, file).rsrv = rsrv
         /\ Pte(hp, rsrv, mug, prot, file).mug = mug /\ Pte(hp, rsrv, mug, prot, file).prot = prot
BY DEF Pte, Ptes

(* A cleared frame reads zero everywhere.                                                 *)
LEMMA ZeroFrameIs == ZeroFrame \in [Slots -> Words] /\ \A i \in Slots : ZeroFrame[i] = Zero
BY WordsAre DEF ZeroFrame, Slots

(* Frames keep their owners when only the counters, the file maps or the break change.    *)
LEMMA OwnedSame ==
  ASSUME NEW s, NEW t, NEW K, NEW G, NEW I, Owned(s, K, G, I), Same(s, t)
  PROVE  Owned(t, K, G, I)
<1>1. Root(t) = Root(s) /\ \A w : FindHostPage(t, w) = FindHostPage(s, w)
  BY DEF Same, Root, FindHostPage
<1> QED
  BY <1>1 DEF Same, Owned, Typed, RootWords, TableWords, FreeFrames, Clean, Fresh, Backed, Points

(* The root table, which cr3 names, is the first frame that was tracked.                  *)
LEMMA RootIn ==
  ASSUME NEW s, Typed(s)
  PROVE  Root(s) \in Frames /\ Root(s) = s.hostpages[1]
BY Bounds DEF Typed, Root

(* The index an entry holds leads to a frame of the pool (FindHostPage).                  *)
LEMMA HostIn ==
  ASSUME NEW s, Typed(s), NEW w, w.hp \in 0 .. Len(s.hostpages) - 1
  PROVE  FindHostPage(s, w) \in Frames /\ w.hp + 1 \in 1 .. Len(s.hostpages)
BY DEF Typed, FindHostPage

(* Positions: a page is a place in a table of the root. *)

(* A page is entry Index of the table at place Dir of the root, the two levels            *)
(* FindPageTableEntry walks.                                                              *)
LEMMA DivMod ==
  ASSUME NEW p \in Pages
  PROVE  Dir(p) \in Slots /\ Index(p) \in Slots /\ p = Dir(p) * PerTable + Index(p)
<1>1. p \in Int /\ 0 <= p /\ p < PerTable * PerTable
  BY Bounds DEF Pages, NPages
<1>2. PICK d \in Int, i \in Int : d = p \div PerTable /\ i = p % PerTable /\ p = PerTable * d + i /\ 0 <= i /\ i < PerTable
  BY <1>1, Bounds
<1>3. d < PerTable
  <2> SUFFICES ASSUME d >= PerTable PROVE FALSE
    BY <1>2, Bounds
  <2>1. PerTable * d >= PerTable * PerTable
    BY <1>2, Bounds
  <2> QED
    BY <1>1, <1>2, <2>1, Bounds
<1>4. d >= 0
  <2> SUFFICES ASSUME d <= -1 PROVE FALSE
    BY <1>2
  <2>1. PerTable * d <= PerTable * (-1)
    BY <1>2, Bounds
  <2> QED
    BY <1>1, <1>2, <2>1, Bounds
<1> QED
  BY <1>2, <1>3, <1>4, Bounds DEF Dir, Index, Slots

(* And every place of every table is a page.                                              *)
LEMMA PlaceIs ==
  ASSUME NEW d \in Slots, NEW i \in Slots
  PROVE  d * PerTable + i \in Pages /\ Dir(d * PerTable + i) = d /\ Index(d * PerTable + i) = i
<1>1. d \in Int /\ 0 <= d /\ d <= PerTable - 1 /\ i \in Int /\ 0 <= i /\ i < PerTable
  BY Bounds DEF Slots
<1>2. d * PerTable >= 0 /\ d * PerTable <= (PerTable - 1) * PerTable
  BY <1>1, Bounds
<1>3. (PerTable - 1) * PerTable = PerTable * PerTable - PerTable
  BY Bounds
<1>4. d * PerTable + i \in Pages
  BY <1>1, <1>2, <1>3, Bounds DEF Pages, NPages
<1>5. (d * PerTable + i) \div PerTable = d /\ (d * PerTable + i) % PerTable = i
  BY <1>1, Bounds
<1> QED
  BY <1>4, <1>5 DEF Dir, Index

(* Pages with the same place are the same.                                                *)
LEMMA PlaceUnique ==
  ASSUME NEW p \in Pages, NEW q \in Pages, Dir(p) = Dir(q), Index(p) = Index(q)
  PROVE  p = q
BY DivMod

(* The next page is in the next slot, or at the start of the next table.                  *)
LEMMA NextPlace ==
  ASSUME NEW p \in Pages, p + 1 \in Pages
  PROVE  IF Index(p) = PerTable - 1 THEN Index(p + 1) = 0
         ELSE Dir(p + 1) = Dir(p) /\ Index(p + 1) = Index(p) + 1
<1>1. Dir(p) \in Slots /\ Index(p) \in Slots /\ p = Dir(p) * PerTable + Index(p)
  BY DivMod
<1>2. CASE Index(p) = PerTable - 1
  <2>1. p + 1 = (Dir(p) + 1) * PerTable
    BY <1>1, <1>2, Bounds DEF Slots
  <2>2. ASSUME NEW d \in Int, NEW i \in 0 .. PerTable - 1 PROVE (d * PerTable + i) % PerTable = i
    BY Bounds
  <2>3. (p + 1) % PerTable = 0
    <3>1. Dir(p) + 1 \in Int /\ 0 \in 0 .. PerTable - 1 /\ p + 1 = (Dir(p) + 1) * PerTable + 0
      BY <1>1, <2>1, Bounds DEF Slots
    <3> QED
      BY ONLY <3>1, <2>2
  <2> QED
    BY <1>2, <2>3 DEF Index
<1>3. CASE Index(p) # PerTable - 1
  <2>1. Index(p) + 1 \in Slots /\ p + 1 = Dir(p) * PerTable + (Index(p) + 1)
    BY <1>1, <1>3, Bounds DEF Slots
  <2> QED
    BY <1>1, <1>3, <2>1, PlaceIs
<1> QED
  BY <1>2, <1>3

(* What is found at a page. *)

(* A place of the root that is taken leads to a table, which no other place owns.         *)
LEMMA TableIs ==
  ASSUME NEW s, NEW K, NEW G, NEW I, Owned(s, K, G, I), NEW p \in Pages, HasTable(s, p)
  PROVE  /\ Table(s, p) \in Frames /\ K[Table(s, p)] = "table"
         /\ G[Table(s, p)] = Root(s) /\ I[Table(s, p)] = Dir(p)
<1>1. Dir(p) \in Slots
  BY DivMod
<1>2. DirEntry(s, p) = s.ram[Root(s)][Dir(p)] /\ Valid(DirEntry(s, p))
  BY DEF HasTable, DirEntry
<1>3. DirEntry(s, p) # Zero
  BY <1>2, WordsAre
<1>4. Points(s, DirEntry(s, p), K, G, I, "table", Root(s), Dir(p))
  BY <1>1, <1>2, <1>3 DEF Owned, RootWords
<1>5. FindHostPage(s, DirEntry(s, p)) \in Frames
  BY <1>4, HostIn DEF Owned, Points
<1> QED
  BY <1>4, <1>5 DEF Points, Table

(* A place of the root without a table reads zero.                                        *)
LEMMA NoTable ==
  ASSUME NEW s, NEW K, NEW G, NEW I, Owned(s, K, G, I), NEW p \in Pages
  PROVE  HasTable(s, p) \/ DirEntry(s, p) = Zero
<1>1. Dir(p) \in Slots
  BY DivMod
<1> QED
  BY <1>1, WordsAre DEF HasTable, DirEntry, Owned, RootWords

(* The walk of FindPageTableEntry yields zero or an entry; a frame the entry names is     *)
(* owned by it.                                                                           *)
LEMMA PteFound ==
  ASSUME NEW s, NEW K, NEW G, NEW I, Owned(s, K, G, I), NEW p \in Pages
  PROVE  /\ LoadPte(s, p) \in Words
         /\ \/ LoadPte(s, p) = Zero
            \/ LoadPte(s, p) \in Ptes /\ HasTable(s, p) /\ Backed(s, LoadPte(s, p), K, G, I, Table(s, p), Index(p))
<1>1. Index(p) \in Slots
  BY DivMod
<1>2. CASE HasTable(s, p)
  <2>1. Table(s, p) \in Frames /\ K[Table(s, p)] = "table"
    BY <1>2, TableIs
  <2>2. LoadPte(s, p) = s.ram[Table(s, p)][Index(p)]
    BY <1>2 DEF LoadPte
  <2> QED
    BY <1>1, <1>2, <2>1, <2>2, WordsAre DEF Owned, TableWords
<1>3. CASE ~HasTable(s, p)
  BY <1>3, WordsAre DEF LoadPte
<1> QED
  BY <1>2, <1>3

(* Two places of the root never share a table.                                            *)
LEMMA TablesApart ==
  ASSUME NEW s, NEW K, NEW G, NEW I, Owned(s, K, G, I), NEW p \in Pages, NEW q \in Pages,
         HasTable(s, p), HasTable(s, q), Table(s, p) = Table(s, q)
  PROVE  Dir(p) = Dir(q)
BY TableIs

(* Pages with the same place in the root are looked up in the same table.                 *)
LEMMA SameTable ==
  ASSUME NEW s, NEW p, NEW q, Dir(p) = Dir(q)
  PROVE  DirEntry(s, p) = DirEntry(s, q) /\ (HasTable(s, p) <=> HasTable(s, q)) /\ Table(s, p) = Table(s, q)
BY DEF DirEntry, HasTable, Table

(* The walk to a page reads one word of the root and one of a table: where these stay, so *)
(* does what it yields.                                                                   *)
LEMMA LoadStays ==
  ASSUME NEW s, NEW t, NEW K, NEW G, NEW I, Owned(s, K, G, I), NEW p \in Pages,
         t.cr3 = s.cr3, Len(s.hostpages) <= Len(t.hostpages), Len(t.hostpages) \in Nat,
         \A i \in 1 .. Len(s.hostpages) : t.hostpages[i] = s.hostpages[i],
         t.ram[Root(s)][Dir(p)] = s.ram[Root(s)][Dir(p)],
         HasTable(s, p) => t.ram[Table(s, p)][Index(p)] = s.ram[Table(s, p)][Index(p)]
  PROVE  /\ LoadPte(t, p) = LoadPte(s, p) /\ (HasTable(t, p) <=> HasTable(s, p))
         /\ Root(t) = Root(s)
         /\ HasTable(s, p) => Table(t, p) = Table(s, p)
<1>1. Root(t) = Root(s)
  BY DEF Root, Owned, Typed
<1>2. DirEntry(t, p) = DirEntry(s, p)
  BY <1>1 DEF DirEntry
<1>3. HasTable(t, p) <=> HasTable(s, p)
  BY <1>2 DEF HasTable
<1>4. ASSUME HasTable(s, p) PROVE Table(t, p) = Table(s, p)
  <2>1. Dir(p) \in Slots /\ DirEntry(s, p) # Zero
    BY <1>4, DivMod, WordsAre DEF HasTable
  <2>2. DirEntry(s, p).hp \in 0 .. Len(s.hostpages) - 1
    BY <2>1 DEF Owned, RootWords, Points, DirEntry
  <2>3. DirEntry(s, p).hp + 1 \in 1 .. Len(s.hostpages)
    BY <2>2, HostIn DEF Owned
  <2> QED
    BY <1>2, <2>3 DEF Table, FindHostPage
<1> QED
  BY <1>1, <1>3, <1>4 DEF LoadPte

(* What the primitives do to the books of frames and to the page tables. *)

Becomes(s, t, ram, hostpages, free, next) ==
    /\ t.ram = ram /\ t.hostpages = hostpages /\ t.free = free
    /\ t.next = next /\ t.cap = s.cap /\ t.cr3 = s.cr3
Longer(s, t) ==
    /\ Len(s.hostpages) <= Len(t.hostpages)
    /\ \A i \in 1 .. Len(s.hostpages) : t.hostpages[i] = s.hostpages[i]
SameTables(s, t) ==
    /\ Root(t) = Root(s)
    /\ \A p \in Pages : (HasTable(t, p) <=> HasTable(s, p)) /\ (HasTable(s, p) => Table(t, p) = Table(s, p))
SamePtes(s, t) == \A p \in Pages : LoadPte(t, p) = LoadPte(s, p)

(* Tracking frames only adds at the end of g_hostpages, so an index already handed out    *)
(* keeps its frame.                                                                       *)
LEMMA LongerIs ==
  ASSUME NEW s, NEW t, Longer(s, t), NEW w, w.hp \in 0 .. Len(s.hostpages) - 1, Len(s.hostpages) \in Nat
  PROVE  FindHostPage(t, w) = FindHostPage(s, w)
BY DEF Longer, FindHostPage

(* The same over two steps.                                                               *)
LEMMA LongerTrans ==
  ASSUME NEW s, NEW t, NEW u, Longer(s, t), Longer(t, u), Len(s.hostpages) \in Nat, Len(t.hostpages) \in Nat,
         Len(u.hostpages) \in Nat
  PROVE  Longer(s, u)
BY DEF Longer

(* A store to a page of the guest, or to a frame nobody owns, changes no table and no     *)
(* owner.                                                                                 *)
LEMMA WriteData ==
  ASSUME NEW s, NEW t, NEW K, NEW G, NEW I, Owned(s, K, G, I), NEW f \in Frames, K[f] \in {"page", "none"},
         NEW frame \in [Slots -> Words],
         Becomes(s, t, [s.ram EXCEPT ![f] = frame], s.hostpages, s.free, s.next)
  PROVE  Owned(t, K, G, I) /\ SameTables(s, t) /\ SamePtes(s, t) /\ Longer(s, t)
<1>1. Root(t) = Root(s) /\ \A w : FindHostPage(t, w) = FindHostPage(s, w)
  BY DEF Becomes, Root, FindHostPage
<1>2. s.ram \in [Frames -> [Slots -> Words]] /\ Root(s) \in Frames /\ K[Root(s)] = "root"
  BY RootIn DEF Owned, Typed, RootWords
<1>3. t.ram \in [Frames -> [Slots -> Words]] /\ \A g \in Frames : g # f => t.ram[g] = s.ram[g]
  BY <1>2 DEF Becomes
<1>4. Root(s) # f /\ t.ram[Root(s)] = s.ram[Root(s)]
  BY <1>2, <1>3
<1>5. Typed(t)
  BY <1>3 DEF Becomes, Owned, Typed
<1>6. RootWords(t, K, G, I)
  BY <1>1, <1>4 DEF Becomes, Owned, RootWords, Points
<1>7. TableWords(t, K, G, I)
  <2> SUFFICES ASSUME NEW g \in Frames, NEW i \in Slots, K[g] = "table"
               PROVE  t.ram[g][i] = Zero \/ (t.ram[g][i] \in Ptes /\ Backed(t, t.ram[g][i], K, G, I, g, i))
    BY DEF TableWords
  <2>1. g # f /\ t.ram[g][i] = s.ram[g][i]
    BY <1>3
  <2> QED
    BY <1>1, <2>1 DEF Becomes, Owned, TableWords, Backed, Points
<1>8. FreeFrames(t, K) /\ Clean(t, K) /\ Fresh(t, K)
  BY <1>3 DEF Becomes, Owned, FreeFrames, Clean, Fresh
<1>9. Owned(t, K, G, I)
  BY <1>5, <1>6, <1>7, <1>8 DEF Owned
<1>10. Longer(s, t) /\ Len(t.hostpages) \in Nat
  BY DEF Becomes, Owned, Typed, Longer
<1>11. SameTables(s, t) /\ SamePtes(s, t)
  <2> SUFFICES ASSUME NEW p \in Pages
               PROVE  /\ LoadPte(t, p) = LoadPte(s, p) /\ (HasTable(t, p) <=> HasTable(s, p))
                      /\ HasTable(s, p) => Table(t, p) = Table(s, p)
    BY <1>1 DEF SameTables, SamePtes
  <2>1. HasTable(s, p) => t.ram[Table(s, p)][Index(p)] = s.ram[Table(s, p)][Index(p)]
    BY <1>3, TableIs
  <2> QED
    BY <2>1, <1>4, <1>10, LoadStays DEF Becomes, Longer
<1> QED
  BY <1>9, <1>10, <1>11

(* Frames that change hands outside the tables: pages, tables and root keep their owners, *)
(* and what becomes free or new is clear.                                                 *)
LEMMA Rebook ==
  ASSUME NEW s, NEW t, NEW K, NEW G, NEW I, NEW L, Owned(s, K, G, I),
         Becomes(s, t, s.ram, t.hostpages, t.free, t.next),
         t.hostpages \in Seq(Frames), t.free \in Seq(Frames), t.next \in 0 .. PoolSize, Longer(s, t),
         \A f \in Frames : /\ K[f] \in {"root", "table", "page"} => L[f] = K[f]
                           /\ L[f] \in {"root", "table", "page"} => L[f] = K[f]
                           /\ L[f] \in {"free", "new"} => s.ram[f] = ZeroFrame,
         FreeFrames(t, L), Fresh(t, L)
  PROVE  Owned(t, L, G, I) /\ SameTables(s, t) /\ SamePtes(s, t)
<1>0. Typed(s) /\ Len(s.hostpages) \in Nat /\ Len(t.hostpages) \in Nat /\ Len(s.hostpages) > 0
  BY DEF Owned, Typed
<1>1. Root(t) = Root(s) /\ Root(s) \in Frames
  BY <1>0, RootIn DEF Longer, Becomes, Root, Typed
<1>2. ASSUME NEW w, NEW kind \in {"table", "page"}, NEW g, NEW i, Points(s, w, K, G, I, kind, g, i)
      PROVE  Points(t, w, L, G, I, kind, g, i)
  <2>1. FindHostPage(s, w) \in Frames /\ FindHostPage(t, w) = FindHostPage(s, w)
    BY <1>0, <1>2, HostIn, LongerIs DEF Points
  <2> QED
    BY <1>0, <1>2, <2>1 DEF Points, Longer
<1>3. Typed(t)
  BY <1>0 DEF Becomes, Longer, Typed
<1>4. RootWords(t, L, G, I)
  BY <1>1, <1>2 DEF Becomes, Owned, RootWords
<1>5. TableWords(t, L, G, I)
  <2> SUFFICES ASSUME NEW g \in Frames, NEW i \in Slots, L[g] = "table"
               PROVE  t.ram[g][i] = Zero \/ (t.ram[g][i] \in Ptes /\ Backed(t, t.ram[g][i], L, G, I, g, i))
    BY DEF TableWords
  <2>1. K[g] = "table" /\ t.ram[g][i] = s.ram[g][i]
    BY DEF Becomes
  <2>2. s.ram[g][i] = Zero \/ (s.ram[g][i] \in Ptes /\ Backed(s, s.ram[g][i], K, G, I, g, i))
    BY <2>1 DEF Owned, TableWords
  <2> QED
    BY <1>2, <2>1, <2>2 DEF Backed
<1>6. Clean(t, L)
  BY DEF Becomes, Clean
<1>7. Owned(t, L, G, I)
  BY <1>3, <1>4, <1>5, <1>6 DEF Owned
<1>8. SameTables(s, t) /\ SamePtes(s, t)
  <2> SUFFICES ASSUME NEW p \in Pages
               PROVE  /\ LoadPte(t, p) = LoadPte(s, p) /\ (HasTable(t, p) <=> HasTable(s, p))
                      /\ HasTable(s, p) => Table(t, p) = Table(s, p)
    BY <1>1 DEF SameTables, SamePtes
  <2> QED
    BY <1>0, LoadStays DEF Becomes, Longer
<1> QED
  BY <1>7, <1>8

(* FreeAnonymousPage: a frame nobody owns, and that is clear, joins the free list.        *)
LEMMA GiveBack ==
  ASSUME NEW s, NEW t, NEW K, NEW G, NEW I, Owned(s, K, G, I), NEW f \in Frames, K[f] = "none",
         s.ram[f] = ZeroFrame, Becomes(s, t, s.ram, s.hostpages, <<f>> \o s.free, s.next)
  PROVE  Owned(t, [g \in Frames |-> IF g = f THEN "free" ELSE K[g]], G, I) /\ SameTables(s, t) /\ SamePtes(s, t)
         /\ Longer(s, t)
<1> DEFINE L == [g \in Frames |-> IF g = f THEN "free" ELSE K[g]]
<1>1. s.free \in Seq(Frames) /\ s.hostpages \in Seq(Frames) /\ s.next \in 0 .. PoolSize
  BY DEF Owned, Typed
<1>2. /\ t.free \in Seq(Frames) /\ Len(t.free) = Len(s.free) + 1 /\ t.free[1] = f
      /\ \A i \in 2 .. Len(t.free) : t.free[i] = s.free[i - 1] /\ i - 1 \in 1 .. Len(s.free)
  BY <1>1 DEF Becomes
<1>3. \A i \in 1 .. Len(s.free) : s.free[i] # f /\ s.free[i] \in Frames
  BY <1>1 DEF Owned, FreeFrames
<1>4. FreeFrames(t, L)
  <2>1. L[f] = "free" /\ \A g \in Frames : g # f => L[g] = K[g]
    OBVIOUS
  <2>2. /\ \A i \in 1 .. Len(s.free) : K[s.free[i]] = "free"
        /\ \A i, j \in 1 .. Len(s.free) : s.free[i] = s.free[j] => i = j
    BY DEF Owned, FreeFrames
  <2>3. \A i \in 1 .. Len(t.free) : i = 1 \/ i \in 2 .. Len(t.free)
    BY <1>1, <1>2
  <2> HIDE DEF L
  <2>4. \A i \in 1 .. Len(t.free) : L[t.free[i]] = "free"
    BY <1>2, <1>3, <2>1, <2>2, <2>3
  <2>5. ASSUME NEW i \in 1 .. Len(t.free), NEW j \in 1 .. Len(t.free), t.free[i] = t.free[j] PROVE i = j
    <3>1. CASE i = 1 /\ j = 1
      BY <3>1
    <3>2. CASE i = 1 /\ j # 1
      BY <3>2, <2>3, <2>5, <1>2, <1>3
    <3>3. CASE i # 1 /\ j = 1
      BY <3>3, <2>3, <2>5, <1>2, <1>3
    <3>4. CASE i # 1 /\ j # 1
      <4>1. i - 1 \in 1 .. Len(s.free) /\ j - 1 \in 1 .. Len(s.free) /\ s.free[i - 1] = s.free[j - 1]
        BY <3>4, <2>3, <2>5, <1>2
      <4>2. i - 1 = j - 1
        BY <4>1, <2>2
      <4> QED
        BY <4>2
    <3> QED
      BY <3>1, <3>2, <3>3, <3>4
  <2> QED
    BY <2>4, <2>5 DEF FreeFrames
<1>5. Fresh(t, L)
  BY DEF Owned, Fresh, Becomes
<1>6. \A g \in Frames : L[g] \in {"free", "new"} => s.ram[g] = ZeroFrame
  BY DEF Owned, Clean
<1>7. Longer(s, t)
  BY <1>1 DEF Longer, Becomes
<1>8. \A g \in Frames : /\ K[g] \in {"root", "table", "page"} => L[g] = K[g]
                        /\ L[g] \in {"root", "table", "page"} => L[g] = K[g]
                        /\ L[g] \in {"free", "new"} => s.ram[g] = ZeroFrame
  BY <1>6
<1> HIDE DEF L
<1>0. Becomes(s, t, s.ram, t.hostpages, t.free, t.next) /\ t.hostpages \in Seq(Frames) /\ t.next \in 0 .. PoolSize
  BY <1>1 DEF Becomes
<1>9. Owned(t, L, G, I) /\ SameTables(s, t) /\ SamePtes(s, t)
  BY <1>0, <1>2, <1>4, <1>5, <1>7, <1>8, Rebook
<1> QED
  BY <1>7, <1>9 DEF L

\* A frame f is handed out and tracked.
Taken(s, t, K, L, f) ==
    /\ f \in Frames /\ L[f] = "none" /\ s.ram[f] = ZeroFrame /\ K[f] \in {"free", "new"}
    /\ t.hostpages = Append(s.hostpages, f) /\ t.ram = s.ram
    /\ \A g \in Frames : K[g] \in {"root", "table", "page", "none"} => L[g] = K[g]

(* TrackHostPage adds one frame at the end.                                               *)
LEMMA LongerByOne ==
  ASSUME NEW s, NEW t, NEW f \in Frames, s.hostpages \in Seq(Frames), t.hostpages = Append(s.hostpages, f)
  PROVE  /\ Longer(s, t) /\ t.hostpages \in Seq(Frames) /\ Len(t.hostpages) = Len(s.hostpages) + 1
         /\ t.hostpages[Len(t.hostpages)] = f
BY DEF Longer

(* AllocateAnonymousPage with a free list: its head is handed out and tracked.            *)
LEMMA TakeFree ==
  ASSUME NEW s, NEW t, NEW K, NEW G, NEW I, Owned(s, K, G, I), s.free # <<>>,
         Becomes(s, t, s.ram, Append(s.hostpages, Head(s.free)), Tail(s.free), s.next)
  PROVE  \E L : Taken(s, t, K, L, Head(s.free)) /\ Owned(t, L, G, I) /\ SameTables(s, t) /\ SamePtes(s, t)
<1> DEFINE f == Head(s.free)
           L == [g \in Frames |-> IF g = f THEN "none" ELSE K[g]]
<1>1. s.free \in Seq(Frames) /\ s.hostpages \in Seq(Frames) /\ s.next \in 0 .. PoolSize
  BY DEF Owned, Typed
<1>2. Len(s.free) \in Nat /\ Len(s.free) > 0 /\ f = s.free[1] /\ f \in Frames
  BY <1>1
<1>3. /\ t.free \in Seq(Frames) /\ Len(t.free) = Len(s.free) - 1
      /\ \A i \in 1 .. Len(t.free) : t.free[i] = s.free[i + 1] /\ i + 1 \in 2 .. Len(s.free)
  BY <1>1, <1>2 DEF Becomes
<1>4. K[f] = "free" /\ s.ram[f] = ZeroFrame
  BY <1>2 DEF Owned, FreeFrames, Clean
<1>5. Longer(s, t) /\ t.hostpages \in Seq(Frames) /\ t.hostpages = Append(s.hostpages, f)
  BY <1>1, <1>2, LongerByOne DEF Becomes
<1>6. L[f] = "none" /\ \A g \in Frames : g # f => L[g] = K[g]
  BY <1>2
<1> HIDE DEF L, f
<1>7. FreeFrames(t, L)
  <2>1. /\ \A i \in 1 .. Len(s.free) : K[s.free[i]] = "free"
        /\ \A i, j \in 1 .. Len(s.free) : s.free[i] = s.free[j] => i = j
    BY DEF Owned, FreeFrames
  <2>2. ASSUME NEW i \in 1 .. Len(t.free) PROVE t.free[i] \in Frames /\ t.free[i] # f
    <3>1. i + 1 \in 1 .. Len(s.free) /\ 1 \in 1 .. Len(s.free) /\ i + 1 # 1 /\ t.free[i] = s.free[i + 1]
      BY <1>2, <1>3
    <3> QED
      BY <1>1, <1>2, <2>1, <3>1
  <2>3. \A i \in 1 .. Len(t.free) : L[t.free[i]] = "free"
    BY <1>2, <1>3, <1>6, <2>1, <2>2
  <2>4. ASSUME NEW i \in 1 .. Len(t.free), NEW j \in 1 .. Len(t.free), t.free[i] = t.free[j] PROVE i = j
    <3>1. i + 1 \in 1 .. Len(s.free) /\ j + 1 \in 1 .. Len(s.free) /\ s.free[i + 1] = s.free[j + 1]
      BY <1>2, <1>3, <2>4
    <3>2. i + 1 = j + 1
      BY <2>1, <3>1
    <3> QED
      BY <3>2, <1>2, <1>3
  <2> QED
    BY <2>3, <2>4 DEF FreeFrames
<1>8. Fresh(t, L)
  BY <1>4, <1>6 DEF Owned, Fresh, Becomes
<1>9. \A g \in Frames : /\ K[g] \in {"root", "table", "page"} => L[g] = K[g]
                        /\ L[g] \in {"root", "table", "page"} => L[g] = K[g]
                        /\ L[g] \in {"free", "new"} => s.ram[g] = ZeroFrame
  BY <1>4, <1>6 DEF Owned, Clean
<1>10. Becomes(s, t, s.ram, t.hostpages, t.free, t.next) /\ t.next \in 0 .. PoolSize
  BY <1>1 DEF Becomes
<1>11. Owned(t, L, G, I) /\ SameTables(s, t) /\ SamePtes(s, t)
  BY <1>3, <1>5, <1>7, <1>8, <1>9, <1>10, Rebook
<1>12. Taken(s, t, K, L, f)
  BY <1>2, <1>4, <1>5, <1>6 DEF Taken, Becomes
<1> QED
  BY <1>11, <1>12 DEF f

(* AllocateAnonymousPage with an empty list, or AllocateBig: fresh frames of the pool, of *)
(* which one is handed out and the rest of a chunk is listed as free.                     *)
LEMMA TakeNew ==
  ASSUME NEW s, NEW t, NEW K, NEW G, NEW I, Owned(s, K, G, I), NEW n \in Nat, n >= 1, s.next + n <= PoolSize,
         NEW free,
         \/ n = 1 /\ free = s.free
         \/ n = Chunk /\ s.free = <<>> /\ free = ChunkRest(s.next),
         Becomes(s, t, s.ram, Append(s.hostpages, s.next), free, s.next + n)
  PROVE  \E L : Taken(s, t, K, L, s.next) /\ Owned(t, L, G, I) /\ SameTables(s, t) /\ SamePtes(s, t)
<1> DEFINE f == s.next
           L == [g \in Frames |-> IF g = f THEN "none" ELSE IF f < g /\ g < f + n THEN "free" ELSE K[g]]
<1>1. s.free \in Seq(Frames) /\ s.hostpages \in Seq(Frames) /\ f \in 0 .. PoolSize
  BY DEF Owned, Typed
<1>2. f \in Frames /\ \A g \in Int : f <= g /\ g < f + n => g \in Frames
  BY <1>1, Bounds DEF Frames
<1>3. \A g \in Frames : f <= g => K[g] = "new"
  BY DEF Owned, Fresh
<1>4. \A g \in Frames : f <= g => s.ram[g] = ZeroFrame
  BY <1>3 DEF Owned, Clean
<1>5. Longer(s, t) /\ t.hostpages \in Seq(Frames) /\ t.hostpages = Append(s.hostpages, f)
  BY <1>1, <1>2, LongerByOne DEF Becomes
<1>6. \A g \in Frames : K[g] # "new" => g < f
  BY <1>1, <1>3 DEF Frames
<1>7. /\ L[f] = "none" /\ \A g \in Frames : g < f \/ f + n <= g => L[g] = K[g]
      /\ \A g \in Frames : f < g /\ g < f + n => L[g] = "free"
      /\ \A g \in Frames : g < f \/ g = f \/ (f < g /\ g < f + n) \/ f + n <= g
  <2>1. L[f] = "none"
    BY <1>2
  <2>2. ASSUME NEW g \in Frames, g < f \/ f + n <= g PROVE L[g] = K[g]
    BY <2>2, <1>1 DEF Frames
  <2>3. ASSUME NEW g \in Frames, f < g /\ g < f + n PROVE L[g] = "free"
    BY <2>3, <1>1 DEF Frames
  <2>4. \A g \in Frames : g < f \/ g = f \/ (f < g /\ g < f + n) \/ f + n <= g
    BY <1>1 DEF Frames
  <2> QED
    BY <2>1, <2>2, <2>3, <2>4
<1>8. t.free = free /\ t.next = f + n /\ t.ram = s.ram
  BY DEF Becomes
<1> HIDE DEF L, f
<1>9. t.free \in Seq(Frames) /\ FreeFrames(t, L)
  <2>1. CASE n = 1 /\ free = s.free
    <3>1. \A i \in 1 .. Len(s.free) : s.free[i] \in Frames /\ K[s.free[i]] = "free"
      BY <1>1 DEF Owned, FreeFrames
    <3>2. \A i \in 1 .. Len(s.free) : L[s.free[i]] = "free"
      BY <3>1, <1>6, <1>7
    <3> QED
      BY <1>1, <1>8, <2>1, <3>2 DEF Owned, FreeFrames
  <2>2. CASE n = Chunk /\ free = ChunkRest(s.next)
    <3>1. free = [i \in 1 .. Chunk - 1 |-> f + i]
      BY <2>2 DEF ChunkRest, f
    <3>2. \A i \in 1 .. Chunk - 1 : f + i \in Frames /\ f < f + i /\ f + i < f + n
      BY <1>1, <1>2, <2>2, Bounds
    <3>3. free \in Seq(Frames) /\ Len(free) = Chunk - 1
      BY <3>1, <3>2, Bounds
    <3>4. ASSUME NEW i \in 1 .. Len(free) PROVE free[i] = f + i /\ L[free[i]] = "free"
      <4>1. i \in 1 .. Chunk - 1 /\ free[i] = f + i
        BY <3>1, <3>3
      <4>2. f + i \in Frames /\ f < f + i /\ f + i < f + n
        BY <3>2, <4>1
      <4>3. L[f + i] = "free"
        BY <4>2, <1>7
      <4> QED
        BY <4>1, <4>3
    <3>5. \A i, j \in 1 .. Len(free) : free[i] = free[j] => i = j
      BY <3>3, <3>4, <1>1, Bounds
    <3> QED
      BY <1>8, <3>3, <3>4, <3>5 DEF FreeFrames
  <2> QED
    BY <2>1, <2>2
<1>10. Fresh(t, L)
  <2> SUFFICES ASSUME NEW g \in Frames PROVE g >= f + n <=> L[g] = "new"
    BY <1>8 DEF Fresh
  <2>1. g \in Int /\ f \in Int /\ n \in Int /\ n >= 1
    BY <1>1 DEF Frames
  <2> QED
    <3>1. CASE g < f
      BY <3>1, <2>1, <1>7 DEF Owned, Fresh, f
    <3>2. CASE g = f
      BY <3>2, <2>1, <1>7
    <3>3. CASE f < g /\ g < f + n
      BY <3>3, <2>1, <1>7
    <3>4. CASE f + n <= g
      <4>1. L[g] = K[g] /\ f <= g
        BY <3>4, <2>1, <1>7
      <4> QED
        BY <3>4, <4>1, <1>3
    <3> QED
      BY <3>1, <3>2, <3>3, <3>4, <1>7
<1>11. \A g \in Frames : /\ K[g] \in {"root", "table", "page"} => L[g] = K[g]
                         /\ L[g] \in {"root", "table", "page"} => L[g] = K[g]
                         /\ L[g] \in {"free", "new"} => s.ram[g] = ZeroFrame
  <2> SUFFICES ASSUME NEW g \in Frames
               PROVE  /\ K[g] \in {"root", "table", "page"} => L[g] = K[g]
                      /\ L[g] \in {"root", "table", "page"} => L[g] = K[g]
                      /\ L[g] \in {"free", "new"} => s.ram[g] = ZeroFrame
    OBVIOUS
  <2>1. g \in Int /\ f \in Int /\ n \in Int /\ n >= 1
    BY <1>1 DEF Frames
  <2>2. CASE g < f
    BY <2>2, <1>7 DEF Owned, Clean
  <2>3. CASE g = f
    BY <2>1, <2>3, <1>3, <1>4, <1>7
  <2>4. CASE f < g /\ g < f + n
    BY <2>1, <2>4, <1>3, <1>4, <1>7
  <2>5. CASE f + n <= g
    BY <2>1, <2>5, <1>3, <1>4, <1>7
  <2> QED
    BY <1>7, <2>2, <2>3, <2>4, <2>5
<1>12. Becomes(s, t, s.ram, t.hostpages, t.free, t.next) /\ t.next \in 0 .. PoolSize
  <2>1. f + n <= PoolSize
    BY DEF f
  <2> QED
    BY <1>1, <2>1, Bounds DEF Becomes, f
<1>13. Owned(t, L, G, I) /\ SameTables(s, t) /\ SamePtes(s, t)
  BY <1>5, <1>9, <1>10, <1>11, <1>12, Rebook
<1>14. Taken(s, t, K, L, f)
  <2>1. \A g \in Frames : K[g] \in {"root", "table", "page", "none"} => L[g] = K[g]
    BY <1>6, <1>7
  <2>2. f >= f /\ K[f] = "new" /\ s.ram[f] = ZeroFrame
    BY <1>1, <1>2, <1>3, <1>4
  <2> QED
    BY <1>2, <1>5, <1>7, <1>8, <2>1, <2>2 DEF Taken
<1> QED
  BY <1>13, <1>14 DEF f

(* Entries. *)

SetWord(ram, f, i, w) == [ram EXCEPT ![f] = [ram[f] EXCEPT ![i] = w]]

Uses(s, w, f) == w \in Ptes /\ w.hp # NoHost /\ FindHostPage(s, w) = f
\* A word that may replace old: it has no frame, the frame of old, or one that was handed out.
Replaces(s, K, old, w) ==
    w # Zero =>
        /\ w \in Ptes
        /\ IF w.hp = NoHost THEN w.rsrv /\ ~w.mug
           ELSE /\ w.rsrv => w.mug
                /\ w.hp \in 0 .. Len(s.hostpages) - 1
                /\ K[FindHostPage(s, w)] = "none" \/ (old \in Ptes /\ old.hp = w.hp)

\* The frame of old is nobody's, once w has replaced it.
Freed(s, L, old, w) ==
    old \in Ptes /\ old.hp # NoHost /\ ~(w \in Ptes /\ w.hp = old.hp) =>
        old.hp \in 0 .. Len(s.hostpages) - 1 /\ L[FindHostPage(s, old)] = "none"

Good(s) == \E K, G, I : Owned(s, K, G, I)
\* The entry of p is w now, and nothing else has changed.
Replaced(s, t, p, w) ==
    /\ Good(t) /\ SameTables(s, t) /\ Longer(s, t) /\ LoadPte(t, p) = w
    /\ \A q \in Pages : q # p => LoadPte(t, q) = LoadPte(s, q)

(* One entry of a table changes; the frame the old one had, if the new one does not keep  *)
(* it, is then nobody's.                                                                  *)
LEMMA PutPte ==
  ASSUME NEW s, NEW t, NEW K, NEW G, NEW I, Owned(s, K, G, I), NEW p \in Pages, HasTable(s, p),
         NEW w, Replaces(s, K, LoadPte(s, p), w),
         Becomes(s, t, SetWord(s.ram, Table(s, p), Index(p), w), s.hostpages, s.free, s.next)
  PROVE  /\ \E L, H, J : Owned(t, L, H, J) /\ Freed(s, L, LoadPte(s, p), w)
         /\ Replaced(s, t, p, w)
<1> DEFINE T == Table(s, p)
           i == Index(p)
           old == LoadPte(s, p)
           L == [f \in Frames |-> IF Uses(s, w, f) THEN "page" ELSE IF Uses(s, old, f) THEN "none" ELSE K[f]]
           H == [f \in Frames |-> IF Uses(s, w, f) THEN T ELSE G[f]]
           J == [f \in Frames |-> IF Uses(s, w, f) THEN i ELSE I[f]]
<1>1. T \in Frames /\ i \in Slots /\ K[T] = "table" /\ old = s.ram[T][i]
  BY TableIs, DivMod DEF LoadPte
<1>2. Typed(s) /\ s.ram \in [Frames -> [Slots -> Words]] /\ Len(s.hostpages) \in Nat
  BY DEF Owned, Typed
<1>3. old = Zero \/ (old \in Ptes /\ Backed(s, old, K, G, I, T, i))
  BY PteFound
<1>4. w \in Words
  BY WordsAre DEF Replaces
<1>5. /\ t.ram \in [Frames -> [Slots -> Words]] /\ t.ram[T][i] = w
      /\ \A g \in Frames, j \in Slots : g # T \/ j # i => t.ram[g][j] = s.ram[g][j]
      /\ \A g \in Frames : g # T => t.ram[g] = s.ram[g]
  <2>1. t.ram = [s.ram EXCEPT ![T] = [s.ram[T] EXCEPT ![i] = w]]
    BY DEF Becomes, SetWord
  <2> HIDE DEF T, i
  <2>2. [s.ram[T] EXCEPT ![i] = w] \in [Slots -> Words]
    BY <1>1, <1>2, <1>4
  <2> QED
    BY <1>1, <1>2, <2>1, <2>2
<1>6. Root(t) = Root(s) /\ (\A v : FindHostPage(t, v) = FindHostPage(s, v)) /\ Longer(s, t)
      /\ Len(t.hostpages) = Len(s.hostpages) /\ t.cr3 = s.cr3
  BY <1>2 DEF Becomes, Root, FindHostPage, Longer
<1>7. Root(s) \in Frames /\ K[Root(s)] = "root" /\ Root(s) # T
  BY <1>1, <1>2, RootIn DEF Owned, RootWords
\* The frames of the two words.
<1>8. ASSUME NEW f \in Frames, Uses(s, old, f) PROVE K[f] = "page" /\ G[f] = T /\ I[f] = i
  BY <1>3, <1>8, WordsAre DEF Uses, Backed, Points
<1>9. ASSUME NEW f \in Frames, Uses(s, w, f) PROVE K[f] = "none" \/ Uses(s, old, f)
  <2>1. w # Zero /\ w.hp # NoHost /\ FindHostPage(s, w) = f
    BY <1>9, WordsAre DEF Uses
  <2>2. K[f] = "none" \/ (old \in Ptes /\ old.hp = w.hp)
    BY <2>1 DEF Replaces
  <2>3. old.hp = w.hp => FindHostPage(s, old) = FindHostPage(s, w)
    BY DEF FindHostPage
  <2> QED
    BY <2>1, <2>2, <2>3 DEF Uses
<1>10. \A f \in Frames : K[f] \notin {"page", "none"} =>
          L[f] = K[f] /\ H[f] = G[f] /\ J[f] = I[f]
  BY <1>8, <1>9
<1>11. \A f \in Frames : /\ Uses(s, w, f) => L[f] = "page" /\ H[f] = T /\ J[f] = i
                         /\ L[f] \notin {"page", "none"} => L[f] = K[f]
                         /\ Uses(s, old, f) /\ ~Uses(s, w, f) => L[f] = "none"
                         /\ K[f] = "page" /\ ~Uses(s, old, f) => L[f] = "page" /\ H[f] = G[f] /\ J[f] = I[f]
  BY <1>9
<1> HIDE DEF L, H, J, T, i, old
<1>12. Typed(t)
  BY <1>2, <1>5 DEF Becomes, Typed
<1>13. RootWords(t, L, H, J)
  <2>1. L[Root(s)] = "root"
    BY <1>7, <1>10
  <2>2. ASSUME NEW d \in Slots, s.ram[Root(s)][d] # Zero
        PROVE  s.ram[Root(s)][d] \in Ptes /\ Points(t, s.ram[Root(s)][d], L, H, J, "table", Root(s), d)
    <3>1. s.ram[Root(s)][d] \in Ptes /\ Points(s, s.ram[Root(s)][d], K, G, I, "table", Root(s), d)
      BY <2>2 DEF Owned, RootWords
    <3>2. FindHostPage(s, s.ram[Root(s)][d]) \in Frames
      BY <1>2, <3>1, HostIn DEF Points
    <3> QED
      BY <1>6, <1>10, <3>1, <3>2 DEF Points
  <2> QED
    BY <1>5, <1>6, <1>7, <2>1, <2>2 DEF RootWords
<1>14. TableWords(t, L, H, J)
  <2> SUFFICES ASSUME NEW g \in Frames, NEW j \in Slots, L[g] = "table"
               PROVE  t.ram[g][j] = Zero \/ (t.ram[g][j] \in Ptes /\ Backed(t, t.ram[g][j], L, H, J, g, j))
    BY DEF TableWords
  <2>1. K[g] = "table"
    BY <1>11
  <2>2. CASE g = T /\ j = i
    <3>1. t.ram[g][j] = w
      BY <1>5, <2>2
    <3>2. CASE w = Zero
      BY <3>1, <3>2
    <3>3. CASE w # Zero /\ w.hp = NoHost
      BY <3>1, <3>3 DEF Replaces, Backed
    <3>4. CASE w # Zero /\ w.hp # NoHost
      <4>1. w \in Ptes /\ (w.rsrv => w.mug) /\ w.hp \in 0 .. Len(s.hostpages) - 1
        BY <3>4 DEF Replaces
      <4>2. FindHostPage(s, w) \in Frames /\ Uses(s, w, FindHostPage(s, w))
        BY <1>2, <3>4, <4>1, HostIn DEF Uses
      <4>3. Points(t, w, L, H, J, "page", T, i)
        BY <1>6, <1>11, <4>1, <4>2 DEF Points
      <4> QED
        BY <2>2, <3>1, <3>4, <4>1, <4>3 DEF Backed
    <3> QED
      BY <3>2, <3>3, <3>4
  <2>3. CASE g # T \/ j # i
    <3> DEFINE v == s.ram[g][j]
    <3>1. t.ram[g][j] = v
      BY <1>5, <2>3
    <3>2. v = Zero \/ (v \in Ptes /\ Backed(s, v, K, G, I, g, j))
      BY <2>1 DEF Owned, TableWords
    <3> HIDE DEF v
    <3>3. CASE v = Zero
      BY <3>1, <3>3
    <3>4. CASE v \in Ptes /\ v.hp = NoHost /\ Backed(s, v, K, G, I, g, j)
      BY <3>1, <3>4 DEF Backed
    <3>5. CASE v \in Ptes /\ v.hp # NoHost /\ Backed(s, v, K, G, I, g, j)
      <4>1. (v.rsrv => v.mug) /\ Points(s, v, K, G, I, "page", g, j)
        BY <3>5 DEF Backed
      <4>2. FindHostPage(s, v) \in Frames
        BY <1>2, <4>1, HostIn DEF Points
      <4>3. ~Uses(s, old, FindHostPage(s, v))
        BY <1>8, <2>3, <4>1, <4>2 DEF Points
      <4>4. Points(t, v, L, H, J, "page", g, j)
        BY <1>6, <1>11, <4>1, <4>2, <4>3 DEF Points
      <4> QED
        BY <3>1, <3>5, <4>1, <4>4 DEF Backed
    <3> QED
      BY <3>2, <3>3, <3>4, <3>5
  <2> QED
    BY <2>2, <2>3
<1>15. FreeFrames(t, L) /\ Clean(t, L) /\ Fresh(t, L)
  <2>1. \A f \in Frames : K[f] \in {"free", "new"} <=> L[f] \in {"free", "new"}
    BY <1>10, <1>11
  <2>2. FreeFrames(t, L)
    <3>1. s.free \in Seq(Frames) /\ t.free = s.free
      BY <1>2 DEF Typed, Becomes
    <3> QED
      BY <1>10, <3>1 DEF Owned, FreeFrames
  <2>3. Clean(t, L)
    BY <1>1, <1>5, <1>10, <1>11, <2>1 DEF Owned, Clean
  <2>4. Fresh(t, L)
    BY <1>10, <1>11 DEF Owned, Fresh, Becomes
  <2> QED
    BY <2>2, <2>3, <2>4
<1>16. Owned(t, L, H, J)
  BY <1>12, <1>13, <1>14, <1>15 DEF Owned
<1>17. Freed(s, L, old, w)
  <2> SUFFICES ASSUME old \in Ptes, old.hp # NoHost, ~(w \in Ptes /\ w.hp = old.hp)
               PROVE  old.hp \in 0 .. Len(s.hostpages) - 1 /\ L[FindHostPage(s, old)] = "none"
    BY DEF Freed
  <2> DEFINE f == FindHostPage(s, old)
  <2>1. old.hp \in 0 .. Len(s.hostpages) - 1
    BY <1>3, WordsAre DEF Backed, Points
  <2>2. f \in Frames /\ Uses(s, old, f) /\ K[f] = "page"
    BY <1>2, <1>8, <2>1, HostIn DEF Uses
  <2> HIDE DEF f
  <2>3. ~Uses(s, w, f)
    <3> SUFFICES ASSUME Uses(s, w, f) PROVE FALSE
      OBVIOUS
    <3>1. w \in Ptes /\ w # Zero /\ w.hp # NoHost /\ FindHostPage(s, w) = f
      BY WordsAre DEF Uses
    <3>2. K[FindHostPage(s, w)] = "none"
      BY <3>1 DEF Replaces, old
    <3> QED
      BY <2>2, <3>1, <3>2
  <2> QED
    BY <1>11, <2>1, <2>2, <2>3 DEF f
<1>18. ASSUME NEW q \in Pages
       PROVE  /\ (HasTable(t, q) <=> HasTable(s, q)) /\ (HasTable(s, q) => Table(t, q) = Table(s, q))
              /\ q # p => LoadPte(t, q) = LoadPte(s, q)
              /\ LoadPte(t, p) = w
  <2>1. DirEntry(t, q) = DirEntry(s, q) /\ DirEntry(t, p) = DirEntry(s, p)
    BY <1>5, <1>6, <1>7, DivMod DEF DirEntry
  <2>2. (HasTable(t, q) <=> HasTable(s, q)) /\ Table(t, q) = Table(s, q) /\ HasTable(t, p) /\ Table(t, p) = T
    BY <1>6, <2>1 DEF HasTable, Table, T
  <2>3. LoadPte(t, p) = w
    BY <1>5, <2>2 DEF LoadPte, i
  <2>4. ASSUME q # p, HasTable(s, q) PROVE t.ram[Table(s, q)][Index(q)] = s.ram[Table(s, q)][Index(q)]
    <3>1. Table(s, q) \in Frames /\ Index(q) \in Slots
      BY <2>4, TableIs, DivMod
    <3>2. Table(s, q) # T \/ Index(q) # i
      BY <2>4, TablesApart, PlaceUnique DEF T, i
    <3> QED
      BY <1>5, <3>1, <3>2
  <2> QED
    BY <2>2, <2>3, <2>4 DEF LoadPte
<1>19. SameTables(s, t)
  BY <1>6, <1>18 DEF SameTables
<1>20. LoadPte(t, p) = w /\ \A q \in Pages : q # p => LoadPte(t, q) = LoadPte(s, q)
  BY <1>18
<1> QED
  BY <1>6, <1>16, <1>17, <1>19, <1>20 DEF old, Replaced, Good

(* An empty table is entered at a place of the root that had none (ReserveVirtual).       *)
LEMMA LinkDir ==
  ASSUME NEW s, NEW t, NEW K, NEW G, NEW I, Owned(s, K, G, I), NEW p \in Pages, ~HasTable(s, p),
         NEW w \in Ptes, w.hp \in 0 .. Len(s.hostpages) - 1,
         K[FindHostPage(s, w)] = "none", s.ram[FindHostPage(s, w)] = ZeroFrame,
         Becomes(s, t, SetWord(s.ram, Root(s), Dir(p), w), s.hostpages, s.free, s.next)
  PROVE  \E L, H, J :
            /\ Owned(t, L, H, J) /\ SamePtes(s, t) /\ Longer(s, t)
            /\ HasTable(t, p) /\ Table(t, p) = FindHostPage(s, w)
<1> DEFINE T == FindHostPage(s, w)
           d == Dir(p)
           L == [f \in Frames |-> IF f = T THEN "table" ELSE K[f]]
           H == [f \in Frames |-> IF f = T THEN Root(s) ELSE G[f]]
           J == [f \in Frames |-> IF f = T THEN d ELSE I[f]]
<1>1. Typed(s) /\ s.ram \in [Frames -> [Slots -> Words]] /\ Len(s.hostpages) \in Nat
  BY DEF Owned, Typed
<1>2. T \in Frames /\ d \in Slots /\ K[T] = "none" /\ s.ram[T] = ZeroFrame
  BY <1>1, HostIn, DivMod
<1>3. Root(s) \in Frames /\ K[Root(s)] = "root" /\ Root(s) # T
  BY <1>1, <1>2, RootIn DEF Owned, RootWords
<1>4. w \in Words /\ Valid(w) /\ s.ram[Root(s)][d] = Zero
  BY WordsAre, NoTable DEF DirEntry
<1>5. /\ t.ram \in [Frames -> [Slots -> Words]] /\ t.ram[Root(s)][d] = w
      /\ \A j \in Slots : j # d => t.ram[Root(s)][j] = s.ram[Root(s)][j]
      /\ \A g \in Frames : g # Root(s) => t.ram[g] = s.ram[g]
  <2>1. t.ram = [s.ram EXCEPT ![Root(s)] = [s.ram[Root(s)] EXCEPT ![d] = w]]
    BY DEF Becomes, SetWord
  <2> HIDE DEF d
  <2>2. [s.ram[Root(s)] EXCEPT ![d] = w] \in [Slots -> Words]
    BY <1>1, <1>2, <1>3, <1>4
  <2> QED
    BY <1>1, <1>2, <1>3, <2>1, <2>2
<1>6. Root(t) = Root(s) /\ (\A v : FindHostPage(t, v) = FindHostPage(s, v)) /\ Longer(s, t)
      /\ Len(t.hostpages) = Len(s.hostpages) /\ t.cr3 = s.cr3
  BY <1>1 DEF Becomes, Root, FindHostPage, Longer
<1>7. /\ L[T] = "table" /\ H[T] = Root(s) /\ J[T] = d
      /\ \A f \in Frames : f # T => L[f] = K[f] /\ H[f] = G[f] /\ J[f] = I[f]
      /\ \A f \in Frames : K[f] # "none" => L[f] = K[f] /\ H[f] = G[f] /\ J[f] = I[f]
  BY <1>2
<1> HIDE DEF L, H, J, T, d
<1>8. Typed(t)
  BY <1>1, <1>5 DEF Becomes, Typed
<1>9. RootWords(t, L, H, J)
  <2>1. L[Root(s)] = "root"
    BY <1>3, <1>7
  <2>2. ASSUME NEW j \in Slots, j # d, s.ram[Root(s)][j] # Zero
        PROVE  s.ram[Root(s)][j] \in Ptes /\ Points(t, s.ram[Root(s)][j], L, H, J, "table", Root(s), j)
    <3>1. s.ram[Root(s)][j] \in Ptes /\ Points(s, s.ram[Root(s)][j], K, G, I, "table", Root(s), j)
      BY <2>2 DEF Owned, RootWords
    <3>2. FindHostPage(s, s.ram[Root(s)][j]) \in Frames
      BY <1>1, <3>1, HostIn DEF Points
    <3> QED
      BY <1>6, <1>7, <3>1, <3>2 DEF Points
  <2>3. Points(t, w, L, H, J, "table", Root(s), d)
    BY <1>6, <1>7 DEF Points, T
  <2> QED
    BY <1>5, <1>6, <1>3, <2>1, <2>2, <2>3 DEF RootWords
<1>10. TableWords(t, L, H, J)
  <2> SUFFICES ASSUME NEW g \in Frames, NEW j \in Slots, L[g] = "table"
               PROVE  t.ram[g][j] = Zero \/ (t.ram[g][j] \in Ptes /\ Backed(t, t.ram[g][j], L, H, J, g, j))
    BY DEF TableWords
  <2>1. g # Root(s)
    BY <1>3, <1>7
  <2>2. CASE g = T
    BY <1>2, <1>5, <2>1, <2>2, ZeroFrameIs
  <2>3. CASE g # T
    <3> DEFINE v == s.ram[g][j]
    <3>1. t.ram[g][j] = v /\ K[g] = "table"
      BY <1>5, <1>7, <2>1, <2>3
    <3>2. v = Zero \/ (v \in Ptes /\ Backed(s, v, K, G, I, g, j))
      BY <3>1 DEF Owned, TableWords
    <3> HIDE DEF v
    <3>3. ASSUME v.hp # NoHost, Backed(s, v, K, G, I, g, j) PROVE Points(t, v, L, H, J, "page", g, j)
      <4>1. Points(s, v, K, G, I, "page", g, j)
        BY <3>3 DEF Backed
      <4>2. FindHostPage(s, v) \in Frames
        BY <1>1, <4>1, HostIn DEF Points
      <4> QED
        BY <1>6, <1>7, <4>1, <4>2 DEF Points
    <3> QED
      BY <3>1, <3>2, <3>3 DEF Backed
  <2> QED
    BY <2>2, <2>3
<1>11. FreeFrames(t, L) /\ Clean(t, L) /\ Fresh(t, L)
  <2>1. \A f \in Frames : L[f] \in {"free", "new"} => L[f] = K[f] /\ f # Root(s)
    BY <1>3, <1>7
  <2>2. FreeFrames(t, L)
    <3>1. s.free \in Seq(Frames) /\ t.free = s.free
      BY <1>1 DEF Typed, Becomes
    <3> QED
      BY <1>7, <3>1 DEF Owned, FreeFrames
  <2>3. Clean(t, L)
    BY <1>5, <2>1 DEF Owned, Clean
  <2>4. Fresh(t, L)
    BY <1>7, <2>1 DEF Owned, Fresh, Becomes
  <2> QED
    BY <2>2, <2>3, <2>4
<1>12. Owned(t, L, H, J)
  BY <1>8, <1>9, <1>10, <1>11 DEF Owned
<1>13. HasTable(t, p) /\ Table(t, p) = T
  <2>1. DirEntry(t, p) = w
    BY <1>5, <1>6 DEF DirEntry, d
  <2> QED
    BY <1>4, <1>6, <2>1 DEF HasTable, Table, T
<1>14. ASSUME NEW q \in Pages PROVE LoadPte(t, q) = LoadPte(s, q)
  <2>1. Index(q) \in Slots /\ Dir(q) \in Slots
    BY DivMod
  <2>2. CASE Dir(q) = d
    <3>1. ~HasTable(s, q) /\ HasTable(t, q) /\ Table(t, q) = T
      BY <1>13, <2>2, SameTable DEF d
    <3>2. t.ram[T][Index(q)] = Zero
      BY <1>2, <1>3, <1>5, <2>1, ZeroFrameIs
    <3> QED
      BY <3>1, <3>2 DEF LoadPte
  <2>3. CASE Dir(q) # d
    <3>1. DirEntry(t, q) = DirEntry(s, q)
      BY <1>5, <1>6, <2>1, <2>3 DEF DirEntry
    <3>2. (HasTable(t, q) <=> HasTable(s, q)) /\ Table(t, q) = Table(s, q)
      BY <1>6, <3>1 DEF HasTable, Table
    <3>3. HasTable(s, q) => Table(s, q) \in Frames /\ Table(s, q) # Root(s)
      BY <1>3, TableIs
    <3> QED
      BY <1>5, <3>2, <3>3 DEF LoadPte
  <2> QED
    BY <2>2, <2>3
<1>15. SamePtes(s, t)
  BY <1>14 DEF SamePtes
<1> QED
  BY <1>6, <1>12, <1>13, <1>15 DEF T

(* An empty table leaves the root; no entry is lost and its frame is nobody's             *)
(* (RemoveVirtual, FreeEmptyPageTables).                                                  *)
LEMMA UnlinkDir ==
  ASSUME NEW s, NEW t, NEW K, NEW G, NEW I, Owned(s, K, G, I), NEW p \in Pages, HasTable(s, p),
         s.ram[Table(s, p)] = ZeroFrame,
         Becomes(s, t, SetWord(s.ram, Root(s), Dir(p), Zero), s.hostpages, s.free, s.next)
  PROVE  \E L :
            /\ Owned(t, L, G, I) /\ SamePtes(s, t) /\ Longer(s, t)
            /\ L[Table(s, p)] = "none" /\ t.ram[Table(s, p)] = ZeroFrame /\ Table(s, p) \in Frames
<1> DEFINE T == Table(s, p)
           d == Dir(p)
           L == [f \in Frames |-> IF f = T THEN "none" ELSE K[f]]
<1>1. Typed(s) /\ s.ram \in [Frames -> [Slots -> Words]] /\ Len(s.hostpages) \in Nat
  BY DEF Owned, Typed
<1>2. T \in Frames /\ d \in Slots /\ K[T] = "table" /\ G[T] = Root(s) /\ I[T] = d
  BY TableIs, DivMod
<1>3. Root(s) \in Frames /\ K[Root(s)] = "root" /\ Root(s) # T
  BY <1>1, <1>2, RootIn DEF Owned, RootWords
<1>4. s.ram[T] = ZeroFrame
  OBVIOUS
<1>5. /\ t.ram \in [Frames -> [Slots -> Words]] /\ t.ram[Root(s)][d] = Zero
      /\ \A j \in Slots : j # d => t.ram[Root(s)][j] = s.ram[Root(s)][j]
      /\ \A g \in Frames : g # Root(s) => t.ram[g] = s.ram[g]
  <2>1. t.ram = [s.ram EXCEPT ![Root(s)] = [s.ram[Root(s)] EXCEPT ![d] = Zero]]
    BY DEF Becomes, SetWord
  <2> HIDE DEF d
  <2>2. [s.ram[Root(s)] EXCEPT ![d] = Zero] \in [Slots -> Words]
    BY <1>1, <1>2, <1>3, WordsAre
  <2> QED
    BY <1>1, <1>2, <1>3, <2>1, <2>2
<1>6. Root(t) = Root(s) /\ (\A v : FindHostPage(t, v) = FindHostPage(s, v)) /\ Longer(s, t)
      /\ Len(t.hostpages) = Len(s.hostpages) /\ t.cr3 = s.cr3
  BY <1>1 DEF Becomes, Root, FindHostPage, Longer
<1>7. L[T] = "none" /\ \A f \in Frames : f # T => L[f] = K[f]
  BY <1>2
<1> HIDE DEF L, T, d
<1>8. Typed(t)
  BY <1>1, <1>5 DEF Becomes, Typed
<1>9. RootWords(t, L, G, I)
  <2>1. L[Root(s)] = "root"
    BY <1>3, <1>7
  <2>2. ASSUME NEW j \in Slots, j # d, s.ram[Root(s)][j] # Zero
        PROVE  s.ram[Root(s)][j] \in Ptes /\ Points(t, s.ram[Root(s)][j], L, G, I, "table", Root(s), j)
    <3>1. s.ram[Root(s)][j] \in Ptes /\ Points(s, s.ram[Root(s)][j], K, G, I, "table", Root(s), j)
      BY <2>2 DEF Owned, RootWords
    <3>2. FindHostPage(s, s.ram[Root(s)][j]) \in Frames
      BY <1>1, <3>1, HostIn DEF Points
    <3>3. FindHostPage(s, s.ram[Root(s)][j]) # T
      BY <1>2, <2>2, <3>1 DEF Points
    <3> QED
      BY <1>6, <1>7, <3>1, <3>2, <3>3 DEF Points
  <2> QED
    BY <1>5, <1>6, <1>3, <2>1, <2>2 DEF RootWords
<1>10. TableWords(t, L, G, I)
  <2> SUFFICES ASSUME NEW g \in Frames, NEW j \in Slots, L[g] = "table"
               PROVE  t.ram[g][j] = Zero \/ (t.ram[g][j] \in Ptes /\ Backed(t, t.ram[g][j], L, G, I, g, j))
    BY DEF TableWords
  <2>1. g # Root(s) /\ g # T /\ K[g] = "table"
    BY <1>3, <1>7
  <2> DEFINE v == s.ram[g][j]
  <2>2. t.ram[g][j] = v
    BY <1>5, <2>1
  <2>3. v = Zero \/ (v \in Ptes /\ Backed(s, v, K, G, I, g, j))
    BY <2>1 DEF Owned, TableWords
  <2> HIDE DEF v
  <2>4. ASSUME v.hp # NoHost, Backed(s, v, K, G, I, g, j) PROVE Points(t, v, L, G, I, "page", g, j)
    <3>1. Points(s, v, K, G, I, "page", g, j)
      BY <2>4 DEF Backed
    <3>2. FindHostPage(s, v) \in Frames /\ FindHostPage(s, v) # T
      BY <1>1, <1>2, <3>1, HostIn DEF Points
    <3> QED
      BY <1>6, <1>7, <3>1, <3>2 DEF Points
  <2> QED
    BY <2>2, <2>3, <2>4 DEF Backed
<1>11. FreeFrames(t, L) /\ Clean(t, L) /\ Fresh(t, L)
  <2>1. \A f \in Frames : L[f] \in {"free", "new"} => L[f] = K[f] /\ f # Root(s)
    BY <1>3, <1>7
  <2>2. FreeFrames(t, L)
    <3>1. s.free \in Seq(Frames) /\ t.free = s.free
      BY <1>1 DEF Typed, Becomes
    <3>2. \A i \in 1 .. Len(s.free) : s.free[i] \in Frames /\ s.free[i] # T
      BY <1>2, <3>1 DEF Owned, FreeFrames
    <3> QED
      BY <1>7, <3>1, <3>2 DEF Owned, FreeFrames
  <2>3. Clean(t, L)
    BY <1>5, <2>1 DEF Owned, Clean
  <2>4. Fresh(t, L)
    BY <1>2, <1>7, <2>1 DEF Owned, Fresh, Becomes
  <2> QED
    BY <2>2, <2>3, <2>4
<1>12. Owned(t, L, G, I)
  BY <1>8, <1>9, <1>10, <1>11 DEF Owned
<1>13. ASSUME NEW q \in Pages PROVE LoadPte(t, q) = LoadPte(s, q)
  <2>1. Index(q) \in Slots /\ Dir(q) \in Slots
    BY DivMod
  <2>2. CASE Dir(q) = d
    <3>1. HasTable(s, q) /\ Table(s, q) = T
      BY <2>2, SameTable DEF d, T
    <3>2. ~HasTable(t, q)
      BY <1>5, <1>6, <2>2, WordsAre DEF HasTable, DirEntry
    <3>3. s.ram[T][Index(q)] = Zero
      BY <1>4, <2>1, ZeroFrameIs
    <3> QED
      BY <3>1, <3>2, <3>3 DEF LoadPte
  <2>3. CASE Dir(q) # d
    <3>1. DirEntry(t, q) = DirEntry(s, q)
      BY <1>5, <1>6, <2>1, <2>3 DEF DirEntry
    <3>2. (HasTable(t, q) <=> HasTable(s, q)) /\ Table(t, q) = Table(s, q)
      BY <1>6, <3>1 DEF HasTable, Table
    <3>3. HasTable(s, q) => Table(s, q) \in Frames /\ Table(s, q) # Root(s)
      BY <1>3, TableIs
    <3> QED
      BY <1>5, <3>2, <3>3 DEF LoadPte
  <2> QED
    BY <2>2, <2>3
<1>14. SamePtes(s, t)
  BY <1>13 DEF SamePtes
<1> QED
  BY <1>2, <1>3, <1>4, <1>5, <1>6, <1>7, <1>12, <1>14 DEF T

(* The operations on a system, as long as the pool has not moved. *)

Fields == {"ram", "hostpages", "free", "next", "cap", "moved", "cr3", "filemaps", "rss", "vss", "committed",
           "reserved", "tables", "memchurn", "brk", "brkchanged", "automap"}
IsSystem(s) == DOMAIN s = Fields /\ s.moved \in Nat /\ s.brk \in Heap .. Heap + 2 /\ s.automap \in Nat
\* What an operation that leaves all entries alone does.
Quiet(s, t) == Good(t) /\ SamePtes(s, t) /\ Longer(s, t)
Evolves(s, t) == IsSystem(t) /\ t.moved >= s.moved

(* What every good system has, whoever the owners are.                                    *)
LEMMA GoodTypes ==
  ASSUME NEW s, Good(s)
  PROVE  Typed(s) /\ Len(s.hostpages) \in Nat /\ s.next \in Nat /\ s.cap = PoolSize /\ s.next <= PoolSize
BY Bounds DEF Good, Owned, Typed

(* GrowPagePool doubles until the need is met: if it did not double, the need fits.       *)
LEMMA DoubledIs ==
  ASSUME NEW need \in Nat, need <= PoolSize + PoolSize, Doubled(PoolSize, need) = PoolSize
  PROVE  need <= PoolSize
<1> DEFINE S == {PoolSize * 2^k : k \in 0 .. 8}
           Fits(c) == c >= need /\ \A k \in 0 .. 8 : PoolSize * 2^k >= need => c <= PoolSize * 2^k
<1>1. PoolSize \in Nat /\ PoolSize >= 1
  BY Bounds
<1>2. 2^0 = 1 /\ 2^1 = 2
  BY SMT
<1>3. PoolSize \in S /\ PoolSize + PoolSize \in S
  <2>1. PoolSize * 2^0 = PoolSize /\ PoolSize * 2^1 = PoolSize + PoolSize
    BY <1>1, <1>2
  <2>2. 0 \in 0 .. 8 /\ 1 \in 0 .. 8
    OBVIOUS
  <2> QED
    BY <2>1, <2>2
<1>4. ASSUME NEW k \in 0 .. 8, k # 0 PROVE 2^k >= 2 /\ 2^k \in Nat
  <2>1. k = 1 \/ k = 2 \/ k = 3 \/ k = 4 \/ k = 5 \/ k = 6 \/ k = 7 \/ k = 8
    BY <1>4
  <2> DEFINE Two(j) == 2^j >= 2 /\ 2^j \in Nat
  <2>2. Two(1) /\ Two(2) /\ Two(3) /\ Two(4) /\ Two(5) /\ Two(6) /\ Two(7) /\ Two(8)
    BY SMT
  <2>3. Two(k)
    <3> HIDE DEF Two
    <3> QED
      BY <2>1, <2>2
  <2> QED
    BY <2>3
<1>8. \A n \in Nat : n >= 2 => PoolSize * n >= PoolSize * 2
  BY <1>1
<1>5. \E c \in S : Fits(c)
  <2>1. CASE need <= PoolSize
    <3>1. ASSUME NEW k \in 0 .. 8 PROVE PoolSize * 2^k >= PoolSize
      <4>1. CASE k = 0
        BY <1>1, <1>2, <4>1
      <4>2. CASE k # 0
        <5>1. PoolSize * 2^k >= PoolSize * 2
          BY <1>4, <1>8, <4>2
        <5> QED
          BY <1>1, <1>4, <4>2, <5>1
      <4> QED
        BY <4>1, <4>2
    <3> QED
      BY <1>1, <1>3, <2>1, <3>1
  <2>2. CASE ~(need <= PoolSize)
    <3>1. ASSUME NEW k \in 0 .. 8, PoolSize * 2^k >= need PROVE PoolSize + PoolSize <= PoolSize * 2^k
      <4>1. k # 0
        <5> SUFFICES ASSUME k = 0 PROVE FALSE
          OBVIOUS
        <5>1. PoolSize * 2^k = PoolSize
          BY <1>1, <1>2
        <5> QED
          BY <1>1, <2>2, <3>1, <5>1
      <4>2. 2^k >= 2 /\ 2^k \in Nat
        BY <1>4, <4>1
      <4> QED
        BY <1>1, <1>8, <4>2
    <3> QED
      BY <1>3, <3>1
  <2> QED
    BY <2>1, <2>2
<1>6. Doubled(PoolSize, need) = CHOOSE c \in S : Fits(c)
  BY DEF Doubled
<1> HIDE DEF S
<1>7. Fits(Doubled(PoolSize, need))
  BY <1>5, <1>6
<1> QED
  BY <1>7

(* AllocPoolPages takes n frames, and unless the pool moves that is all it does.          *)
LEMMA MovePoolIs ==
  ASSUME NEW s, IsSystem(s), NEW n \in Nat, n <= PoolSize
  PROVE  /\ Evolves(s, AllocPoolPages(s, n))
         /\ AllocPoolPages(s, n).moved = 0 /\ Good(s) =>
                s.next + n <= PoolSize /\ AllocPoolPages(s, n) = [s EXCEPT !.next = @ + n]
<1> DEFINE u == [s EXCEPT !.next = @ + n]
           cap == Doubled(s.cap, s.next + n)
<1>1. AllocPoolPages(s, n) = IF cap = u.cap THEN u ELSE [u EXCEPT !.cap = cap, !.moved = @ + 1]
  BY DEF AllocPoolPages, MovePool
<1>2. DOMAIN u = Fields /\ u.moved = s.moved /\ u.cap = s.cap /\ u.brk = s.brk /\ u.automap = s.automap
  BY DEF IsSystem, Fields
<1> HIDE DEF u
<1>3. Evolves(s, AllocPoolPages(s, n))
  BY <1>1, <1>2 DEF Evolves, IsSystem, Fields
<1>4. ASSUME AllocPoolPages(s, n).moved = 0, Good(s)
      PROVE  s.next + n <= PoolSize /\ AllocPoolPages(s, n) = u
  <2>1. cap = u.cap
    BY <1>1, <1>2, <1>4 DEF IsSystem, Fields
  <2>2. s.next + n \in Nat /\ s.next + n <= PoolSize + PoolSize /\ s.cap = PoolSize
    BY <1>4, GoodTypes, Bounds
  <2> QED
    BY <1>1, <1>2, <2>1, <2>2, DoubledIs
<1> QED
  BY <1>3, <1>4 DEF u

(* Two operations in a row that leave all entries alone do so together.                   *)
LEMMA QuietTrans ==
  ASSUME NEW s, NEW t, NEW u, Good(s), Quiet(s, t), Quiet(t, u)
  PROVE  Quiet(s, u)
<1>1. Longer(s, u)
  BY LongerTrans, GoodTypes DEF Quiet
<1> QED
  BY <1>1 DEF Quiet, SamePtes

(* A change of the counters only leaves all entries alone.                                *)
LEMMA QuietSame ==
  ASSUME NEW s, NEW t, Good(s), Same(s, t)
  PROVE  Quiet(s, t) /\ \A K, G, I : Owned(s, K, G, I) => Owned(t, K, G, I)
<1>1. \A K, G, I : Owned(s, K, G, I) => Owned(t, K, G, I)
  BY OwnedSame
<1>2. Root(t) = Root(s) /\ \A w : FindHostPage(t, w) = FindHostPage(s, w)
  BY DEF Same, Root, FindHostPage
<1>3. \A p : LoadPte(t, p) = LoadPte(s, p)
  BY <1>2 DEF Same, LoadPte, HasTable, Table, DirEntry
<1>4. Longer(s, t)
  BY GoodTypes DEF Same, Longer
<1> QED
  BY <1>1, <1>3, <1>4 DEF Quiet, Good, SamePtes

(* AllocateAnonymousPage hands out a clear frame that nobody owns and tracks it last,     *)
(* unless it moves the pool.                                                              *)
LEMMA AnonymousIs ==
  ASSUME NEW s, IsSystem(s)
  PROVE  /\ Evolves(s, AllocateAnonymousPage(s))
         /\ \A K, G, I : AllocateAnonymousPage(s).moved = 0 /\ Owned(s, K, G, I) =>
                \E f, L : /\ Taken(s, AllocateAnonymousPage(s), K, L, f)
                          /\ Owned(AllocateAnonymousPage(s), L, G, I)
                          /\ SameTables(s, AllocateAnonymousPage(s)) /\ SamePtes(s, AllocateAnonymousPage(s))
<1> DEFINE t == AllocateAnonymousPage(s)
           big == AllocPoolPages(s, Chunk)
<1>1. CASE s.free # <<>>
  <2>1. t = [[s EXCEPT !.free = Tail(@), !.rss = @ + 1] EXCEPT !.hostpages = Append(@, Head(s.free))]
    BY <1>1 DEF AllocateAnonymousPage, TrackHostPage
  <2>2. Becomes(s, t, s.ram, Append(s.hostpages, Head(s.free)), Tail(s.free), s.next) /\ Evolves(s, t)
    BY <2>1 DEF Becomes, Evolves, IsSystem, Fields
  <2> HIDE DEF t
  <2> QED
    BY <1>1, <2>2, TakeFree DEF t
<1>2. CASE s.free = <<>>
  <2>1. t = [[big EXCEPT !.free = ChunkRest(s.next), !.rss = @ + 1] EXCEPT !.hostpages = Append(@, s.next)]
    BY <1>2 DEF AllocateAnonymousPage, TrackHostPage
  <2>2. Chunk \in Nat /\ Chunk <= PoolSize
    BY Bounds
  <2>3. Evolves(s, big) /\ (big.moved = 0 /\ Good(s) =>
                s.next + Chunk <= PoolSize /\ big = [s EXCEPT !.next = @ + Chunk])
    BY <2>2, MovePoolIs
  <2> HIDE DEF t, big
  <2>4. Evolves(s, t) /\ t.moved = big.moved
    BY <2>1, <2>3 DEF Evolves, IsSystem, Fields
  <2>5. ASSUME NEW K, NEW G, NEW I, t.moved = 0, Owned(s, K, G, I)
        PROVE  \E f, L : Taken(s, t, K, L, f) /\ Owned(t, L, G, I) /\ SameTables(s, t) /\ SamePtes(s, t)
    <3>1. Good(s)
      BY <2>5 DEF Good
    <3>2. s.next + Chunk <= PoolSize /\ big = [s EXCEPT !.next = @ + Chunk]
      BY <2>3, <2>4, <2>5, <3>1
    <3>3. Becomes(s, t, s.ram, Append(s.hostpages, s.next), ChunkRest(s.next), s.next + Chunk)
      BY <2>1, <3>2 DEF Becomes, IsSystem, Fields
    <3>4. Chunk \in Nat /\ Chunk >= 1
      BY Bounds
    <3> QED
      BY <1>2, <2>5, <3>2, <3>3, <3>4, TakeNew
  <2> QED
    BY <2>4, <2>5 DEF t
<1> QED
  BY <1>1, <1>2

(* AllocatePageTable does the same and counts a table.                                    *)
LEMMA TableAllocIs ==
  ASSUME NEW s, IsSystem(s)
  PROVE  /\ Evolves(s, AllocatePageTable(s))
         /\ \A K, G, I : AllocatePageTable(s).moved = 0 /\ Owned(s, K, G, I) =>
                \E f, L : /\ Taken(s, AllocatePageTable(s), K, L, f)
                          /\ Owned(AllocatePageTable(s), L, G, I)
                          /\ SamePtes(s, AllocatePageTable(s)) /\ SameTables(s, AllocatePageTable(s))
<1> DEFINE u == AllocateAnonymousPage(s)
           t == AllocatePageTable(s)
<1>1. t = [u EXCEPT !.tables = @ + 1] /\ Evolves(s, u)
  BY AnonymousIs DEF AllocatePageTable
<1> HIDE DEF u, t
<1>2. Same(u, t) /\ Evolves(s, t) /\ t.moved = u.moved
  BY <1>1 DEF Same, Evolves, IsSystem, Fields
<1>3. ASSUME NEW K, NEW G, NEW I, t.moved = 0, Owned(s, K, G, I)
      PROVE  \E f, L : Taken(s, t, K, L, f) /\ Owned(t, L, G, I) /\ SamePtes(s, t) /\ SameTables(s, t)
  <2>1. PICK f, L : Taken(s, u, K, L, f) /\ Owned(u, L, G, I) /\ SameTables(s, u) /\ SamePtes(s, u)
    BY <1>2, <1>3, AnonymousIs DEF u
  <2>2. Taken(s, t, K, L, f)
    BY <1>2, <2>1 DEF Taken, Same
  <2>3. Owned(t, L, G, I) /\ SamePtes(s, t)
    BY <1>2, <2>1, QuietSame DEF Quiet, SamePtes, Good
  <2>4. SameTables(s, t)
    <3>1. Root(t) = Root(u) /\ \A w : FindHostPage(t, w) = FindHostPage(u, w)
      BY <1>2 DEF Same, Root, FindHostPage
    <3>2. \A p : (HasTable(t, p) <=> HasTable(u, p)) /\ Table(t, p) = Table(u, p)
      BY <1>2, <3>1 DEF Same, HasTable, Table, DirEntry
    <3> QED
      BY <2>1, <3>1, <3>2 DEF SameTables
  <2> QED
    BY <2>2, <2>3, <2>4
<1> QED
  BY <1>2, <1>3 DEF t

(* AllocateBig hands out a new frame, tracked last, with what the mapping shows.          *)
LEMMA BigIs ==
  ASSUME NEW s, IsSystem(s), NEW backing
  PROVE  /\ Evolves(s, AllocateBig(s, backing))
         /\ \A K, G, I : AllocateBig(s, backing).moved = 0 /\ Owned(s, K, G, I) =>
                \E f, L : /\ f \in Frames /\ L[f] = "none"
                          /\ AllocateBig(s, backing).hostpages = Append(s.hostpages, f)
                          /\ Owned(AllocateBig(s, backing), L, G, I)
                          /\ SameTables(s, AllocateBig(s, backing)) /\ SamePtes(s, AllocateBig(s, backing))
<1> DEFINE t == AllocateBig(s, backing)
           more == AllocPoolPages(s, 1)
           frame == [ZeroFrame EXCEPT ![0] = Val(IF backing = "file" THEN FileVal ELSE 0)]
           u == [more EXCEPT !.hostpages = Append(@, s.next)]
<1>1. t = [u EXCEPT !.ram = [@ EXCEPT ![s.next] = frame]]
  BY DEF AllocateBig, TrackHostPage
<1>2. Evolves(s, more) /\ (more.moved = 0 /\ Good(s) => s.next + 1 <= PoolSize /\ more = [s EXCEPT !.next = @ + 1])
  BY Bounds, MovePoolIs
<1>3. frame \in [Slots -> Words]
  <2>1. Val(IF backing = "file" THEN FileVal ELSE 0) \in Words
    BY WordsAre DEF FileVal
  <2> QED
    BY <2>1, ZeroFrameIs, Bounds DEF Slots
<1> HIDE DEF more, frame
<1>4. Evolves(s, u) /\ u.moved = more.moved
  BY <1>2 DEF Evolves, IsSystem, Fields
<1> HIDE DEF t
<1>5. Evolves(s, t) /\ t.moved = u.moved
  <2> HIDE DEF u
  <2> QED
    BY <1>1, <1>4 DEF Evolves, IsSystem, Fields
<1>6. ASSUME NEW K, NEW G, NEW I, t.moved = 0, Owned(s, K, G, I)
      PROVE  \E f, L : /\ f \in Frames /\ L[f] = "none" /\ t.hostpages = Append(s.hostpages, f)
                       /\ Owned(t, L, G, I) /\ SameTables(s, t) /\ SamePtes(s, t)
  <2>1. Good(s)
    BY <1>6 DEF Good
  <2>2. s.next + 1 <= PoolSize /\ more = [s EXCEPT !.next = @ + 1]
    BY <1>2, <1>4, <1>5, <1>6, <2>1
  <2>3. Becomes(s, u, s.ram, Append(s.hostpages, s.next), s.free, s.next + 1)
    BY <2>2 DEF Becomes, IsSystem, Fields
  <2> HIDE DEF u
  <2>4. PICK L : Taken(s, u, K, L, s.next) /\ Owned(u, L, G, I) /\ SameTables(s, u) /\ SamePtes(s, u)
    <3>1. 1 \in Nat /\ 1 >= 1 /\ 1 = 1
      OBVIOUS
    <3> QED
      BY <1>6, <2>2, <2>3, <3>1, TakeNew
  <2>5. s.next \in Frames /\ L[s.next] = "none"
    BY <2>4 DEF Taken
  <2>6. Becomes(u, t, [u.ram EXCEPT ![s.next] = frame], u.hostpages, u.free, u.next)
    BY <1>1, <1>4 DEF Becomes, Evolves, IsSystem, Fields
  <2>7. Owned(t, L, G, I) /\ SameTables(u, t) /\ SamePtes(u, t)
    BY <1>3, <2>4, <2>5, <2>6, WriteData
  <2>8. SameTables(s, t) /\ SamePtes(s, t)
    BY <2>4, <2>7 DEF SameTables, SamePtes
  <2>9. t.hostpages = Append(s.hostpages, s.next)
    BY <2>3, <2>6 DEF Becomes
  <2> QED
    BY <2>5, <2>7, <2>8, <2>9
<1> QED
  BY <1>5, <1>6 DEF t

(* Dropping a table never moves the pool.                                                 *)
LEMMA DropMoves ==
  ASSUME NEW s, IsSystem(s), NEW p
  PROVE  IsSystem(DropTable(s, p)) /\ DropTable(s, p).moved = s.moved
BY DEF DropTable, FreePageTable, FreeAnonymousPage, IsSystem, Fields

(* A table without entries is dropped: the end of a table in RemoveVirtual and the step   *)
(* of FreeEmptyPageTables. No entry changes.                                              *)
LEMMA DropIs ==
  ASSUME NEW s, IsSystem(s), NEW p \in Pages, HasTable(s, p)
  PROVE  /\ Evolves(s, DropTable(s, p)) /\ DropTable(s, p).moved = s.moved
         /\ Good(s) /\ s.ram[Table(s, p)] = ZeroFrame => Quiet(s, DropTable(s, p))
<1> DEFINE T == Table(s, p)
           r == Root(s)
           d == Dir(p)
           t == DropTable(s, p)
           ram == SetWord(s.ram, r, d, Zero)
           u == [s EXCEPT !.ram = ram]
<1>1. t = [[[s EXCEPT !.free = <<T>> \o @] EXCEPT !.tables = @ - 1, !.rss = @ - 1]
              EXCEPT !.ram = ram]
  BY DEF DropTable, FreePageTable, FreeAnonymousPage, IsSystem, Fields, SetWord
<1>2. DOMAIN u = Fields
  BY DEF IsSystem, Fields
<1> HIDE DEF T, r, d, t, ram
<1>3. Evolves(s, t) /\ t.moved = s.moved
  BY <1>1 DEF Evolves, IsSystem, Fields
<1>4. ASSUME NEW K, NEW G, NEW I, Owned(s, K, G, I), s.ram[T] = ZeroFrame PROVE Quiet(s, t)
  <2>1. Becomes(s, u, ram, s.hostpages, s.free, s.next)
    BY DEF Becomes, IsSystem, Fields
  <2>2. Becomes(u, t, u.ram, u.hostpages, <<T>> \o u.free, u.next)
    BY <1>1 DEF Becomes, IsSystem, Fields
  <2> HIDE DEF u
  <2>3. PICK L : /\ Owned(u, L, G, I) /\ SamePtes(s, u) /\ Longer(s, u)
                 /\ L[T] = "none" /\ u.ram[T] = ZeroFrame /\ T \in Frames
    BY <1>4, <2>1, UnlinkDir DEF T, r, d, ram
  <2>4. Quiet(s, u)
    BY <2>3 DEF Quiet, Good
  <2>5. Owned(t, [g \in Frames |-> IF g = T THEN "free" ELSE L[g]], G, I) /\ SamePtes(u, t) /\ Longer(u, t)
    BY <2>2, <2>3, GiveBack
  <2>6. Quiet(u, t)
    BY <2>5 DEF Quiet, Good
  <2> QED
    BY <1>4, <2>4, <2>6, QuietTrans DEF Good
<1> QED
  BY <1>3, <1>4 DEF Good, t, T

(* Loops. *)

(* Induction up to n, over a set instead of a predicate.                                  *)
LEMMA Climb ==
  ASSUME NEW n \in Nat, NEW S \in SUBSET (0 .. n), 0 \in S, \A i \in S : i < n => i + 1 \in S
  PROVE  \A i \in 0 .. n : i \in S
<1> SUFFICES ASSUME NEW k \in 0 .. n, k \notin S PROVE FALSE
  OBVIOUS
<1> DEFINE T == S \cap (0 .. k)
           f == [i \in T |-> i + 1]
<1>1. 0 \in T /\ \A i \in T : i < k /\ i + 1 \in T \ {0}
  OBVIOUS
<1>2. IsFiniteSet(T)
  <2>1. IsFiniteSet(0 .. k) /\ T \in SUBSET (0 .. k)
    BY FS_Interval
  <2> QED
    BY <2>1, FS_Subset
<1>3. IsFiniteSet(T \ {0}) /\ Cardinality(T \ {0}) = Cardinality(T) - 1 /\ Cardinality(T) \in Nat
  BY <1>1, <1>2, FS_RemoveElement, FS_CardinalityType
<1>4. f \in [T -> T \ {0}]
  BY <1>1
<1>5. Cardinality(T \ {0}) < Cardinality(T)
  BY <1>3
<1>6. \E x, y \in T : x # y /\ f[x] = f[y]
  <2> HIDE DEF T, f
  <2> QED
    BY <1>2, <1>3, <1>4, <1>5, FS_PigeonHole
<1> QED
  BY <1>6

\* One turn of each loop, for the element x of what it goes through; k is what it does not change.
Turn(way, k, acc, x) ==
    CASE way = "clean"   -> FreeEmptyTable(acc, x)
      [] way = "seen"    -> IF x # acc.at THEN acc
                            ELSE [at |-> IF HasTable(k, x) THEN x + 1 ELSE x + PerTable, pages |-> acc.pages \cup {x}]
      [] way = "find"    -> LET taken == {p \in Seen(k.s, acc, k.n) : Valid(LoadPte(k.s, p))} IN
                            IF acc + k.n > NPages \/ taken = {} THEN acc ELSE Min(taken) + 1
      [] way = "remove"  -> RemoveAtPage(acc, x)
      [] way = "add"     -> AddPage(EnterTable(acc, x), x, k.prot, k.backing, k.file \/ k.backing = "file")
      [] way = "protect" -> StorePte(acc, x, [LoadPte(acc, x) EXCEPT !.prot = k])

\* The first j turns.
Runs(f, way, k, base, seq, j) ==
    /\ DOMAIN f = 0 .. j /\ f[0] = base
    /\ \A i \in 1 .. j : f[i] = Turn(way, k, f[i - 1], seq[i])
Fixed(g, way, k, base, seq) ==
    g = [i \in 0 .. Len(seq) |-> IF i = 0 THEN base ELSE Turn(way, k, g[i - 1], seq[i])]

(* Each loop of the model is a function of the number of turns, and that function exists. *)
LEMMA LoopFixed ==
  ASSUME NEW way, NEW k, NEW base, NEW seq, Len(seq) \in Nat
  PROVE  \E g : Fixed(g, way, k, base, seq)
<1> DEFINE n == Len(seq)
           S == {j \in 0 .. n : \E f : Runs(f, way, k, base, seq, j)}
<1>1. 0 \in S
  <2>1. Runs([i \in 0 .. 0 |-> base], way, k, base, seq, 0)
    BY DEF Runs
  <2> QED
    BY <2>1
<1>2. ASSUME NEW j \in S, j < n PROVE j + 1 \in S
  <2>1. PICK f : Runs(f, way, k, base, seq, j)
    BY <1>2
  <2> DEFINE g == [i \in 0 .. j + 1 |-> IF i <= j THEN f[i] ELSE Turn(way, k, f[j], seq[i])]
  <2>2. DOMAIN g = 0 .. j + 1 /\ g[0] = base
    BY <2>1 DEF Runs
  <2>3. ASSUME NEW i \in 1 .. j + 1 PROVE g[i] = Turn(way, k, g[i - 1], seq[i])
    <3>1. CASE i <= j
      <4>1. i \in 0 .. j + 1 /\ i - 1 \in 0 .. j + 1 /\ i - 1 <= j /\ i \in 1 .. j
        BY <3>1
      <4>2. g[i] = f[i] /\ g[i - 1] = f[i - 1]
        BY <3>1, <4>1
      <4> QED
        BY <2>1, <4>1, <4>2 DEF Runs
    <3>2. CASE i = j + 1
      <4>1. g[i] = Turn(way, k, f[j], seq[i]) /\ g[j] = f[j] /\ i - 1 = j
        BY <3>2
      <4> QED
        BY <4>1
    <3> QED
      BY <3>1, <3>2
  <2>4. Runs(g, way, k, base, seq, j + 1)
    <3> HIDE DEF g
    <3> QED
      BY <2>2, <2>3 DEF Runs
  <2> QED
    BY <2>4, <1>2
<1>3. n \in S
  <2>1. S \in SUBSET (0 .. n) /\ n \in Nat /\ n \in 0 .. n
    OBVIOUS
  <2>2. \A j \in S : j < n => j + 1 \in S
    BY <1>2
  <2> HIDE DEF S, n
  <2>3. \A j \in 0 .. n : j \in S
    BY <1>1, <2>1, <2>2, Climb
  <2> QED
    BY <2>1, <2>3
<1>4. PICK h : Runs(h, way, k, base, seq, n)
  BY <1>3
<1>5. PICK g : g = [i \in 0 .. n |-> h[i]]
  OBVIOUS
<1>6. \A i \in 0 .. n : g[i] = IF i = 0 THEN base ELSE Turn(way, k, g[i - 1], seq[i])
  <2> SUFFICES ASSUME NEW i \in 0 .. n PROVE g[i] = IF i = 0 THEN base ELSE Turn(way, k, g[i - 1], seq[i])
    OBVIOUS
  <2>1. g[i] = h[i]
    BY <1>5
  <2>2. CASE i = 0
    BY <1>4, <2>1, <2>2 DEF Runs
  <2>3. CASE i # 0
    <3>1. i \in 1 .. n /\ i - 1 \in 0 .. n
      BY <2>3
    <3>2. g[i - 1] = h[i - 1]
      BY <1>5, <3>1
    <3> QED
      BY <1>4, <2>1, <2>3, <3>1, <3>2 DEF Runs
  <2> QED
    BY <2>2, <2>3
<1>7. g = [i \in 0 .. n |-> IF i = 0 THEN base ELSE Turn(way, k, g[i - 1], seq[i])]
  BY <1>5, <1>6
<1> QED
  BY <1>7 DEF Fixed

(* The function starts at the base and goes on by one turn.                               *)
LEMMA FixedRuns ==
  ASSUME NEW way, NEW k, NEW base, NEW seq, Len(seq) \in Nat, NEW g, Fixed(g, way, k, base, seq)
  PROVE  Runs(g, way, k, base, seq, Len(seq))
<1> DEFINE n == Len(seq)
<1>1. DOMAIN g = 0 .. n /\ \A i \in 0 .. n : g[i] = IF i = 0 THEN base ELSE Turn(way, k, g[i - 1], seq[i])
  BY ONLY Fixed(g, way, k, base, seq) DEF Fixed
<1>2. 0 \in 0 .. n /\ \A i \in 1 .. n : i \in 0 .. n /\ i # 0
  OBVIOUS
<1> QED
  BY ONLY <1>1, <1>2 DEF Runs

(* The pages of an interval in the order the loops of memorymalloc.c visit them.          *)
LEMMA SpanIs ==
  ASSUME NEW virt \in Int, NEW n \in Nat
  PROVE  Len(Span(virt, n)) = n /\ \A i \in 1 .. n : Span(virt, n)[i] = virt + i - 1
BY DEF Span

(* RemoveVirtual is n turns of RemoveAtPage.                                              *)
LEMMA RemoveRuns ==
  ASSUME NEW s, NEW virt \in Int, NEW n \in Nat
  PROVE  \E f : Runs(f, "remove", 0, NoDelta(s, virt), Span(virt, n), n) /\ RemoveVirtual(s, virt, n) = f[n]
<1> DEFINE base == NoDelta(s, virt)
           seq == Span(virt, n)
           run[i \in 0 .. Len(seq)] == IF i = 0 THEN base ELSE RemoveAtPage(run[i - 1], seq[i])
<1>1. RemoveVirtual(s, virt, n) = run[Len(seq)]
  BY DEF RemoveVirtual, Iterate
<1>2. Len(seq) \in Nat /\ Len(seq) = n
  BY SpanIs
<1> HIDE DEF base, seq
<1>3. PICK g : Fixed(g, "remove", 0, base, seq)
  BY <1>2, LoopFixed
<1>4. \E h : h = [i \in 0 .. Len(seq) |-> IF i = 0 THEN base ELSE RemoveAtPage(h[i - 1], seq[i])]
  BY ONLY <1>3 DEF Fixed, Turn
<1>5. run = [i \in 0 .. Len(seq) |-> IF i = 0 THEN base ELSE RemoveAtPage(run[i - 1], seq[i])]
  BY ONLY <1>4 DEF run
<1> HIDE DEF run
<1>6. Fixed(run, "remove", 0, base, seq)
  BY ONLY <1>5 DEF Fixed, Turn
<1>7. Runs(run, "remove", 0, base, seq, n)
  BY ONLY <1>2, <1>6, FixedRuns
<1> QED
  BY ONLY <1>1, <1>2, <1>7 DEF base, seq

(* Freeing what an entry names. *)

\* Entries and tables stay where they are.
Still(s, t) == Quiet(s, t) /\ SameTables(s, t)

(* Two operations in a row that leave entries and tables alone do so together.            *)
LEMMA StillTrans ==
  ASSUME NEW s, NEW t, NEW u, Good(s), Still(s, t), Still(t, u)
  PROVE  Still(s, u)
BY QuietTrans DEF Still, SameTables

(* A change of the counters only leaves entries and tables alone.                         *)
LEMMA StillSame ==
  ASSUME NEW s, NEW t, Good(s), Same(s, t)
  PROVE  Still(s, t)
<1>1. Root(t) = Root(s) /\ \A w : FindHostPage(t, w) = FindHostPage(s, w)
  BY DEF Same, Root, FindHostPage
<1>2. \A p : (HasTable(t, p) <=> HasTable(s, p)) /\ Table(t, p) = Table(s, p)
  BY <1>1 DEF Same, HasTable, Table, DirEntry
<1> QED
  BY <1>1, <1>2, QuietSame DEF Still, SameTables

(* UnmarkFilePage touches the list of file maps only.                                     *)
LEMMA UnmarkIs ==
  ASSUME NEW s, IsSystem(s), NEW p
  PROVE  Same(s, UnmarkFilePage(s, p)) /\ IsSystem(UnmarkFilePage(s, p)) /\ UnmarkFilePage(s, p).moved = s.moved
<1>1. \E maps : UnmarkFilePage(s, p) = s \/ UnmarkFilePage(s, p) = [s EXCEPT !.filemaps = maps]
  BY DEF UnmarkFilePage
<1>2. PICK maps : UnmarkFilePage(s, p) = s \/ UnmarkFilePage(s, p) = [s EXCEPT !.filemaps = maps]
  BY <1>1
<1> QED
  BY <1>2 DEF Same, IsSystem, Fields

\* A frame that an entry named and no longer does.
Loose(s, w, K) == ~w.rsrv /\ ~w.mug => w.hp \in 0 .. Len(s.hostpages) - 1 /\ K[FindHostPage(s, w)] = "none"

(* What FreePage does with a frame, by its kind: a page of the pool is cleared and listed *)
(* as free, one of the host is let go, an untouched one was never there.                  *)
LEMMA FreeMappedIs ==
  ASSUME NEW s, IsSystem(s), NEW w
  PROVE  /\ IsSystem(FreeMapped(s, w)) /\ FreeMapped(s, w).moved = s.moved
         /\ \A K, G, I : Owned(s, K, G, I) /\ Loose(s, w, K) => Still(s, FreeMapped(s, w))
<1> DEFINE t == FreeMapped(s, w)
<1>1. CASE w.rsrv \/ w.mug
  <2>1. t = [s EXCEPT !.reserved = @ - 1] \/ t = [s EXCEPT !.committed = @ - 1]
    BY <1>1 DEF FreeMapped
  <2>2. Same(s, t) /\ IsSystem(t) /\ t.moved = s.moved
    BY <2>1 DEF Same, IsSystem, Fields
  <2> HIDE DEF t
  <2>3. ASSUME NEW K, NEW G, NEW I, Owned(s, K, G, I) PROVE Still(s, t)
    BY <2>2, <2>3, StillSame DEF Good
  <2> QED
    BY <2>2, <2>3 DEF t
<1>2. CASE ~w.rsrv /\ ~w.mug
  <2> DEFINE f == FindHostPage(s, w)
             u == [s EXCEPT !.committed = @ - 1]
             v == [u EXCEPT !.ram = [u.ram EXCEPT ![f] = ZeroFrame]]
  <2>1. FindHostPage(u, w) = f
    BY DEF FindHostPage, IsSystem, Fields
  <2>2. FreeMapped(s, w) = FreeFrame(u, w)
    BY <1>2 DEF FreeMapped
  <2> HIDE DEF u, f
  <2>3. t = [v EXCEPT !.free = <<f>> \o @]
    BY <2>1, <2>2 DEF FreeFrame, FreeAnonymousPage, ClearPage
  <2>4. Same(s, u) /\ IsSystem(u) /\ u.moved = s.moved
    BY DEF u, Same, IsSystem, Fields
  <2>5. Becomes(u, v, [u.ram EXCEPT ![f] = ZeroFrame], u.hostpages, u.free, u.next) /\ IsSystem(v) /\ v.moved = u.moved
    BY <2>4 DEF Becomes, IsSystem, Fields
  <2>6. v.ram = [u.ram EXCEPT ![f] = ZeroFrame]
    BY <2>5 DEF Becomes
  <2> HIDE DEF v, t
  <2>7. Becomes(v, t, v.ram, v.hostpages, <<f>> \o v.free, v.next) /\ IsSystem(t) /\ t.moved = v.moved
    BY <2>3, <2>5 DEF Becomes, IsSystem, Fields
  <2>8. ASSUME NEW K, NEW G, NEW I, Owned(s, K, G, I), Loose(s, w, K) PROVE Still(s, t)
    <3>1. Typed(s) /\ w.hp \in 0 .. Len(s.hostpages) - 1 /\ K[f] = "none"
      BY <1>2, <2>8 DEF Loose, f, Owned
    <3>2. f \in Frames
      BY <3>1, HostIn DEF f
    <3>3. Still(s, u) /\ Owned(u, K, G, I) /\ Good(s)
      BY <2>4, <2>8, StillSame, OwnedSame DEF Good
    <3>4. Owned(v, K, G, I) /\ SameTables(u, v) /\ SamePtes(u, v) /\ Longer(u, v)
      BY <2>5, <3>1, <3>2, <3>3, ZeroFrameIs, WriteData
    <3>5. v.ram[f] = ZeroFrame
      BY <2>6, <3>2, <3>3 DEF Owned, Typed
    <3>6. /\ Owned(t, [g \in Frames |-> IF g = f THEN "free" ELSE K[g]], G, I)
          /\ SameTables(v, t) /\ SamePtes(v, t) /\ Longer(v, t)
      BY <2>7, <3>1, <3>2, <3>4, <3>5, GiveBack
    <3>7. Still(u, v) /\ Still(v, t) /\ Good(u)
      BY <3>3, <3>4, <3>6 DEF Still, Quiet, Good
    <3> QED
      BY <3>3, <3>7, StillTrans
  <2> QED
    BY <2>4, <2>5, <2>7, <2>8 DEF t
<1> QED
  BY <1>1, <1>2

\* FreePage on the accumulator of a scan.
Drops(w) == "x" \in w.prot /\ ~w.rsrv
(* FreePage frees a frame nobody owns any more, moves nothing and says in exec whether    *)
(* code may have gone.                                                                    *)
LEMMA FreePageIs ==
  ASSUME NEW acc, {"s", "exec", "rss"} \subseteq DOMAIN acc, IsSystem(acc.s), NEW p, NEW w
  PROVE  LET r == FreePage(acc, p, w) IN
         /\ DOMAIN r = DOMAIN acc /\ IsSystem(r.s) /\ r.s.moved = acc.s.moved
         /\ r.exec = (acc.exec \/ Drops(w)) /\ r.exec \in BOOLEAN
         /\ \A x \in DOMAIN acc \ {"s", "exec", "rss"} : r[x] = acc[x]
         /\ \A K, G, I : Owned(acc.s, K, G, I) /\ Loose(acc.s, w, K) => Still(acc.s, r.s)
<1> DEFINE u == IF w.file THEN UnmarkFilePage(acc.s, p) ELSE acc.s
           r == FreePage(acc, p, w)
<1>1. Same(acc.s, u) /\ IsSystem(u) /\ u.moved = acc.s.moved
  BY UnmarkIs DEF Same
<1> HIDE DEF u
<1>2. r = [acc EXCEPT !.s = FreeMapped(u, w), !.exec = acc.exec \/ Drops(w),
                      !.rss = IF w.rsrv THEN acc.rss ELSE acc.rss - 1]
  BY DEF FreePage, u, Drops
<1>3. /\ DOMAIN r = DOMAIN acc /\ r.s = FreeMapped(u, w) /\ r.exec = (acc.exec \/ Drops(w)) /\ r.exec \in BOOLEAN
      /\ \A x \in DOMAIN acc \ {"s", "exec", "rss"} : r[x] = acc[x]
  BY <1>2
<1> HIDE DEF r
<1>4. IsSystem(r.s) /\ r.s.moved = acc.s.moved
  BY <1>1, <1>3, FreeMappedIs
<1>5. ASSUME NEW K, NEW G, NEW I, Owned(acc.s, K, G, I), Loose(acc.s, w, K) PROVE Still(acc.s, r.s)
  <2>1. Owned(u, K, G, I) /\ Still(acc.s, u) /\ Good(acc.s)
    BY <1>1, <1>5, OwnedSame, StillSame DEF Good
  <2>2. Loose(u, w, K)
    BY <1>1, <1>5 DEF Loose, Same, FindHostPage
  <2>3. Still(u, r.s)
    BY <1>1, <1>3, <2>1, <2>2, FreeMappedIs
  <2> QED
    BY <2>1, <2>3, StillTrans
<1> QED
  BY <1>3, <1>4, <1>5 DEF r

(* Entries that change, and what the caches of code have to know. *)

\* A touched page of code keeps its entry, or exec tells of its end.
Kept(s, t, exec) ==
    /\ Longer(s, t)
    /\ \A p \in Pages : Valid(LoadPte(s, p)) /\ Drops(LoadPte(s, p)) => exec \/ LoadPte(t, p) = LoadPte(s, p)

(* A change of one entry, then an operation that leaves entries alone.                    *)
LEMMA ReplacedStill ==
  ASSUME NEW s, NEW t, NEW u, Good(s), NEW p \in Pages, NEW w, Replaced(s, t, p, w), Still(t, u)
  PROVE  Replaced(s, u, p, w)
<1>1. Longer(s, u)
  BY LongerTrans, GoodTypes DEF Replaced, Still, Quiet
<1> QED
  BY <1>1 DEF Replaced, Still, Quiet, SameTables, SamePtes

(* Pages of code are told of when one more entry changes.                                 *)
LEMMA KeptReplaced ==
  ASSUME NEW s, NEW t, NEW u, Good(s), Good(t), NEW e \in BOOLEAN, Kept(s, t, e), NEW p \in Pages, NEW w,
         Replaced(t, u, p, w)
  PROVE  Kept(s, u, e \/ (Valid(LoadPte(t, p)) /\ Drops(LoadPte(t, p))))
<1>1. Longer(s, u)
  BY LongerTrans, GoodTypes DEF Replaced, Kept
<1> QED
  BY <1>1 DEF Kept, Replaced

(* Pages of code are told of when an operation follows that leaves entries alone.         *)
LEMMA KeptQuiet ==
  ASSUME NEW s, NEW t, NEW u, Good(s), Good(t), NEW e, Kept(s, t, e), Quiet(t, u)
  PROVE  Kept(s, u, e)
<1>1. Longer(s, u)
  BY LongerTrans, GoodTypes DEF Quiet, Kept
<1> QED
  BY <1>1 DEF Kept, Quiet, SamePtes

(* Nothing has gone when nothing was done.                                                *)
LEMMA KeptSelf ==
  ASSUME NEW s, Good(s)
  PROVE  Kept(s, s, FALSE)
BY GoodTypes DEF Kept, Longer

(* What a walk finds in a good system.                                                    *)
LEMMA GoodTable ==
  ASSUME NEW s, Good(s), NEW p \in Pages
  PROVE  /\ LoadPte(s, p) \in Words /\ (LoadPte(s, p) = Zero \/ LoadPte(s, p) \in Ptes)
         /\ (Valid(LoadPte(s, p)) <=> LoadPte(s, p) \in Ptes)
         /\ Valid(LoadPte(s, p)) => HasTable(s, p)
         /\ HasTable(s, p) => Table(s, p) \in Frames
<1>1. PICK K, G, I : Owned(s, K, G, I)
  BY DEF Good
<1> QED
  BY <1>1, PteFound, TableIs, WordsAre

(* StorePte writes one word of one table.                                                 *)
LEMMA StorePteIs ==
  ASSUME NEW s, IsSystem(s), NEW p, NEW w
  PROVE  /\ IsSystem(StorePte(s, p, w)) /\ StorePte(s, p, w).moved = s.moved
         /\ Becomes(s, StorePte(s, p, w), SetWord(s.ram, Table(s, p), Index(p), w),
                    s.hostpages, s.free, s.next)
<1> DEFINE ram == SetWord(s.ram, Table(s, p), Index(p), w)
<1>1. StorePte(s, p, w) = [s EXCEPT !.ram = ram]
  BY DEF StorePte, IsSystem, Fields, SetWord
<1> HIDE DEF ram
<1>2. /\ IsSystem(StorePte(s, p, w)) /\ StorePte(s, p, w).moved = s.moved
      /\ Becomes(s, StorePte(s, p, w), ram, s.hostpages, s.free, s.next)
  BY <1>1 DEF Becomes, IsSystem, Fields
<1> QED
  BY <1>2 DEF ram

(* An entry is taken out before what it named is freed: the step of RemoveVirtual for a   *)
(* page that is mapped.                                                                   *)
LEMMA RemovedIs ==
  ASSUME NEW acc, {"s", "exec", "rss", "vss"} \subseteq DOMAIN acc, acc.exec \in BOOLEAN, IsSystem(acc.s),
         NEW p \in Pages, Good(acc.s), HasTable(acc.s, p)
  PROVE  LET w == LoadPte(acc.s, p)
             r == Removed(acc, p, w) IN
         /\ DOMAIN r = DOMAIN acc /\ IsSystem(r.s) /\ r.s.moved = acc.s.moved
         /\ r.exec = (acc.exec \/ (Valid(w) /\ Drops(w)))
         /\ \A x \in DOMAIN acc \ {"s", "exec", "rss", "vss"} : r[x] = acc[x]
         /\ Replaced(acc.s, r.s, p, Zero)
<1> DEFINE s == acc.s
           w == LoadPte(s, p)
           t == StorePte(s, p, Zero)
           mid == [acc EXCEPT !.s = t, !.vss = acc.vss - 1]
           r == Removed(acc, p, w)
<1>1. PICK K, G, I : Owned(s, K, G, I)
  BY DEF Good
<1>2. CASE ~Valid(w)
  <2>1. r = acc /\ w = Zero
    BY <1>2, GoodTable, WordsAre DEF Removed
  <2>2. SameTables(s, s) /\ Longer(s, s)
    BY GoodTypes DEF SameTables, Longer
  <2> QED
    BY <1>2, <2>1, <2>2 DEF Replaced
<1>3. CASE Valid(w)
  <2>1. w \in Ptes
    BY <1>3, GoodTable
  <2>2. IsSystem(t) /\ t.moved = s.moved /\
        Becomes(s, t, SetWord(s.ram, Table(s, p), Index(p), Zero), s.hostpages, s.free, s.next)
    BY StorePteIs
  <2>3. Replaces(s, K, w, Zero)
    BY DEF Replaces
  <2>5. (\E L, H, J : Owned(t, L, H, J) /\ Freed(s, L, w, Zero)) /\ Replaced(s, t, p, Zero)
    <3> HIDE DEF t
    <3> QED
      BY <1>1, <2>2, <2>3, PutPte
  <2>4. PICK L, H, J : Owned(t, L, H, J) /\ Freed(s, L, w, Zero)
    BY <2>5
  <2>6. Backed(s, w, K, G, I, Table(s, p), Index(p))
    BY <1>1, <1>3, PteFound, WordsAre
  <2>7. t.hostpages = s.hostpages
    BY <2>2 DEF Becomes
  <2>8. Loose(t, w, L)
    BY <2>1, <2>4, <2>6, <2>7, WordsAre DEF Freed, Loose, Backed, FindHostPage
  <2>9. r = FreePage(mid, p, w)
    BY <1>3 DEF Removed
  <2>10. DOMAIN mid = DOMAIN acc /\ mid.s = t /\ mid.exec = acc.exec
         /\ \A x \in DOMAIN acc \ {"s", "vss"} : mid[x] = acc[x]
    BY DEF mid
  <2> HIDE DEF r, mid, t
  <2>11. /\ DOMAIN r = DOMAIN mid /\ IsSystem(r.s) /\ r.s.moved = t.moved
         /\ r.exec = (acc.exec \/ Drops(w))
         /\ \A x \in DOMAIN mid \ {"s", "exec", "rss"} : r[x] = mid[x]
         /\ Still(t, r.s)
    BY <2>1, <2>2, <2>4, <2>8, <2>9, <2>10, FreePageIs
  <2>12. Replaced(s, r.s, p, Zero)
    BY <2>5, <2>11, ReplacedStill
  <2> QED
    BY <1>3, <2>2, <2>10, <2>11, <2>12 DEF r
<1> QED
  BY <1>2, <1>3

(* That step never moves the pool.                                                        *)
LEMMA RemovedMoves ==
  ASSUME NEW acc, {"s", "exec", "rss", "vss"} \subseteq DOMAIN acc, IsSystem(acc.s), NEW p, NEW w
  PROVE  LET r == Removed(acc, p, w) IN
         /\ DOMAIN r = DOMAIN acc /\ IsSystem(r.s) /\ r.s.moved = acc.s.moved
         /\ acc.exec \in BOOLEAN => r.exec \in BOOLEAN
<1> DEFINE t == StorePte(acc.s, p, Zero)
           mid == [acc EXCEPT !.s = t, !.vss = acc.vss - 1]
<1>1. IsSystem(t) /\ t.moved = acc.s.moved
  BY StorePteIs
<1>2. Removed(acc, p, w) = acc \/ Removed(acc, p, w) = FreePage(mid, p, w)
  BY DEF Removed
<1> HIDE DEF t
<1>3. DOMAIN mid = DOMAIN acc /\ mid.s = t
  OBVIOUS
<1> HIDE DEF mid
<1>4. LET r == FreePage(mid, p, w) IN
      DOMAIN r = DOMAIN mid /\ IsSystem(r.s) /\ r.s.moved = mid.s.moved /\ r.exec \in BOOLEAN
  BY <1>1, <1>3, FreePageIs
<1> QED
  BY <1>1, <1>2, <1>3, <1>4

Scan == {"s", "at", "from", "vss", "rss", "exec"}
(* Neither does any turn of RemoveVirtual.                                                *)
LEMMA TurnMoves ==
  ASSUME NEW acc, DOMAIN acc = Scan, IsSystem(acc.s), acc.exec \in BOOLEAN, NEW p
  PROVE  LET r == RemoveAtPage(acc, p) IN
         DOMAIN r = Scan /\ IsSystem(r.s) /\ r.s.moved = acc.s.moved /\ r.exec \in BOOLEAN
<1> DEFINE r == RemoveAtPage(acc, p)
<1>1. CASE p # acc.at
  BY <1>1 DEF RemoveAtPage
<1>2. CASE p = acc.at /\ ~HasTable(acc.s, p)
  BY <1>2 DEF RemoveAtPage, Scan
<1>3. CASE p = acc.at /\ HasTable(acc.s, p)
  <2> DEFINE from == IF acc.from = -1 \/ Index(p) = 0 THEN Index(p) ELSE acc.from
             full == from = 0 /\ Index(p) = PerTable - 1
             mid == Removed(acc, p, LoadPte(acc.s, p))
  <2>1. r = [mid EXCEPT !.s = IF full THEN DropTable(mid.s, p) ELSE mid.s, !.at = p + 1, !.from = from]
    BY <1>3 DEF RemoveAtPage
  <2>2. DOMAIN mid = DOMAIN acc /\ IsSystem(mid.s) /\ mid.s.moved = acc.s.moved /\ mid.exec \in BOOLEAN
    BY RemovedMoves DEF Scan
  <2>3. IsSystem(DropTable(mid.s, p)) /\ DropTable(mid.s, p).moved = mid.s.moved
    BY <2>2, DropMoves
  <2> HIDE DEF mid, full, r
  <2> QED
    BY <2>1, <2>2, <2>3 DEF Scan, r
<1> QED
  BY <1>1, <1>2, <1>3

\* Where a scan stands: in the table at hand it has passed no entry that is left.
From(acc) ==
    acc.at \in Pages /\ acc.from # -1 /\ Index(acc.at) # 0 =>
        \A q \in Pages : Dir(q) = Dir(acc.at) /\ acc.from <= Index(q) /\ Index(q) < Index(acc.at) =>
            LoadPte(acc.s, q) = Zero
Scans(s, acc) ==
    /\ DOMAIN acc = Scan /\ IsSystem(acc.s) /\ acc.s.moved = s.moved
    /\ acc.exec \in BOOLEAN /\ acc.at \in Int /\ acc.from \in Int
    /\ Good(acc.s) /\ Kept(s, acc.s, acc.exec) /\ From(acc)

(* A turn of RemoveVirtual keeps the books of frames, frees a table only when its last    *)
(* entry went, and tells of pages of code.                                                *)
LEMMA ScanTurn ==
  ASSUME NEW s, Good(s), NEW acc, Scans(s, acc), NEW p \in Pages
  PROVE  Scans(s, RemoveAtPage(acc, p))
<1> DEFINE r == RemoveAtPage(acc, p)
           w == LoadPte(acc.s, p)
<1>1. CASE p # acc.at
  BY <1>1 DEF RemoveAtPage
<1>2. CASE p = acc.at /\ ~HasTable(acc.s, p)
  <2>1. r = [acc EXCEPT !.at = p + PerTable, !.from = -1]
    BY <1>2 DEF RemoveAtPage
  <2>2. /\ DOMAIN r = Scan /\ r.s = acc.s /\ r.exec = acc.exec /\ r.from = -1 /\ r.at = p + PerTable
    BY <2>1 DEF Scans, Scan
  <2>3. p + PerTable \in Int
    BY Bounds DEF Pages
  <2> HIDE DEF r
  <2> QED
    BY <2>2, <2>3 DEF Scans, From, r
<1>3. CASE p = acc.at /\ HasTable(acc.s, p)
  <2> DEFINE from == IF acc.from = -1 \/ Index(p) = 0 THEN Index(p) ELSE acc.from
             full == from = 0 /\ Index(p) = PerTable - 1
             mid == Removed(acc, p, w)
  <2>1. r = [mid EXCEPT !.s = IF full THEN DropTable(mid.s, p) ELSE mid.s, !.at = p + 1, !.from = from]
    BY <1>3 DEF RemoveAtPage
  <2>2. /\ DOMAIN mid = Scan /\ IsSystem(mid.s) /\ mid.s.moved = s.moved
        /\ mid.exec = (acc.exec \/ (Valid(w) /\ Drops(w))) /\ mid.exec \in BOOLEAN
        /\ Replaced(acc.s, mid.s, p, Zero)
    BY <1>3, RemovedIs DEF Scans, Scan
  <2>3. Good(mid.s) /\ Kept(s, mid.s, mid.exec)
    BY <2>2, KeptReplaced DEF Scans, Replaced
  <2>4. Index(p) \in Slots /\ Index(p) \in Int /\ from \in Int /\ p \in Int
    BY DivMod DEF Slots, Scans, Pages
  <2>5. ASSUME NEW q \in Pages, Dir(q) = Dir(p), from <= Index(q), Index(q) <= Index(p)
        PROVE  LoadPte(mid.s, q) = Zero
    <3>1. Index(q) \in Slots /\ Index(q) \in Int
      BY DivMod DEF Slots
    <3>2. CASE q = p
      BY <2>2, <3>2 DEF Replaced
    <3>3. CASE q # p
      <4>1. Index(q) # Index(p)
        BY <2>5, <3>3, PlaceUnique
      <4>2. Index(q) < Index(p) /\ Index(p) # 0 /\ acc.from # -1 /\ from = acc.from
        BY <2>4, <2>5, <3>1, <4>1 DEF Slots
      <4>3. LoadPte(acc.s, q) = Zero
        BY <1>3, <2>5, <4>2 DEF Scans, From
      <4> QED
        BY <2>2, <3>3, <4>3 DEF Replaced
    <3> QED
      BY <3>2, <3>3
  <2>6. /\ IsSystem(DropTable(mid.s, p)) /\ DropTable(mid.s, p).moved = mid.s.moved
        /\ full => Quiet(mid.s, DropTable(mid.s, p))
    <3>1. HasTable(mid.s, p)
      BY <1>3, <2>2 DEF Replaced, SameTables
    <3>2. ASSUME full PROVE mid.s.ram[Table(mid.s, p)] = ZeroFrame
      <4>1. Table(mid.s, p) \in Frames /\ mid.s.ram \in [Frames -> [Slots -> Words]]
        BY <2>3, <3>1, GoodTable, GoodTypes DEF Typed
      <4>2. ASSUME NEW i \in Slots PROVE mid.s.ram[Table(mid.s, p)][i] = Zero
        <5>1. PICK q \in Pages : Dir(q) = Dir(p) /\ Index(q) = i
          BY PlaceIs, DivMod
        <5>2. LoadPte(mid.s, q) = Zero
          BY <2>5, <3>2, <5>1 DEF Slots
        <5>3. HasTable(mid.s, q) /\ Table(mid.s, q) = Table(mid.s, p)
          BY <3>1, <5>1, SameTable
        <5> QED
          BY <5>1, <5>2, <5>3 DEF LoadPte
      <4>3. mid.s.ram[Table(mid.s, p)] \in [Slots -> Words]
        BY <4>1
      <4>4. mid.s.ram[Table(mid.s, p)] = [i \in Slots |-> Zero]
        BY <4>2, <4>3
      <4> QED
        BY <4>4 DEF ZeroFrame, Slots
    <3> QED
      BY <2>2, <2>3, <3>1, <3>2, DropIs DEF Evolves
  <2> DEFINE t == IF full THEN DropTable(mid.s, p) ELSE mid.s
  <2>7. IsSystem(t) /\ t.moved = s.moved /\ Quiet(mid.s, t)
    <3>1. Quiet(mid.s, mid.s)
      BY <2>3, GoodTypes DEF Quiet, SamePtes, Longer
    <3> QED
      BY <2>2, <2>6, <3>1
  <2>8. Good(t) /\ Kept(s, t, mid.exec)
    BY <2>3, <2>7, KeptQuiet DEF Quiet
  <2>9. r = [mid EXCEPT !.s = t, !.at = p + 1, !.from = from]
    BY <2>1
  <2> HIDE DEF mid, t, full, from, r
  <2>10. DOMAIN r = Scan /\ r.s = t /\ r.exec = mid.exec /\ r.at = p + 1 /\ r.from = from
    BY <2>2, <2>9 DEF Scan
  <2>11. From(r)
    <3> SUFFICES ASSUME p + 1 \in Pages, Index(p + 1) # 0, NEW q \in Pages, Dir(q) = Dir(p + 1),
                        from <= Index(q), Index(q) < Index(p + 1)
                 PROVE  LoadPte(t, q) = Zero
      BY <2>10 DEF From
    <3>1. Dir(p + 1) = Dir(p) /\ Index(p + 1) = Index(p) + 1
      BY NextPlace
    <3>2. Index(q) <= Index(p)
      BY <2>4, <3>1, DivMod DEF Slots
    <3>3. LoadPte(mid.s, q) = Zero
      BY <2>5, <3>1, <3>2
    <3> QED
      BY <2>7, <3>3 DEF Quiet, SamePtes
  <2> QED
    BY <2>2, <2>4, <2>7, <2>8, <2>10, <2>11 DEF Scans, r
<1> QED
  BY <1>1, <1>2, <1>3

(* RemoveVirtual as a whole: nothing moves, every frame keeps one owner, and a page of    *)
(* code that goes is told of.                                                             *)
LEMMA RemoveIs ==
  ASSUME NEW s, IsSystem(s), NEW virt \in Int, NEW n \in Nat
  PROVE  LET r == RemoveVirtual(s, virt, n) IN
         /\ DOMAIN r = Scan /\ IsSystem(r.s) /\ r.s.moved = s.moved /\ r.exec \in BOOLEAN
         /\ Good(s) /\ virt >= 0 /\ virt + n <= NPages =>
                Good(r.s) /\ Kept(s, r.s, r.exec)
<1> DEFINE base == NoDelta(s, virt)
           seq == Span(virt, n)
<1>1. PICK f : Runs(f, "remove", 0, base, seq, n) /\ RemoveVirtual(s, virt, n) = f[n]
  BY RemoveRuns
<1>2. /\ f[0] = base
      /\ \A i \in 1 .. n : f[i] = RemoveAtPage(f[i - 1], virt + i - 1)
  BY <1>1, SpanIs DEF Runs, Turn
<1>3. /\ DOMAIN base = Scan /\ base.s = s /\ base.at = virt /\ base.from = -1 /\ base.exec = FALSE
      /\ base.exec \in BOOLEAN /\ base.from \in Int
  BY DEF NoDelta, Scan
<1> HIDE DEF base, seq
<1> DEFINE Moves(k) == DOMAIN f[k] = Scan /\ IsSystem(f[k].s) /\ f[k].s.moved = s.moved /\ f[k].exec \in BOOLEAN
<1>4. \A i \in 0 .. n : i \in {k \in 0 .. n : Moves(k)}
  <2> DEFINE S == {k \in 0 .. n : Moves(k)}
  <2>1. 0 \in S
    BY <1>2, <1>3
  <2>2. ASSUME NEW i \in S, i < n PROVE i + 1 \in S
    <3>1. i + 1 \in 1 .. n /\ f[i + 1] = RemoveAtPage(f[i], virt + i)
      BY <1>2, <2>2
    <3> QED
      BY <2>2, <3>1, TurnMoves
  <2>3. S \in SUBSET (0 .. n)
    OBVIOUS
  <2> HIDE DEF S
  <2>4. \A i \in 0 .. n : i \in S
    BY <2>1, <2>2, <2>3, Climb
  <2> QED
    BY <2>4 DEF S
<1>5. ASSUME Good(s), virt >= 0, virt + n <= NPages
      PROVE  \A i \in 0 .. n : i \in {k \in 0 .. n : Scans(s, f[k])}
  <2> DEFINE S == {k \in 0 .. n : Scans(s, f[k])}
  <2>1. Scans(s, f[0])
    <3>1. From(f[0])
      BY <1>2, <1>3 DEF From
    <3>2. Kept(s, f[0].s, f[0].exec)
      BY <1>2, <1>3, <1>5, KeptSelf
    <3>3. /\ DOMAIN f[0] = Scan /\ f[0].s = s /\ f[0].exec \in BOOLEAN
          /\ f[0].at \in Int /\ f[0].from \in Int
      BY <1>2, <1>3
    <3> QED
      BY <1>5, <3>1, <3>2, <3>3 DEF Scans
  <2>2. ASSUME NEW i \in S, i < n PROVE i + 1 \in S
    <3>1. i + 1 \in 1 .. n /\ f[i + 1] = RemoveAtPage(f[i], virt + i)
      BY <1>2, <2>2
    <3>2. virt + i \in Pages
      BY <1>5, <2>2, Bounds DEF Pages, NPages
    <3>3. Scans(s, RemoveAtPage(f[i], virt + i))
      BY <1>5, <2>2, <3>2, ScanTurn
    <3> QED
      BY <2>2, <3>1, <3>3
  <2>3. S \in SUBSET (0 .. n) /\ 0 \in S
    BY <2>1
  <2> HIDE DEF S
  <2>4. \A i \in 0 .. n : i \in S
    BY <2>2, <2>3, Climb
  <2> QED
    BY <2>4 DEF S
<1>6. n \in 0 .. n
  OBVIOUS
<1> QED
  BY <1>1, <1>4, <1>5, <1>6 DEF Scans

(* ReserveVirtual. *)

AddFields == {"s", "ptr", "table", "vss", "rss", "exec"}
\* The address of the table is that of the table of p, once it has been taken.
At(acc, p) ==
    p \in Pages /\ Index(p) # 0 /\ acc.ptr # -1 =>
        acc.ptr = 0 /\ HasTable(acc.s, p) /\ acc.table = Table(acc.s, p)

(* The frame tracked last is the one an entry made of LastTracked names.                  *)
LEMMA LastIs ==
  ASSUME NEW s, NEW t, NEW f, s.hostpages \in Seq(Frames), f \in Frames, t.hostpages = Append(s.hostpages, f)
  PROVE  /\ Last(t.hostpages) = f /\ LastTracked(t) \in 0 .. Len(t.hostpages) - 1 /\ LastTracked(t) \in Int
         /\ \A w : w.hp = LastTracked(t) => FindHostPage(t, w) = f
BY DEF Last, LastTracked, FindHostPage

(* EnterTable: the table of p is there and its address is the current one, if nothing     *)
(* moved.                                                                                 *)
LEMMA EnterIs ==
  ASSUME NEW acc, DOMAIN acc = AddFields, IsSystem(acc.s), NEW p
  PROVE  LET r == EnterTable(acc, p) IN
         /\ DOMAIN r = AddFields /\ Evolves(acc.s, r.s) /\ r.exec = acc.exec
         /\ r.s.moved = 0 /\ Good(acc.s) /\ p \in Pages /\ At(acc, p) =>
                Quiet(acc.s, r.s) /\ HasTable(r.s, p) /\ r.table = Table(r.s, p) /\ r.ptr = 0
<1> DEFINE r == EnterTable(acc, p)
           s == acc.s
<1>0. Good(s) => Quiet(s, s)
  BY QuietSame DEF Same
<1>1. CASE Index(p) # 0 /\ acc.ptr # -1
  <2>1. r = acc
    BY <1>1 DEF EnterTable
  <2> QED
    BY <1>0, <1>1, <2>1 DEF At, Evolves, IsSystem
<1>2. CASE ~(Index(p) # 0 /\ acc.ptr # -1) /\ HasTable(s, p)
  <2>1. r = [acc EXCEPT !.s = s, !.table = Table(s, p), !.ptr = s.moved]
    BY <1>2 DEF EnterTable, WithTable
  <2>2. DOMAIN r = AddFields /\ r.s = s /\ r.table = Table(s, p) /\ r.ptr = s.moved /\ r.exec = acc.exec
    BY <2>1 DEF AddFields
  <2> HIDE DEF r
  <2> QED
    BY <1>0, <1>2, <2>2 DEF Evolves, IsSystem, r
<1>3. CASE ~(Index(p) # 0 /\ acc.ptr # -1) /\ ~HasTable(s, p)
  <2> DEFINE t == AllocatePageTable(s)
             w == Pte(LastTracked(t), FALSE, FALSE, {"w"}, FALSE)
             ram == SetWord(t.ram, Root(t), Dir(p), w)
             u == IF t.moved # s.moved THEN t ELSE [t EXCEPT !.ram = ram]
  <2>1. r = WithTable(acc, LinkTable(t, p, s.moved), Last(t.hostpages))
    BY <1>3 DEF EnterTable, WithNewTable
  <2>2. Evolves(s, t)
    BY TableAllocIs
  <2> HIDE DEF t
  <2>3. LinkTable(t, p, s.moved) = u
    BY <2>2 DEF LinkTable, SetWord, Evolves, IsSystem, Fields
  <2> HIDE DEF w, ram
  <2>4. Evolves(s, u) /\ u.moved = t.moved
    BY <2>2 DEF Evolves, IsSystem, Fields
  <2>5. t.moved = s.moved => Becomes(t, u, ram, t.hostpages, t.free, t.next)
    BY <2>2 DEF Becomes, Evolves, IsSystem, Fields
  <2> HIDE DEF u
  <2>6. DOMAIN r = AddFields /\ r.s = u /\ r.table = Last(t.hostpages) /\ r.ptr = u.moved /\ r.exec = acc.exec
    BY <2>1, <2>3 DEF AddFields, WithTable
  <2> HIDE DEF r
  <2>7. ASSUME u.moved = 0, Good(s), p \in Pages
        PROVE  Quiet(s, u) /\ HasTable(u, p) /\ Last(t.hostpages) = Table(u, p)
    <3>1. t.moved = 0 /\ s.moved = 0
      BY <2>2, <2>4, <2>7 DEF Evolves, IsSystem
    <3>2. PICK K, G, I : Owned(s, K, G, I)
      BY <2>7 DEF Good
    <3>3. PICK f, L : Taken(s, t, K, L, f) /\ Owned(t, L, G, I) /\ SamePtes(s, t) /\ SameTables(s, t)
      BY <3>1, <3>2, TableAllocIs DEF t
    <3>4. f \in Frames /\ L[f] = "none" /\ t.ram[f] = ZeroFrame /\ t.hostpages = Append(s.hostpages, f)
          /\ s.hostpages \in Seq(Frames)
      BY <3>2, <3>3 DEF Taken, Owned, Typed
    <3>5. /\ Last(t.hostpages) = f /\ LastTracked(t) \in 0 .. Len(t.hostpages) - 1 /\ LastTracked(t) \in Int
          /\ \A v : v.hp = LastTracked(t) => FindHostPage(t, v) = f
      BY <3>4, LastIs
    <3>6. w \in Ptes /\ w.hp = LastTracked(t) /\ FindHostPage(t, w) = f
      <4>1. w \in Ptes /\ w.hp = LastTracked(t)
        <5>1. FALSE \in BOOLEAN /\ {"w"} \in SUBSET {"r", "w", "x"}
          OBVIOUS
        <5> QED
          BY <3>5, <5>1, PteIs DEF w
      <4> QED
        BY <3>5, <4>1
    <3>7. ~HasTable(t, p)
      BY <1>3, <2>7, <3>3 DEF SameTables
    <3>8. \E H, J, M : /\ Owned(u, H, J, M) /\ SamePtes(t, u) /\ Longer(t, u)
                       /\ HasTable(u, p) /\ Table(u, p) = FindHostPage(t, w)
      <4>1. Becomes(t, u, SetWord(t.ram, Root(t), Dir(p), w), t.hostpages, t.free, t.next)
        BY <2>5, <3>1 DEF ram
      <4> QED
        BY <2>7, <3>3, <3>4, <3>5, <3>6, <3>7, <4>1, LinkDir
    <3>9. Quiet(t, u) /\ HasTable(u, p) /\ Table(u, p) = f
      BY <3>6, <3>8 DEF Quiet, Good
    <3>10. Quiet(s, t)
      BY <3>3, <3>4, LongerByOne DEF Quiet, Good
    <3> QED
      BY <2>7, <3>5, <3>9, <3>10, QuietTrans
  <2> QED
    BY <2>4, <2>6, <2>7 DEF r
<1> QED
  BY <1>1, <1>2, <1>3

(* PutEntry: the entry of p becomes w, whose frame, if it has one, is new; what the old   *)
(* entry named is freed.                                                                  *)
LEMMA PutIs ==
  ASSUME NEW acc, DOMAIN acc = AddFields, NEW s, IsSystem(s), NEW p, NEW w, acc.exec \in BOOLEAN
  PROVE  LET r == PutEntry(acc, s, p, w) IN
         /\ DOMAIN r = AddFields /\ IsSystem(r.s) /\ r.s.moved = s.moved
         /\ r.exec \in BOOLEAN /\ r.ptr = acc.ptr /\ r.table = acc.table
         /\ \A K, G, I :
                /\ s.moved = 0 /\ acc.ptr = 0 /\ p \in Pages /\ HasTable(s, p) /\ acc.table = Table(s, p)
                /\ Owned(s, K, G, I) /\ w \in Ptes
                /\ IF w.hp = NoHost THEN w.rsrv /\ ~w.mug
                   ELSE /\ w.rsrv => w.mug
                        /\ w.hp \in 0 .. Len(s.hostpages) - 1 /\ K[FindHostPage(s, w)] = "none"
                => /\ Replaced(s, r.s, p, w)
                   /\ r.exec = (acc.exec \/ (Valid(LoadPte(s, p)) /\ Drops(LoadPte(s, p))))
<1> DEFINE old == s.ram[acc.table][Index(p)]
           ram == SetWord(s.ram, acc.table, Index(p), w)
           t == IF s.moved = acc.ptr THEN [s EXCEPT !.ram = ram] ELSE s
           mid == [acc EXCEPT !.s = t]
           r == PutEntry(acc, s, p, w)
<1>1. r = FreeOld([acc EXCEPT !.s = IF s.moved = acc.ptr THEN [s EXCEPT !.ram = ram] ELSE s], p, old)
  BY DEF PutEntry, SetWord, IsSystem, Fields
<1>2. IsSystem(t) /\ t.moved = s.moved
  BY DEF IsSystem, Fields
<1>3. s.moved = acc.ptr => Becomes(s, t, ram, s.hostpages, s.free, s.next) /\ t.hostpages = s.hostpages
  BY DEF Becomes, IsSystem, Fields
<1>4. r = FreeOld(mid, p, old)
  BY <1>1
<1> HIDE DEF t, ram, r
<1>5. DOMAIN mid = AddFields /\ mid.s = t /\ mid.exec = acc.exec /\ mid.ptr = acc.ptr /\ mid.table = acc.table
  BY DEF AddFields
<1> HIDE DEF mid, old
<1>6. LET z == FreePage(mid, p, old) IN
      /\ DOMAIN z = DOMAIN mid /\ IsSystem(z.s) /\ z.s.moved = t.moved
      /\ z.exec = (acc.exec \/ Drops(old)) /\ z.exec \in BOOLEAN
      /\ z.ptr = acc.ptr /\ z.table = acc.table
      /\ \A K, G, I : Owned(t, K, G, I) /\ Loose(t, old, K) => Still(t, z.s)
  BY <1>2, <1>5, FreePageIs DEF AddFields
<1>7. DOMAIN r = AddFields /\ IsSystem(r.s) /\ r.s.moved = s.moved
      /\ r.exec \in BOOLEAN /\ r.ptr = acc.ptr /\ r.table = acc.table
  BY <1>2, <1>4, <1>5, <1>6 DEF FreeOld
<1>8. ASSUME NEW K, NEW G, NEW I, s.moved = 0, acc.ptr = 0, p \in Pages, HasTable(s, p), acc.table = Table(s, p),
             Owned(s, K, G, I), w \in Ptes,
             IF w.hp = NoHost THEN w.rsrv /\ ~w.mug
             ELSE /\ w.rsrv => w.mug
                  /\ w.hp \in 0 .. Len(s.hostpages) - 1 /\ K[FindHostPage(s, w)] = "none"
      PROVE  /\ Replaced(s, r.s, p, w)
             /\ r.exec = (acc.exec \/ (Valid(LoadPte(s, p)) /\ Drops(LoadPte(s, p))))
  <2>1. old = LoadPte(s, p) /\ Good(s)
    BY <1>8 DEF LoadPte, old, Good
  <2>2. Replaces(s, K, old, w)
    BY <1>8 DEF Replaces
  <2>3. Becomes(s, t, SetWord(s.ram, Table(s, p), Index(p), w), s.hostpages, s.free, s.next)
        /\ t.hostpages = s.hostpages
    BY <1>3, <1>8 DEF ram
  <2>4. (\E L, H, J : Owned(t, L, H, J) /\ Freed(s, L, old, w)) /\ Replaced(s, t, p, w)
    BY <1>8, <2>1, <2>2, <2>3, PutPte
  <2>5. PICK L, H, J : Owned(t, L, H, J) /\ Freed(s, L, old, w)
    BY <2>4
  <2>6. CASE ~Valid(old)
    <3>1. r = mid
      BY <1>4, <2>6 DEF FreeOld
    <3> QED
      BY <1>5, <2>1, <2>4, <2>6, <3>1
  <2>7. CASE Valid(old)
    <3>1. r = FreePage(mid, p, old)
      BY <1>4, <2>7 DEF FreeOld
    <3>2. old \in Ptes /\ Backed(s, old, K, G, I, Table(s, p), Index(p))
      BY <1>8, <2>1, <2>7, PteFound, WordsAre
    <3>3. ASSUME w.hp = old.hp, old.hp # NoHost PROVE FALSE
      <4>1. K[FindHostPage(s, w)] = "none" /\ K[FindHostPage(s, old)] = "page"
        BY <1>8, <3>2, <3>3 DEF Backed, Points
      <4> QED
        BY <3>3, <4>1 DEF FindHostPage
    <3>4. Loose(t, old, L)
      BY <2>3, <2>5, <3>2, <3>3 DEF Freed, Loose, Backed, FindHostPage
    <3>5. Still(t, r.s) /\ r.exec = (acc.exec \/ Drops(old))
      BY <1>6, <2>5, <3>1, <3>4
    <3>6. Replaced(s, r.s, p, w)
      BY <1>8, <2>1, <2>4, <3>5, ReplacedStill
    <3> QED
      BY <2>1, <2>7, <3>5, <3>6
  <2> QED
    BY <2>6, <2>7
<1> QED
  BY <1>7, <1>8 DEF r

(* One page of ReserveVirtual: table, frame, entry and the old page, in this order.       *)
LEMMA AddIs ==
  ASSUME NEW acc, DOMAIN acc = AddFields, IsSystem(acc.s), acc.exec \in BOOLEAN, NEW p,
         NEW prot \in SUBSET {"r", "w", "x"}, NEW backing, NEW file \in BOOLEAN
  PROVE  LET r == AddPage(EnterTable(acc, p), p, prot, backing, file) IN
         /\ DOMAIN r = AddFields /\ Evolves(acc.s, r.s) /\ r.exec \in BOOLEAN
         /\ \A b : r.s.moved = 0 /\ Good(acc.s) /\ p \in Pages /\ At(acc, p) /\ Good(b) /\ Kept(b, acc.s, acc.exec) =>
                Good(r.s) /\ Kept(b, r.s, r.exec) /\ At(r, p + 1)
<1> DEFINE e == EnterTable(acc, p)
           s == IF backing = "anon" THEN e.s ELSE AllocateBig(e.s, backing)
           w == Entry(s, prot, backing, file)
           r == AddPage(e, p, prot, backing, file)
<1>1. /\ DOMAIN e = AddFields /\ Evolves(acc.s, e.s) /\ e.exec = acc.exec
      /\ e.s.moved = 0 /\ Good(acc.s) /\ p \in Pages /\ At(acc, p) =>
             Quiet(acc.s, e.s) /\ HasTable(e.s, p) /\ e.table = Table(e.s, p) /\ e.ptr = 0
  BY EnterIs
<1>2. r = PutEntry(e, s, p, w)
  BY DEF AddPage, AddBacked
<1> HIDE DEF e, r
<1>3. Evolves(e.s, s)
  <2>1. IsSystem(e.s) /\ e.s.moved >= e.s.moved
    BY <1>1 DEF Evolves, IsSystem
  <2>2. Evolves(e.s, AllocateBig(e.s, backing))
    BY <2>1, BigIs
  <2> QED
    BY <2>1, <2>2 DEF Evolves
<1> HIDE DEF w
<1>4. /\ DOMAIN r = AddFields /\ IsSystem(r.s) /\ r.s.moved = s.moved
      /\ r.exec \in BOOLEAN /\ r.ptr = e.ptr /\ r.table = e.table
  <2>1. IsSystem(s) /\ e.exec \in BOOLEAN
    BY <1>1, <1>3 DEF Evolves
  <2> HIDE DEF s
  <2> QED
    BY <1>1, <1>2, <2>1, PutIs
<1>5. Evolves(acc.s, r.s)
  BY <1>1, <1>3, <1>4 DEF Evolves, IsSystem
<1>6. ASSUME NEW b, r.s.moved = 0, Good(acc.s), p \in Pages, At(acc, p), Good(b), Kept(b, acc.s, acc.exec)
      PROVE  Good(r.s) /\ Kept(b, r.s, r.exec) /\ At(r, p + 1)
  <2>1. s.moved = 0 /\ e.s.moved = 0
    BY <1>1, <1>3, <1>4, <1>6 DEF Evolves, IsSystem
  <2>2. Quiet(acc.s, e.s) /\ HasTable(e.s, p) /\ e.table = Table(e.s, p) /\ e.ptr = 0 /\ Good(e.s)
    BY <1>1, <1>6, <2>1 DEF Quiet
  <2>3. PICK K, G, I : Owned(e.s, K, G, I)
    BY <2>2 DEF Good
  <2>4. \E L : /\ Owned(s, L, G, I) /\ SameTables(e.s, s) /\ SamePtes(e.s, s) /\ Longer(e.s, s) /\ w \in Ptes
               /\ IF w.hp = NoHost THEN w.rsrv /\ ~w.mug
                  ELSE /\ w.rsrv => w.mug
                       /\ w.hp \in 0 .. Len(s.hostpages) - 1 /\ L[FindHostPage(s, w)] = "none"
    <3>0. TRUE \in BOOLEAN /\ FALSE \in BOOLEAN /\ NoHost \in Int
      BY DEF NoHost
    <3>1. CASE backing = "anon"
      <4>1. w = Pte(NoHost, TRUE, FALSE, prot, file) /\ s = e.s
        BY <3>1 DEF w, Entry
      <4>2. w \in Ptes /\ w.hp = NoHost /\ w.rsrv /\ ~w.mug
        BY <3>0, <4>1 DEF Pte, Ptes, NoHost
      <4>3. SameTables(e.s, e.s) /\ SamePtes(e.s, e.s) /\ Longer(e.s, e.s)
        BY <2>2, GoodTypes DEF SameTables, SamePtes, Longer
      <4> HIDE DEF s
      <4> QED
        BY <2>3, <4>1, <4>2, <4>3
    <3>2. CASE backing # "anon"
      <4>1. s = AllocateBig(e.s, backing) /\ w = Pte(LastTracked(s), TRUE, TRUE, prot, file)
        BY <3>2 DEF w, Entry
      <4>2. PICK f, L : /\ f \in Frames /\ L[f] = "none" /\ s.hostpages = Append(e.s.hostpages, f)
                        /\ Owned(s, L, G, I) /\ SameTables(e.s, s) /\ SamePtes(e.s, s)
        BY <1>1, <2>1, <2>3, <4>1, BigIs DEF Evolves
      <4> HIDE DEF s
      <4>3. e.s.hostpages \in Seq(Frames)
        BY <2>3 DEF Owned, Typed
      <4>4. /\ LastTracked(s) \in 0 .. Len(s.hostpages) - 1 /\ LastTracked(s) \in Int
            /\ \A v : v.hp = LastTracked(s) => FindHostPage(s, v) = f
        BY <4>2, <4>3, LastIs
      <4>5. w \in Ptes /\ w.hp = LastTracked(s) /\ w.rsrv /\ w.mug
        BY <4>1, <4>4 DEF Pte, Ptes
      <4>6. Longer(e.s, s)
        BY <4>2, <4>3, LongerByOne
      <4>7. w.hp # NoHost
        BY <4>2, <4>4, <4>5 DEF NoHost
      <4>8. IF w.hp = NoHost THEN w.rsrv /\ ~w.mug
            ELSE /\ w.rsrv => w.mug
                 /\ w.hp \in 0 .. Len(s.hostpages) - 1 /\ L[FindHostPage(s, w)] = "none"
        BY <4>2, <4>4, <4>5, <4>7
      <4> QED
        BY <4>2, <4>5, <4>6, <4>8
    <3> QED
      BY <3>1, <3>2
  <2> HIDE DEF s
  <2>5. PICK L : /\ Owned(s, L, G, I) /\ SameTables(e.s, s) /\ SamePtes(e.s, s) /\ Longer(e.s, s) /\ w \in Ptes
                 /\ IF w.hp = NoHost THEN w.rsrv /\ ~w.mug
                    ELSE /\ w.rsrv => w.mug
                         /\ w.hp \in 0 .. Len(s.hostpages) - 1 /\ L[FindHostPage(s, w)] = "none"
    BY <2>4
  <2>6. Quiet(e.s, s) /\ HasTable(s, p) /\ e.table = Table(s, p) /\ Good(s)
    BY <1>6, <2>2, <2>5 DEF Quiet, Good, SameTables
  <2>7. /\ Replaced(s, r.s, p, w)
        /\ r.exec = (e.exec \/ (Valid(LoadPte(s, p)) /\ Drops(LoadPte(s, p))))
    <3>1. IsSystem(s) /\ e.exec \in BOOLEAN
      BY <1>1, <1>3 DEF Evolves
    <3> QED
      BY <1>1, <1>2, <1>6, <2>1, <2>2, <2>5, <2>6, <3>1, PutIs
  <2>8. Kept(b, s, e.exec)
    <3>1. Kept(b, e.s, e.exec)
      BY <1>1, <1>6, <2>2, KeptQuiet
    <3> QED
      BY <1>6, <2>2, <2>6, <3>1, KeptQuiet
  <2>9. Kept(b, r.s, r.exec)
    BY <1>1, <1>6, <2>6, <2>7, <2>8, KeptReplaced
  <2>10. Good(r.s) /\ HasTable(r.s, p) /\ Table(r.s, p) = r.table
    BY <1>4, <1>6, <2>6, <2>7 DEF Replaced, SameTables
  <2>11. At(r, p + 1)
    <3> SUFFICES ASSUME p + 1 \in Pages, Index(p + 1) # 0
                 PROVE  r.ptr = 0 /\ HasTable(r.s, p + 1) /\ r.table = Table(r.s, p + 1)
      BY DEF At
    <3>1. Dir(p + 1) = Dir(p)
      BY <1>6, NextPlace
    <3> QED
      BY <1>4, <2>2, <2>10, <3>1, SameTable
  <2> QED
    BY <2>9, <2>10, <2>11
<1> QED
  BY <1>4, <1>5, <1>6 DEF r, e

\* Where ReserveVirtual starts, once RemoveVirtual is done.
AddStart(gone, virt, n, backing) ==
    [s |-> [gone.s EXCEPT !.reserved = @ + n,
                          !.filemaps = IF backing = "file" THEN <<virt .. virt + n - 1>> \o @ ELSE @],
     ptr |-> -1, table |-> -1, vss |-> gone.vss + n, rss |-> gone.rss, exec |-> gone.exec]

(* ReserveVirtual is n turns of AddPage after RemoveVirtual.                              *)
LEMMA AddRuns ==
  ASSUME NEW gone, NEW virt \in Int, NEW n \in Nat, NEW prot, NEW backing, NEW file
  PROVE  \E f : /\ Runs(f, "add", [prot |-> prot, backing |-> backing, file |-> file],
                        AddStart(gone, virt, n, backing), Span(virt, n), n)
                /\ ReserveGone(gone, virt, n, prot, backing, file) = AddDeltas(f[n])
<1> DEFINE start == AddStart(gone, virt, n, backing)
           seq == Span(virt, n)
           k == [prot |-> prot, backing |-> backing, file |-> file]
           run[i \in 0 .. Len(seq)] ==
               IF i = 0 THEN start
               ELSE AddPage(EnterTable(run[i - 1], seq[i]), seq[i], prot, backing, file \/ backing = "file")
<1>1. ReserveGone(gone, virt, n, prot, backing, file) = AddDeltas(run[Len(seq)])
  BY DEF ReserveGone, AddStart, Iterate
<1>2. Len(seq) \in Nat /\ Len(seq) = n
  BY SpanIs
<1>3. k.prot = prot /\ k.backing = backing /\ k.file = file
  OBVIOUS
<1> HIDE DEF seq, k, start
<1>4. PICK g : Fixed(g, "add", k, start, seq)
  BY <1>2, LoopFixed
<1>5. \E h : h = [i \in 0 .. Len(seq) |->
               IF i = 0 THEN start
               ELSE AddPage(EnterTable(h[i - 1], seq[i]), seq[i], prot, backing, file \/ backing = "file")]
  BY ONLY <1>3, <1>4 DEF Fixed, Turn
<1>6. run = [i \in 0 .. Len(seq) |->
               IF i = 0 THEN start
               ELSE AddPage(EnterTable(run[i - 1], seq[i]), seq[i], prot, backing, file \/ backing = "file")]
  BY ONLY <1>5 DEF run
<1> HIDE DEF run
<1>7. Fixed(run, "add", k, start, seq)
  BY ONLY <1>3, <1>6 DEF Fixed, Turn
<1>8. Runs(run, "add", k, start, seq, n)
  BY ONLY <1>2, <1>7, FixedRuns
<1> QED
  BY ONLY <1>1, <1>2, <1>8 DEF seq, k, start

(* ReserveVirtual as a whole keeps the books of frames and tells of pages of code that    *)
(* were replaced, unless the pool moves.                                                  *)
LEMMA ReserveIs ==
  ASSUME NEW s, IsSystem(s), NEW virt \in Int, NEW n \in Nat, NEW prot \in SUBSET {"r", "w", "x"}, NEW backing,
         NEW file \in BOOLEAN
  PROVE  LET r == ReserveVirtual(s, virt, n, prot, backing, file) IN
         /\ DOMAIN r = AddFields /\ Evolves(s, r.s) /\ r.exec \in BOOLEAN
         /\ r.s.moved = 0 /\ Good(s) /\ virt >= 0 /\ virt + n <= NPages =>
                Good(r.s) /\ Kept(s, r.s, r.exec)
<1> DEFINE gone == RemoveVirtual(s, virt, n)
           start == AddStart(gone, virt, n, backing)
           t == start.s
           r == ReserveVirtual(s, virt, n, prot, backing, file)
           any == file \/ backing = "file"
<1>1. /\ IsSystem(gone.s) /\ gone.s.moved = s.moved /\ gone.exec \in BOOLEAN
      /\ Good(s) /\ virt >= 0 /\ virt + n <= NPages => Good(gone.s) /\ Kept(s, gone.s, gone.exec)
  BY RemoveIs
<1>2. r = ReserveGone(gone, virt, n, prot, backing, file)
  BY DEF ReserveVirtual
<1>3. PICK f : Runs(f, "add", [prot |-> prot, backing |-> backing, file |-> file], start, Span(virt, n), n)
               /\ r = AddDeltas(f[n])
  BY <1>2, AddRuns
<1> HIDE DEF r, gone
<1>4. IsSystem(t) /\ t.moved = s.moved /\ Same(gone.s, t)
  <2> DEFINE maps == IF backing = "file" THEN <<virt .. virt + n - 1>> \o gone.s.filemaps ELSE gone.s.filemaps
  <2>1. t = [gone.s EXCEPT !.reserved = gone.s.reserved + n, !.filemaps = maps]
    BY DEF AddStart
  <2> HIDE DEF maps, t
  <2> QED
    BY <1>1, <2>1 DEF IsSystem, Fields, Same
<1>5. DOMAIN start = AddFields /\ start.ptr = -1 /\ start.exec = gone.exec /\ start.exec \in BOOLEAN
  BY <1>1 DEF AddFields, AddStart
<1> HIDE DEF start
<1> DEFINE last == f[n]
<1>7. /\ f[0] = start
      /\ \A i \in 1 .. n : f[i] = AddPage(EnterTable(f[i - 1], virt + i - 1), virt + i - 1, prot, backing, any)
  BY <1>3, SpanIs DEF Runs, Turn
<1>8. any \in BOOLEAN
  OBVIOUS
<1> HIDE DEF any
<1> DEFINE Types(a) == DOMAIN a = AddFields /\ Evolves(s, a.s) /\ a.exec \in BOOLEAN
           Sound(i) == /\ Types(f[i])
                       /\ f[i].s.moved = 0 /\ Good(s) /\ virt >= 0 /\ virt + n <= NPages =>
                             Good(f[i].s) /\ Kept(s, f[i].s, f[i].exec) /\ At(f[i], virt + i)
           S == {i \in 0 .. n : Sound(i)}
<1>9. Sound(0)
  <2>1. Types(start)
    BY <1>1, <1>4, <1>5 DEF Evolves, IsSystem
  <2>2. ASSUME Good(s), virt >= 0, virt + n <= NPages
        PROVE  Good(start.s) /\ Kept(s, start.s, start.exec) /\ At(start, virt)
    <3>1. Quiet(gone.s, t)
      BY <1>1, <1>4, <2>2, QuietSame
    <3>2. Kept(s, t, gone.exec) /\ Good(t)
      BY <1>1, <2>2, <3>1, KeptQuiet DEF Quiet
    <3>3. At(start, virt)
      BY <1>5 DEF At
    <3> QED
      BY <1>5, <3>2, <3>3
  <2> QED
    BY <1>7, <2>1, <2>2
<1>10. ASSUME NEW i \in 0 .. n, Sound(i), i < n PROVE Sound(i + 1)
  <2> DEFINE a == f[i]
             p == virt + i
             b == f[i + 1]
  <2>1. b = AddPage(EnterTable(a, p), p, prot, backing, any)
    <3>1. i + 1 \in 1 .. n /\ (i + 1) - 1 = i /\ virt + (i + 1) - 1 = virt + i
      BY <1>10
    <3> QED
      BY <1>7, <3>1
  <2>2. DOMAIN a = AddFields /\ Evolves(s, a.s) /\ IsSystem(a.s) /\ a.exec \in BOOLEAN
    BY <1>10 DEF Evolves
  <2> HIDE DEF a, b, p
  <2>3. /\ DOMAIN b = AddFields /\ Evolves(a.s, b.s) /\ b.exec \in BOOLEAN
        /\ \A c : b.s.moved = 0 /\ Good(a.s) /\ p \in Pages /\ At(a, p) /\ Good(c) /\ Kept(c, a.s, a.exec) =>
                Good(b.s) /\ Kept(c, b.s, b.exec) /\ At(b, p + 1)
    BY <1>8, <2>1, <2>2, AddIs
  <2>4. Types(b)
    BY <2>2, <2>3 DEF Evolves, IsSystem
  <2>5. ASSUME b.s.moved = 0, Good(s), virt >= 0, virt + n <= NPages
        PROVE  Good(b.s) /\ Kept(s, b.s, b.exec) /\ At(b, p + 1)
    <3>1. a.s.moved = 0
      BY <2>2, <2>3, <2>5 DEF Evolves, IsSystem
    <3>2. Good(a.s) /\ Kept(s, a.s, a.exec) /\ At(a, p)
      BY <1>10, <2>5, <3>1 DEF a, p
    <3>3. p \in Pages
      BY <1>10, <2>5, Bounds DEF Pages, NPages, p
    <3> QED
      BY <2>3, <2>5, <3>2, <3>3
  <2>6. p + 1 = virt + (i + 1)
    BY DEF p
  <2> QED
    BY <2>4, <2>5, <2>6 DEF b
<1>11. Sound(n)
  <2>1. S \in SUBSET (0 .. n) /\ 0 \in S
    BY <1>9
  <2>2. \A i \in S : i < n => i + 1 \in S
    <3> SUFFICES ASSUME NEW i \in S, i < n PROVE i + 1 \in S
      OBVIOUS
    <3>1. i \in 0 .. n /\ Sound(i) /\ i + 1 \in 0 .. n
      OBVIOUS
    <3> HIDE DEF Sound
    <3>2. Sound(i + 1)
      BY <1>10, <3>1
    <3> QED
      BY <3>1, <3>2
  <2> HIDE DEF S
  <2>3. n \in S
    BY <2>1, <2>2, Climb
  <2> QED
    BY <2>3 DEF S
<1>12. /\ Types(last)
       /\ last.s.moved = 0 /\ Good(s) /\ virt >= 0 /\ virt + n <= NPages => Good(last.s) /\ Kept(s, last.s, last.exec)
  BY <1>11
<1> HIDE DEF last
<1> DEFINE u == [last.s EXCEPT !.vss = last.s.vss + last.vss, !.rss = last.s.rss + last.rss]
<1>13. r = [last EXCEPT !.s = u]
  BY <1>3 DEF AddDeltas, last
<1>14. IsSystem(u) /\ u.moved = last.s.moved /\ Same(last.s, u)
  BY <1>12 DEF Evolves, IsSystem, Fields, Same
<1> HIDE DEF u
<1>15. DOMAIN r = AddFields /\ r.s = u /\ r.exec = last.exec
  BY <1>12, <1>13 DEF AddFields
<1>16. Evolves(s, r.s) /\ r.exec \in BOOLEAN
  BY <1>12, <1>14, <1>15 DEF Evolves
<1>17. ASSUME r.s.moved = 0, Good(s), virt >= 0, virt + n <= NPages
       PROVE  Good(r.s) /\ Kept(s, r.s, r.exec)
  <2>1. Good(last.s) /\ Kept(s, last.s, last.exec)
    BY <1>12, <1>14, <1>15, <1>17
  <2>2. Quiet(last.s, u)
    BY <1>14, <2>1, QuietSame
  <2> QED
    BY <1>15, <1>17, <2>1, <2>2, KeptQuiet DEF Quiet
<1> QED
  BY <1>15, <1>16, <1>17 DEF r

(* So does FreeVirtual, which never moves the pool.                                       *)
LEMMA FreeVirtualIs ==
  ASSUME NEW s, IsSystem(s), NEW virt \in Int, NEW n \in Nat
  PROVE  LET r == FreeVirtual(s, virt, n) IN
         /\ DOMAIN r = Scan /\ IsSystem(r.s) /\ r.s.moved = s.moved /\ r.exec \in BOOLEAN
         /\ Good(s) /\ virt >= 0 /\ virt + n <= NPages =>
                Good(r.s) /\ Kept(s, r.s, r.exec)
<1> DEFINE gone == RemoveVirtual(s, virt, n)
           t == [gone.s EXCEPT !.memchurn = gone.s.memchurn - gone.vss]
           mid == [gone EXCEPT !.s = t]
           u == [t EXCEPT !.vss = t.vss + gone.vss, !.rss = t.rss + gone.rss]
           r == FreeVirtual(s, virt, n)
<1>1. /\ DOMAIN gone = Scan /\ IsSystem(gone.s) /\ gone.s.moved = s.moved /\ gone.exec \in BOOLEAN
      /\ Good(s) /\ virt >= 0 /\ virt + n <= NPages => Good(gone.s) /\ Kept(s, gone.s, gone.exec)
  BY RemoveIs
<1>2. r = AddDeltas(Churned(gone))
  BY DEF FreeVirtual
<1> HIDE DEF gone, r
<1>3. Churned(gone) = mid
  BY DEF Churned
<1>4. IsSystem(u) /\ u.moved = s.moved /\ Same(gone.s, u)
  BY <1>1 DEF IsSystem, Fields, Same
<1> HIDE DEF t
<1>5. DOMAIN mid = Scan /\ mid.s = t /\ mid.vss = gone.vss /\ mid.rss = gone.rss /\ mid.exec = gone.exec
  BY <1>1 DEF Scan
<1> HIDE DEF mid
<1>6. r = [mid EXCEPT !.s = u]
  BY <1>2, <1>3, <1>5 DEF AddDeltas
<1> HIDE DEF u
<1>7. DOMAIN r = Scan /\ r.s = u /\ r.exec = gone.exec
  BY <1>5, <1>6 DEF Scan
<1>8. ASSUME Good(s), virt >= 0, virt + n <= NPages PROVE Good(u) /\ Kept(s, u, gone.exec)
  <2>1. Quiet(gone.s, u)
    BY <1>1, <1>4, <1>8, QuietSame
  <2> QED
    BY <1>1, <1>8, <2>1, KeptQuiet DEF Quiet
<1> QED
  BY <1>1, <1>4, <1>7, <1>8 DEF r

(* CleanseMemory. *)

(* A turn of FreeEmptyPageTables drops a table that has no entry.                         *)
LEMMA EmptyTableIs ==
  ASSUME NEW s, IsSystem(s), NEW d \in Slots
  PROVE  /\ IsSystem(FreeEmptyTable(s, d)) /\ FreeEmptyTable(s, d).moved = s.moved
         /\ FreeEmptyTable(s, d).brk = s.brk
         /\ Good(s) => Quiet(s, FreeEmptyTable(s, d))
<1> DEFINE p == d * PerTable
           t == DropTable(s, p)
<1>1. p \in Pages /\ Dir(p) = d
  <2>1. 0 \in Slots /\ d * PerTable + 0 = d * PerTable
    BY Bounds DEF Slots
  <2> QED
    BY <2>1, PlaceIs
<1>2. FreeEmptyTable(s, d) = IF HasTable(s, p) /\ s.ram[Table(s, p)] = ZeroFrame THEN t ELSE s
  BY <1>1 DEF FreeEmptyTable, DropTable
<1>3. t.brk = s.brk
  BY DEF DropTable, FreePageTable, FreeAnonymousPage, IsSystem, Fields
<1>4. IsSystem(t) /\ t.moved = s.moved
  BY DropMoves
<1>5. Good(s) => Quiet(s, s)
  BY QuietSame DEF Same
<1>6. HasTable(s, p) /\ s.ram[Table(s, p)] = ZeroFrame /\ Good(s) => Quiet(s, t)
  BY <1>1, DropIs
<1> HIDE DEF t, p
<1> QED
  BY <1>2, <1>3, <1>4, <1>5, <1>6

(* FreeEmptyPageTables is one turn for each place of the root, and then the root.         *)
LEMMA CleanRuns ==
  ASSUME NEW s
  PROVE  \E f : /\ f[0] = s
                /\ \A i \in 1 .. PerTable : f[i] = FreeEmptyTable(f[i - 1], i - 1)
                /\ FreeEmptyPageTables(s) = FreeEmptyRoot(f[PerTable])
<1> DEFINE seq == [i \in 1 .. PerTable |-> i - 1]
           run[i \in 0 .. Len(seq)] == IF i = 0 THEN s ELSE FreeEmptyTable(run[i - 1], seq[i])
<1>1. FreeEmptyPageTables(s) = FreeEmptyRoot(run[Len(seq)])
  BY DEF FreeEmptyPageTables, Iterate
<1>2. Len(seq) \in Nat /\ Len(seq) = PerTable /\ \A i \in 1 .. PerTable : seq[i] = i - 1
  BY Bounds
<1> HIDE DEF seq
<1>4. PICK g : Fixed(g, "clean", 0, s, seq)
  BY <1>2, LoopFixed
<1>5. \E h : h = [i \in 0 .. Len(seq) |-> IF i = 0 THEN s ELSE FreeEmptyTable(h[i - 1], seq[i])]
  BY ONLY <1>4 DEF Fixed, Turn
<1>6. run = [i \in 0 .. Len(seq) |-> IF i = 0 THEN s ELSE FreeEmptyTable(run[i - 1], seq[i])]
  BY ONLY <1>5 DEF run
<1> HIDE DEF run
<1>7. Fixed(run, "clean", 0, s, seq)
  BY ONLY <1>6 DEF Fixed, Turn
<1>8. Runs(run, "clean", 0, s, seq, PerTable)
  BY ONLY <1>2, <1>7, FixedRuns
<1>9. \A i \in 1 .. PerTable : run[i] = FreeEmptyTable(run[i - 1], i - 1)
  BY ONLY <1>2, <1>8 DEF Runs, Turn
<1> QED
  BY <1>1, <1>2, <1>8, <1>9 DEF Runs

(* CleanseMemory leaves every entry alone; the root stays, since something is mapped.     *)
LEMMA CleanseIs ==
  ASSUME NEW s, IsSystem(s)
  PROVE  LET r == CleanseMemory(s) IN
         /\ IsSystem(r) /\ r.moved = s.moved /\ r.brk = s.brk
         /\ Good(s) /\ (\E p \in Pages : Valid(LoadPte(s, p))) => Quiet(s, r)
<1> DEFINE r == CleanseMemory(s)
<1>1. PICK f : /\ f[0] = s
               /\ \A i \in 1 .. PerTable : f[i] = FreeEmptyTable(f[i - 1], i - 1)
               /\ FreeEmptyPageTables(s) = FreeEmptyRoot(f[PerTable])
  BY CleanRuns
<1> DEFINE Sound(i) == /\ IsSystem(f[i]) /\ f[i].moved = s.moved /\ f[i].brk = s.brk
                       /\ Good(s) => Quiet(s, f[i])
           S == {i \in 0 .. PerTable : Sound(i)}
           n == PerTable
           t == f[n]
           u == FreePageTable(t, Root(t))
           v == FreeEmptyRoot(t)
<1>2. Sound(0)
  <2>1. Good(s) => Quiet(s, s)
    BY QuietSame DEF Same
  <2> QED
    BY <1>1, <2>1
<1>3. ASSUME NEW i \in 0 .. n, Sound(i), i < n PROVE Sound(i + 1)
  <2>1. i + 1 \in 1 .. n /\ (i + 1) - 1 = i /\ i \in Slots
    BY <1>3, Bounds DEF Slots
  <2>2. f[i + 1] = FreeEmptyTable(f[i], i)
    BY <1>1, <2>1
  <2>3. /\ IsSystem(f[i + 1]) /\ f[i + 1].moved = s.moved /\ f[i + 1].brk = s.brk
        /\ Good(f[i]) => Quiet(f[i], f[i + 1])
    BY <1>3, <2>1, <2>2, EmptyTableIs
  <2> QED
    BY <1>3, <2>3, QuietTrans DEF Quiet
<1>4. Sound(n)
  <2>1. S \in SUBSET (0 .. n) /\ 0 \in S /\ n \in Nat /\ n \in 0 .. n
    BY <1>2, Bounds
  <2>2. \A i \in S : i < n => i + 1 \in S
    <3> SUFFICES ASSUME NEW i \in S, i < n PROVE i + 1 \in S
      OBVIOUS
    <3>1. i \in 0 .. n /\ Sound(i) /\ i + 1 \in 0 .. n
      BY Bounds
    <3> HIDE DEF Sound
    <3>2. Sound(i + 1)
      BY <1>3, <3>1
    <3> QED
      BY <3>1, <3>2
  <2> HIDE DEF S, n
  <2>3. n \in S
    BY <2>1, <2>2, Climb
  <2> QED
    BY <2>3 DEF S
<1> HIDE DEF t
<1>5. u = [[t EXCEPT !.free = <<Root(t)>> \o @] EXCEPT !.tables = @ - 1, !.rss = @ - 1]
  BY DEF FreePageTable, FreeAnonymousPage
<1>6. IsSystem(u) /\ u.moved = s.moved /\ u.brk = s.brk
  <2>1. IsSystem(t) /\ t.moved = s.moved /\ t.brk = s.brk
    BY <1>4 DEF t
  <2> HIDE DEF u
  <2> QED
    BY <1>5, <2>1 DEF IsSystem, Fields
<1> HIDE DEF u
<1>7. IsSystem(v) /\ v.moved = s.moved /\ v.brk = s.brk
  BY <1>4, <1>6 DEF FreeEmptyRoot, u, t
<1>8. ASSUME Good(s), NEW p \in Pages, Valid(LoadPte(s, p)) PROVE v = t /\ Quiet(s, t)
  <2>1. Quiet(s, t) /\ Good(t)
    BY <1>4, <1>8 DEF t, Quiet
  <2>2. HasTable(t, p)
    BY <1>8, <2>1, GoodTable DEF Quiet, SamePtes
  <2>3. t.ram[Root(t)] # ZeroFrame
    BY <2>2, DivMod, ZeroFrameIs, WordsAre DEF HasTable, DirEntry
  <2> QED
    BY <2>1, <2>3 DEF FreeEmptyRoot
<1> HIDE DEF v
<1> DEFINE x == [v EXCEPT !.memchurn = 0]
<1>9. r = IF s.memchurn >= s.rss \div 2 THEN x ELSE s
  BY <1>1 DEF CleanseMemory, v, t, n
<1>10. IsSystem(x) /\ x.moved = s.moved /\ x.brk = s.brk /\ Same(v, x)
  BY <1>7 DEF IsSystem, Fields, Same
<1> HIDE DEF x, r
<1>11. ASSUME Good(s), \E p \in Pages : Valid(LoadPte(s, p)) PROVE Quiet(s, r)
  <2>1. Quiet(s, v) /\ Good(v)
    BY <1>8, <1>11 DEF Quiet
  <2>2. Quiet(s, x)
    BY <1>10, <1>11, <2>1, QuietSame, QuietTrans
  <2>3. Quiet(s, s)
    BY <1>11, QuietSame DEF Same
  <2> QED
    BY <1>9, <2>2, <2>3
<1> QED
  BY <1>9, <1>10, <1>11 DEF r

(* FindVirtual. *)

(* The least number of a set is in it: what FindVirtual and CleanseMemory take of Min.    *)
LEMMA Least ==
  ASSUME NEW S \in SUBSET Nat, S # {}
  PROVE  Min(S) \in S
<1> SUFFICES ASSUME ~ \E x \in S : \A y \in S : x <= y PROVE FALSE
  BY DEF Min
<1>1. PICK k \in S : k \in Nat
  OBVIOUS
<1> DEFINE U == {i \in 0 .. k : \A y \in S : i <= y}
<1>2. 0 \in U /\ U \in SUBSET (0 .. k)
  OBVIOUS
<1>3. ASSUME NEW i \in U, i < k PROVE i + 1 \in U
  <2>1. i \notin S /\ \A y \in S : i <= y
    OBVIOUS
  <2>2. \A y \in S : i + 1 <= y
    BY <2>1
  <2> QED
    BY <1>3, <2>2
<1> HIDE DEF U
<1>4. \A i \in 0 .. k : i \in U
  BY <1>1, <1>2, <1>3, Climb
<1>5. k \in 0 .. k
  BY <1>1
<1> QED
  BY <1>1, <1>4, <1>5 DEF U

(* IsFullyUnmapped looks at pages of its interval only.                                   *)
LEMMA SeenIs ==
  ASSUME NEW s, NEW virt \in Int, NEW n \in Nat
  PROVE  Seen(s, virt, n) \subseteq virt .. virt + n - 1
<1> DEFINE base == [at |-> virt, pages |-> {}]
           seq == Span(virt, n)
           Step(acc, p) == IF p # acc.at THEN acc
                           ELSE [at |-> IF HasTable(s, p) THEN p + 1 ELSE p + PerTable, pages |-> acc.pages \cup {p}]
           run[i \in 0 .. Len(seq)] == IF i = 0 THEN base ELSE Step(run[i - 1], seq[i])
<1>1. Seen(s, virt, n) = run[Len(seq)].pages
  BY DEF Seen, Iterate
<1>2. Len(seq) \in Nat /\ Len(seq) = n /\ \A i \in 1 .. n : seq[i] = virt + i - 1
  BY SpanIs
<1> HIDE DEF seq, base
<1>4. PICK g : Fixed(g, "seen", s, base, seq)
  BY <1>2, LoopFixed
<1>5. \E h : h = [i \in 0 .. Len(seq) |-> IF i = 0 THEN base ELSE Step(h[i - 1], seq[i])]
  BY ONLY <1>4 DEF Fixed, Turn
<1>6. run = [i \in 0 .. Len(seq) |-> IF i = 0 THEN base ELSE Step(run[i - 1], seq[i])]
  BY ONLY <1>5 DEF run
<1> HIDE DEF run
<1>7. Fixed(run, "seen", s, base, seq)
  BY ONLY <1>6 DEF Fixed, Turn
<1>8. Runs(run, "seen", s, base, seq, n)
  BY ONLY <1>2, <1>7, FixedRuns
<1>9. run[0] = base /\ \A i \in 1 .. n : run[i] = Step(run[i - 1], virt + i - 1)
  BY ONLY <1>2, <1>8 DEF Runs, Turn
<1> DEFINE S == {i \in 0 .. n : run[i].pages \subseteq virt .. virt + n - 1}
<1>10. 0 \in S /\ S \in SUBSET (0 .. n)
  BY <1>9 DEF base
<1>11. ASSUME NEW i \in S, i < n PROVE i + 1 \in S
  <2>1. i + 1 \in 1 .. n /\ (i + 1) - 1 = i /\ virt + (i + 1) - 1 \in virt .. virt + n - 1
    BY <1>11
  <2>2. run[i + 1] = Step(run[i], virt + (i + 1) - 1) /\ run[i].pages \subseteq virt .. virt + n - 1
    BY <1>9, <2>1
  <2>3. run[i + 1].pages \subseteq run[i].pages \cup {virt + (i + 1) - 1}
    BY <2>2
  <2> QED
    BY <1>11, <2>1, <2>2, <2>3
<1> HIDE DEF S
<1>12. n \in S
  BY <1>10, <1>11, Climb
<1> QED
  BY <1>1, <1>2, <1>12 DEF S

(* The place FindVirtual finds, if there is one, and the interval there are within the    *)
(* address space.                                                                         *)
LEMMA FindIs ==
  ASSUME NEW s, s.automap \in Nat, NEW n \in Nat
  PROVE  FindVirtual(s, n) = -1 \/ (FindVirtual(s, n) \in Nat /\ FindVirtual(s, n) + n <= NPages)
<1> DEFINE base == s.automap
           seq == Span(1, NPages)
           k == [s |-> s, n |-> n]
           Past(v, taken) == IF v + n > NPages \/ taken = {} THEN v ELSE Min(taken) + 1
           Retry(v, i) == Past(v, {p \in Seen(s, v, n) : Valid(LoadPte(s, p))})
           run[i \in 0 .. Len(seq)] == IF i = 0 THEN base ELSE Retry(run[i - 1], seq[i])
           v == run[Len(seq)]
<1>1. FindVirtual(s, n) = IF v + n > NPages THEN -1 ELSE v
  BY DEF FindVirtual, Iterate
<1>2. NPages \in Nat /\ Len(seq) \in Nat /\ Len(seq) = NPages
  <2>1. NPages \in Nat
    BY Bounds DEF NPages
  <2> QED
    BY <2>1, SpanIs
<1>3. k.s = s /\ k.n = n
  OBVIOUS
<1> HIDE DEF seq, base, k
<1>4. PICK g : Fixed(g, "find", k, base, seq)
  BY <1>2, LoopFixed
<1>5. \E h : h = [i \in 0 .. Len(seq) |-> IF i = 0 THEN base ELSE Retry(h[i - 1], seq[i])]
  BY ONLY <1>3, <1>4 DEF Fixed, Turn
<1>6. run = [i \in 0 .. Len(seq) |-> IF i = 0 THEN base ELSE Retry(run[i - 1], seq[i])]
  BY ONLY <1>5 DEF run
<1> HIDE DEF run
<1>7. Fixed(run, "find", k, base, seq)
  BY ONLY <1>3, <1>6 DEF Fixed, Turn
<1>8. Runs(run, "find", k, base, seq, NPages)
  BY ONLY <1>2, <1>7, FixedRuns
<1>9. run[0] = base /\ \A i \in 1 .. NPages : run[i] = Retry(run[i - 1], seq[i])
  BY ONLY <1>3, <1>8 DEF Runs, Turn
<1> DEFINE S == {i \in 0 .. NPages : run[i] \in Nat}
<1>10. 0 \in S /\ S \in SUBSET (0 .. NPages)
  BY <1>2, <1>9 DEF base
<1>11. ASSUME NEW i \in S, i < NPages PROVE i + 1 \in S
  <2> DEFINE u == run[i]
             taken == {p \in Seen(s, u, n) : Valid(LoadPte(s, p))}
  <2>1. i + 1 \in 1 .. NPages /\ (i + 1) - 1 = i /\ u \in Nat
    BY <1>2, <1>11
  <2>2. run[i + 1] = IF u + n > NPages \/ taken = {} THEN u ELSE Min(taken) + 1
    BY <1>9, <2>1
  <2>3. taken \in SUBSET Nat
    <3>1. Seen(s, u, n) \subseteq u .. u + n - 1
      BY <2>1, SeenIs
    <3> QED
      BY <2>1, <3>1
  <2> HIDE DEF taken, u
  <2>4. taken # {} => Min(taken) \in Nat
    BY <2>3, Least
  <2>5. run[i + 1] \in Nat
    BY <2>1, <2>2, <2>4
  <2> QED
    BY <1>11, <2>1, <2>5
<1> HIDE DEF S
<1>12. NPages \in S
  <2>1. \A i \in 0 .. NPages : i \in S
    BY <1>2, <1>10, <1>11, Climb
  <2> QED
    BY <1>2, <2>1
<1>13. v \in Nat
  BY <1>2, <1>12 DEF S
<1> QED
  BY <1>1, <1>2, <1>13

(* Protected: every entry of the interval gets the bits and keeps its frame. *)

WithProt(w, prot) == [w EXCEPT !.prot = prot]
Stripped(s, t, virt, i, prot) ==
    /\ Good(t) /\ Longer(s, t)
    /\ \A q \in Pages : LoadPte(t, q) = IF virt <= q /\ q < virt + i THEN WithProt(LoadPte(s, q), prot) ELSE LoadPte(s, q)

Strips(f, s, virt, n, prot) ==
    /\ f[0] = s
    /\ \A i \in 1 .. n : f[i] = StorePte(f[i - 1], virt + i - 1, WithProt(LoadPte(f[i - 1], virt + i - 1), prot))

(* ProtectVirtual is n turns, one for each page.                                          *)
LEMMA ProtectRuns ==
  ASSUME NEW s, NEW virt \in Int, NEW n \in Nat, NEW prot
  PROVE  \E f : Strips(f, s, virt, n, prot) /\ Protected(s, virt, n, prot) = f[n]
<1> DEFINE seq == Span(virt, n)
           run[i \in 0 .. Len(seq)] ==
               IF i = 0 THEN s
               ELSE StorePte(run[i - 1], seq[i], [LoadPte(run[i - 1], seq[i]) EXCEPT !.prot = prot])
<1>1. Protected(s, virt, n, prot) = run[Len(seq)]
  BY DEF Protected, Iterate
<1>2. Len(seq) \in Nat /\ Len(seq) = n /\ \A i \in 1 .. n : seq[i] = virt + i - 1
  BY SpanIs
<1> HIDE DEF seq
<1>4. PICK g : Fixed(g, "protect", prot, s, seq)
  BY <1>2, LoopFixed
<1>5. \E h : h = [i \in 0 .. Len(seq) |->
               IF i = 0 THEN s
               ELSE StorePte(h[i - 1], seq[i], [LoadPte(h[i - 1], seq[i]) EXCEPT !.prot = prot])]
  BY ONLY <1>4 DEF Fixed, Turn
<1>6. run = [i \in 0 .. Len(seq) |->
               IF i = 0 THEN s
               ELSE StorePte(run[i - 1], seq[i], [LoadPte(run[i - 1], seq[i]) EXCEPT !.prot = prot])]
  BY ONLY <1>5 DEF run
<1> HIDE DEF run
<1>7. Fixed(run, "protect", prot, s, seq)
  BY ONLY <1>6 DEF Fixed, Turn
<1>8. Runs(run, "protect", prot, s, seq, n)
  BY ONLY <1>2, <1>7, FixedRuns
<1>9. run[0] = s /\ \A i \in 1 .. n : run[i] = StorePte(run[i - 1], virt + i - 1,
                                                     WithProt(LoadPte(run[i - 1], virt + i - 1), prot))
  BY ONLY <1>2, <1>8 DEF Runs, Turn, WithProt
<1> QED
  BY <1>1, <1>2, <1>9 DEF Strips

(* An entry with other permissions keeps its frame and its kind.                          *)
LEMMA WithProtIs ==
  ASSUME NEW w \in Ptes, NEW prot \in SUBSET {"r", "w", "x"}
  PROVE  /\ WithProt(w, prot) \in Ptes /\ WithProt(w, prot).prot = prot
         /\ WithProt(w, prot).hp = w.hp
         /\ (WithProt(w, prot).rsrv <=> w.rsrv) /\ (WithProt(w, prot).mug <=> w.mug)
BY DEF WithProt, Ptes

(* ProtectVirtual gives every entry of the interval its permissions and changes no other. *)
LEMMA ProtectIs ==
  ASSUME NEW s, IsSystem(s), NEW virt \in Int, NEW n \in Nat, NEW prot \in SUBSET {"r", "w", "x"}
  PROVE  LET r == Protected(s, virt, n, prot) IN
         /\ IsSystem(r) /\ r.moved = s.moved
         /\ Good(s) /\ virt >= 0 /\ virt + n <= NPages /\ IsFullyMapped(s, virt, n) => Stripped(s, r, virt, n, prot)
<1>0. PICK f : Strips(f, s, virt, n, prot) /\ Protected(s, virt, n, prot) = f[n]
  BY ProtectRuns
<1>1. /\ f[0] = s /\ Protected(s, virt, n, prot) = f[n]
      /\ \A i \in 1 .. n : f[i] = StorePte(f[i - 1], virt + i - 1, WithProt(LoadPte(f[i - 1], virt + i - 1), prot))
  BY <1>0 DEF Strips
<1> DEFINE Sound(i) == /\ IsSystem(f[i]) /\ f[i].moved = s.moved
                       /\ Good(s) /\ virt >= 0 /\ virt + n <= NPages /\ IsFullyMapped(s, virt, n) =>
                              Stripped(s, f[i], virt, i, prot)
           S == {i \in 0 .. n : Sound(i)}
<1>2. Sound(0)
  <2>1. ASSUME Good(s) PROVE Stripped(s, s, virt, 0, prot)
    <3>1. Longer(s, s)
      BY <2>1, GoodTypes DEF Longer
    <3>2. \A q \in Pages : ~(virt <= q /\ q < virt + 0)
      BY DEF Pages
    <3> QED
      BY <2>1, <3>1, <3>2 DEF Stripped
  <2> QED
    BY <1>1, <2>1
<1>3. ASSUME NEW i \in 0 .. n, Sound(i), i < n PROVE Sound(i + 1)
  <2> DEFINE a == f[i]
             p == virt + i
             w == WithProt(LoadPte(a, p), prot)
             b == f[i + 1]
  <2>1. b = StorePte(a, p, w)
    <3>1. i + 1 \in 1 .. n /\ (i + 1) - 1 = i /\ virt + (i + 1) - 1 = virt + i
      BY <1>3
    <3> QED
      BY <1>1, <3>1
  <2>2. IsSystem(a) /\ a.moved = s.moved
    BY <1>3
  <2> HIDE DEF b, a
  <2>3. /\ IsSystem(b) /\ b.moved = a.moved
        /\ Becomes(a, b, SetWord(a.ram, Table(a, p), Index(p), w), a.hostpages, a.free, a.next)
    <3> HIDE DEF w, p
    <3> QED
      BY <2>1, <2>2, StorePteIs
  <2>4. ASSUME Good(s), virt >= 0, virt + n <= NPages, IsFullyMapped(s, virt, n)
        PROVE  Stripped(s, b, virt, i + 1, prot)
    <3>1. Stripped(s, a, virt, i, prot)
      BY <1>3, <2>4 DEF a
    <3>2. Good(a) /\ p \in Pages /\ p \in Int
      BY <1>3, <2>4, <3>1, Bounds DEF Stripped, Pages, NPages
    <3>3. LoadPte(a, p) = LoadPte(s, p)
      <4>1. ~(virt <= p /\ p < virt + i)
        BY <3>2
      <4> QED
        BY <3>1, <3>2, <4>1 DEF Stripped
    <3>4. Valid(LoadPte(s, p))
      <4>1. p \in virt .. virt + n - 1
        BY <1>3, <3>2
      <4> QED
        BY <2>4, <4>1 DEF IsFullyMapped
    <3>5. PICK K, G, I : Owned(a, K, G, I)
      BY <3>2 DEF Good
    <3> DEFINE old == LoadPte(a, p)
    <3>6. old \in Ptes /\ HasTable(a, p) /\ Backed(a, old, K, G, I, Table(a, p), Index(p))
      BY <3>2, <3>3, <3>4, <3>5, PteFound, WordsAre
    <3>7. /\ w \in Ptes /\ w.prot = prot /\ w.hp = old.hp
          /\ (w.rsrv <=> old.rsrv) /\ (w.mug <=> old.mug)
      BY <3>6, WithProtIs
    <3> HIDE DEF w, p
    <3>8. Replaces(a, K, old, w)
      BY <3>6, <3>7 DEF Replaces, Backed, Points
    <3>9. Replaced(a, b, p, w)
      BY <2>3, <3>2, <3>5, <3>6, <3>8, PutPte
    <3>10. Longer(s, b) /\ Good(b)
      BY <2>4, <3>1, <3>2, <3>9, LongerTrans, GoodTypes DEF Replaced, Stripped
    <3>11. ASSUME NEW q \in Pages
           PROVE  LoadPte(b, q) = IF virt <= q /\ q < virt + (i + 1) THEN WithProt(LoadPte(s, q), prot) ELSE LoadPte(s, q)
      <4>1. CASE q = p
        BY <1>3, <3>2, <3>3, <3>9, <4>1 DEF Replaced, p, w
      <4>2. CASE q # p
        <5>1. LoadPte(b, q) = LoadPte(a, q)
          BY <3>9, <4>2 DEF Replaced
        <5>2. (virt <= q /\ q < virt + (i + 1)) <=> (virt <= q /\ q < virt + i)
          BY <1>3, <4>2 DEF p, Pages
        <5> QED
          BY <3>1, <5>1, <5>2 DEF Stripped
      <4> QED
        BY <4>1, <4>2
    <3> QED
      BY <3>10, <3>11 DEF Stripped
  <2> QED
    BY <2>2, <2>3, <2>4 DEF b
<1>4. Sound(n)
  <2>1. S \in SUBSET (0 .. n) /\ 0 \in S /\ n \in 0 .. n
    BY <1>2
  <2>2. \A i \in S : i < n => i + 1 \in S
    <3> SUFFICES ASSUME NEW i \in S, i < n PROVE i + 1 \in S
      OBVIOUS
    <3>1. i \in 0 .. n /\ Sound(i) /\ i + 1 \in 0 .. n
      OBVIOUS
    <3> HIDE DEF Sound
    <3>2. Sound(i + 1)
      BY <1>3, <3>1
    <3> QED
      BY <3>1, <3>2
  <2> HIDE DEF S
  <2>3. n \in S
    BY <2>1, <2>2, Climb
  <2> QED
    BY <2>3 DEF S
<1> QED
  BY <1>1, <1>4

(* The machine's caches. *)

IsMachine(mach) ==
    /\ DOMAIN mach = {"tlb", "invalidated", "icinvalidated", "code"}
    /\ mach.invalidated \in BOOLEAN /\ mach.icinvalidated \in BOOLEAN
    /\ DOMAIN mach.tlb = 0 .. TlbSize - 1
    /\ \A k \in 0 .. TlbSize - 1 :
           Valid(mach.tlb[k].entry) =>
               mach.tlb[k].page \in Pages /\ mach.tlb[k].entry \in Ptes /\ ~mach.tlb[k].entry.rsrv
TlbTrue(s, mach) ==
    ~mach.invalidated =>
        \A k \in 0 .. TlbSize - 1 :
            Valid(mach.tlb[k].entry) => mach.tlb[k].entry = LoadPte(s, mach.tlb[k].page)
CodeTrue(s, mach) ==
    ~mach.icinvalidated /\ mach.code.virt # -1 =>
        /\ mach.code.virt \in Pages
        /\ Permits(LoadPte(s, mach.code.virt), {"x"}) /\ ~LoadPte(s, mach.code.virt).rsrv
        /\ FindHostPage(s, LoadPte(s, mach.code.virt)) = mach.code.frame
        /\ mach.code.moved = 0
Cached(s, mach) == IsMachine(mach) /\ TlbTrue(s, mach) /\ CodeTrue(s, mach)

(* A page that was touched has a frame, and keeps it while frames are added.              *)
LEMMA TouchedIs ==
  ASSUME NEW s, Good(s), NEW p \in Pages, Valid(LoadPte(s, p)), ~LoadPte(s, p).rsrv
  PROVE  /\ LoadPte(s, p) \in Ptes /\ LoadPte(s, p).hp \in 0 .. Len(s.hostpages) - 1
         /\ FindHostPage(s, LoadPte(s, p)) \in Frames
         /\ \A t : Longer(s, t) => FindHostPage(t, LoadPte(s, p)) = FindHostPage(s, LoadPte(s, p))
<1>1. PICK K, G, I : Owned(s, K, G, I)
  BY DEF Good
<1>2. LoadPte(s, p) \in Ptes /\ Backed(s, LoadPte(s, p), K, G, I, Table(s, p), Index(p))
  BY <1>1, PteFound, WordsAre
<1>3. LoadPte(s, p).hp \in 0 .. Len(s.hostpages) - 1
  BY <1>2 DEF Backed, Points
<1> QED
  BY <1>2, <1>3, HostIn, LongerIs, GoodTypes

(* The page of code stays current when its entry keeps its frame, or the instruction      *)
(* cache was told.                                                                        *)
LEMMA CodeStays ==
  ASSUME NEW s, NEW t, Good(s), Longer(s, t), NEW a, NEW b, CodeTrue(s, a),
         b.code = a.code, a.icinvalidated => b.icinvalidated,
         \A p \in Pages : ~b.icinvalidated /\ Valid(LoadPte(s, p)) /\ Drops(LoadPte(s, p)) =>
             /\ Valid(LoadPte(t, p)) /\ "x" \in LoadPte(t, p).prot /\ ~LoadPte(t, p).rsrv
             /\ LoadPte(t, p).hp = LoadPte(s, p).hp
  PROVE  CodeTrue(t, b)
<1> SUFFICES ASSUME ~b.icinvalidated, b.code.virt # -1
             PROVE  /\ b.code.virt \in Pages
                    /\ Permits(LoadPte(t, b.code.virt), {"x"}) /\ ~LoadPte(t, b.code.virt).rsrv
                    /\ FindHostPage(t, LoadPte(t, b.code.virt)) = b.code.frame
                    /\ b.code.moved = 0
  BY DEF CodeTrue
<1> DEFINE p == b.code.virt
<1>1. /\ p \in Pages /\ Permits(LoadPte(s, p), {"x"}) /\ ~LoadPte(s, p).rsrv
      /\ FindHostPage(s, LoadPte(s, p)) = b.code.frame /\ b.code.moved = 0
  BY DEF CodeTrue
<1> HIDE DEF p
<1>2. Valid(LoadPte(s, p)) /\ Drops(LoadPte(s, p))
  BY <1>1 DEF Permits, Drops
<1>3. /\ Valid(LoadPte(t, p)) /\ "x" \in LoadPte(t, p).prot /\ ~LoadPte(t, p).rsrv
      /\ LoadPte(t, p).hp = LoadPte(s, p).hp
  BY <1>1, <1>2
<1>4. FindHostPage(t, LoadPte(t, p)) = FindHostPage(t, LoadPte(s, p))
  BY <1>3 DEF FindHostPage
<1>5. FindHostPage(t, LoadPte(s, p)) = FindHostPage(s, LoadPte(s, p))
  BY <1>1, <1>2, TouchedIs
<1> QED
  BY <1>1, <1>3, <1>4, <1>5 DEF Permits, p

(* Caches stay true when no entry changes.                                                *)
LEMMA CachedStays ==
  ASSUME NEW s, NEW t, Good(s), Quiet(s, t), NEW mach, Cached(s, mach)
  PROVE  Cached(t, mach)
<1>1. TlbTrue(t, mach)
  BY DEF Cached, IsMachine, TlbTrue, Quiet, SamePtes
<1>2. \A p \in Pages : LoadPte(t, p) = LoadPte(s, p)
  BY DEF Quiet, SamePtes
<1>3. CodeTrue(t, mach)
  <2>1. Longer(s, t) /\ CodeTrue(s, mach)
    BY DEF Quiet, Cached
  <2> QED
    BY <1>2, <2>1, CodeStays DEF Drops
<1> QED
  BY <1>1, <1>3 DEF Cached

(* They stay true over a system call, which says in exec whether a touched page of code   *)
(* is gone: EnterSyscall drops the translations, InvalidateSystem the code.               *)
LEMMA CallCaches ==
  ASSUME NEW s, NEW t, Good(s), NEW e \in BOOLEAN, Kept(s, t, e), NEW mach, Cached(s, mach), NEW tlb \in BOOLEAN
  PROVE  Cached(t, InvalidateSystem(EnterSyscall(mach), tlb, e))
<1> DEFINE b == InvalidateSystem(EnterSyscall(mach), tlb, e)
<1>1. /\ DOMAIN b = DOMAIN mach /\ b.tlb = mach.tlb /\ b.code = mach.code
      /\ b.invalidated = TRUE /\ b.invalidated \in BOOLEAN
      /\ b.icinvalidated = (mach.icinvalidated \/ e) /\ b.icinvalidated \in BOOLEAN
  BY DEF InvalidateSystem, EnterSyscall, Cached, IsMachine
<1> HIDE DEF b
<1>2. IsMachine(b) /\ TlbTrue(t, b)
  BY <1>1 DEF Cached, IsMachine, TlbTrue
<1>3. CodeTrue(t, b)
  <2>1. \A p \in Pages : ~b.icinvalidated /\ Valid(LoadPte(s, p)) /\ Drops(LoadPte(s, p)) =>
            LoadPte(t, p) = LoadPte(s, p)
    BY <1>1 DEF Kept
  <2>2. Longer(s, t) /\ CodeTrue(s, mach)
    BY DEF Kept, Cached
  <2> QED
    BY <1>1, <2>1, <2>2, CodeStays DEF Drops
<1> QED
  BY <1>2, <1>3 DEF Cached, b

(* ResetTlb and ResetInstructionCache leave caches that are true, and no pending          *)
(* invalidation.                                                                          *)
LEMMA ResetIs ==
  ASSUME NEW s, NEW mach, Cached(s, mach)
  PROVE  /\ Cached(s, ResetTlb(mach)) /\ ~ResetTlb(mach).invalidated
         /\ Cached(s, ResetInstructionCache(mach)) /\ ~ResetInstructionCache(mach).icinvalidated
         /\ Cached(s, EnterSyscall(mach))
<1>1. Cached(s, ResetTlb(mach)) /\ ~ResetTlb(mach).invalidated
  <2>1. CASE mach.invalidated
    <3> DEFINE b == ResetTlb(mach)
    <3>1. /\ DOMAIN b = DOMAIN mach /\ b.tlb = EmptyTlb /\ b.code = NoCode /\ b.invalidated = FALSE
          /\ b.invalidated \in BOOLEAN /\ b.icinvalidated = mach.icinvalidated
      BY <2>1 DEF ResetTlb, Cached, IsMachine
    <3>2. DOMAIN EmptyTlb = 0 .. TlbSize - 1 /\ \A k \in 0 .. TlbSize - 1 : ~Valid(EmptyTlb[k].entry)
      BY WordsAre DEF EmptyTlb, NoTlb
    <3>3. NoCode.virt = -1
      BY DEF NoCode
    <3> HIDE DEF b
    <3>4. Cached(s, b) /\ ~b.invalidated
      BY <3>1, <3>2, <3>3 DEF Cached, IsMachine, TlbTrue, CodeTrue
    <3> QED
      BY <3>4 DEF b
  <2>2. CASE ~mach.invalidated
    BY <2>2 DEF ResetTlb
  <2> QED
    BY <2>1, <2>2
<1>3. Cached(s, ResetInstructionCache(mach)) /\ ~ResetInstructionCache(mach).icinvalidated
  <2> DEFINE b == ResetInstructionCache(mach)
  <2>1. CASE mach.icinvalidated
    <3>1. /\ DOMAIN b = DOMAIN mach /\ b.tlb = mach.tlb /\ b.code = NoCode /\ b.invalidated = mach.invalidated
          /\ b.icinvalidated = FALSE /\ b.icinvalidated \in BOOLEAN
      BY <2>1 DEF ResetInstructionCache, Cached, IsMachine
    <3>2. NoCode.virt = -1
      BY DEF NoCode
    <3> HIDE DEF b
    <3> QED
      BY <3>1, <3>2 DEF Cached, IsMachine, TlbTrue, CodeTrue, b
  <2>2. CASE ~mach.icinvalidated
    BY <2>2 DEF ResetInstructionCache
  <2> QED
    BY <2>1, <2>2
<1>4. Cached(s, EnterSyscall(mach))
  <2> DEFINE b == EnterSyscall(mach)
  <2>1. /\ DOMAIN b = DOMAIN mach /\ b.tlb = mach.tlb /\ b.code = mach.code /\ b.invalidated = TRUE
        /\ b.invalidated \in BOOLEAN /\ b.icinvalidated = mach.icinvalidated
    BY DEF EnterSyscall, Cached, IsMachine
  <2> HIDE DEF b
  <2> QED
    BY <2>1 DEF Cached, IsMachine, TlbTrue, CodeTrue, b
<1> QED
  BY <1>1, <1>3, <1>4

(* Page faults. *)

(* The CasPte of HandlePageFault, for an entry x whose frame is the old one or a new one. *)
LEMMA StoreFaultIs ==
  ASSUME NEW s, IsSystem(s), NEW p, NEW x, NEW moved
  PROVE  LET r == StoreFault(s, p, x, moved) IN
         /\ IsSystem(r.s) /\ r.s.moved = s.moved /\ r.entry = x
         /\ \A K, G, I : s.moved = moved /\ p \in Pages /\ HasTable(s, p) /\ Owned(s, K, G, I)
                         /\ Replaces(s, K, LoadPte(s, p), x) => Replaced(s, r.s, p, x)
<1> DEFINE t == [s EXCEPT !.committed = @ + 1, !.reserved = @ - 1]
           u == StorePte(t, p, x)
           r == StoreFault(s, p, x, moved)
<1>1. r.entry = x /\ r.s = IF s.moved = moved THEN u ELSE t
  BY DEF StoreFault
<1>2. IsSystem(t) /\ t.moved = s.moved /\ Same(s, t)
  BY DEF IsSystem, Fields, Same
<1> HIDE DEF t, r
<1>3. /\ IsSystem(u) /\ u.moved = s.moved
      /\ Becomes(t, u, SetWord(t.ram, Table(t, p), Index(p), x), t.hostpages, t.free, t.next)
  BY <1>2, StorePteIs
<1> HIDE DEF u
<1>4. ASSUME NEW K, NEW G, NEW I, s.moved = moved, p \in Pages, HasTable(s, p), Owned(s, K, G, I),
             Replaces(s, K, LoadPte(s, p), x)
      PROVE  Replaced(s, u, p, x)
  <2>1. Table(s, p) = Table(t, p)
    BY <1>2 DEF Same, Table, DirEntry, FindHostPage, Root
  <2>2. Becomes(s, u, SetWord(s.ram, Table(s, p), Index(p), x), s.hostpages, s.free, s.next)
    BY <1>2, <1>3, <2>1 DEF Becomes, Same
  <2> QED
    BY <1>4, <2>2, PutPte
<1> QED
  BY <1>1, <1>2, <1>3, <1>4 DEF r

(* HandlePageFault gives an untouched page a frame of its own and leaves the other        *)
(* entries alone, unless it moves the pool.                                               *)
LEMMA FaultIs ==
  ASSUME NEW s, IsSystem(s), NEW p
  PROVE  LET w == LoadPte(s, p)
             r == HandlePageFault(s, p, w) IN
         /\ Evolves(s, r.s)
         /\ r.s.moved = 0 /\ Good(s) /\ p \in Pages /\ Valid(w) /\ w.rsrv =>
                /\ Good(r.s) /\ Longer(s, r.s) /\ LoadPte(r.s, p) = r.entry
                /\ \A q \in Pages : q # p => LoadPte(r.s, q) = LoadPte(s, q)
                /\ r.entry \in Ptes /\ ~r.entry.rsrv
<1> DEFINE w == LoadPte(s, p)
           r == HandlePageFault(s, p, w)
<1>0. ASSUME Good(s), p \in Pages, Valid(w)
      PROVE  \E K, G, I : Owned(s, K, G, I) /\ Backed(s, w, K, G, I, Table(s, p), Index(p))
                          /\ w \in Ptes /\ HasTable(s, p)
  <2>1. PICK K, G, I : Owned(s, K, G, I)
    BY <1>0 DEF Good
  <2> QED
    BY <1>0, <2>1, PteFound, WordsAre
<1>1. CASE w.mug
  <2> DEFINE t == [s EXCEPT !.rss = @ + 1]
             x == [w EXCEPT !.rsrv = FALSE]
  <2>1. r = StoreFault(t, p, x, s.moved)
    BY <1>1 DEF HandlePageFault
  <2>2. IsSystem(t) /\ t.moved = s.moved /\ Same(s, t)
    BY DEF IsSystem, Fields, Same
  <2> HIDE DEF t, x, r
  <2>3. /\ IsSystem(r.s) /\ r.s.moved = t.moved /\ r.entry = x
        /\ \A K, G, I : t.moved = s.moved /\ p \in Pages /\ HasTable(t, p) /\ Owned(t, K, G, I)
                        /\ Replaces(t, K, LoadPte(t, p), x) => Replaced(t, r.s, p, x)
    BY <2>1, <2>2, StoreFaultIs
  <2>4. ASSUME Good(s), p \in Pages, Valid(w), w.rsrv
        PROVE  /\ Good(r.s) /\ Longer(s, r.s) /\ LoadPte(r.s, p) = x
               /\ \A q \in Pages : q # p => LoadPte(r.s, q) = LoadPte(s, q)
               /\ x \in Ptes /\ ~x.rsrv
    <3>1. PICK K, G, I : Owned(s, K, G, I) /\ Backed(s, w, K, G, I, Table(s, p), Index(p))
                         /\ w \in Ptes /\ HasTable(s, p)
      BY <1>0, <2>4
    <3>2. Still(s, t) /\ Owned(t, K, G, I)
      BY <2>2, <2>4, <3>1, StillSame, OwnedSame
    <3>3. HasTable(t, p) /\ LoadPte(t, p) = w /\ t.hostpages = s.hostpages
      BY <2>2, <2>4, <3>1, <3>2 DEF Still, Quiet, SameTables, SamePtes, Same
    <3>4. x \in Ptes /\ ~x.rsrv /\ x.mug = w.mug /\ x.hp = w.hp
      BY <3>1 DEF x, Ptes
    <3>5. w.hp # NoHost /\ w.hp \in 0 .. Len(s.hostpages) - 1
      BY <1>1, <3>1 DEF Backed, Points
    <3>6. Replaces(t, K, w, x)
      BY <3>1, <3>3, <3>4, <3>5 DEF Replaces
    <3>7. Replaced(t, r.s, p, x)
      BY <2>2, <2>3, <2>4, <3>2, <3>3, <3>6
    <3>8. Longer(s, r.s)
      BY <2>4, <3>2, <3>7, LongerTrans, GoodTypes DEF Still, Quiet, Replaced
    <3> QED
      BY <3>2, <3>4, <3>7, <3>8 DEF Replaced, Still, Quiet, SamePtes
  <2> QED
    BY <2>2, <2>3, <2>4 DEF Evolves, IsSystem, r
<1>2. CASE ~w.mug
  <2> DEFINE t == AllocateAnonymousPage(s)
             x == [w EXCEPT !.rsrv = FALSE, !.hp = LastTracked(t)]
  <2>1. r = StoreFault(t, p, x, s.moved)
    BY <1>2 DEF HandlePageFault, FaultAnonymous
  <2>2. Evolves(s, t)
    BY AnonymousIs
  <2> HIDE DEF t, x, r
  <2>3. /\ IsSystem(r.s) /\ r.s.moved = t.moved /\ r.entry = x
        /\ \A K, G, I : t.moved = s.moved /\ p \in Pages /\ HasTable(t, p) /\ Owned(t, K, G, I)
                        /\ Replaces(t, K, LoadPte(t, p), x) => Replaced(t, r.s, p, x)
    BY <2>1, <2>2, StoreFaultIs DEF Evolves
  <2>4. ASSUME r.s.moved = 0, Good(s), p \in Pages, Valid(w), w.rsrv
        PROVE  /\ Good(r.s) /\ Longer(s, r.s) /\ LoadPte(r.s, p) = x
               /\ \A q \in Pages : q # p => LoadPte(r.s, q) = LoadPte(s, q)
               /\ x \in Ptes /\ ~x.rsrv
    <3>0. t.moved = 0 /\ s.moved = 0
      BY <2>2, <2>3, <2>4 DEF Evolves, IsSystem
    <3>1. PICK K, G, I : Owned(s, K, G, I) /\ Backed(s, w, K, G, I, Table(s, p), Index(p))
                         /\ w \in Ptes /\ HasTable(s, p)
      BY <1>0, <2>4
    <3>2. PICK f, L : Taken(s, t, K, L, f) /\ Owned(t, L, G, I) /\ SameTables(s, t) /\ SamePtes(s, t)
      BY <3>0, <3>1, AnonymousIs DEF t
    <3>3. /\ f \in Frames /\ L[f] = "none" /\ t.hostpages = Append(s.hostpages, f)
          /\ s.hostpages \in Seq(Frames)
      BY <3>1, <3>2 DEF Taken, Owned, Typed
    <3>4. /\ LastTracked(t) \in 0 .. Len(t.hostpages) - 1 /\ LastTracked(t) \in Int
          /\ \A v : v.hp = LastTracked(t) => FindHostPage(t, v) = f
      BY <3>3, LastIs
    <3>5. HasTable(t, p) /\ LoadPte(t, p) = w /\ Longer(s, t)
      BY <2>4, <3>1, <3>2, <3>3, LongerByOne DEF SameTables, SamePtes
    <3>6. x \in Ptes /\ ~x.rsrv /\ x.hp = LastTracked(t)
      BY <3>1, <3>4 DEF x, Ptes
    <3>7. FindHostPage(t, x) = f
      BY <3>4, <3>6
    <3>8. x.hp # NoHost
      BY <3>4, <3>6 DEF NoHost
    <3>9. Replaces(t, L, w, x)
      BY <3>3, <3>4, <3>6, <3>7, <3>8 DEF Replaces
    <3>10. Replaced(t, r.s, p, x)
      BY <2>3, <2>4, <3>0, <3>2, <3>5, <3>9
    <3>11. Good(t) /\ Len(t.hostpages) \in Nat /\ Len(s.hostpages) \in Nat /\ Len(r.s.hostpages) \in Nat
      BY <2>4, <3>2, <3>10, GoodTypes DEF Good, Replaced
    <3>12. Longer(s, r.s)
      BY <3>5, <3>10, <3>11, LongerTrans DEF Replaced
    <3> QED
      BY <3>2, <3>6, <3>10, <3>12 DEF Replaced, SamePtes
  <2> QED
    BY <2>2, <2>3, <2>4 DEF Evolves, IsSystem, r
<1> QED
  BY <1>1, <1>2

(* FindPageTableEntry. *)

\* What the guest gets: the entry of the page, which has a frame, and caches that tell the truth.
Looked(r, p) ==
    /\ Good(r.s) /\ Cached(r.s, r.m) /\ Longer(sys, r.s)
    /\ Valid(r.entry) => r.entry = LoadPte(r.s, p) /\ r.entry \in Ptes /\ ~r.entry.rsrv

(* A page fault changes an entry no translation was cached of, so the caches stay true.   *)
LEMMA TlbStays ==
  ASSUME NEW s, NEW t, Good(s), Longer(s, t), NEW p \in Pages, Valid(LoadPte(s, p)) => LoadPte(s, p).rsrv \/ LoadPte(t, p) = LoadPte(s, p),
         \A q \in Pages : q # p => LoadPte(t, q) = LoadPte(s, q), NEW mach, Cached(s, mach)
  PROVE  Cached(t, mach)
<1>1. TlbTrue(t, mach)
  <2> SUFFICES ASSUME ~mach.invalidated, NEW k \in 0 .. TlbSize - 1, Valid(mach.tlb[k].entry)
               PROVE  mach.tlb[k].entry = LoadPte(t, mach.tlb[k].page)
    BY DEF TlbTrue
  <2>1. mach.tlb[k].page \in Pages /\ ~mach.tlb[k].entry.rsrv /\ mach.tlb[k].entry = LoadPte(s, mach.tlb[k].page)
    BY DEF Cached, IsMachine, TlbTrue
  <2> QED
    BY <2>1
<1>2. CodeTrue(t, mach)
  <2>1. \A q \in Pages : Valid(LoadPte(s, q)) /\ Drops(LoadPte(s, q)) => LoadPte(t, q) = LoadPte(s, q)
    BY DEF Drops
  <2>2. CodeTrue(s, mach)
    BY DEF Cached
  <2> QED
    BY <2>1, <2>2, CodeStays DEF Drops
<1> QED
  BY <1>1, <1>2 DEF Cached

(* The translation FindPageTableEntry enters is the one in the tables.                    *)
LEMMA EntryCached ==
  ASSUME NEW s, NEW mach, Cached(s, mach), NEW p \in Pages, NEW w, w = LoadPte(s, p), w \in Ptes, ~w.rsrv
  PROVE  Cached(s, [mach EXCEPT !.tlb[p % TlbSize] = [page |-> p, entry |-> w]])
<1> DEFINE line == [page |-> p, entry |-> w]
           tlb == [mach.tlb EXCEPT ![p % TlbSize] = line]
           b == [mach EXCEPT !.tlb[p % TlbSize] = line]
<1>1. line.page = p /\ line.entry = w
  OBVIOUS
<1> HIDE DEF line
<1>2. DOMAIN tlb = 0 .. TlbSize - 1
  BY DEF Cached, IsMachine
<1>3. \A k \in 0 .. TlbSize - 1 : tlb[k] = mach.tlb[k] \/ tlb[k] = line
  BY DEF Cached, IsMachine
<1>4. /\ DOMAIN b = DOMAIN mach /\ b.tlb = tlb /\ b.code = mach.code /\ b.invalidated = mach.invalidated
      /\ b.icinvalidated = mach.icinvalidated
  BY DEF Cached, IsMachine
<1> HIDE DEF tlb, b
<1>5. IsMachine(b)
  BY <1>1, <1>2, <1>3, <1>4 DEF Cached, IsMachine
<1>6. TlbTrue(s, b)
  BY <1>1, <1>3, <1>4 DEF Cached, TlbTrue
<1>7. CodeTrue(s, b)
  BY <1>4 DEF Cached, CodeTrue
<1> QED
  BY <1>5, <1>6, <1>7 DEF Cached, b, line

(* FindPageTableEntry yields the entry of the page, with a frame, whether it was cached,  *)
(* walked to or faulted in.                                                               *)
LEMMA LookIs ==
  ASSUME IsSystem(sys), NEW mach, NEW p \in Pages
  PROVE  LET r == FindPageTableEntry(mach, p) IN
         /\ Evolves(sys, r.s)
         /\ r.s.moved = 0 /\ Good(sys) /\ Cached(sys, mach) => Looked(r, p)
<1> DEFINE a == ResetTlb(mach)
           r == FindPageTableEntry(mach, p)
           hit == a.tlb[p % TlbSize]
           w == LoadPte(sys, p)
           fault == HandlePageFault(sys, p, w)
           Put(e) == [a EXCEPT !.tlb[p % TlbSize] = [page |-> p, entry |-> e]]
<1>1. r = FindIn(a, p)
  BY DEF FindPageTableEntry
<1> HIDE DEF r
<1>2. Evolves(sys, sys)
  BY DEF Evolves, IsSystem
<1>3. ASSUME Good(sys), Cached(sys, mach)
      PROVE  Cached(sys, a) /\ ~a.invalidated /\ Longer(sys, sys)
  BY <1>3, ResetIs, GoodTypes DEF Longer
<1> HIDE DEF a
<1>4. CASE hit.page = p /\ Valid(hit.entry)
  <2>1. r.s = sys /\ r.m = a /\ r.entry = hit.entry
    BY <1>1, <1>4 DEF FindIn
  <2>2. ASSUME Good(sys), Cached(sys, mach) PROVE Looked(r, p)
    <3>1. p % TlbSize \in 0 .. TlbSize - 1
      BY Bounds DEF Pages
    <3>2. hit.entry = LoadPte(sys, p) /\ hit.entry \in Ptes /\ ~hit.entry.rsrv
      BY <1>3, <1>4, <2>2, <3>1 DEF Cached, IsMachine, TlbTrue
    <3> QED
      BY <1>3, <2>1, <2>2, <3>2 DEF Looked
  <2> QED
    BY <1>2, <2>1, <2>2 DEF r
<1>5. CASE ~(hit.page = p /\ Valid(hit.entry)) /\ ~Valid(w)
  <2>1. r.s = sys /\ r.m = a /\ r.entry = Zero
    BY <1>1, <1>5 DEF FindIn, Miss
  <2> QED
    BY <1>2, <1>3, <2>1, WordsAre DEF Looked, r
<1>6. CASE ~(hit.page = p /\ Valid(hit.entry)) /\ Valid(w) /\ ~w.rsrv
  <2>1. r.s = sys /\ r.m = Put(w) /\ r.entry = w
    BY <1>1, <1>6 DEF FindIn, Miss
  <2>2. ASSUME Good(sys), Cached(sys, mach) PROVE Looked(r, p)
    <3>1. w \in Ptes
      BY <2>2, <1>6, GoodTable
    <3>2. Cached(sys, Put(w))
      BY <1>3, <1>6, <2>2, <3>1, EntryCached
    <3> QED
      BY <1>3, <1>6, <2>1, <2>2, <3>1, <3>2 DEF Looked
  <2> QED
    BY <1>2, <2>1, <2>2 DEF r
<1>7. CASE ~(hit.page = p /\ Valid(hit.entry)) /\ Valid(w) /\ w.rsrv
  <2>1. r.s = fault.s /\ r.m = Put(fault.entry) /\ r.entry = fault.entry
    BY <1>1, <1>7 DEF FindIn, Miss
  <2>2. /\ Evolves(sys, fault.s)
        /\ fault.s.moved = 0 /\ Good(sys) =>
              /\ Good(fault.s) /\ Longer(sys, fault.s) /\ LoadPte(fault.s, p) = fault.entry
              /\ \A q \in Pages : q # p => LoadPte(fault.s, q) = LoadPte(sys, q)
              /\ fault.entry \in Ptes /\ ~fault.entry.rsrv
    BY <1>7, FaultIs
  <2> HIDE DEF fault, w
  <2>3. ASSUME fault.s.moved = 0, Good(sys), Cached(sys, mach) PROVE Looked(r, p)
    <3>1. /\ Good(fault.s) /\ Longer(sys, fault.s) /\ LoadPte(fault.s, p) = fault.entry
          /\ \A q \in Pages : q # p => LoadPte(fault.s, q) = LoadPte(sys, q)
          /\ fault.entry \in Ptes /\ ~fault.entry.rsrv
      BY <2>2, <2>3
    <3>2. Cached(fault.s, a)
      BY <1>3, <1>7, <2>3, <3>1, TlbStays DEF w
    <3>3. Cached(fault.s, Put(fault.entry))
      BY <3>1, <3>2, EntryCached
    <3> QED
      BY <2>1, <3>1, <3>3 DEF Looked
  <2> QED
    BY <2>1, <2>2, <2>3 DEF r
<1> QED
  BY <1>4, <1>5, <1>6, <1>7

(* The inductive invariant. *)

Intact == Good(sys) /\ Cached(sys, m)
MemInv == IsSystem(sys) /\ (sys.moved = 0 => Intact)

(* A load keeps the invariant.                                                            *)
LEMMA LoadKeeps ==
  ASSUME MemInv, NEW p \in Pages, Load(p, m)
  PROVE  MemInv'
<1> DEFINE r == FindPageTableEntry(m, p)
<1>1. sys' = r.s /\ m' = r.m
  BY DEF Load, LoadThrough
<1>2. /\ Evolves(sys, r.s)
      /\ r.s.moved = 0 /\ Good(sys) /\ Cached(sys, m) => Looked(r, p)
  BY LookIs DEF MemInv
<1> HIDE DEF r
<1>3. r.s.moved = 0 => sys.moved = 0
  BY <1>2 DEF Evolves, MemInv, IsSystem
<1>4. r.s.moved = 0 => Good(r.s) /\ Cached(r.s, r.m)
  BY <1>2, <1>3 DEF Looked, MemInv, Intact
<1>5. IsSystem(sys')
  BY <1>1, <1>2 DEF Evolves
<1>6. sys'.moved = 0 => Good(sys') /\ Cached(sys', m')
  BY <1>1, <1>4
<1> QED
  BY <1>5, <1>6 DEF MemInv, Intact

(* So does a store, by the guest or by the kernel on its behalf.                          *)
LEMMA StoreKeeps ==
  ASSUME MemInv, NEW p \in Pages, NEW v \in Int, NEW need, NEW by, by \in {m, EnterSyscall(m)}, Store(p, v, need, by)
  PROVE  MemInv'
<1> DEFINE r == FindPageTableEntry(by, p)
           f == FindHostPage(r.s, r.entry)
           frame == [r.s.ram[f] EXCEPT ![0] = Val(v)]
           t == [r.s EXCEPT !.ram = [r.s.ram EXCEPT ![f] = frame]]
<1>0. StoreThrough(r, p, v, need)
  BY DEF Store
<1>1. /\ Evolves(sys, r.s)
      /\ r.s.moved = 0 /\ Good(sys) /\ Cached(sys, by) => Looked(r, p)
  BY LookIs DEF MemInv
<1> HIDE DEF r
<1>2. m' = r.m /\ ((Permits(r.entry, need) /\ sys' = t) \/ sys' = r.s)
  BY <1>0, <1>1 DEF StoreThrough, Evolves, IsSystem, Fields
<1> HIDE DEF frame, f
<1>3. IsSystem(t) /\ t.moved = r.s.moved /\ Becomes(r.s, t, [r.s.ram EXCEPT ![f] = frame], r.s.hostpages, r.s.free, r.s.next)
  BY <1>1 DEF Evolves, IsSystem, Fields, Becomes
<1> HIDE DEF t
<1>4. r.s.moved = 0 => sys.moved = 0 /\ Good(sys) /\ Cached(sys, by)
  <2>1. r.s.moved = 0 => sys.moved = 0
    BY <1>1 DEF Evolves, MemInv, IsSystem
  <2> QED
    BY <2>1, ResetIs DEF MemInv, Intact
<1>5. ASSUME r.s.moved = 0 PROVE Good(r.s) /\ Cached(r.s, r.m)
  BY <1>1, <1>4, <1>5 DEF Looked
<1>6. ASSUME r.s.moved = 0, Permits(r.entry, need) PROVE Good(t) /\ Cached(t, r.m)
  <2>1. Looked(r, p) /\ Good(r.s) /\ Cached(r.s, r.m)
    BY <1>1, <1>4, <1>6 DEF Looked
  <2>2. r.entry = LoadPte(r.s, p) /\ r.entry \in Ptes /\ ~r.entry.rsrv
    BY <1>6, <2>1 DEF Looked, Permits
  <2>3. PICK K, G, I : Owned(r.s, K, G, I)
    BY <2>1 DEF Good
  <2>4. Backed(r.s, r.entry, K, G, I, Table(r.s, p), Index(p))
    BY <2>2, <2>3, PteFound, WordsAre
  <2>5. K[f] = "page" /\ f \in Frames /\ r.s.ram \in [Frames -> [Slots -> Words]]
    BY <2>2, <2>3, <2>4, HostIn DEF Backed, Points, f, Owned, Typed
  <2>6. frame \in [Slots -> Words]
    <3>1. Val(v) \in Words /\ r.s.ram[f] \in [Slots -> Words]
      BY <2>5, WordsAre
    <3> QED
      BY <3>1 DEF frame
  <2>7. Owned(t, K, G, I) /\ SamePtes(r.s, t) /\ Longer(r.s, t)
    BY <1>3, <2>3, <2>5, <2>6, WriteData
  <2>8. Quiet(r.s, t)
    BY <2>7 DEF Quiet, Good
  <2> QED
    BY <2>1, <2>8, CachedStays DEF Quiet
<1>7. IsSystem(sys')
  BY <1>1, <1>2, <1>3 DEF Evolves
<1>8. sys'.moved = 0 => Good(sys') /\ Cached(sys', m')
  BY <1>2, <1>3, <1>5, <1>6
<1> QED
  BY <1>7, <1>8 DEF MemInv, Intact

(* So does the fetch of an instruction, which makes its page the page of code.            *)
LEMMA FetchKeeps ==
  ASSUME MemInv, NEW p \in Pages, Fetch(p)
  PROVE  MemInv'
<1> DEFINE a == ResetInstructionCache(m)
           r == FindPageTableEntry(a, p)
           code == [virt |-> p, frame |-> FindHostPage(r.s, r.entry), moved |-> r.s.moved]
           b == [r.m EXCEPT !.code = code]
<1>0. FetchWith(a, p)
  BY DEF Fetch
<1>1. /\ Evolves(sys, r.s)
      /\ r.s.moved = 0 /\ Good(sys) /\ Cached(sys, a) => Looked(r, p)
  BY LookIs DEF MemInv
<1>2. sys.moved = 0 => Good(sys) /\ Cached(sys, a)
  BY ResetIs DEF MemInv, Intact
<1>3. \/ a.code.virt = p /\ m' = a /\ sys' = sys
      \/ a.code.virt # p /\ FetchThrough(r, p)
  BY <1>0 DEF FetchWith
<1> HIDE DEF r, a
<1>4. CASE a.code.virt = p /\ m' = a /\ sys' = sys
  <2>1. IsSystem(sys') /\ (sys'.moved = 0 => Good(sys') /\ Cached(sys', m'))
    BY <1>2, <1>4 DEF MemInv
  <2> QED
    BY <2>1 DEF MemInv, Intact
<1>5. CASE FetchThrough(r, p)
  <2>1. sys' = r.s /\ ((Permits(r.entry, {"x"}) /\ m' = b) \/ m' = r.m)
    BY <1>5 DEF FetchThrough
  <2>2. ASSUME r.s.moved = 0 PROVE Looked(r, p) /\ Good(r.s) /\ Cached(r.s, r.m)
    <3>1. sys.moved = 0
      BY <1>1, <2>2 DEF Evolves, MemInv, IsSystem
    <3> QED
      BY <1>1, <1>2, <2>2, <3>1 DEF Looked
  <2>3. ASSUME r.s.moved = 0, Permits(r.entry, {"x"}) PROVE Cached(r.s, b)
    <3>1. r.entry = LoadPte(r.s, p) /\ ~r.entry.rsrv
      BY <2>2, <2>3 DEF Looked, Permits
    <3>2. code.virt = p /\ code.frame = FindHostPage(r.s, r.entry) /\ code.moved = 0
      BY <2>3
    <3> HIDE DEF code
    <3>3. /\ DOMAIN b = DOMAIN r.m /\ b.tlb = r.m.tlb /\ b.code = code /\ b.invalidated = r.m.invalidated
          /\ b.icinvalidated = r.m.icinvalidated
      BY <2>2, <2>3 DEF Cached, IsMachine
    <3> HIDE DEF b
    <3>4. CodeTrue(r.s, b)
      BY <2>3, <3>1, <3>2, <3>3 DEF CodeTrue
    <3> QED
      BY <2>2, <2>3, <3>3, <3>4 DEF Cached, IsMachine, TlbTrue
  <2> HIDE DEF b, code
  <2>4. IsSystem(sys') /\ (sys'.moved = 0 => Good(sys') /\ Cached(sys', m'))
    BY <1>1, <2>1, <2>2, <2>3 DEF Evolves
  <2> QED
    BY <2>4 DEF MemInv, Intact
<1> QED
  BY <1>3, <1>4, <1>5

(* Calls. *)

(* Pages of code are told of when an operation came before that leaves entries alone.     *)
LEMMA QuietKept ==
  ASSUME NEW s, NEW t, NEW u, Good(s), Good(u), Quiet(s, t), NEW e, Kept(t, u, e)
  PROVE  Kept(s, u, e)
<1>1. Longer(s, u)
  BY LongerTrans, GoodTypes DEF Quiet, Kept
<1> QED
  BY <1>1 DEF Quiet, Kept, SamePtes

(* The end of a call, with the invalidations it asks for, keeps the invariant.            *)
LEMMA CommitKeeps ==
  ASSUME MemInv, NEW s, Evolves(sys, s), NEW tlb \in BOOLEAN, NEW e \in BOOLEAN,
         s.moved = 0 /\ Good(sys) => Good(s) /\ Kept(sys, s, e), Commit(s, tlb, e)
  PROVE  MemInv'
<1>1. sys' = s /\ m' = InvalidateSystem(EnterSyscall(m), tlb, e)
  BY DEF Commit
<1>2. s.moved = 0 => sys.moved = 0
  BY DEF Evolves, MemInv, IsSystem
<1>3. s.moved = 0 => Good(s) /\ Cached(s, InvalidateSystem(EnterSyscall(m), tlb, e))
  BY <1>2, CallCaches DEF MemInv, Intact
<1>4. IsSystem(sys') /\ (sys'.moved = 0 => Good(sys') /\ Cached(sys', m'))
  BY <1>1, <1>3 DEF Evolves
<1> QED
  BY <1>4 DEF MemInv, Intact

(* A call that fails before it changed an entry keeps it.                                 *)
LEMMA FailsKeeps ==
  ASSUME MemInv, NEW s, IsSystem(s), s.moved = sys.moved, Good(sys) => Quiet(sys, s), Fails(s)
  PROVE  MemInv'
<1>1. sys' = s /\ m' = EnterSyscall(m)
  BY DEF Fails
<1>2. s.moved = 0 => Good(s) /\ Cached(s, EnterSyscall(m))
  BY ResetIs, CachedStays DEF MemInv, Intact, Quiet
<1>3. IsSystem(sys') /\ (sys'.moved = 0 => Good(sys') /\ Cached(sys', m'))
  BY <1>1, <1>2
<1> QED
  BY <1>3 DEF MemInv, Intact

(* SysMmapImpl, once it has a place, keeps it.                                            *)
LEMMA MapKeeps ==
  ASSUME MemInv, NEW s, IsSystem(s), s.moved = sys.moved, Good(sys) => Quiet(sys, s),
         NEW place \in Nat, NEW n \in Nat, place + n <= NPages, NEW prot \in SUBSET {"r", "w", "x"}, NEW backing,
         NEW automap \in Nat, MapAt(s, place, n, prot, backing, automap)
  PROVE  MemInv'
<1> DEFINE t == [s EXCEPT !.automap = automap]
           r == ReserveVirtual(t, place, n, Prot2Page(prot), backing, FALSE)
<1>1. Commit(r.s, r.rss # 0, r.exec)
  BY DEF MapAt, CommitChange
<1>2. IsSystem(t) /\ t.moved = s.moved /\ Same(s, t)
  BY DEF IsSystem, Fields, Same
<1> HIDE DEF t
<1>3. Prot2Page(prot) \in SUBSET {"r", "w", "x"}
  BY DEF Prot2Page
<1>4. /\ Evolves(t, r.s) /\ r.exec \in BOOLEAN
      /\ r.s.moved = 0 /\ Good(t) => Good(r.s) /\ Kept(t, r.s, r.exec)
  <2>1. FALSE \in BOOLEAN /\ place \in Int /\ place >= 0
    OBVIOUS
  <2> QED
    BY <1>2, <1>3, <2>1, ReserveIs
<1> HIDE DEF r
<1>5. Evolves(sys, r.s)
  BY <1>2, <1>4 DEF Evolves
<1>6. ASSUME r.s.moved = 0, Good(sys) PROVE Good(r.s) /\ Kept(sys, r.s, r.exec)
  <2>1. Quiet(sys, s) /\ Good(s)
    BY <1>6 DEF Quiet
  <2>2. Quiet(sys, t) /\ Good(t)
    BY <1>2, <1>6, <2>1, QuietSame, QuietTrans DEF Quiet
  <2> QED
    BY <1>4, <1>6, <2>2, QuietKept
<1>7. (r.rss # 0) \in BOOLEAN
  OBVIOUS
<1> QED
  BY <1>1, <1>4, <1>5, <1>6, <1>7, CommitKeeps

(* CleanseMemory, with which the memory calls begin, finds code mapped and drops no root. *)
LEMMA SysIs ==
  ASSUME MemInv, Running
  PROVE  LET s == CleanseMemory(sys) IN
         IsSystem(s) /\ s.moved = sys.moved /\ s.brk = sys.brk /\ (Good(sys) => Quiet(sys, s))
<1>1. \E p \in Pages : Valid(LoadPte(sys, p))
  BY DEF Running
<1> QED
  BY <1>1, CleanseIs DEF MemInv

(* mmap keeps the invariant: fixed, exclusive, hinted and at a place of its own.          *)
LEMMA MmapKeeps ==
  ASSUME MemInv, Running, NEW a \in Mmaps, SysMmap(a.how, a.virt, a.n, a.prot, a.backing)
  PROVE  MemInv'
<1> DEFINE s == CleanseMemory(sys)
           place == FindVirtual(s, a.n)
<1>1. IsSystem(s) /\ s.moved = sys.moved /\ (Good(sys) => Quiet(sys, s))
  BY SysIs
<1>2. /\ a.virt \in Nat /\ a.n \in Nat /\ a.n >= 1 /\ a.virt + a.n <= NPages /\ a.prot \in SUBSET {"r", "w", "x"}
  BY MemoryBounds DEF Pages
<1>3. MmapCleansed(s, a.how, a.virt, a.n, a.prot, a.backing)
  BY DEF SysMmap
<1> HIDE DEF s
<1>4. s.automap \in Nat
  BY <1>1 DEF IsSystem
<1>5. place = -1 \/ (place \in Nat /\ place + a.n <= NPages)
  BY <1>2, <1>4, FindIs
<1> HIDE DEF place
<1>6. \/ Fails(s)
      \/ MapAt(s, a.virt, a.n, a.prot, a.backing, s.automap)
      \/ place # -1 /\ MapAt(s, place, a.n, a.prot, a.backing, AutomapAfter(place, a.n))
  BY <1>3 DEF MmapCleansed, MapAnywhere, place
<1>7. CASE Fails(s)
  BY <1>1, <1>7, FailsKeeps
<1>8. CASE MapAt(s, a.virt, a.n, a.prot, a.backing, s.automap)
  BY <1>1, <1>2, <1>4, <1>8, MapKeeps
<1>9. CASE place # -1 /\ MapAt(s, place, a.n, a.prot, a.backing, AutomapAfter(place, a.n))
  <2>1. AutomapAfter(place, a.n) \in Nat /\ place \in Nat /\ place + a.n <= NPages
    BY <1>2, <1>5, <1>9 DEF AutomapAfter, AutomapStart
  <2> QED
    BY <1>1, <1>2, <1>9, <2>1, MapKeeps
<1> QED
  BY <1>6, <1>7, <1>8, <1>9

(* The intervals the guest names lie in the address space (IsValidAddrSize).              *)
LEMMA RangeIs ==
  ASSUME NEW r \in Ranges
  PROVE  r[1] \in Int /\ r[1] >= 0 /\ r[2] \in Nat /\ r[1] + r[2] <= NPages
BY MemoryBounds DEF Pages, NPages

(* munmap keeps the invariant.                                                            *)
LEMMA MunmapKeeps ==
  ASSUME MemInv, NEW virt \in Int, virt >= 0, NEW n \in Nat, virt + n <= NPages, SysMunmap(virt, n)
  PROVE  MemInv'
<1> DEFINE r == FreeVirtual(sys, virt, n)
<1>1. Commit(r.s, r.rss # 0, r.exec)
  BY DEF SysMunmap, CommitChange
<1>2. /\ IsSystem(r.s) /\ r.s.moved = sys.moved /\ r.exec \in BOOLEAN
      /\ Good(sys) => Good(r.s) /\ Kept(sys, r.s, r.exec)
  BY FreeVirtualIs DEF MemInv
<1> HIDE DEF r
<1>3. Evolves(sys, r.s) /\ (r.rss # 0) \in BOOLEAN
  BY <1>2 DEF Evolves, IsSystem
<1> QED
  BY <1>1, <1>2, <1>3, CommitKeeps

(* mprotect keeps it: translations and code are dropped when permissions change.          *)
LEMMA MprotectKeeps ==
  ASSUME MemInv, NEW virt \in Int, virt >= 0, NEW n \in Nat, virt + n <= NPages,
         NEW prot \in SUBSET {"r", "w", "x"}, SysMprotect(virt, n, prot)
  PROVE  MemInv'
<1> DEFINE gone == \E p \in virt .. virt + n - 1 : LET w == LoadPte(sys, p) IN
                       "x" \in w.prot /\ "x" \notin prot /\ ~w.rsrv
           r == Protected(sys, virt, n, prot)
           b == InvalidateSystem(EnterSyscall(m), TRUE, gone)
<1>1. CASE ~IsFullyMapped(sys, virt, n)
  <2>1. Fails(sys)
    BY <1>1 DEF SysMprotect
  <2>2. Good(sys) => Quiet(sys, sys)
    BY QuietSame DEF Same
  <2> QED
    BY <2>1, <2>2, FailsKeeps DEF MemInv
<1>2. CASE IsFullyMapped(sys, virt, n)
  <2>1. sys' = r /\ m' = b
    BY <1>2 DEF SysMprotect, Commit
  <2>2. /\ IsSystem(r) /\ r.moved = sys.moved
        /\ Good(sys) => Stripped(sys, r, virt, n, prot)
    BY <1>2, ProtectIs DEF MemInv
  <2>3. gone \in BOOLEAN /\ \A p \in virt .. virt + n - 1 :
            ~gone /\ "x" \in LoadPte(sys, p).prot /\ ~LoadPte(sys, p).rsrv => "x" \in prot
    OBVIOUS
  <2> HIDE DEF r
  <2>4. ASSUME r.moved = 0 PROVE Good(r) /\ Cached(r, b)
    <3>1. Good(sys) /\ Cached(sys, m) /\ Stripped(sys, r, virt, n, prot)
      BY <2>2, <2>4 DEF MemInv, Intact
    <3> HIDE DEF gone
    <3>2. /\ DOMAIN b = DOMAIN m /\ b.tlb = m.tlb /\ b.code = m.code
          /\ b.invalidated = TRUE /\ b.invalidated \in BOOLEAN
          /\ b.icinvalidated = (m.icinvalidated \/ gone) /\ b.icinvalidated \in BOOLEAN
      BY <2>3, <3>1 DEF InvalidateSystem, EnterSyscall, Cached, IsMachine
    <3> HIDE DEF b
    <3>3. IsMachine(b) /\ TlbTrue(r, b)
      BY <3>1, <3>2 DEF Cached, IsMachine, TlbTrue
    <3>4. ASSUME NEW p \in Pages, ~b.icinvalidated, Valid(LoadPte(sys, p)), Drops(LoadPte(sys, p))
          PROVE  /\ Valid(LoadPte(r, p)) /\ "x" \in LoadPte(r, p).prot /\ ~LoadPte(r, p).rsrv
                 /\ LoadPte(r, p).hp = LoadPte(sys, p).hp
      <4> DEFINE w == LoadPte(sys, p)
      <4>1. w \in Ptes
        BY <3>1, <3>4, GoodTable
      <4>2. CASE virt <= p /\ p < virt + n
        <5>1. p \in virt .. virt + n - 1
          BY <4>2 DEF Pages
        <5>2. "x" \in prot
          BY <2>3, <3>2, <3>4, <5>1 DEF Drops
        <5>3. LoadPte(r, p) = WithProt(w, prot)
          BY <3>1, <4>2 DEF Stripped
        <5> HIDE DEF w
        <5>4. /\ WithProt(w, prot) \in Ptes /\ WithProt(w, prot).prot = prot
              /\ WithProt(w, prot).hp = w.hp /\ (WithProt(w, prot).rsrv <=> w.rsrv)
          BY <4>1, WithProtIs
        <5> QED
          BY <3>4, <5>2, <5>3, <5>4, WordsAre DEF Drops, w
      <4>3. CASE ~(virt <= p /\ p < virt + n)
        <5>1. LoadPte(r, p) = w
          BY <3>1, <4>3 DEF Stripped
        <5> QED
          BY <3>4, <5>1 DEF Drops
      <4> QED
        BY <4>2, <4>3
    <3>5. CodeTrue(r, b)
      <4>1. Longer(sys, r) /\ CodeTrue(sys, m)
        BY <3>1 DEF Stripped, Cached
      <4> QED
        BY <3>1, <3>2, <3>4, <4>1, CodeStays
    <3> QED
      BY <3>1, <3>3, <3>5 DEF Stripped, Cached
  <2> HIDE DEF b
  <2>5. IsSystem(sys') /\ (sys'.moved = 0 => Good(sys') /\ Cached(sys', m'))
    BY <2>1, <2>2, <2>4
  <2> QED
    BY <2>5 DEF MemInv, Intact
<1> QED
  BY <1>1, <1>2

(* brk keeps it, growing and shrinking.                                                   *)
LEMMA BrkKeeps ==
  ASSUME MemInv, Running, NEW addr \in Heap .. Heap + 2, SysBrk(addr)
  PROVE  MemInv'
<1>0. addr \in 0 .. 2 /\ sys.brk \in 0 .. 2 /\ NPages >= 4 /\ NPages \in Int /\ Heap = 0 /\ addr \in Heap .. Heap + 2
  <2>1. PerTable * PerTable >= 2 * PerTable
    BY Bounds
  <2> QED
    BY <2>1, Bounds DEF Heap, MemInv, IsSystem, NPages
<1>1. CASE addr > sys.brk
  <2> DEFINE s == CleanseMemory(sys)
             r == ReserveVirtual(s, s.brk, addr - s.brk, {"r", "w"}, "anon", TRUE)
             maps == IF r.s.brkchanged THEN r.s.filemaps ELSE <<r.s.brk .. addr - 1>> \o r.s.filemaps
             t == [r.s EXCEPT !.brk = addr, !.brkchanged = TRUE, !.filemaps = maps]
             x == [r EXCEPT !.s = t]
  <2>1. GrowBreak(s, addr)
    BY <1>1 DEF SysBrk
  <2>2. IsSystem(s) /\ s.moved = sys.moved /\ s.brk = sys.brk /\ (Good(sys) => Quiet(sys, s))
    BY SysIs
  <2>3. Fails(s) \/ CommitChange(x)
    BY <2>1 DEF GrowBreak, Grown
  <2> HIDE DEF s
  <2>4. CASE Fails(s)
    BY <2>2, <2>4, FailsKeeps
  <2>5. CASE CommitChange(x)
    <3>1. /\ DOMAIN r = AddFields /\ Evolves(s, r.s) /\ r.exec \in BOOLEAN
          /\ r.s.moved = 0 /\ Good(s) => Good(r.s) /\ Kept(s, r.s, r.exec)
      <4>1. s.brk \in Int /\ addr - s.brk \in Nat /\ s.brk >= 0 /\ s.brk + (addr - s.brk) <= NPages
        <5>1. s.brk = sys.brk
          BY <2>2
        <5>2. \A a, c \in Int : a > c /\ c >= 0 /\ a <= 2 => a - c \in Nat /\ c + (a - c) = a
          OBVIOUS
        <5>3. addr \in Int /\ sys.brk \in Int /\ sys.brk >= 0 /\ addr <= 2
          BY <1>0
        <5>4. addr - sys.brk \in Nat /\ sys.brk + (addr - sys.brk) = addr
          BY <1>1, <5>2, <5>3
        <5> QED
          BY <1>0, <5>1, <5>3, <5>4
      <4>2. {"r", "w"} \in SUBSET {"r", "w", "x"} /\ TRUE \in BOOLEAN
        OBVIOUS
      <4> QED
        BY <2>2, <4>1, <4>2, ReserveIs
    <3> HIDE DEF r, maps
    <3>2. IsSystem(t) /\ t.moved = r.s.moved /\ Same(r.s, t)
      BY <1>0, <3>1 DEF Evolves, IsSystem, Fields, Same
    <3> HIDE DEF t
    <3>3. x.s = t /\ x.exec = r.exec
      BY <3>1 DEF AddFields
    <3> HIDE DEF x
    <3>4. Commit(t, x.rss # 0, r.exec) /\ (x.rss # 0) \in BOOLEAN
      BY <2>5, <3>3 DEF CommitChange
    <3>5. Evolves(sys, t)
      BY <2>2, <3>1, <3>2 DEF Evolves
    <3>6. ASSUME t.moved = 0, Good(sys) PROVE Good(t) /\ Kept(sys, t, r.exec)
      <4>1. Quiet(sys, s) /\ Good(s)
        BY <2>2, <3>6 DEF Quiet
      <4>2. Good(r.s) /\ Kept(s, r.s, r.exec)
        BY <3>1, <3>2, <3>6, <4>1
      <4>3. Quiet(r.s, t) /\ Good(t)
        BY <3>2, <4>2, QuietSame DEF Quiet
      <4>4. Kept(s, t, r.exec)
        BY <4>1, <4>2, <4>3, KeptQuiet
      <4> QED
        BY <3>6, <4>1, <4>3, <4>4, QuietKept
    <3> QED
      BY <3>1, <3>4, <3>5, <3>6, CommitKeeps
  <2> QED
    BY <2>3, <2>4, <2>5
<1>2. CASE ~(addr > sys.brk)
  <2> DEFINE r == FreeVirtual(sys, addr, sys.brk - addr)
             t == [r.s EXCEPT !.brk = addr]
             x == [r EXCEPT !.s = t]
  <2>1. CommitChange(x)
    BY <1>2 DEF SysBrk
  <2>2. /\ DOMAIN r = Scan /\ IsSystem(r.s) /\ r.s.moved = sys.moved /\ r.exec \in BOOLEAN
        /\ Good(sys) => Good(r.s) /\ Kept(sys, r.s, r.exec)
    <3>1. addr \in Int /\ addr >= 0 /\ sys.brk - addr \in Nat /\ addr + (sys.brk - addr) <= NPages
      BY <1>0, <1>2
    <3> QED
      BY <3>1, FreeVirtualIs DEF MemInv
  <2> HIDE DEF r
  <2>3. IsSystem(t) /\ t.moved = r.s.moved /\ Same(r.s, t)
    BY <1>0, <2>2 DEF IsSystem, Fields, Same
  <2> HIDE DEF t
  <2>4. x.s = t /\ x.exec = r.exec
    BY <2>2 DEF Scan
  <2> HIDE DEF x
  <2>5. Commit(t, x.rss # 0, r.exec) /\ (x.rss # 0) \in BOOLEAN
    BY <2>1, <2>4 DEF CommitChange
  <2>6. Evolves(sys, t)
    BY <2>2, <2>3 DEF Evolves, IsSystem
  <2>7. ASSUME Good(sys) PROVE Good(t) /\ Kept(sys, t, r.exec)
    <3>1. Quiet(r.s, t) /\ Good(t) /\ Good(r.s)
      BY <2>2, <2>3, <2>7, QuietSame DEF Quiet
    <3> QED
      BY <2>2, <2>7, <3>1, KeptQuiet
  <2> QED
    BY <2>2, <2>5, <2>6, <2>7, CommitKeeps
<1> QED
  BY <1>1, <1>2

(* The first process. *)

NoFrames == [ram |-> [f \in 0 .. MaxPool - 1 |-> ZeroFrame], hostpages |-> <<>>, free |-> <<>>,
             next |-> 0, cap |-> PoolSize, moved |-> 0, cr3 |-> 0, filemaps |-> <<>>,
             rss |-> 0, vss |-> 0, committed |-> 0, reserved |-> 0, tables |-> 0, memchurn |-> 0,
             brk |-> Heap, brkchanged |-> FALSE, automap |-> AutomapStart]

(* The root table of an address space in which nothing is mapped.                         *)
LEMMA RootIs ==
  LET t == AllocatePageTable(NoFrames) IN IsSystem(t) /\ (t.moved = 0 => Good(t))
<1> DEFINE e == NoFrames
           t == AllocatePageTable(e)
           u == AllocPoolPages(e, Chunk)
           K == [f \in Frames |-> IF f = 0 THEN "root" ELSE IF f < Chunk THEN "free" ELSE "new"]
           z == [f \in Frames |-> 0]
<1>1. /\ DOMAIN e = Fields /\ e.ram = [f \in Frames |-> ZeroFrame] /\ e.hostpages = <<>> /\ e.free = <<>>
      /\ e.next = 0 /\ e.cap = PoolSize /\ e.moved = 0 /\ e.cr3 = 0 /\ e.brk = Heap /\ e.automap = AutomapStart
  BY DEF NoFrames, Fields, Frames
<1> HIDE DEF e
<1>2. IsSystem(e)
  BY <1>1 DEF IsSystem, Heap, AutomapStart
<1>3. IsSystem(t)
  BY <1>2, TableAllocIs DEF Evolves
<1>4. t = [[[u EXCEPT !.free = ChunkRest(0), !.rss = @ + 1] EXCEPT !.hostpages = Append(@, 0)] EXCEPT !.tables = @ + 1]
  BY <1>1 DEF AllocatePageTable, AllocateAnonymousPage, TrackHostPage
<1>5. /\ DOMAIN u = Fields /\ u.ram = e.ram /\ u.hostpages = <<>> /\ u.next = Chunk /\ u.cr3 = 0
      /\ u.moved = 0 => u.cap = PoolSize
  <2> DEFINE v == [e EXCEPT !.next = e.next + Chunk]
             cap == Doubled(e.cap, e.next + Chunk)
  <2>1. u = IF cap = v.cap THEN v ELSE [v EXCEPT !.cap = cap, !.moved = v.moved + 1]
    BY DEF AllocPoolPages, MovePool
  <2>2. /\ DOMAIN v = Fields /\ v.ram = e.ram /\ v.hostpages = <<>> /\ v.next = Chunk /\ v.cr3 = 0
        /\ v.moved = 0 /\ v.cap = PoolSize
    <3>1. e.next + Chunk = Chunk
      BY <1>1, Bounds
    <3> QED
      BY <1>1, <3>1 DEF Fields
  <2> HIDE DEF v, cap, u
  <2> QED
    BY <2>1, <2>2 DEF Fields
<1> HIDE DEF u
<1>6. /\ t.ram = e.ram /\ t.hostpages = Append(<<>>, 0) /\ t.free = ChunkRest(0) /\ t.next = Chunk
      /\ t.moved = u.moved /\ t.cap = u.cap /\ t.cr3 = 0
  <2> DEFINE v == [u EXCEPT !.free = ChunkRest(0), !.rss = u.rss + 1]
             w == [v EXCEPT !.hostpages = Append(v.hostpages, 0)]
  <2>1. t = [w EXCEPT !.tables = w.tables + 1]
    BY <1>4
  <2>2. /\ DOMAIN v = Fields /\ v.ram = e.ram /\ v.hostpages = <<>> /\ v.free = ChunkRest(0) /\ v.next = Chunk
        /\ v.moved = u.moved /\ v.cap = u.cap /\ v.cr3 = 0
    BY <1>5 DEF Fields
  <2> HIDE DEF v
  <2>3. /\ DOMAIN w = Fields /\ w.ram = e.ram /\ w.hostpages = Append(<<>>, 0) /\ w.free = ChunkRest(0)
        /\ w.next = Chunk /\ w.moved = u.moved /\ w.cap = u.cap /\ w.cr3 = 0
    BY <2>2 DEF Fields
  <2> HIDE DEF w
  <2> QED
    BY <2>1, <2>3 DEF Fields
<1> HIDE DEF t
<1>7. ASSUME t.moved = 0 PROVE Owned(t, K, z, z)
  <2>0. 0 \in Frames /\ Chunk - 1 \in Nat /\ \A i \in 1 .. Chunk - 1 : i \in Frames /\ i # 0 /\ i < Chunk
    BY Bounds DEF Frames
  <2>1. t.hostpages = <<0>> /\ t.hostpages \in Seq(Frames) /\ Len(t.hostpages) = 1
    BY <1>6, <2>0
  <2>2. Len(t.free) = Chunk - 1 /\ \A i \in 1 .. Chunk - 1 : t.free[i] = i
    BY <1>6, <2>0 DEF ChunkRest
  <2>3. t.free \in Seq(Frames)
    BY <1>6, <2>0 DEF ChunkRest
  <2>4. t.ram \in [Frames -> [Slots -> Words]] /\ \A f \in Frames : t.ram[f] = ZeroFrame
    BY <1>1, <1>6, ZeroFrameIs
  <2>5. Typed(t)
    <3>1. t.next \in 0 .. PoolSize /\ t.cap = PoolSize
      BY <1>5, <1>6, <1>7, Bounds
    <3> QED
      BY <1>6, <2>1, <2>3, <2>4, <3>1 DEF Typed
  <2>6. Root(t) = 0
    BY <1>6, <2>1 DEF Root
  <2>7. RootWords(t, K, z, z)
    BY <2>0, <2>4, <2>6, ZeroFrameIs DEF RootWords
  <2>8. TableWords(t, K, z, z)
    BY DEF TableWords
  <2>9. FreeFrames(t, K)
    <3>1. \A i \in 1 .. Chunk - 1 : K[i] = "free"
      BY <2>0
    <3> HIDE DEF K
    <3> QED
      BY <2>2, <3>1 DEF FreeFrames
  <2>10. Clean(t, K)
    BY <2>4 DEF Clean
  <2>11. Fresh(t, K)
    BY <1>6, Bounds DEF Fresh, Frames
  <2> QED
    BY <2>5, <2>7, <2>8, <2>9, <2>10, <2>11 DEF Owned
<1> HIDE DEF K, z
<1> QED
  BY <1>3, <1>7 DEF Good, t, e

(* The first process, with its page of code, has it (LoadProgram).                        *)
LEMMA InitKeeps ==
  ASSUME Init
  PROVE  MemInv
<1> DEFINE t == AllocatePageTable(NoFrames)
           r == ReserveVirtual(t, CodePage, 1, {"r", "x"}, "file", FALSE)
<1>1. sys = r.s
  BY DEF Init, Boot, NoFrames
<1>2. IsSystem(t) /\ (t.moved = 0 => Good(t))
  BY RootIs
<1> HIDE DEF t
<1>3. /\ Evolves(t, r.s)
      /\ r.s.moved = 0 /\ Good(t) => Good(r.s)
  <2>1. CodePage \in Int /\ CodePage >= 0 /\ CodePage + 1 <= NPages /\ 1 \in Nat
    <3>1. PerTable * PerTable >= 2 * PerTable
      BY Bounds
    <3> QED
      BY <3>1, Bounds DEF CodePage, NPages
  <2>2. {"r", "x"} \in SUBSET {"r", "w", "x"} /\ FALSE \in BOOLEAN
    OBVIOUS
  <2> QED
    BY <1>2, <2>1, <2>2, ReserveIs
<1> HIDE DEF r
<1>4. IsSystem(sys) /\ (sys.moved = 0 => Good(sys))
  BY <1>1, <1>2, <1>3 DEF Evolves, IsSystem
<1>5. Cached(sys, m)
  <2>1. /\ DOMAIN m = {"tlb", "invalidated", "icinvalidated", "code"} /\ m.tlb = EmptyTlb
        /\ m.invalidated \in BOOLEAN /\ m.icinvalidated \in BOOLEAN /\ m.code = NoCode
    BY DEF Init
  <2>2. DOMAIN EmptyTlb = 0 .. TlbSize - 1 /\ \A k \in 0 .. TlbSize - 1 : ~Valid(EmptyTlb[k].entry)
    BY WordsAre DEF EmptyTlb, NoTlb
  <2>3. NoCode.virt = -1
    BY DEF NoCode
  <2> QED
    BY <2>1, <2>2, <2>3 DEF Cached, IsMachine, TlbTrue, CodeTrue
<1> QED
  BY <1>4, <1>5 DEF MemInv, Intact

(* Every access and every call keeps it.                                                  *)
LEMMA NextKeeps ==
  ASSUME MemInv, Next
  PROVE  MemInv'
<1>1. ASSUME NEW p \in Pages, Fetch(p) PROVE MemInv'
  BY <1>1, FetchKeeps
<1>2. ASSUME NEW p \in Pages, Load(p, m) PROVE MemInv'
  BY <1>2, LoadKeeps
<1>3. ASSUME NEW p \in Pages, Store(p, 1, {"r", "w"}, m) PROVE MemInv'
  BY <1>3, StoreKeeps
<1>4. ASSUME NEW p \in Pages, Store(p, 1, {"r"}, EnterSyscall(m)) PROVE MemInv'
  BY <1>4, StoreKeeps
<1>5. ASSUME NEW a \in Mmaps, SysMmap(a.how, a.virt, a.n, a.prot, a.backing) PROVE MemInv'
  BY <1>5, MmapKeeps DEF Next
<1>6. ASSUME NEW r \in Ranges, SysMunmap(r[1], r[2]) PROVE MemInv'
  BY <1>6, RangeIs, MunmapKeeps
<1>7. ASSUME NEW r \in Ranges, NEW prot \in Prots, SysMprotect(r[1], r[2], prot) PROVE MemInv'
  <2>1. prot \in SUBSET {"r", "w", "x"}
    BY MemoryBounds
  <2> QED
    BY <1>7, <2>1, RangeIs, MprotectKeeps
<1>8. ASSUME NEW addr \in Heap .. Heap + 2, SysBrk(addr) PROVE MemInv'
  BY <1>8, BrkKeeps DEF Next
<1> QED
  BY <1>1, <1>2, <1>3, <1>4, <1>5, <1>6, <1>7, <1>8 DEF Next, Access, Call

(* While the page pool has not been moved, every frame in use has one owner and the       *)
(* machine's caches say what the page tables say, after every access and every call.      *)
THEOREM MemoryStaysIntact == Spec => []MemInv
<1>1. Init => MemInv
  BY InitKeeps
<1>2. MemInv /\ [Next]_vars => MemInv'
  <2>1. ASSUME MemInv, UNCHANGED vars PROVE MemInv'
    <3>1. sys' = sys /\ m' = m
      BY <2>1 DEF vars
    <3> QED
      BY <2>1, <3>1 DEF MemInv, Intact
  <2> QED
    BY <2>1, NextKeeps
<1> QED
  BY <1>1, <1>2, PTL DEF Spec

(* CachesCoherent, for every number and size of tables, translation buffers, chunks and   *)
(* pools and every sequence of calls: a translation the machine would use is the one in   *)
(* the page tables, and instructions are fetched from the page that is mapped executable  *)
(* there (FindPageTableEntry, LoadInstruction2, InvalidateSystem), while the pool has not *)
(* been moved.                                                                            *)
THEOREM CachesAreCoherent == Spec => [](sys.moved = 0 => CachesCoherent)
<1>1. MemInv => (sys.moved = 0 => CachesCoherent)
  <2> SUFFICES ASSUME MemInv, sys.moved = 0 PROVE TlbCoherent /\ CodeIsCurrent
    BY DEF CachesCoherent
  <2>1. IsMachine(m) /\ TlbTrue(sys, m) /\ CodeTrue(sys, m)
    BY DEF MemInv, Intact, Cached
  <2>2. TlbCoherent
    BY <2>1 DEF IsMachine, TlbTrue, TlbCoherent
  <2>3. CodeIsCurrent
    BY <2>1 DEF CodeTrue, CodeIsCurrent
  <2> QED
    BY <2>2, <2>3
<1> QED
  BY <1>1, MemoryStaysIntact, PTL

(* Frames with owners have one use each: two pages never share one, nor a page and a      *)
(* table, nor either and the free list.                                                   *)
LEMMA UsesApart ==
  ASSUME NEW K, NEW G, NEW I, Owned(sys, K, G, I)
  PROVE  FramesDisjoint
<1> DEFINE pages == {p \in Leaves : LoadPte(sys, p).hp # NoHost}
           D == ({"page"} \X pages) \cup ({"table"} \X Tables) \cup ({"free"} \X DOMAIN sys.free)
           Use(x) == CASE x[1] = "page" -> FindHostPage(sys, LoadPte(sys, x[2]))
                       [] x[1] = "table" -> Table(sys, x[2] * PerTable)
                       [] x[1] = "free" -> sys.free[x[2]]
           used == [x \in D |-> Use(x)]
<1>1. ASSUME NEW p \in pages
      PROVE  /\ FindHostPage(sys, LoadPte(sys, p)) \in Frames
             /\ K[FindHostPage(sys, LoadPte(sys, p))] = "page" /\ HasTable(sys, p) /\ p \in Pages
             /\ G[FindHostPage(sys, LoadPte(sys, p))] = Table(sys, p)
             /\ I[FindHostPage(sys, LoadPte(sys, p))] = Index(p)
  <2>1. p \in Pages /\ Valid(LoadPte(sys, p)) /\ LoadPte(sys, p).hp # NoHost
    BY DEF Leaves
  <2>2. HasTable(sys, p) /\ Backed(sys, LoadPte(sys, p), K, G, I, Table(sys, p), Index(p))
    BY <2>1, PteFound, WordsAre
  <2>3. Typed(sys)
    BY DEF Owned
  <2> QED
    BY <2>1, <2>2, <2>3, HostIn DEF Backed, Points
<1>2. ASSUME NEW d \in Tables
      PROVE  /\ Table(sys, d * PerTable) \in Frames /\ K[Table(sys, d * PerTable)] = "table"
             /\ I[Table(sys, d * PerTable)] = d
  <2>1. d \in Slots /\ HasTable(sys, d * PerTable)
    BY DEF Tables, Slots
  <2>2. d * PerTable \in Pages /\ Dir(d * PerTable) = d
    <3>1. 0 \in Slots /\ d * PerTable + 0 = d * PerTable
      BY <2>1, Bounds DEF Slots
    <3> QED
      BY <2>1, <3>1, PlaceIs
  <2> QED
    BY <2>1, <2>2, TableIs
<1>3. ASSUME NEW i \in DOMAIN sys.free
      PROVE  sys.free[i] \in Frames /\ K[sys.free[i]] = "free"
  BY DEF Owned, Typed, FreeFrames
<1>4. \A i, j \in DOMAIN sys.free : sys.free[i] = sys.free[j] => i = j
  BY DEF Owned, Typed, FreeFrames
<1> HIDE DEF pages
<1>5. ASSUME NEW x \in D
      PROVE  /\ Use(x) \in Frames /\ K[Use(x)] = x[1]
             /\ \/ x[1] = "page" /\ x[2] \in pages /\ Use(x) = FindHostPage(sys, LoadPte(sys, x[2]))
                \/ x[1] = "table" /\ x[2] \in Tables /\ Use(x) = Table(sys, x[2] * PerTable)
                \/ x[1] = "free" /\ x[2] \in DOMAIN sys.free /\ Use(x) = sys.free[x[2]]
             /\ x = <<x[1], x[2]>>
  BY <1>1, <1>2, <1>3
<1>6. ASSUME NEW x \in D, NEW y \in D, Use(x) = Use(y) PROVE x = y
  <2> HIDE DEF D, Use
  <2>1. x[1] = y[1]
    BY <1>5, <1>6
  <2>2. CASE x[1] = "page"
    <3>1. x[2] \in pages /\ y[2] \in pages
          /\ Use(x) = FindHostPage(sys, LoadPte(sys, x[2])) /\ Use(y) = FindHostPage(sys, LoadPte(sys, y[2]))
      BY <1>5, <2>1, <2>2
    <3> DEFINE f == FindHostPage(sys, LoadPte(sys, x[2]))
               g == FindHostPage(sys, LoadPte(sys, y[2]))
    <3>5. f = g
      BY <1>6, <3>1
    <3>6. HasTable(sys, x[2]) /\ x[2] \in Pages /\ G[f] = Table(sys, x[2]) /\ I[f] = Index(x[2])
      BY <1>1, <3>1
    <3>7. HasTable(sys, y[2]) /\ y[2] \in Pages /\ G[g] = Table(sys, y[2]) /\ I[g] = Index(y[2])
      BY <1>1, <3>1
    <3> HIDE DEF f, g
    <3>2. Table(sys, x[2]) = Table(sys, y[2]) /\ Index(x[2]) = Index(y[2]) /\ x[2] \in Pages /\ y[2] \in Pages
          /\ HasTable(sys, x[2]) /\ HasTable(sys, y[2])
      BY <3>5, <3>6, <3>7
    <3>3. Dir(x[2]) = Dir(y[2])
      BY <3>2, TablesApart
    <3>4. x[2] = y[2]
      BY <3>2, <3>3, PlaceUnique
    <3> QED
      BY <1>5, <2>1, <3>4
  <2>3. CASE x[1] = "table"
    <3>1. x[2] \in Tables /\ y[2] \in Tables
          /\ Use(x) = Table(sys, x[2] * PerTable) /\ Use(y) = Table(sys, y[2] * PerTable)
      BY <1>5, <2>1, <2>3
    <3> DEFINE f == Table(sys, x[2] * PerTable)
               g == Table(sys, y[2] * PerTable)
    <3>5. f = g
      BY <1>6, <3>1
    <3>6. I[f] = x[2]
      BY <1>2, <3>1
    <3>7. I[g] = y[2]
      BY <1>2, <3>1
    <3> HIDE DEF f, g
    <3>2. x[2] = y[2]
      BY <3>5, <3>6, <3>7
    <3> QED
      BY <1>5, <2>1, <3>2
  <2>4. CASE x[1] = "free"
    <3>1. x[2] \in DOMAIN sys.free /\ y[2] \in DOMAIN sys.free
          /\ Use(x) = sys.free[x[2]] /\ Use(y) = sys.free[y[2]]
      BY <1>5, <2>1, <2>4
    <3>2. x[2] = y[2]
      BY <1>4, <1>6, <3>1
    <3> QED
      BY <1>5, <2>1, <3>2
  <2> QED
    BY <1>5, <2>2, <2>3, <2>4
<1>7. ASSUME NEW x \in D PROVE Use(x) # Root(sys) /\ Use(x) < sys.next
  <2>1. Use(x) \in Frames /\ K[Use(x)] = x[1] /\ x[1] \in {"page", "table", "free"}
    BY <1>5
  <2> HIDE DEF D, Use
  <2>2. K[Root(sys)] = "root"
    BY DEF Owned, RootWords
  <2>3. ~(Use(x) >= sys.next)
    BY <2>1 DEF Owned, Fresh
  <2>4. sys.next \in Int /\ Use(x) \in Int
    BY <2>1 DEF Owned, Typed, Frames
  <2> QED
    BY <2>1, <2>2, <2>3, <2>4
<1>8. DOMAIN used = D /\ \A x \in D : used[x] = Use(x)
  OBVIOUS
<1>9. FramesDisjoint <=> /\ \A x, y \in DOMAIN used : x # y => used[x] # used[y]
                         /\ \A x \in DOMAIN used : used[x] # Root(sys) /\ used[x] < sys.next
  BY DEF FramesDisjoint, pages
<1> HIDE DEF D, Use, used
<1> QED
  BY <1>6, <1>7, <1>8, <1>9

(* FramesDisjoint, the part of BooksExact about frames: AllocateAnonymousPage,            *)
(* AllocateBig, FreePage and FreeEmptyPageTables never give a frame a second use, while   *)
(* the pool has not been moved.                                                           *)
THEOREM FramesStayDisjoint == Spec => [](sys.moved = 0 => FramesDisjoint)
<1>1. MemInv => (sys.moved = 0 => FramesDisjoint)
  BY UsesApart DEF MemInv, Intact, Good
<1> QED
  BY <1>1, MemoryStaysIntact, PTL
=============================================================================
