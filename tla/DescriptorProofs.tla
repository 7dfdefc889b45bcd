-------------------------- MODULE DescriptorProofs --------------------------
(***************************************************************************)
(* Proofs about descriptors and about the pipes some of them name.         *)
(*                                                                         *)
(* FdTable, for any number of processes, descriptors, files and pipes: the *)
(* numbers dup hands out below the pipe numbers are free, and no           *)
(* descriptor comes to name a file that it was not opened for.             *)
(*                                                                         *)
(* PipeRing, for every capacity, every set of request sizes and every      *)
(* bound on the bytes sent: bytes arrive once and in order, an end of file *)
(* is final, and the ring implements the abstract pipe.                    *)
(***************************************************************************)
EXTENDS FdTable, PipeRing, TLAPS, WellFoundedInduction

(* A descriptor of a file: its number has been handed out by the vfs, and while that    *)
(* number is open it is the open() the descriptor stems from.                           *)
EntryOK(e, o, vn) ==
    /\ e \in Entries
    /\ e.type = "file" => e.id < vn /\ (e.id \in DOMAIN o => o[e.id] = e.desc)

(* Numbers in use lie below the counter of dup, or among those of the pipes. *)
TableOK(t, n, o, vn) ==
    /\ DOMAIN t \subseteq Fds /\ n \in 0 .. MaxFd + 1
    /\ \A fd \in DOMAIN t : EntryOK(t[fd], o, vn) /\ (fd < n \/ fd >= PipeBase)

Tables ==
    /\ DOMAIN table \subseteq Pids /\ DOMAIN nextFd = DOMAIN table /\ lastPid \in Pids
    /\ \A p \in DOMAIN table : TableOK(table[p], nextFd[p], open, vfsNext)

(* The vfs counts its descriptors up and never back. *)
FilesOK(o, vn, n) ==
    /\ n \in 0 .. MaxOpens /\ vn = 4 + n
    /\ \A v \in DOMAIN o : v \in Nat /\ v < vn /\ o[v] \in 0 .. MaxOpens

RingsOK == pipes \in 0 .. MaxPipes /\ closed \subseteq (Int \X {0, 1}) /\ bridgeUp \in BOOLEAN

IInv == calls \in 0 .. MaxCalls /\ Tables /\ FilesOK(open, vfsNext, opens) /\ RingsOK

-----------------------------------------------------------------------------
(* Operators on one table. *)

(* What Min of FiniteSetsExt returns for naturals. *)
LEMMA MinInSet ==
  ASSUME NEW S \in SUBSET Nat, S # {}
  PROVE  Min(S) \in S
<1>1. PICK x \in S : \A y \in S : ~(<<y, x>> \in OpToRel(<, Nat))
  BY NatLessThanWellFounded, WFMin
<1>2. \A y \in S : ~(y < x)
  <2>1. ASSUME NEW y \in S, y < x PROVE FALSE
    <3>1. <<y, x>> \in Nat \X Nat /\ <<y, x>>[1] < <<y, x>>[2]
      BY <2>1
    <3>2. <<y, x>> \in OpToRel(<, Nat)
      BY <3>1, Zenon DEF OpToRel
    <3> QED
      BY <1>1, <3>2
  <2> QED
    BY <2>1
<1>3. \A y \in S : x <= y
  BY <1>2
<1> QED
  BY <1>3 DEF Min

(* An entry put at a number, with the counter moved behind it. *)
LEMMA WithOK ==
  ASSUME NEW t, NEW n, NEW o, NEW vn, TableOK(t, n, o, vn),
         NEW fd \in Fds, NEW e, EntryOK(e, o, vn)
  PROVE  TableOK(With(t, fd, e), Bump(n, fd), o, vn)
<1> USE FdBounds
<1>1. n \in 0 .. MaxFd + 1 /\ fd \in 0 .. MaxFd
  BY DEF TableOK, Fds
<1>2. Bump(n, fd) \in 0 .. MaxFd + 1 /\ n <= Bump(n, fd) /\ fd < Bump(n, fd)
  BY <1>1 DEF Bump
<1>3. DOMAIN With(t, fd, e) = DOMAIN t \cup {fd}
  BY DEF With
<1>4. ASSUME NEW x \in DOMAIN With(t, fd, e)
      PROVE  EntryOK(With(t, fd, e)[x], o, vn) /\ (x < Bump(n, fd) \/ x >= PipeBase)
  <2>1. CASE x = fd
    BY <1>2, <1>3, <2>1 DEF With
  <2>2. CASE x # fd
    <3>1. x \in DOMAIN t /\ With(t, fd, e)[x] = t[x]
      BY <1>3, <1>4, <2>2 DEF With
    <3>2. x \in 0 .. MaxFd /\ EntryOK(t[x], o, vn) /\ (x < n \/ x >= PipeBase)
      BY <3>1 DEF TableOK, Fds
    <3> QED
      BY <1>1, <1>2, <3>1, <3>2
  <2> QED
    BY <2>1, <2>2
<1> QED
  BY <1>2, <1>3, <1>4 DEF TableOK

(* A pipe end put at a number of the pipes: the counter stays. *)
LEMMA WithPipeOK ==
  ASSUME NEW t, NEW n, NEW o, NEW vn, TableOK(t, n, o, vn),
         NEW fd \in Fds, fd >= PipeBase, NEW e, EntryOK(e, o, vn)
  PROVE  TableOK(With(t, fd, e), n, o, vn)
BY DEF TableOK, With

LEMMA WithoutOK ==
  ASSUME NEW t, NEW n, NEW o, NEW vn, TableOK(t, n, o, vn), NEW fd
  PROVE  TableOK(Without(t, fd), n, o, vn)
BY DEF TableOK, Without, Restrict

(* What the vfs does to the descriptors there are: closing, and opening a new number. *)
LEMMA ClosedOK ==
  ASSUME NEW t, NEW n, NEW o, NEW vn, TableOK(t, n, o, vn), NEW v
  PROVE  TableOK(t, n, Restrict(o, DOMAIN o \ {v}), vn)
BY DEF TableOK, EntryOK, Restrict

LEMMA OpenedOK ==
  ASSUME NEW t, NEW n, NEW o, NEW vn \in Nat, TableOK(t, n, o, vn), NEW d
  PROVE  TableOK(t, n, With(o, vn, d), vn + 1)
<1> DEFINE o2 == With(o, vn, d)
<1>1. ASSUME NEW fd \in DOMAIN t PROVE EntryOK(t[fd], o2, vn + 1)
  <2>1. EntryOK(t[fd], o, vn)
    BY <1>1 DEF TableOK
  <2>2. CASE t[fd].type = "file"
    <3>1. t[fd].id \in Nat /\ t[fd].id < vn
      BY <2>1, <2>2 DEF EntryOK, Entries
    <3>2. t[fd].id \in DOMAIN o2 => t[fd].id \in DOMAIN o /\ o2[t[fd].id] = o[t[fd].id]
      BY <3>1 DEF With
    <3> QED
      BY <2>1, <2>2, <3>1, <3>2 DEF EntryOK
  <2> QED
    BY <2>1, <2>2 DEF EntryOK
<1> QED
  BY <1>1 DEF TableOK

(* One process's table and counter change, after the vfs changed or not. *)
LEMMA TablesUpdated ==
  ASSUME Tables,
         \A q \in DOMAIN table : TableOK(table[q], nextFd[q], open', vfsNext'),
         NEW p \in DOMAIN table, NEW t, NEW n, TableOK(t, n, open', vfsNext'),
         table' = [table EXCEPT ![p] = t],
         \/ nextFd' = nextFd /\ n = nextFd[p]
         \/ nextFd' = [nextFd EXCEPT ![p] = n],
         lastPid' = lastPid
  PROVE  Tables'
<1>1. DOMAIN table' = DOMAIN table /\ DOMAIN nextFd' = DOMAIN nextFd /\ p \in DOMAIN nextFd
  BY DEF Tables
<1>2. table'[p] = t /\ nextFd'[p] = n
  BY <1>1
<1>3. \A q \in DOMAIN table \ {p} : table'[q] = table[q] /\ nextFd'[q] = nextFd[q]
  BY DEF Tables
<1>4. \A q \in DOMAIN table' : TableOK(table'[q], nextFd'[q], open', vfsNext')
  BY <1>1, <1>2, <1>3
<1> QED
  BY <1>1, <1>4 DEF Tables

(* The files after a close of one of them, or of none. *)
LEMMA VfsCloseOK ==
  ASSUME IInv, (\E v : VfsClose(v)) \/ UNCHANGED vfs
  PROVE  /\ FilesOK(open, vfsNext, opens)'
         /\ \A q \in DOMAIN table : TableOK(table[q], nextFd[q], open', vfsNext')
<1>1. CASE UNCHANGED vfs
  BY <1>1 DEF vfs, IInv, Tables, FilesOK
<1>2. ASSUME NEW v, VfsClose(v)
      PROVE  /\ FilesOK(open, vfsNext, opens)'
             /\ \A q \in DOMAIN table : TableOK(table[q], nextFd[q], open', vfsNext')
  <2>1. open' = Restrict(open, DOMAIN open \ {v}) /\ vfsNext' = vfsNext /\ opens' = opens
    BY <1>2 DEF VfsClose
  <2>2. FilesOK(open, vfsNext, opens)'
    BY <2>1 DEF IInv, FilesOK, Restrict
  <2> QED
    BY <2>1, <2>2, ClosedOK DEF IInv, Tables
<1> QED
  BY <1>1, <1>2

(* The bridge's part of a close. *)
LEMMA BridgeOK ==
  ASSUME IInv, NEW fd \in Fds, BridgeClose(fd) \/ BridgeIdle \/ UNCHANGED rings
  PROVE  RingsOK' /\ pipes' = pipes
<1> USE FdBounds
<1>1. SlotOf(fd) \in Int /\ EndOf(fd) \in {0, 1}
  BY DEF SlotOf, EndOf, Fds
<1>2. CASE BridgeClose(fd)
  <2>1. bridgeUp' \in BOOLEAN /\ pipes' = pipes /\ (closed' = closed \/ closed' = closed \cup {<<SlotOf(fd), EndOf(fd)>>})
    BY <1>2 DEF BridgeClose
  <2>2. <<SlotOf(fd), EndOf(fd)>> \in Int \X {0, 1}
    BY <1>1
  <2> QED
    BY <2>1, <2>2 DEF IInv, RingsOK
<1>3. CASE BridgeIdle \/ UNCHANGED rings
  BY <1>3 DEF BridgeIdle, rings, IInv, RingsOK
<1> QED
  BY <1>2, <1>3

LEMMA InitInv == Init => IInv
<1> SUFFICES ASSUME Init PROVE IInv
  OBVIOUS
<1> USE FdBounds DEF Init
<1>1. DOMAIN table = {1} /\ DOMAIN nextFd = {1} /\ nextFd[1] = 3 /\ table[1] = [fd \in 0 .. 2 |-> Special(fd)]
  OBVIOUS
<1>2. TableOK(table[1], nextFd[1], open, vfsNext)
  <2>1. \A fd \in 0 .. 2 : Special(fd) \in Entries /\ Special(fd).type = "special"
    BY DEF Special, Entry, Entries
  <2>2. 0 .. 2 \subseteq Fds /\ 3 \in 0 .. MaxFd + 1
    BY DEF Fds
  <2> QED
    BY <1>1, <2>1, <2>2 DEF TableOK, EntryOK
<1>3. FilesOK(open, vfsNext, opens)
  BY DEF FilesOK
<1> QED
  BY <1>1, <1>2, <1>3 DEF IInv, Tables, RingsOK, Pids

-----------------------------------------------------------------------------
(* The calls, one after the other. *)

Kept == Tables' /\ FilesOK(open, vfsNext, opens)' /\ RingsOK'

LEMMA OpenKeeps == ASSUME IInv, NEW p \in DOMAIN table, Open(p) PROVE Kept
<1> USE FdBounds
<1>1. opens < MaxOpens /\ opens' = opens + 1 /\ vfsNext' = vfsNext + 1 /\ open' = With(open, vfsNext, opens')
  BY DEF Open, VfsFd
<1>2. FilesOK(open, vfsNext, opens) /\ vfsNext \in Nat
  BY DEF IInv, FilesOK
<1>3. FilesOK(open, vfsNext, opens)'
  <2>1. opens' \in 0 .. MaxOpens /\ vfsNext' = 4 + opens'
    BY <1>1, <1>2 DEF FilesOK
  <2>2. ASSUME NEW v \in DOMAIN open' PROVE v \in Nat /\ v < vfsNext' /\ open'[v] \in 0 .. MaxOpens
    <3>1. CASE v = vfsNext
      BY <1>1, <1>2, <2>1, <3>1 DEF With
    <3>2. CASE v # vfsNext
      <4>1. v \in DOMAIN open /\ open'[v] = open[v]
        BY <1>1, <2>2, <3>2 DEF With
      <4> QED
        BY <1>1, <1>2, <4>1 DEF FilesOK
    <3> QED
      BY <3>1, <3>2
  <2> QED
    BY <2>1, <2>2 DEF FilesOK
<1>4. \A q \in DOMAIN table : TableOK(table[q], nextFd[q], open', vfsNext')
  BY <1>1, <1>2, OpenedOK DEF IInv, Tables
<1>5. EntryOK(File(vfsNext, opens'), open', vfsNext')
  <2>1. File(vfsNext, opens') \in Entries
    BY <1>1, <1>2 DEF File, Entry, Entries, FilesOK
  <2>2. File(vfsNext, opens').id = vfsNext /\ File(vfsNext, opens').desc = opens'
    BY DEF File, Entry
  <2> QED
    BY <1>1, <1>2, <2>1, <2>2 DEF EntryOK, With
<1>6. vfsNext \in Fds
  BY <1>1, <1>2 DEF FilesOK, Fds
<1>7. TableOK(With(table[p], vfsNext, File(vfsNext, opens')), Bump(nextFd[p], vfsNext), open', vfsNext')
  BY <1>4, <1>5, <1>6, WithOK
<1>8. Tables'
  <2>1. /\ table' = [table EXCEPT ![p] = With(table[p], vfsNext, File(vfsNext, opens'))]
        /\ nextFd' = [nextFd EXCEPT ![p] = Bump(nextFd[p], vfsNext)]
        /\ lastPid' = lastPid
    BY DEF Open, VfsFd
  <2> QED
    BY <1>4, <1>7, <2>1, TablesUpdated DEF IInv
<1> QED
  BY <1>3, <1>8 DEF Kept, Open, rings, IInv, RingsOK

(* SYS_close, SYS_FS_CLOSE and SYS_PIPE_CLOSE take an entry away. *)
LEMMA RemoveKeeps ==
  ASSUME IInv, NEW p \in DOMAIN table, NEW fd, NEW x,
         table' = [table EXCEPT ![p] = Without(@, fd)], UNCHANGED <<nextFd, lastPid>>,
         (\E v : VfsClose(v)) \/ UNCHANGED vfs, x \in Fds, BridgeClose(x) \/ BridgeIdle \/ UNCHANGED rings
  PROVE  Kept
<1>1. \A q \in DOMAIN table : TableOK(table[q], nextFd[q], open', vfsNext')
  BY VfsCloseOK
<1>2. TableOK(Without(table[p], fd), nextFd[p], open', vfsNext')
  BY <1>1, WithoutOK
<1>3. Tables'
  BY <1>1, <1>2, TablesUpdated DEF IInv
<1> QED
  BY <1>3, VfsCloseOK, BridgeOK DEF Kept

LEMMA CloseKeeps == ASSUME IInv, NEW p \in DOMAIN table, NEW fd \in Fds, Close(p, fd) PROVE Kept
<1>1. (\E v : VfsClose(v)) \/ UNCHANGED vfs
  BY DEF Close
<1>2. BridgeClose(fd) \/ BridgeIdle
  BY DEF Close
<1>3. table' = [table EXCEPT ![p] = Without(@, fd)] /\ UNCHANGED <<nextFd, lastPid>>
  BY DEF Close
<1> QED
  BY <1>1, <1>2, <1>3, RemoveKeeps

LEMMA FsCloseKeeps == ASSUME IInv, NEW p \in DOMAIN table, NEW fd, FsClose(p, fd) PROVE Kept
<1>1. (\E v : VfsClose(v)) /\ UNCHANGED rings
  BY DEF FsClose
<1>2. table' = [table EXCEPT ![p] = Without(@, fd)] /\ UNCHANGED <<nextFd, lastPid>>
  BY DEF FsClose
<1>3. 0 \in Fds
  BY FdBounds DEF Fds
<1> QED
  BY <1>1, <1>2, <1>3, RemoveKeeps

LEMMA PipeCloseKeeps ==
  ASSUME IInv, NEW p \in DOMAIN table, NEW id \in 0 .. pipes - 1, NEW end, PipeClose(p, id, end) PROVE Kept
<1>1. UNCHANGED vfs /\ (BridgeClose(id) \/ BridgeIdle)
  BY DEF PipeClose
<1>2. table' = [table EXCEPT ![p] = Without(@, id)] /\ UNCHANGED <<nextFd, lastPid>>
  BY DEF PipeClose
<1>3. id \in Fds
  BY FdBounds DEF Fds, IInv, RingsOK
<1> QED
  BY <1>1, <1>2, <1>3, RemoveKeeps

LEMMA PipeCreateKeeps == ASSUME IInv, NEW p \in DOMAIN table, PipeCreate(p) PROVE Kept
<1> USE FdBounds
<1> DEFINE r == PipeBase + 2 * pipes
           t == With(With(table[p], r, Pipe(pipes, 0)), r + 1, Pipe(pipes, 1))
<1>1. UNCHANGED vfs /\ UNCHANGED nextFd /\ lastPid' = lastPid /\ table' = [table EXCEPT ![p] = t]
  BY DEF PipeCreate
<1>2. pipes \in 0 .. MaxPipes - 1 /\ pipes' = pipes + 1 /\ closed' \subseteq closed /\ bridgeUp' = bridgeUp
  BY DEF PipeCreate, ZeroHeader, IInv, RingsOK
<1>3. r \in Fds /\ r + 1 \in Fds /\ r >= PipeBase /\ r + 1 >= PipeBase
  BY <1>2 DEF Fds
<1>4. \A end \in {0, 1} : EntryOK(Pipe(pipes, end), open', vfsNext')
  BY <1>2 DEF EntryOK, Pipe, Entry, Entries
<1>5. \A q \in DOMAIN table : TableOK(table[q], nextFd[q], open', vfsNext')
  BY <1>1, VfsCloseOK
<1>6. TableOK(With(table[p], r, Pipe(pipes, 0)), nextFd[p], open', vfsNext')
  BY <1>3, <1>4, <1>5, WithPipeOK
<1>7. TableOK(t, nextFd[p], open', vfsNext')
  BY <1>3, <1>4, <1>6, WithPipeOK
<1>8. Tables'
  BY <1>1, <1>5, <1>7, TablesUpdated DEF IInv
<1>9. RingsOK'
  BY <1>2 DEF IInv, RingsOK
<1> QED
  BY <1>1, <1>8, <1>9, VfsCloseOK DEF Kept

(* dup, dup2, dup3 and F_DUPFD put the copy of an entry at some number. *)
LEMMA CopyKeeps ==
  ASSUME IInv, NEW p \in DOMAIN table, NEW old \in DOMAIN table[p], NEW fd \in Fds, NEW on \in BOOLEAN,
         CopyTo(p, table[p][old], fd, on),
         (\E v : VfsClose(v)) \/ UNCHANGED vfs, BridgeClose(fd) \/ BridgeIdle \/ UNCHANGED rings
  PROVE  Kept
<1> DEFINE e == [table[p][old] EXCEPT !.cloexec = on]
<1>1. \A q \in DOMAIN table : TableOK(table[q], nextFd[q], open', vfsNext')
  BY VfsCloseOK
<1>2. EntryOK(e, open', vfsNext')
  <2>1. EntryOK(table[p][old], open', vfsNext')
    BY <1>1 DEF TableOK
  <2>2. e \in Entries /\ e.type = table[p][old].type /\ e.id = table[p][old].id /\ e.desc = table[p][old].desc
    BY <2>1 DEF EntryOK, Entries
  <2> QED
    BY <2>1, <2>2 DEF EntryOK
<1>3. TableOK(With(table[p], fd, e), Bump(nextFd[p], fd), open', vfsNext')
  BY <1>1, <1>2, WithOK
<1>4. Tables'
  BY <1>1, <1>3, TablesUpdated DEF IInv, CopyTo
<1> QED
  BY <1>4, VfsCloseOK, BridgeOK DEF Kept

LEMMA DupKeeps == ASSUME IInv, NEW p \in DOMAIN table, NEW fd \in Fds, Dup(p, fd) PROVE Kept
BY CopyKeeps DEF Dup, Has

LEMMA FcntlDupKeeps ==
  ASSUME IInv, NEW p \in DOMAIN table, NEW fd \in Fds, NEW n \in Targets, NEW on \in BOOLEAN, FcntlDup(p, fd, n, on)
  PROVE  Kept
<1> DEFINE free == {k \in n .. MaxFd : ~Has(p, k)}
<1>1. free # {} /\ CopyTo(p, table[p][fd], Min(free), on) /\ UNCHANGED <<vfs, rings>> /\ fd \in DOMAIN table[p]
  BY DEF FcntlDup, Has
<1>2. free \subseteq Fds /\ Fds \subseteq Nat
  BY FdBounds DEF Fds
<1>3. Min(free) \in Fds
  BY <1>1, <1>2, MinInSet
<1> QED
  BY <1>1, <1>3, CopyKeeps

LEMMA Dup2Keeps ==
  ASSUME IInv, NEW p \in DOMAIN table, NEW old \in Fds, NEW new \in Targets, Dup2(p, old, new) PROVE Kept
<1>1. new \in Fds
  BY FdBounds DEF Fds
<1>2. CopyTo(p, table[p][old], new, FALSE) /\ UNCHANGED rings /\ old \in DOMAIN table[p]
  BY DEF Dup2, Has
<1>3. (\E v : VfsClose(v)) \/ UNCHANGED vfs
  BY DEF Dup2
<1> QED
  BY <1>1, <1>2, <1>3, CopyKeeps

LEMMA Dup3Keeps ==
  ASSUME IInv, NEW p \in DOMAIN table, NEW old \in Fds, NEW new \in Targets, NEW on \in BOOLEAN, Dup3(p, old, new, on)
  PROVE  Kept
<1>1. new \in Fds
  BY FdBounds DEF Fds
<1>2. CopyTo(p, table[p][old], new, on) /\ old \in DOMAIN table[p]
  BY DEF Dup3, Has
<1>3. (\E v : VfsClose(v)) \/ UNCHANGED vfs
  BY DEF Dup3
<1>4. BridgeClose(new) \/ BridgeIdle
  BY DEF Dup3
<1> QED
  BY <1>1, <1>2, <1>3, <1>4, CopyKeeps

(* Both forks copy the table and the counter of the parent. *)
LEMMA ForkKeeps == ASSUME IInv, NEW p \in DOMAIN table, CopyTable(p) PROVE Kept
<1>1. /\ lastPid < MaxPid /\ lastPid' = lastPid + 1 /\ UNCHANGED <<vfs, rings>>
      /\ table' = With(table, lastPid', table[p]) /\ nextFd' = With(nextFd, lastPid', nextFd[p])
  BY DEF CopyTable
<1>2. lastPid' \in Pids
  BY <1>1, FdBounds DEF IInv, Tables, Pids
<1>3. \A q \in DOMAIN table : TableOK(table[q], nextFd[q], open', vfsNext')
  BY <1>1, VfsCloseOK
<1>4. DOMAIN table' = DOMAIN table \cup {lastPid'} /\ DOMAIN nextFd' = DOMAIN table'
  BY <1>1 DEF With, IInv, Tables
<1>5. ASSUME NEW q \in DOMAIN table' PROVE TableOK(table'[q], nextFd'[q], open', vfsNext')
  <2>1. CASE q = lastPid'
    <3>1. table'[q] = table[p] /\ nextFd'[q] = nextFd[p]
      BY <1>1, <1>4, <2>1 DEF With
    <3> QED
      BY <1>3, <3>1
  <2>2. CASE q # lastPid'
    <3>1. q \in DOMAIN table /\ table'[q] = table[q] /\ nextFd'[q] = nextFd[q]
      BY <1>1, <1>4, <1>5, <2>2 DEF With
    <3> QED
      BY <1>3, <3>1
  <2> QED
    BY <2>1, <2>2
<1>6. Tables'
  BY <1>2, <1>4, <1>5 DEF IInv, Tables
<1> QED
  BY <1>1, <1>6, VfsCloseOK DEF Kept, rings, IInv, RingsOK

LEMMA ExitKeeps == ASSUME IInv, NEW p \in DOMAIN table, WorkerExit(p) PROVE Kept
<1>1. /\ table' = Restrict(table, DOMAIN table \ {p}) /\ nextFd' = Restrict(nextFd, DOMAIN nextFd \ {p})
      /\ UNCHANGED <<lastPid, vfs, rings>>
  BY DEF WorkerExit
<1>2. \A q \in DOMAIN table : TableOK(table[q], nextFd[q], open', vfsNext')
  BY <1>1, VfsCloseOK
<1>3. Tables'
  BY <1>1, <1>2 DEF Restrict, IInv, Tables
<1> QED
  BY <1>1, <1>3, VfsCloseOK DEF Kept, rings, IInv, RingsOK

-----------------------------------------------------------------------------
(* The strengthened invariant of the descriptor tables holds in every reachable state. *)
THEOREM Inductive == Spec => []IInv
<1>1. IInv /\ [Next]_vars => IInv'
  <2> SUFFICES ASSUME IInv, [Next]_vars PROVE IInv'
    OBVIOUS
  <2>1. CASE Next
    <3>1. PICK p \in DOMAIN table : Step(p)
      BY <2>1 DEF Next
    <3>2. Kept
      BY <3>1, OpenKeeps, PipeCreateKeeps, ForkKeeps, ExitKeeps, CloseKeeps, DupKeeps, FsCloseKeeps, PipeCloseKeeps,
         Dup2Keeps, FcntlDupKeeps, Dup3Keeps DEF Step, Fork, ForkExec
    <3> QED
      BY <2>1, <3>2, FdBounds DEF Next, Kept, IInv
  <2>2. CASE UNCHANGED vars
    BY <2>2 DEF vars, procs, vfs, rings, IInv, Tables, FilesOK, RingsOK
  <2> QED
    BY <2>1, <2>2
<1> QED
  BY InitInv, <1>1, PTL DEF Spec

(* A number of vfs.open that is closed through a copy is never handed out again while a *)
(* descriptor still carries it: EBADF, not another file.                               *)
THEOREM NeverAnotherFileCorrect == Spec => []NeverAnotherFile
<1>1. IInv => NeverAnotherFile
  BY DEF IInv, Tables, TableOK, EntryOK, NeverAnotherFile
<1> QED
  BY Inductive, <1>1, PTL

(* The tables are well formed, and while proc.nextFd is below the pipe numbers the number *)
(* SYS_dup takes without looking is free: each call that puts an entry below the pipe     *)
(* numbers moves the counter behind it.  The vfs may count into the pipe numbers.         *)
THEOREM NumbersSoundCorrect == Spec => []NumbersSound
<1>1. IInv => TypeOK
  <2> SUFFICES ASSUME IInv PROVE TypeOK
    OBVIOUS
  <2>1. \A p \in DOMAIN table : /\ DOMAIN table[p] \subseteq Fds /\ nextFd[p] \in 0 .. MaxFd + 1
                                /\ \A fd \in DOMAIN table[p] : table[p][fd] \in Entries
    BY DEF IInv, Tables, TableOK, EntryOK
  <2>2. vfsNext \in Nat
    BY FdBounds DEF IInv, FilesOK
  <2> QED
    BY <2>1, <2>2 DEF IInv, Tables, FilesOK, RingsOK, TypeOK
<1>2. IInv => DupIsFresh
  <2> SUFFICES ASSUME IInv, NEW p \in DOMAIN table, nextFd[p] < PipeBase, nextFd[p] \in DOMAIN table[p] PROVE FALSE
    BY DEF DupIsFresh
  <2> QED
    BY FdBounds DEF IInv, Tables, TableOK
<1> QED
  BY Inductive, <1>1, <1>2, PTL DEF NumbersSound

-----------------------------------------------------------------------------
(* The ring of a pipe. *)

(* The ring successor without the remainder operator. *)
LEMMA Next1Cases ==
    ASSUME NEW i \in Slots
    PROVE  Next1(i) = (IF i + 1 = Cap THEN 0 ELSE i + 1)
<1>1. CASE i + 1 = Cap
  BY <1>1, CapAssumption DEF Slots, Next1
<1>2. CASE i + 1 # Cap
  BY <1>2, CapAssumption DEF Slots, Next1
<1> QED BY <1>1, <1>2

LEMMA Next1Type ==
    ASSUME NEW i \in Slots
    PROVE  Next1(i) \in Slots
BY Next1Cases, CapAssumption DEF Slots

(* One step of any action keeps the type invariant. *)
LEMMA TypeStep == PipeTypeOK /\ [PipeNext]_pipeVars => PipeTypeOK'
<1> SUFFICES ASSUME PipeTypeOK, [PipeNext]_pipeVars PROVE PipeTypeOK'
  OBVIOUS
<1> USE CapAssumption, CountsAssumption DEF PipeTypeOK, ring, reader, writer, hist, pipeVars
<1>1. CASE BeginRead
  BY <1>1 DEF BeginRead, StartRead, MinOf, RPcs
<1>2. CASE BeginReadv
  BY <1>2 DEF BeginReadv, StartRead, RPcs
<1>3. CASE ReadFull
  BY <1>3 DEF ReadFull, EndRead, RPcs
<1>4. CASE LoadWp
  BY <1>4 DEF LoadWp, RPcs
<1>5. CASE LoadRp
  BY <1>5 DEF LoadRp, RPcs
<1>6. CASE StopOnEmpty
  BY <1>6 DEF StopOnEmpty, EndRead, RPcs
<1>7. CASE GoWait
  BY <1>7 DEF GoWait, RPcs
<1>8. CASE Wait
  BY <1>8 DEF Wait, RPcs
<1>9. CASE WaitTimeout
  BY <1>9 DEF WaitTimeout, RPcs
<1>10. CASE Copy
  BY <1>10 DEF Copy, RPcs
<1>11. CASE Store
  BY <1>11, Next1Type DEF Store, RPcs
<1>12. CASE BeginWrite
  BY <1>12 DEF BeginWrite, WPcs
<1>13. CASE WriteLoadWp
  BY <1>13 DEF WriteLoadWp, WPcs
<1>14. CASE WriteLoadRp
  BY <1>14 DEF WriteLoadRp, WPcs
<1>15. CASE Put
  BY <1>15 DEF Put, WPcs
<1>16. CASE Publish
  BY <1>16, Next1Type DEF Publish, WPcs
<1>17. CASE Notify
  BY <1>17 DEF Notify, WPcs, RPcs
<1>18. CASE CloseWriteEnd
  BY <1>18 DEF CloseWriteEnd, WPcs
<1>19. CASE UNCHANGED pipeVars
  BY <1>19
<1>20. CASE CloseCopy
  BY <1>20 DEF CloseCopy
<1> QED
  BY <1>1, <1>2, <1>3, <1>4, <1>5, <1>6, <1>7, <1>8, <1>9, <1>10, <1>11, <1>12,
     <1>13, <1>14, <1>15, <1>16, <1>17, <1>18, <1>19, <1>20 DEF PipeNext, ReaderStep, WriterStep

LEMMA TypeInit == PipeInit => PipeTypeOK
<1> SUFFICES ASSUME PipeInit PROVE PipeTypeOK
  OBVIOUS
<1>1. 0 \in Slots /\ <<>> \in Seq(Nat)
  BY CapAssumption DEF Slots
<1> QED
  BY <1>1 DEF PipeInit, PipeTypeOK, RPcs, WPcs

(* Type correctness of the ring, the two loops and the history. *)
THEOREM TypeCorrect == PipeSpec => []PipeTypeOK
BY TypeInit, TypeStep, PTL DEF PipeSpec

-----------------------------------------------------------------------------
(* Steps that leave the indices, the bytes and the history of bytes alone   *)
(* leave the content of the ring alone.                                     *)
LEMMA ContentFrame ==
    ASSUME InOrder, Conserved, UNCHANGED <<wp, rp, data, sent, got>>
    PROVE  InOrder' /\ Conserved' /\ Used' = Used
BY DEF InOrder, Conserved, Content, Used, At

LEMMA IInvInit == PipeInit => PipeInv
<1> SUFFICES ASSUME PipeInit PROVE PipeInv
  OBVIOUS
<1>1. PipeTypeOK
  BY TypeInit
<1>2. Len(got) = 0 /\ Used = 0 /\ sent = 0
  BY CapAssumption DEF PipeInit, Used
<1>2a. 1 .. Len(got) = {} /\ 1 .. Used = {} /\ Used = sent - Len(got)
  BY <1>2
<1>2b. InOrder /\ Conserved
  BY <1>2a DEF InOrder, Conserved
<1>3. EofOnlyAfterClose /\ ReaderKnows /\ WriterKnows /\ CloseKnows
  BY DEF PipeInit, EofOnlyAfterClose, ReaderKnows, WriterKnows, CloseKnows
<1> QED
  BY <1>1, <1>2b, <1>3 DEF PipeInv

(* The reader's steps before it advances read_pos. *)
LEMMA ReaderLooks ==
    ASSUME PipeInv, BeginRead \/ BeginReadv \/ ReadFull \/ LoadWp \/ LoadRp
                 \/ StopOnEmpty \/ GoWait \/ Wait \/ WaitTimeout \/ Copy
    PROVE  PipeInv'
<1> USE CapAssumption, CountsAssumption DEF PipeInv
<1>1. UNCHANGED <<wp, rp, data, sent, got, wclosed, wpc, wlen, wn, wwp>>
  BY DEF BeginRead, BeginReadv, StartRead, ReadFull, EndRead, LoadWp, LoadRp, StopOnEmpty,
         GoWait, Wait, WaitTimeout, Copy, ring, reader, writer, hist
<1>2. PipeTypeOK'
  BY TypeStep DEF PipeNext, ReaderStep
<1>3. InOrder' /\ Conserved' /\ Used' = Used
  BY <1>1, ContentFrame
<1>4. WriterKnows'
  BY <1>1 DEF WriterKnows, Next1
<1>5. EofOnlyAfterClose'
  <2>1. CASE ReadFull \/ StopOnEmpty
    <3>1. wclosed \/ rn # 0
      BY <2>1 DEF ReadFull, StopOnEmpty, ReaderKnows, PipeTypeOK
    <3>2. eof' = (eof \/ rn = 0)
      BY <2>1 DEF ReadFull, StopOnEmpty, EndRead
    <3> QED BY <1>1, <3>1, <3>2, Zenon DEF EofOnlyAfterClose
  <2>2. CASE ~(ReadFull \/ StopOnEmpty)
    <3>1. UNCHANGED eof
      BY <2>2 DEF BeginRead, BeginReadv, StartRead, LoadWp, LoadRp, GoWait, Wait,
                  WaitTimeout, Copy, hist
    <3> QED BY <1>1, <3>1 DEF EofOnlyAfterClose
  <2> QED BY <2>1, <2>2
<1>6. CloseKnows'
  BY <1>1 DEF CloseKnows, PipeTypeOK, ReaderKnows, BeginRead, BeginReadv, StartRead, ReadFull,
       EndRead, LoadWp, LoadRp, StopOnEmpty, GoWait, Wait, WaitTimeout, Copy, hist
<1>7. ReaderKnows'
  <2>1. CASE BeginRead \/ BeginReadv
    BY <2>1, <1>1 DEF BeginRead, BeginReadv, StartRead, MinOf, ReaderKnows
  <2>2. CASE ReadFull \/ StopOnEmpty
    BY <2>2, <1>1 DEF ReadFull, StopOnEmpty, EndRead, ReaderKnows
  <2>3. CASE LoadWp
    BY <2>3, <1>1 DEF LoadWp, ReaderKnows, Dist, Used, PipeTypeOK, Slots
  <2>4. CASE LoadRp
    BY <2>4, <1>1 DEF LoadRp, ReaderKnows, Dist, Used, PipeTypeOK, Slots
  <2>5. CASE GoWait \/ Wait \/ WaitTimeout
    BY <2>5, <1>1 DEF GoWait, Wait, WaitTimeout, ReaderKnows
  <2>6. CASE Copy
    <3>1. Used >= 1 /\ Content[1] = data[rp]
      BY <2>6 DEF Copy, ReaderKnows, PipeTypeOK, Slots, Used, Content, At
    <3>2. data[rp] = Len(got) + 1
      BY <3>1 DEF Conserved, Used, PipeTypeOK, Slots
    <3> QED BY <2>6, <1>1, <3>2 DEF Copy, ReaderKnows
  <2> QED BY <2>1, <2>2, <2>3, <2>4, <2>5, <2>6
<1> QED
  BY <1>2, <1>3, <1>4, <1>5, <1>6, <1>7

(* The reader consumes a byte. *)
LEMMA StoreStep == ASSUME PipeInv, Store PROVE PipeInv'
<1> USE CapAssumption DEF PipeInv
<1>1. PipeTypeOK'
  BY TypeStep DEF PipeNext, ReaderStep
<1>2. /\ UNCHANGED <<wp, data, sent, wclosed, wpc, wlen, wn, wwp, eof, rgone>>
      /\ rp # wp /\ rp' = (IF rp + 1 = Cap THEN 0 ELSE rp + 1)
      /\ rpc' = "top" /\ UNCHANGED rmax /\ rpc = "store" /\ rbyte = Len(got) + 1
      /\ got' = Append(got, rbyte)
  BY Next1Cases DEF Store, ReaderKnows, PipeTypeOK, writer
<1>3. Used' = Used - 1 /\ Used \in 1 .. Cap - 1
  BY <1>2 DEF Used, PipeTypeOK, Slots
<1>4. Len(got') = Len(got) + 1 /\ \A k \in 1 .. Len(got) : got'[k] = got[k]
  BY <1>2 DEF PipeTypeOK
<1>5. got'[Len(got) + 1] = Len(got) + 1
  BY <1>2 DEF PipeTypeOK
<1>6. InOrder'
  BY <1>4, <1>5 DEF InOrder, PipeTypeOK
<1>7. ASSUME NEW k \in 1 .. Used' PROVE Content'[k] = Len(got') + k
  <2>1. k + 1 \in 1 .. Used
    BY <1>3, <1>7
  <2>2. At(k - 1)' = At(k)
    BY <1>2, <1>3 DEF At, PipeTypeOK, Slots
  <2>3. Content'[k] = data[At(k)]
    BY <1>2, <2>2 DEF Content
  <2>4. Content[k + 1] = data[At(k)]
    BY <2>1 DEF Content
  <2> QED BY <2>1, <2>3, <2>4, <1>4 DEF Conserved, PipeTypeOK
<1>8. Conserved'
  BY <1>7, <1>3, <1>4, <1>2 DEF Conserved, PipeTypeOK
<1>9. ReaderKnows'
  BY <1>2 DEF ReaderKnows
<1>10. WriterKnows'
  <2>1. Next1(wp) # rp => Next1(wp) # rp'
    BY <1>2, Next1Cases DEF PipeTypeOK, Slots
  <2>2. Next1(wp)' = Next1(wp)
    BY <1>2 DEF Next1
  <2> QED BY <1>2, <2>1, <2>2 DEF WriterKnows
<1>11. CloseKnows' /\ EofOnlyAfterClose'
  BY <1>2 DEF CloseKnows, EofOnlyAfterClose
<1> QED
  BY <1>1, <1>6, <1>8, <1>9, <1>10, <1>11

(* The writer's steps that leave the ring alone. *)
LEMMA WriterLooks ==
    ASSUME PipeInv, BeginWrite \/ WriteLoadWp \/ WriteLoadRp \/ Notify \/ CloseWriteEnd \/ CloseCopy
    PROVE  PipeInv'
<1> USE CapAssumption DEF PipeInv
<1>1. UNCHANGED <<wp, rp, data, sent, got, rmax, rn, rwp, rrp, rbyte, eof, rgone>>
  BY DEF BeginWrite, WriteLoadWp, WriteLoadRp, Notify, CloseWriteEnd, CloseCopy, ring, reader, writer, hist
<1>2. PipeTypeOK'
  BY TypeStep DEF PipeNext, WriterStep
<1>3. InOrder' /\ Conserved' /\ Used' = Used
  BY <1>1, ContentFrame
<1>4. rpc' = rpc \/ (rpc = "asleep" /\ rpc' = "top")
  BY DEF BeginWrite, WriteLoadWp, WriteLoadRp, Notify, CloseWriteEnd, CloseCopy, reader
<1>5. wclosed => wclosed'
  BY DEF BeginWrite, WriteLoadWp, WriteLoadRp, Notify, CloseWriteEnd, CloseCopy, ring, writer
<1>6. ReaderKnows'
  BY <1>1, <1>3, <1>4 DEF ReaderKnows, Dist
<1>5a. wpc = "gone" => wpc' = "gone"
  BY DEF BeginWrite, WriteLoadWp, WriteLoadRp, Notify, CloseWriteEnd, CloseCopy, writer
<1>7. CloseKnows' /\ EofOnlyAfterClose'
  BY <1>1, <1>4, <1>5, <1>5a DEF CloseKnows, EofOnlyAfterClose
<1>8. WriterKnows'
  <2>1. CASE BeginWrite \/ Notify \/ CloseWriteEnd \/ CloseCopy
    BY <2>1, <1>1, CountsAssumption, MaxBytesAssumption
       DEF WriterKnows, BeginWrite, Notify, CloseWriteEnd, CloseCopy, ring, writer, PipeTypeOK
  <2>2. CASE WriteLoadWp
    BY <2>2, <1>1 DEF WriterKnows, WriteLoadWp, ring, PipeTypeOK
  <2>3. CASE WriteLoadRp
    BY <2>3, <1>1 DEF WriterKnows, WriteLoadRp, ring, PipeTypeOK, Next1
  <2> QED BY <2>1, <2>2, <2>3
<1> QED
  BY <1>2, <1>3, <1>6, <1>7, <1>8

(* The writer stores a byte in the free slot it found. *)
LEMMA PutStep == ASSUME PipeInv, Put PROVE PipeInv'
<1> USE CapAssumption DEF PipeInv
<1>1. PipeTypeOK'
  BY TypeStep DEF PipeNext, WriterStep
<1>2. /\ UNCHANGED <<wp, rp, wclosed, rpc, rmax, rn, rwp, rrp, rbyte, sent, got, eof, rgone, wwp, wlen, wn>>
      /\ wwp = wp /\ wpc = "put" /\ wpc' = "publish"
      /\ data' = [data EXCEPT ![wp] = sent + 1]
  BY DEF Put, WriterKnows, reader, hist
<1>3. Used' = Used /\ Used \in 0 .. Cap - 1
  BY <1>2 DEF Used, PipeTypeOK, Slots
<1>4. ASSUME NEW k \in 1 .. Used' PROVE Content'[k] = Content[k]
  <2>1. At(k - 1) \in Slots /\ At(k - 1) # wp
    BY <1>3 DEF At, Used, PipeTypeOK, Slots
  <2>2. data'[At(k - 1)] = data[At(k - 1)]
    BY <1>2, <2>1 DEF PipeTypeOK
  <2>3. At(k - 1)' = At(k - 1)
    BY <1>2 DEF At
  <2> QED BY <1>2, <1>3, <2>2, <2>3 DEF Content
<1>5. Conserved'
  BY <1>2, <1>3, <1>4 DEF Conserved
<1>6. InOrder' /\ EofOnlyAfterClose' /\ CloseKnows'
  BY <1>2 DEF InOrder, EofOnlyAfterClose, CloseKnows
<1>7. ReaderKnows'
  BY <1>2, <1>3 DEF ReaderKnows, Dist
<1>8. WriterKnows'
  <2>1. Next1(wp)' = Next1(wp)
    BY <1>2 DEF Next1
  <2> QED BY <1>2, <2>1 DEF WriterKnows, PipeTypeOK
<1> QED
  BY <1>1, <1>5, <1>6, <1>7, <1>8

(* The writer publishes it. *)
LEMMA PublishStep == ASSUME PipeInv, Publish PROVE PipeInv'
<1> USE CapAssumption DEF PipeInv
<1>1. PipeTypeOK'
  BY TypeStep DEF PipeNext, WriterStep
<1>2. /\ UNCHANGED <<rp, data, wclosed, rpc, rmax, rn, rwp, rrp, rbyte, got, eof, rgone>>
      /\ wpc = "publish" /\ wpc' = "top" /\ sent' = sent + 1
      /\ wp' = (IF wp + 1 = Cap THEN 0 ELSE wp + 1)
      /\ data[wp] = sent + 1 /\ wp' # rp
      /\ wlen' = wlen /\ wn' = wn + 1 /\ sent + wlen - wn <= MaxBytes
  BY Next1Cases DEF Publish, WriterKnows, PipeTypeOK, reader, hist
<1>3. Used' = Used + 1 /\ Used \in 0 .. Cap - 2
  BY <1>2 DEF Used, PipeTypeOK, Slots
<1>4. ASSUME NEW k \in 1 .. Used' PROVE Content'[k] = Len(got') + k
  <2>1. At(k - 1)' = At(k - 1)
    BY <1>2 DEF At
  <2>2. Content'[k] = data[At(k - 1)]
    BY <1>2, <2>1 DEF Content
  <2>3. CASE k \in 1 .. Used
    <3>1. Content[k] = data[At(k - 1)]
      BY <2>3 DEF Content
    <3> QED BY <2>2, <2>3, <3>1, <1>2 DEF Conserved
  <2>4. CASE k = Used + 1
    <3>1. At(k - 1) = wp
      BY <2>4 DEF At, Used, PipeTypeOK, Slots
    <3> QED BY <2>2, <2>4, <3>1, <1>2 DEF Conserved, PipeTypeOK
  <2> QED BY <2>3, <2>4, <1>3
<1>5. Conserved'
  BY <1>2, <1>3, <1>4 DEF Conserved, PipeTypeOK
<1>6. InOrder' /\ EofOnlyAfterClose' /\ CloseKnows'
  BY <1>2 DEF InOrder, EofOnlyAfterClose, CloseKnows
<1>7. ReaderKnows'
  <2>1. Dist(rp, rwp)' = Dist(rp, rwp)
    BY <1>2 DEF Dist
  <2>2. Dist(rp, rwp) <= Used => Dist(rp, rwp)' <= Used'
    BY <1>3, <2>1 DEF Dist, PipeTypeOK, Slots
  <2> QED BY <1>2, <2>2 DEF ReaderKnows
<1>8. WriterKnows'
  BY <1>2, MaxBytesAssumption DEF WriterKnows, PipeTypeOK
<1> QED
  BY <1>1, <1>5, <1>6, <1>7, <1>8

LEMMA IInvStep == PipeInv /\ [PipeNext]_pipeVars => PipeInv'
<1> SUFFICES ASSUME PipeInv, [PipeNext]_pipeVars PROVE PipeInv'
  OBVIOUS
<1>1. CASE UNCHANGED pipeVars
  BY <1>1 DEF pipeVars, ring, reader, writer, hist, PipeInv, PipeTypeOK, InOrder, Conserved, Content, Used,
              At, EofOnlyAfterClose, ReaderKnows, WriterKnows, CloseKnows, Dist, Next1
<1> QED
  BY <1>1, ReaderLooks, StoreStep, WriterLooks, PutStep, PublishStep
     DEF PipeNext, ReaderStep, WriterStep

(* The inductive invariant holds in every reachable state. *)
THEOREM PipeInductive == PipeSpec => []PipeInv
BY IInvInit, IInvStep, PTL DEF PipeSpec

(* Bytes leave the ring in the order in which they entered it, each once. *)
THEOREM OrderCorrect == PipeSpec => []InOrder
<1>1. PipeInv => InOrder
  BY DEF PipeInv
<1> QED BY <1>1, PipeInductive, PTL

(* Between read_pos and write_pos lie exactly the bytes in flight. *)
THEOREM NothingLost == PipeSpec => []Conserved
<1>1. PipeInv => Conserved
  BY DEF PipeInv
<1> QED BY <1>1, PipeInductive, PTL

(* A read answers 0 only when the write end is closed. *)
THEOREM EofNeedsClose == PipeSpec => []EofOnlyAfterClose
<1>1. PipeInv => EofOnlyAfterClose
  BY DEF PipeInv
<1> QED BY <1>1, PipeInductive, PTL

(* A read that began after the close reports end of file only once every    *)
(* published byte has been consumed.                                        *)
THEOREM LateEofCorrect == PipeSpec => LateEofIsFinal
<1>1. ASSUME PipeInv, [PipeNext]_pipeVars, rpc = "empty", rgone
      PROVE  Len(got) = sent
  <2>1. rp = wp
    BY <1>1 DEF PipeInv, ReaderKnows, CloseKnows
  <2>2. Used = 0
    BY <2>1, <1>1 DEF Used, PipeInv, PipeTypeOK, Slots
  <2> QED BY <1>1, <2>2 DEF PipeInv, Conserved, PipeTypeOK
<1>2. PipeInv /\ [PipeNext]_pipeVars
        => [(rpc = "empty" /\ rpc' = "idle" /\ rn = 0 /\ rgone) => Len(got) = sent]_pipeVars
  BY <1>1
<1> QED BY <1>2, PipeInductive, PTL DEF PipeSpec, LateEofIsFinal

-----------------------------------------------------------------------------
(* The two indices implement the abstract pipe.                             *)

LEMMA ContentIs ==
    ASSUME PipeInv
    PROVE  /\ Used \in Nat /\ Len(got) \in Nat
           /\ Content = [k \in 1 .. Used |-> Len(got) + k]
<1>1. Used \in Nat /\ Len(got) \in Nat
  BY CapAssumption DEF PipeInv, PipeTypeOK, Slots, Used
<1> QED
  BY <1>1 DEF PipeInv, Conserved, Content

LEMMA PublishIsPut == ASSUME PipeInv, PipeInv', Publish PROVE Fifo!Put
<1>1. /\ got' = got /\ wpc # "gone" /\ wpc' # "gone" /\ sent' = sent + 1
      /\ sent + 1 \in 1 .. MaxBytes
  BY MaxBytesAssumption DEF Publish, PipeInv, WriterKnows, PipeTypeOK
<1>2. Used' = Used + 1 /\ Used < Cap - 1
  <2>1. Used' = Used + 1
    BY <1>1 DEF PipeInv, Conserved, PipeTypeOK
  <2>2. wp \in Slots /\ rp \in Slots /\ Next1(wp) # rp
    BY DEF PipeInv, WriterKnows, PipeTypeOK, Publish
  <2>3. (IF wp + 1 = Cap THEN 0 ELSE wp + 1) # rp
    BY <2>2, Next1Cases
  <2>4. Used < Cap - 1
    BY <2>2, <2>3, CapAssumption DEF Slots, Used
  <2> QED BY <2>1, <2>4
<1>3. Content = [k \in 1 .. Used |-> Len(got) + k] /\ Used \in Nat /\ Len(got) \in Nat
  BY ContentIs
<1>4. Content' = [k \in 1 .. Used + 1 |-> Len(got) + k]
  BY <1>1, <1>2, <1>3 DEF PipeInv, Conserved, Content
<1>5. sent + 1 = Len(got) + Used + 1
  BY <1>3 DEF PipeInv, Conserved, PipeTypeOK
<1>6. Content \in Seq(Nat) /\ Len(Content) = Used
  BY <1>3
<1>7. Content' = Append(Content, sent + 1)
  BY <1>3, <1>4, <1>5, <1>6
<1> QED
  BY <1>1, <1>2, <1>3, <1>6, <1>7, CapAssumption DEF Fifo!Put

LEMMA StoreIsTake == ASSUME PipeInv, PipeInv', Store PROVE Fifo!Take
<1>1. /\ UNCHANGED <<sent, wpc>> /\ got' = Append(got, Len(got) + 1)
      /\ rp # wp
  BY DEF Store, PipeInv, ReaderKnows, writer
<1>2. Len(got') = Len(got) + 1
  BY <1>1 DEF PipeInv, PipeTypeOK
<1>3. Used' = Used - 1 /\ Used >= 1
  <2>0. wp \in 0 .. Cap - 1 /\ rp \in 0 .. Cap - 1
    BY DEF PipeInv, PipeTypeOK, Slots
  <2>1. Used >= 1
    BY <1>1, <2>0, CapAssumption DEF Used
  <2>2. Used' = Used - 1
    BY <1>1, <1>2 DEF PipeInv, Conserved, PipeTypeOK
  <2> QED BY <2>1, <2>2
<1>4. Content = [k \in 1 .. Used |-> Len(got) + k] /\ Used \in Nat /\ Len(got) \in Nat
  BY ContentIs
<1>5. Content' = [k \in 1 .. Used - 1 |-> Len(got) + 1 + k]
  BY <1>2, <1>3, <1>4 DEF PipeInv, Conserved, Content
<1>6. Content \in Seq(Nat) /\ Len(Content) = Used /\ Content # <<>>
  BY <1>3, <1>4
<1>7. Head(Content) = Len(got) + 1
  BY <1>3, <1>4, <1>6
<1>8. Content' = Tail(Content)
  BY <1>3, <1>4, <1>5, <1>6
<1> QED
  BY <1>1, <1>6, <1>7, <1>8 DEF Fifo!Take

(* Any other step but the close leaves the abstract pipe alone. *)
LEMMA OthersStutter ==
    ASSUME PipeInv, PipeInv', [PipeNext]_pipeVars, ~Publish, ~Store, ~CloseWriteEnd
    PROVE  UNCHANGED Fifo!vars
<1>1. UNCHANGED <<sent, got>> /\ (wpc' = "gone") = (wpc = "gone")
  BY DEF PipeNext, CloseCopy, writer, ReaderStep, WriterStep, BeginRead, BeginReadv, StartRead, ReadFull, EndRead,
     LoadWp, LoadRp, StopOnEmpty, GoWait, Wait, WaitTimeout, Copy, BeginWrite, WriteLoadWp,
     WriteLoadRp, Put, Notify, pipeVars, ring, hist
<1>2. Used' = Used
  BY <1>1 DEF PipeInv, Conserved
<1>3. Content' = Content
  BY <1>1, <1>2, ContentIs DEF PipeInv, Conserved, Content
<1> QED
  BY <1>1, <1>3 DEF Fifo!vars

(* Every behaviour of the ring is a behaviour of a bounded first-in         *)
(* first-out pipe whose write end closes once.                              *)
THEOREM Refinement == PipeSpec => Implements
<1>1. PipeInit => Fifo!Init
  <2> SUFFICES ASSUME PipeInit PROVE Fifo!Init
    OBVIOUS
  <2>1. Used = 0 /\ got = <<>> /\ wpc # "gone"
    BY CapAssumption DEF PipeInit, Used
  <2>2. Content = <<>>
    BY <2>1 DEF Content
  <2> QED BY <2>1, <2>2 DEF Fifo!Init
<1>2. PipeInv /\ PipeInv' /\ [PipeNext]_pipeVars => [Fifo!Next]_(Fifo!vars)
  <2> SUFFICES ASSUME PipeInv, PipeInv', [PipeNext]_pipeVars PROVE [Fifo!Next]_(Fifo!vars)
    OBVIOUS
  <2>1. CASE CloseWriteEnd
    <3>1. wpc # "gone" /\ wpc' = "gone" /\ UNCHANGED <<wp, rp, data, sent, got>>
      BY <2>1 DEF CloseWriteEnd, PipeInv, WriterKnows, PipeTypeOK, hist
    <3>2. Content' = Content
      BY <3>1 DEF Content, Used, At
    <3> QED BY <3>1, <3>2 DEF Fifo!Next, Fifo!Close
  <2> QED
    BY <2>1, PublishIsPut, StoreIsTake, OthersStutter DEF Fifo!Next
<1> QED
  BY <1>1, <1>2, PipeInductive, PTL DEF PipeSpec, Implements, Fifo!Spec
=============================================================================
