----------------------------- MODULE VirtualFS ------------------------------
(***************************************************************************)
(* VirtualFS (filesystem.js) as the kernel worker's file syscalls use it:  *)
(* the name space, the open file objects, and the byte arrays both refer   *)
(* to.  A JavaScript Uint8Array is an object: files and open files hold    *)
(* references to buffers, a write inside a buffer is seen by all who hold  *)
(* it, and a write beyond its end replaces it for one open file and one    *)
(* path only.                                                              *)
(*                                                                         *)
(* Data abstraction: a path is the sequence of its names (normalizePath    *)
(* has been applied), a written byte is 1 and a byte filled in is 0;       *)
(* metadata, special files and positions below zero are left out.  An open *)
(* file object is identified by a small number, not by its vfs fd.         *)
(***************************************************************************)
EXTENDS Integers, Sequences, FiniteSets, FiniteSetsExt, Maps

CONSTANTS
    Names,      \* path components
    MaxDepth,   \* bound: components of a path
    BaseFile,   \* the file in the root archive
    Args,       \* paths the guest names in calls
    Flags,      \* sets of open flags the guest uses
    MaxOpen,    \* bound: open file objects at a time
    MaxLen,     \* bound: bytes in a file
    MaxLink,    \* links that resolvePath still follows another after (40)
    MaxFsCalls  \* bound: calls that change something

Paths == UNION {[1 .. n -> Names] : n \in 0 .. MaxDepth}

ASSUME ArgsAssumption == Args \subseteq Paths \ {<<>>} /\ BaseFile \in Args
ASSUME FlagsAssumption == Flags \subseteq SUBSET {"creat", "excl", "trunc", "append", "dir"}
ASSUME VfsBounds ==
    /\ {MaxDepth, MaxOpen, MaxLen, MaxFsCalls, MaxLink} \subseteq Nat /\ MaxDepth >= 1 /\ MaxLen >= 1
    /\ IsFiniteSet(Paths)

VARIABLES
    fsCalls,    \* calls so far, for the bound only
    ns,         \* the name space: files, dirs, links, white(outs), children
    fds,        \* openFiles: object -> [path, buf, pos, append, isDir]
    heap        \* heap[b]: the bytes of buffer b

fsVars == <<fsCalls, ns, fds, heap>>

Objects == 1 .. MaxOpen
Bufs == 1 .. Cardinality(Paths) + MaxOpen + 1    \* more than files and open files refer to
NoBuf == 0

\* One type invariant.
VfsTypeOK ==
    /\ fsCalls \in 0 .. MaxFsCalls
    /\ DOMAIN ns.files \subseteq Paths /\ \A p \in DOMAIN ns.files : ns.files[p] \in Bufs
    /\ ns.dirs \subseteq Paths /\ ns.white \subseteq Paths
    /\ DOMAIN ns.links \subseteq Paths /\ \A p \in DOMAIN ns.links : ns.links[p] \in Paths
    /\ DOMAIN ns.children \subseteq Paths
    /\ \A p \in DOMAIN ns.children : ns.children[p] \subseteq Names
    /\ DOMAIN fds \subseteq Objects
    /\ \A o \in DOMAIN fds :
          fds[o] \in [path : Paths, buf : Bufs \cup {NoBuf}, pos : 0 .. MaxLen, append : BOOLEAN, isDir : BOOLEAN]
    /\ heap \in [Bufs -> UNION {[1 .. n -> {0, 1}] : n \in 0 .. MaxLen}]

(***************************************************************************)
(* Paths and symlinks.                                                     *)
(***************************************************************************)
Prefix(p, n) == SubSeq(p, 1, n)
Parent(p) == Prefix(p, Len(p) - 1)
Base(p) == p[Len(p)]
Ancestors(p) == {Prefix(p, n) : n \in 0 .. Len(p) - 1}

LinkPrefixes(l, p) == {n \in 1 .. Len(p) : Prefix(p, n) \in DOMAIN l}

\* mutant: the longest prefix that is a link is replaced
FollowLongest(l, p) ==
    IF LinkPrefixes(l, p) = {} THEN p
    ELSE LET n == Max(LinkPrefixes(l, p))
         IN l[Prefix(p, n)] \o SubSeq(p, n + 1, Len(p))

\* One round of resolvePath: the shortest prefix that is a link is replaced.
Follow(l, p) ==
    IF LinkPrefixes(l, p) = {} THEN p
    ELSE LET n == Min(LinkPrefixes(l, p))
         IN l[Prefix(p, n)] \o SubSeq(p, n + 1, Len(p))

\* mutant: it gives up a link too early
GiveUpEarly(l, p) ==
    LET path[d \in 0 .. MaxLink] == IF d = 0 THEN p ELSE Follow(l, path[d - 1])
    IN path[MaxLink]

\* A round changes nothing once no prefix is a link, and resolvePath returns;
\* after MaxLink + 1 rounds it returns the path it has come to.
resolvePath(l, p) ==
    LET round == [q \in Paths |-> Follow(l, q)]
        path[d \in 0 .. MaxLink + 1] == IF d = 0 THEN p ELSE round[path[d - 1]]
    IN path[MaxLink + 1]

Resolved(p) == resolvePath(ns.links, p)

(***************************************************************************)
(* Methods of VirtualFS as functions of the name space.                    *)
(***************************************************************************)
\* _addChild also creates the parent's set; for "/" it only does that.
addChild(ch, p) ==
    LET d == IF p = <<>> THEN <<>> ELSE Parent(p)
        old == IF d \in DOMAIN ch THEN ch[d] ELSE {}
    IN With(ch, d, old \cup (IF p = <<>> THEN {} ELSE {Base(p)}))

removeChild(ch, p) ==
    LET d == IF p = <<>> THEN <<>> ELSE Parent(p)
    IN IF d \in DOMAIN ch /\ p # <<>> THEN [ch EXCEPT ![d] = @ \ {Base(p)}] ELSE ch

\* _registerDir: a directory already known is not linked to its parent again.
registerDir(n, d) ==
    IF d \in n.dirs THEN n
    ELSE [n EXCEPT !.dirs = @ \cup {d},
                   !.children = addChild(IF d \in DOMAIN @ THEN @ ELSE With(@, d, {}), d)]

registerParents(n, p) ==
    LET up[k \in 0 .. Len(p)] == IF k = 0 THEN n ELSE registerDir(up[k - 1], Prefix(p, k - 1))
    IN up[Len(p)]

addFile(n, p, b) ==
    LET m == registerParents([n EXCEPT !.files = With(@, p, b), !.white = @ \ {p}], p)
    IN [m EXCEPT !.children = addChild(@, p)]

mkdir(n, p) == [registerParents(registerDir(n, p), p) EXCEPT !.white = @ \ {p}]

unlink(n, p) ==
    [n EXCEPT !.files = Without(@, p), !.links = Without(@, p),
              !.white = @ \cup {p}, !.children = removeChild(@, p)]

rmdir(n, p) ==
    [n EXCEPT !.dirs = @ \ {p}, !.white = @ \cup {p},
              !.children = removeChild(Without(@, p), p)]

createSymlink(n, target, p) ==
    [n EXCEPT !.links = With(@, p, target), !.dirs = @ \cup {p},
              !.white = @ \ {p}, !.children = addChild(@, p)]

Move(f, from, to) == IF from \in DOMAIN f THEN Without(With(f, to, f[from]), from) ELSE f

\* rename moves what is stored under the path itself, and the set of child
\* names, but nothing that is stored under the paths below it.
rename(n, from, to) ==
    LET m == [n EXCEPT !.files = Move(@, from, to), !.links = Move(@, from, to),
                       !.dirs = IF from \in @ THEN (@ \ {from}) \cup {to} ELSE @,
                       !.children = IF from \in n.dirs /\ from \in DOMAIN @
                                    THEN With(Without(@, from), to, @[from]) ELSE @]
        r == registerParents([m EXCEPT !.children = addChild(removeChild(@, from), to)], to)
    IN [r EXCEPT !.white = (@ \cup {from}) \ {to}]

(***************************************************************************)
(* Buffers.  One that nothing refers to any more is garbage, and empty.    *)
(***************************************************************************)
Refs(n, f) == Range(n.files) \cup {f[o].buf : o \in DOMAIN f}
FreshBuf == Min(Bufs \ Refs(ns, fds))
SetHeap(h) == heap' = [b \in Bufs |-> IF b \in Refs(ns', fds') THEN h[b] ELSE <<>>]
\* mutant: the grown array is one byte too long
PutLong(s, off, v) ==
    [i \in 1 .. Max({Len(s), off + 2}) |->
        IF i = off + 1 THEN v ELSE IF i <= Len(s) THEN s[i] ELSE 0]
PutByte(s, off, v) ==
    [i \in 1 .. Max({Len(s), off + 1}) |->
        IF i = off + 1 THEN v ELSE IF i <= Len(s) THEN s[i] ELSE 0]
Resize(s, n) == [i \in 1 .. n |-> IF i <= Len(s) THEN s[i] ELSE 0]

\* The kernel's init: loadTar of an archive with one regular file.
VfsInit ==
    /\ fsCalls = 0 /\ fds = <<>>
    /\ ns = addFile([files |-> <<>>, dirs |-> {}, links |-> <<>>, white |-> {}, children |-> <<>>],
                    BaseFile, 1)
    /\ heap = [b \in Bufs |-> IF b = 1 THEN <<1>> ELSE <<>>]

(***************************************************************************)
(* Syscalls on open files.  o is the object the fd stands for.             *)
(***************************************************************************)
FreshObject == Min(Objects \ DOMAIN fds)
OpenAs(p, b, flags, dir) ==
    fds' = With(fds, FreshObject,
                [path |-> p, buf |-> b, pos |-> 0, append |-> "append" \in flags, isDir |-> dir])

\* open() with the O_DIRECTORY flag, or of a path that is no file.
OpenDir(path, flags) ==
    LET r == Resolved(path) IN
    /\ DOMAIN fds # Objects
    /\ r \notin ns.white \/ "creat" \in flags
    /\ "dir" \in flags \/ (r \notin DOMAIN ns.files /\ "creat" \notin flags)
    /\ r \in ns.dirs \/ path \in ns.dirs
    /\ OpenAs(r, NoBuf, flags \ {"append"}, TRUE)
    /\ UNCHANGED <<ns, heap>>

\* open() of a file that has contents: O_CREAT changes nothing, whiteout or not.
OpenFile(path, flags) ==
    LET r == Resolved(path) IN
    /\ DOMAIN fds # Objects /\ "dir" \notin flags
    /\ r \in DOMAIN ns.files /\ ~({"creat", "excl"} \subseteq flags)
    /\ r \notin ns.white \/ "creat" \in flags
    /\ LET b == IF "trunc" \in flags THEN FreshBuf ELSE ns.files[r]
       IN OpenAs(r, b, flags, FALSE) /\ ns' = [ns EXCEPT !.files[r] = b]
    /\ SetHeap(heap)

\* open() that creates the file; O_EXCL also refuses a directory.
Create(path, flags) ==
    LET r == Resolved(path) IN
    /\ DOMAIN fds # Objects /\ "creat" \in flags /\ "dir" \notin flags
    /\ r \notin DOMAIN ns.files
    /\ "excl" \in flags => r \notin ns.dirs
    /\ ns' = addFile(ns, r, FreshBuf)
    /\ OpenAs(r, FreshBuf, flags, FALSE)
    /\ SetHeap(heap)

\* vfs.write: a write that fits goes into the shared buffer, one that does
\* not gives this object, and the path it was opened by, a buffer of its own.
Grown(o, end) ==
    IF end > Len(heap[fds[o].buf]) THEN FreshBuf ELSE fds[o].buf
GrowLocal(o, b) == ns                     \* mutant: files keeps the old array
Grow(o, b) == IF b = fds[o].buf THEN ns ELSE [ns EXCEPT !.files = With(@, fds[o].path, b)]

WriteAt(o, off, pos) ==
    /\ off < MaxLen
    /\ LET b == Grown(o, off + 1)
       IN /\ fds' = [fds EXCEPT ![o].buf = b, ![o].pos = pos]
          /\ ns' = Grow(o, b)
          /\ SetHeap([heap EXCEPT ![b] = PutByte(heap[fds[o].buf], off, 1)])

IsFile(o) == o \in DOMAIN fds /\ ~fds[o].isDir
Offset(o, off) == IF fds[o].append THEN Len(heap[fds[o].buf]) ELSE off

\* SYS_write, and each buffer of SYS_writev.
Write(o) ==
    /\ IsFile(o)
    /\ WriteAt(o, Offset(o, fds[o].pos), Offset(o, fds[o].pos) + 1)

\* SYS_pwrite64 and SYS_FS_WRITE: an explicit offset, O_APPEND overrides it.
PWrite(o, off) == IsFile(o) /\ WriteAt(o, Offset(o, off), fds[o].pos)

\* SYS_read, each buffer of SYS_readv, and SYS_lseek move the position only.
Read(o) ==
    /\ IsFile(o) /\ fds[o].pos < Len(heap[fds[o].buf])
    /\ fds' = [fds EXCEPT ![o].pos = @ + 1]
    /\ UNCHANGED <<ns, heap>>

Lseek(o, pos) ==
    /\ o \in DOMAIN fds /\ fds[o].pos # pos
    /\ fds' = [fds EXCEPT ![o].pos = pos]
    /\ UNCHANGED <<ns, heap>>

\* SYS_ftruncate: unless the length is unchanged the buffer is replaced; the
\* path gets this object's buffer in any case.
Ftruncate(o, len) ==
    /\ IsFile(o)
    /\ LET b == IF len = Len(heap[fds[o].buf]) THEN fds[o].buf ELSE FreshBuf
       IN /\ fds' = [fds EXCEPT ![o].buf = b]
          /\ ns' = [ns EXCEPT !.files = With(@, fds[o].path, b)]
          /\ SetHeap([heap EXCEPT ![b] = Resize(heap[fds[o].buf], len)])

CloseObject(o) ==
    /\ o \in DOMAIN fds
    /\ fds' = Without(fds, o) /\ UNCHANGED ns
    /\ SetHeap(heap)

(***************************************************************************)
(* Syscalls on names: all but symlinkat resolve every link first.          *)
(***************************************************************************)
Mkdir(p) == ns' = mkdir(ns, Resolved(p)) /\ UNCHANGED <<fds, heap>>
Unlink(p) == ns' = unlink(ns, Resolved(p)) /\ UNCHANGED fds /\ SetHeap(heap)
Rmdir(p) == ns' = rmdir(ns, Resolved(p)) /\ UNCHANGED <<fds, heap>>
Rename(p, q) == ns' = rename(ns, Resolved(p), Resolved(q)) /\ UNCHANGED fds /\ SetHeap(heap)

Symlink(target, p) ==
    /\ Len(target) = 1       \* bound: keeps every resolved path within Paths
    /\ ns' = createSymlink(ns, target, p) /\ UNCHANGED <<fds, heap>>

\* SYS_linkat: a copy of the bytes under the new name.
LinkAlias(r) == ns.files[r]               \* mutant: the link shares the array
LinkBuf(r) == FreshBuf

Link(p, q) ==
    /\ Resolved(p) \in DOMAIN ns.files
    /\ ns' = addFile(ns, Resolved(q), LinkBuf(Resolved(p))) /\ UNCHANGED fds
    /\ SetHeap([heap EXCEPT ![LinkBuf(Resolved(p))] = heap[ns.files[Resolved(p)]]])

VfsNext ==
    /\ fsCalls < MaxFsCalls /\ fsCalls' = fsCalls + 1
    /\ \/ \E p \in Args, f \in Flags : OpenDir(p, f) \/ OpenFile(p, f) \/ Create(p, f)
       \/ \E o \in Objects : Write(o) \/ Read(o) \/ CloseObject(o)
       \/ \E o \in Objects, n \in 0 .. MaxLen : PWrite(o, n) \/ Lseek(o, n) \/ Ftruncate(o, n)
       \/ \E p \in Args : Mkdir(p) \/ Unlink(p) \/ Rmdir(p)
       \/ \E p, q \in Args : Rename(p, q) \/ Symlink(p, q) \/ Link(p, q)

VfsSpec == VfsInit /\ [][VfsNext]_fsVars

(***************************************************************************)
(* Properties.                                                             *)
(***************************************************************************)
NoSharedBuffer ==
    \A p, q \in DOMAIN ns.files : p # q => ns.files[p] # ns.files[q]
Attached(o) == fds[o].path \in DOMAIN ns.files /\ ns.files[fds[o].path] = fds[o].buf
Contents(o) == IF fds[o].isDir THEN <<>> ELSE heap[fds[o].buf]

\* Two paths come to hold the same byte array, so that a write to one file
\* shows up in another, only through a descriptor that has lost its file:
\* linkat copies, rename takes the old name away, and open() with O_TRUNC,
\* writes and ftruncate give the path of an attached descriptor its own array.
SharingNeedsDetached ==
    NoSharedBuffer /\ (\A o \in DOMAIN fds : fds[o].isDir \/ Attached(o)) => NoSharedBuffer'

\* As long as an open file object shares its byte array with its path, what it
\* changes reaches the file: writing or truncating never detaches the writer.
WriterStaysAttached ==
    \A o \in DOMAIN fds \cap DOMAIN fds' :
        Attached(o) /\ Contents(o) # Contents(o)' => Attached(o)'

\* Descriptors and paths that share an array name the same file.
BuffersSound == [][SharingNeedsDetached /\ WriterStaysAttached]_fsVars

(***************************************************************************)
(* What a path means, for comparison: the file system is walked one name   *)
(* at a time from the root, and a name that completes a link is replaced   *)
(* by the link's target, walked from the root again.                       *)
(***************************************************************************)
Walkers == [at : Paths, rest : Paths, links : Nat]
WalkStep(l, w) ==
    LET at == Append(w.at, Head(w.rest)) IN
    IF w.rest = <<>> THEN w
    ELSE IF at \in DOMAIN l
         THEN [at |-> <<>>, rest |-> l[at] \o Tail(w.rest), links |-> w.links + 1]
         ELSE [at |-> at, rest |-> Tail(w.rest), links |-> w.links]

\* Enough steps to follow MaxLink + 2 links.
WalkSteps == (MaxLink + 2) * MaxDepth
WalkPath(l, p) ==
    LET walk[n \in 0 .. WalkSteps] ==
            IF n = 0 THEN [at |-> <<>>, rest |-> p, links |-> 0] ELSE WalkStep(l, walk[n - 1])
    IN walk[WalkSteps]

\* resolvePath, which starts again at the first component after every link and
\* counts its own depth, returns where the walk ends if that follows at most
\* MaxLink + 1 links; if the walk needs more, the path it gives up with is one
\* that still leads through a link, so that it cannot pass for a resolved one.
ResolveExact ==
    \A p \in Args :
        LET w == WalkPath(ns.links, p)
        IN IF w.links > MaxLink + 1
           THEN LinkPrefixes(ns.links, Resolved(p)) # {}
           ELSE w.rest = <<>> /\ Resolved(p) = w.at

\* The maps are well formed, and a path resolves to what it means.
PathsSound == VfsTypeOK /\ ResolveExact
=============================================================================
