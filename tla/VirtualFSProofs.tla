--------------------------- MODULE VirtualFSProofs ---------------------------
(***************************************************************************)
(* Proofs about VirtualFS, for every set of names, every depth of paths    *)
(* and every number of files, open files, bytes and calls: the maps stay   *)
(* well formed, resolvePath ends where the links end, and byte arrays are  *)
(* shared by a file and its descriptors only.                              *)
(***************************************************************************)
EXTENDS VirtualFS, FiniteSetTheorems, SequenceTheorems, TLAPS

(* Partial functions, and the name space as a set of records. *)
Partial(S, T) == UNION {[D -> T] : D \in SUBSET S}
Targets == {p \in Paths : Len(p) = 1}
NameSpaces == [files : Partial(Paths, Bufs), dirs : SUBSET Paths, links : Partial(Paths, Targets),
               white : SUBSET Paths, children : Partial(Paths, SUBSET Names)]
OpenFiles == [path : Paths, buf : Bufs \cup {NoBuf}, pos : 0 .. MaxLen, append : BOOLEAN, isDir : BOOLEAN]
Bytes == UNION {[1 .. n -> {0, 1}] : n \in 0 .. MaxLen}

(* VfsTypeOK with the shape of the name space; only directories have no bytes. *)
IInv ==
    /\ fsCalls \in 0 .. MaxFsCalls
    /\ ns \in NameSpaces
    /\ fds \in Partial(Objects, OpenFiles)
    /\ \A o \in DOMAIN fds : ~fds[o].isDir => fds[o].buf \in Bufs
    /\ heap \in [Bufs -> Bytes]

-----------------------------------------------------------------------------
(* Induction up to n, over a set instead of a predicate. *)
LEMMA Climb ==
  ASSUME NEW n \in Nat, NEW S \in SUBSET (0 .. n), 0 \in S, \A i \in S : i < n => i + 1 \in S
  PROVE  \A i \in 0 .. n : i \in S
<1> SUFFICES ASSUME NEW k \in 0 .. n, k \notin S PROVE FALSE
  OBVIOUS
<1> DEFINE T == S \cap (0 .. k)
           f == [i \in T |-> i + 1]
<1>1. 0 \in T /\ \A i \in T : i < k /\ i + 1 \in T \ {0}
  OBVIOUS
<1>2. IsFiniteSet(T)
  <2>1. IsFiniteSet(0 .. k) /\ T \in SUBSET (0 .. k)
    BY FS_Interval
  <2> QED
    BY <2>1, FS_Subset
<1>3. IsFiniteSet(T \ {0}) /\ Cardinality(T \ {0}) = Cardinality(T) - 1 /\ Cardinality(T) \in Nat
  BY <1>1, <1>2, FS_RemoveElement, FS_CardinalityType
<1>4. f \in [T -> T \ {0}]
  BY <1>1
<1>5. Cardinality(T \ {0}) < Cardinality(T)
  BY <1>3
<1>6. \E x, y \in T : x # y /\ f[x] = f[y]
  <2> HIDE DEF T, f
  <2> QED
    BY <1>2, <1>3, <1>4, <1>5, FS_PigeonHole
<1> QED
  BY <1>6

\* A function defined by iteration: step[i] is applied in round i.
Runs(f, n, D, p, step) == f \in [0 .. n -> D] /\ f[0] = p /\ \A i \in 1 .. n : f[i] = step[i][f[i - 1]]
LEMMA Iterates ==
  ASSUME NEW n \in Nat, NEW D, NEW p \in D, NEW step, \A i \in 1 .. n : \A x \in D : step[i][x] \in D
  PROVE  \E f : Runs(f, n, D, p, step)
<1> DEFINE S == {k \in 0 .. n : \E f : Runs(f, k, D, p, step)}
<1>1. 0 \in S
  <2>1. Runs([i \in 0 .. 0 |-> p], 0, D, p, step)
    BY DEF Runs
  <2> QED
    BY <2>1
<1>2. ASSUME NEW k \in S, k < n PROVE k + 1 \in S
  <2>1. PICK f : Runs(f, k, D, p, step)
    BY <1>2
  <2> DEFINE g == [i \in 0 .. k + 1 |-> IF i <= k THEN f[i] ELSE step[k + 1][f[k]]]
  <2>2. step[k + 1][f[k]] \in D
    BY <2>1, <1>2 DEF Runs
  <2>3. g \in [0 .. k + 1 -> D]
    BY <2>1, <2>2 DEF Runs
  <2>4. g[0] = p /\ \A i \in 1 .. k + 1 : g[i] = step[i][g[i - 1]]
    BY <2>1 DEF Runs
  <2>5. Runs(g, k + 1, D, p, step)
    <3> HIDE DEF g
    <3> QED
      BY <2>3, <2>4 DEF Runs
  <2> QED
    BY <2>5, <1>2
<1>3. n \in S
  <2>1. S \in SUBSET (0 .. n)
    OBVIOUS
  <2> HIDE DEF S
  <2> QED
    BY <1>1, <1>2, <2>1, Climb
<1> QED
  BY <1>3

LEMMA PartialIs ==
  ASSUME NEW S, NEW T, NEW f
  PROVE  f \in Partial(S, T) <=> /\ f = [x \in DOMAIN f |-> f[x]] /\ DOMAIN f \subseteq S
                                 /\ \A x \in DOMAIN f : f[x] \in T
BY DEF Partial

\* g is f with x mapped to y, or without x.
IsWith(g, f, x, y) == DOMAIN g = DOMAIN f \cup {x} /\ g[x] = y /\ \A z \in DOMAIN f : z # x => g[z] = f[z]
IsWithout(g, f, x) == DOMAIN g = DOMAIN f \ {x} /\ \A z \in DOMAIN f : z # x => g[z] = f[z]

LEMMA WithPartial ==
  ASSUME NEW S, NEW T, NEW f \in Partial(S, T), NEW x \in S, NEW y \in T
  PROVE  With(f, x, y) \in Partial(S, T) /\ IsWith(With(f, x, y), f, x, y)
<1>1. DOMAIN f \subseteq S /\ \A z \in DOMAIN f : f[z] \in T
  BY PartialIs
<1>2. /\ With(f, x, y) = [z \in DOMAIN With(f, x, y) |-> With(f, x, y)[z]] /\ DOMAIN With(f, x, y) = DOMAIN f \cup {x}
      /\ With(f, x, y)[x] = y /\ \A z \in DOMAIN f : z # x => With(f, x, y)[z] = f[z]
  BY DEF With
<1> QED
  BY <1>1, <1>2, PartialIs DEF IsWith

LEMMA WithoutPartial ==
  ASSUME NEW S, NEW T, NEW f \in Partial(S, T), NEW x
  PROVE  Without(f, x) \in Partial(S, T) /\ IsWithout(Without(f, x), f, x)
<1>1. DOMAIN f \subseteq S /\ \A z \in DOMAIN f : f[z] \in T
  BY PartialIs
<1>2. /\ Without(f, x) = [z \in DOMAIN Without(f, x) |-> Without(f, x)[z]] /\ DOMAIN Without(f, x) = DOMAIN f \ {x}
      /\ \A z \in DOMAIN f : z # x => Without(f, x)[z] = f[z]
  BY DEF Without, Restrict
<1> QED
  BY <1>1, <1>2, PartialIs DEF IsWithout

Different(f) == \A p, q \in DOMAIN f : p # q => f[p] # f[q]
LEMMA MovePartial ==
  ASSUME NEW S, NEW T, NEW f \in Partial(S, T), NEW x, NEW y \in S
  PROVE  Move(f, x, y) \in Partial(S, T) /\ (Different(f) => Different(Move(f, x, y)))
<1>1. \A z \in DOMAIN f : f[z] \in T
  BY PartialIs
<1>2. CASE x \in DOMAIN f
  <2>1. PICK v \in T : v = f[x]
    BY <1>1, <1>2
  <2>2. PICK g \in Partial(S, T) : g = With(f, y, v) /\ IsWith(g, f, y, v)
    BY WithPartial
  <2>3. PICK h \in Partial(S, T) : h = Without(g, x) /\ IsWithout(h, g, x)
    BY WithoutPartial
  <2>4. Move(f, x, y) = h
    BY <1>2, <2>1, <2>2, <2>3 DEF Move
  <2> QED
    BY <1>2, <2>1, <2>2, <2>3, <2>4 DEF IsWith, IsWithout, Different
<1>3. CASE x \notin DOMAIN f
  BY <1>3 DEF Move
<1> QED
  BY <1>2, <1>3

-----------------------------------------------------------------------------
(* Paths. *)
LEMMA PathIs ==
  ASSUME NEW p
  PROVE  p \in Paths <=> p \in Seq(Names) /\ Len(p) <= MaxDepth
<1>0. MaxDepth \in Nat
  BY VfsBounds
<1>1. ASSUME p \in Paths PROVE p \in Seq(Names) /\ Len(p) <= MaxDepth
  <2>1. PICK n \in 0 .. MaxDepth : p \in [1 .. n -> Names]
    BY <1>1 DEF Paths
  <2> QED
    BY <1>0, <2>1
<1>2. ASSUME p \in Seq(Names), Len(p) <= MaxDepth PROVE p \in Paths
  <2>1. Len(p) \in 0 .. MaxDepth /\ p \in [1 .. Len(p) -> Names]
    BY <1>0, <1>2
  <2> QED
    BY <2>1 DEF Paths
<1> QED
  BY <1>1, <1>2

LEMMA RootPath == <<>> \in Paths
<1>1. MaxDepth \in Nat
  BY VfsBounds
<1>2. <<>> \in Seq(Names) /\ Len(<<>>) <= MaxDepth
  BY <1>1
<1> QED
  BY <1>2, PathIs

LEMMA PrefixPath ==
  ASSUME NEW p \in Paths, NEW n \in 0 .. Len(p)
  PROVE  Prefix(p, n) \in Paths /\ Len(Prefix(p, n)) = n
<1>1. p \in Seq(Names) /\ Len(p) <= MaxDepth /\ MaxDepth \in Nat
  BY PathIs, VfsBounds
<1>2. Prefix(p, n) \in Seq(Names) /\ Len(Prefix(p, n)) = n
  BY <1>1, SubSeqProperties DEF Prefix
<1> QED
  BY <1>1, <1>2, PathIs

LEMMA LeastOf ==
  ASSUME NEW k \in Nat, NEW S \in SUBSET (0 .. k), S # {}
  PROVE  Min(S) \in S /\ \A i \in S : Min(S) <= i
<1>1. \E i \in S : \A j \in S : i <= j
  <2> SUFFICES ASSUME \A i \in S : \E j \in S : j < i PROVE FALSE
    OBVIOUS
  <2> DEFINE T == {i \in 0 .. k : \A j \in S : i < j}
  <2>1. 0 \in T
    OBVIOUS
  <2>2. \A i \in T : i < k => i + 1 \in T
    OBVIOUS
  <2>3. T \in SUBSET (0 .. k)
    OBVIOUS
  <2>4. k \in T
    <3> HIDE DEF T
    <3> QED
      BY <2>1, <2>2, <2>3, Climb
  <2>5. PICK j \in S : TRUE
    OBVIOUS
  <2>6. k < j
    BY <2>4
  <2> QED
    BY <2>5, <2>6
<1> QED
  BY <1>1 DEF Min

LEMMA FollowPath ==
  ASSUME NEW l \in Partial(Paths, Targets), NEW p \in Paths
  PROVE  Follow(l, p) \in Paths
<1>1. p \in Seq(Names) /\ Len(p) <= MaxDepth /\ MaxDepth \in Nat
  BY PathIs, VfsBounds
<1>2. CASE LinkPrefixes(l, p) # {}
  <2>1. PICK n \in 1 .. Len(p) : n = Min(LinkPrefixes(l, p)) /\ Prefix(p, n) \in DOMAIN l
    <3>1. Len(p) \in Nat /\ LinkPrefixes(l, p) \in SUBSET (0 .. Len(p))
      BY <1>1 DEF LinkPrefixes
    <3>2. Min(LinkPrefixes(l, p)) \in LinkPrefixes(l, p)
      BY <1>2, <3>1, LeastOf
    <3> QED
      BY <3>2 DEF LinkPrefixes
  <2>2. PICK t \in Paths : t = l[Prefix(p, n)] /\ Len(t) = 1
    BY <2>1, PartialIs DEF Targets
  <2>3. t \in Seq(Names)
    BY PathIs
  <2>4. PICK r : r = SubSeq(p, n + 1, Len(p)) /\ r \in Seq(Names) /\ Len(r) = Len(p) - n
    <3>1. n + 1 \in Int /\ Len(p) \in Int /\ \A i \in n + 1 .. Len(p) : p[i] \in Names
      BY <1>1, <2>1
    <3>2. /\ SubSeq(p, n + 1, Len(p)) \in Seq(Names)
          /\ Len(SubSeq(p, n + 1, Len(p))) = IF n + 1 <= Len(p) THEN Len(p) - (n + 1) + 1 ELSE 0
      BY <3>1, SubSeqProperties
    <3>3. n \in Int /\ Len(p) \in Int /\ (n + 1 <= Len(p) \/ n = Len(p))
      BY <1>1, <2>1
    <3>4. Len(SubSeq(p, n + 1, Len(p))) = Len(p) - n
      BY <3>2, <3>3
    <3> QED
      BY <3>2, <3>4
  <2>5. t \o r \in Seq(Names) /\ Len(t \o r) = Len(t) + Len(r)
    BY <2>3, <2>4
  <2>6. Follow(l, p) = t \o r
    BY <1>2, <2>1, <2>2, <2>4 DEF Follow
  <2>7. Len(t \o r) <= MaxDepth
    <3>1. Len(t \o r) = 1 + (Len(p) - n) /\ n >= 1 /\ n \in Int /\ Len(p) \in Int
      BY <1>1, <2>1, <2>2, <2>4, <2>5
    <3> QED
      BY <1>1, <3>1
  <2> QED
    BY <2>5, <2>6, <2>7, PathIs
<1> QED
  BY <1>2 DEF Follow

\* Iterating a step on paths.
Walk(f, n, p, step) == f \in [0 .. n -> Paths] /\ f[0] = p /\ \A i \in 1 .. n : f[i] = step[f[i - 1]]
LEMMA Walks ==
  ASSUME NEW n \in Nat, NEW p \in Paths, NEW step \in [Paths -> Paths], NEW f,
         f = CHOOSE g : g = [i \in 0 .. n |-> IF i = 0 THEN p ELSE step[g[i - 1]]]
  PROVE  Walk(f, n, p, step)
<1>1. PICK h : Walk(h, n, p, step)
  <2>1. PICK s : s = [i \in 1 .. n |-> step]
    OBVIOUS
  <2>2. \A i \in 1 .. n : \A x \in Paths : s[i][x] \in Paths
    BY <2>1
  <2>3. PICK h : Runs(h, n, Paths, p, s)
    BY <2>2, Iterates
  <2> QED
    BY <2>1, <2>3 DEF Walk, Runs
<1>2. h = [i \in 0 .. n |-> IF i = 0 THEN p ELSE step[h[i - 1]]]
  BY <1>1 DEF Walk
<1>3. f = [i \in 0 .. n |-> IF i = 0 THEN p ELSE step[f[i - 1]]]
  BY <1>2
<1>4. DOMAIN f = 0 .. n /\ f[0] = p /\ \A i \in 1 .. n : f[i] = step[f[i - 1]]
  <2>1. DOMAIN f = 0 .. n /\ \A i \in 0 .. n : f[i] = IF i = 0 THEN p ELSE step[f[i - 1]]
    BY ONLY <1>3, n \in Nat
  <2>2. f[0] = p
    BY <2>1
  <2>3. ASSUME NEW i \in 1 .. n PROVE f[i] = step[f[i - 1]]
    <3>1. i \in 0 .. n /\ i # 0
      OBVIOUS
    <3> QED
      BY <2>1, <3>1
  <2> QED
    BY <2>1, <2>2, <2>3
<1> DEFINE S == {i \in 0 .. n : f[i] \in Paths}
<1>5. 0 \in S /\ (\A i \in S : i < n => i + 1 \in S) /\ S \in SUBSET (0 .. n)
  BY <1>4
<1>6. \A i \in 0 .. n : i \in S
  <2> HIDE DEF S
  <2> QED
    BY <1>5, Climb
<1>7. f = [i \in 0 .. n |-> f[i]]
  BY <1>3
<1> QED
  BY <1>4, <1>6, <1>7 DEF Walk

\* The rounds of resolvePath.
Rounds(path, l, p) == Walk(path, MaxLink + 1, p, [q \in Paths |-> Follow(l, q)])

LEMMA ResolvedPath ==
  ASSUME NEW l \in Partial(Paths, Targets), NEW p \in Paths
  PROVE  resolvePath(l, p) \in Paths /\ \E path : Rounds(path, l, p) /\ resolvePath(l, p) = path[MaxLink + 1]
<1>1. PICK step \in [Paths -> Paths] : step = [q \in Paths |-> Follow(l, q)]
  BY FollowPath
<1>2. MaxLink + 1 \in Nat
  BY VfsBounds
<1>3. PICK path : path = CHOOSE g : g = [i \in 0 .. MaxLink + 1 |-> IF i = 0 THEN p ELSE step[g[i - 1]]]
  OBVIOUS
<1>4. resolvePath(l, p) = path[MaxLink + 1]
  BY <1>1, <1>3 DEF resolvePath
<1>5. Walk(path, MaxLink + 1, p, step)
  BY <1>2, <1>3, Walks
<1> QED
  BY <1>1, <1>2, <1>4, <1>5 DEF Walk, Rounds

\* A path taken apart: q is at \o rest, and on is at with the next name.
Joined(at, rest, on, tail, q) ==
    /\ on \in Seq(Names) /\ Len(on) = Len(at) + 1 /\ tail \in Seq(Names) /\ Len(tail) = Len(rest) - 1
    /\ on \o tail = q /\ Prefix(q, Len(at) + 1) = on /\ Prefix(on, Len(at) + 1) = on
    /\ SubSeq(q, Len(at) + 2, Len(q)) = tail
    /\ \A n \in 1 .. Len(at) : Prefix(q, n) = Prefix(at, n) /\ Prefix(on, n) = Prefix(at, n)

LEMMA Junction ==
  ASSUME NEW at \in Seq(Names), NEW rest \in Seq(Names), rest # <<>>,
         NEW on, on = Append(at, Head(rest)), NEW q, q = at \o rest
  PROVE  Joined(at, rest, on, Tail(rest), q)
<1>1. /\ Len(at) \in Nat /\ Len(rest) \in Nat \ {0} /\ Head(rest) \in Names /\ Head(rest) = rest[1]
      /\ Tail(rest) \in Seq(Names) /\ Len(Tail(rest)) = Len(rest) - 1
      /\ \A i \in 1 .. Len(Tail(rest)) : Tail(rest)[i] = rest[i + 1]
  BY HeadTailProperties, EmptySeq, LenProperties
<1>2. /\ on \in Seq(Names) /\ Len(on) = Len(at) + 1 /\ on[Len(at) + 1] = rest[1]
      /\ \A i \in 1 .. Len(at) : on[i] = at[i]
  BY <1>1, AppendProperties
<1>3. /\ q \in Seq(Names) /\ Len(q) = Len(at) + Len(rest)
      /\ \A i \in 1 .. Len(at) + Len(rest) : q[i] = IF i <= Len(at) THEN at[i] ELSE rest[i - Len(at)]
  BY ConcatProperties
<1>4. on \o Tail(rest) = q
  <2>1. /\ on \o Tail(rest) \in Seq(Names) /\ Len(on \o Tail(rest)) = Len(on) + Len(Tail(rest))
        /\ \A i \in 1 .. Len(on) + Len(Tail(rest)) :
              (on \o Tail(rest))[i] = IF i <= Len(on) THEN on[i] ELSE Tail(rest)[i - Len(on)]
    BY <1>1, <1>2, ConcatProperties
  <2>2. ASSUME NEW i \in 1 .. Len(q) PROVE (on \o Tail(rest))[i] = q[i]
    BY <1>1, <1>2, <1>3, <2>1
  <2>3. Len(on \o Tail(rest)) = Len(q)
    BY <1>1, <1>2, <1>3, <2>1
  <2> QED
    BY <1>3, <2>1, <2>2, <2>3, SeqEqual
<1>5. ASSUME NEW s \in Seq(Names), NEW t \in Seq(Names), NEW n \in 0 .. Len(s), n <= Len(t), \A i \in 1 .. n : s[i] = t[i]
      PROVE  Prefix(s, n) = Prefix(t, n)
  <2>1. /\ Prefix(s, n) \in Seq(Names) /\ Len(Prefix(s, n)) = n /\ \A i \in 1 .. n : Prefix(s, n)[i] = s[i]
        /\ Prefix(t, n) \in Seq(Names) /\ Len(Prefix(t, n)) = n /\ \A i \in 1 .. n : Prefix(t, n)[i] = t[i]
    BY <1>5, SubSeqProperties DEF Prefix
  <2> QED
    BY <1>5, <2>1, SeqEqual
<1>6. Prefix(on, Len(at) + 1) = on
  BY <1>2, SubSeqFull DEF Prefix
<1>7. Prefix(q, Len(at) + 1) = on
  <2>1. PICK n : n = Len(at) + 1
    OBVIOUS
  <2>2. n \in 0 .. Len(q) /\ n <= Len(on) /\ \A i \in 1 .. n : q[i] = on[i]
    BY <1>1, <1>2, <1>3, <2>1
  <2>3. Prefix(q, n) = Prefix(on, n)
    BY <1>2, <1>3, <1>5, <2>2
  <2> QED
    BY <1>6, <2>1, <2>3
<1>8. ASSUME NEW n \in 1 .. Len(at) PROVE Prefix(q, n) = Prefix(at, n) /\ Prefix(on, n) = Prefix(at, n)
  <2>1. n \in 0 .. Len(q) /\ n \in 0 .. Len(on) /\ n <= Len(at) /\ \A i \in 1 .. n : q[i] = at[i] /\ on[i] = at[i]
    BY <1>1, <1>2, <1>3
  <2> QED
    BY <1>2, <1>3, <1>5, <2>1
<1>9. SubSeq(q, Len(at) + 2, Len(q)) = Tail(rest)
  <2> DEFINE r == SubSeq(q, Len(at) + 2, Len(q))
  <2>1. /\ r \in Seq(Names) /\ Len(r) = Len(rest) - 1
        /\ \A i \in 1 .. Len(rest) - 1 : r[i] = q[Len(at) + 2 + i - 1]
    <3>1. Len(at) + 2 \in Int /\ Len(q) \in Int /\ \A i \in Len(at) + 2 .. Len(q) : q[i] \in Names
      BY <1>1, <1>3
    <3>2. /\ r \in Seq(Names) /\ Len(r) = IF Len(at) + 2 <= Len(q) THEN Len(q) - (Len(at) + 2) + 1 ELSE 0
          /\ \A i \in 1 .. Len(q) - (Len(at) + 2) + 1 : r[i] = q[Len(at) + 2 + i - 1]
      BY <3>1, SubSeqProperties
    <3> QED
      BY <1>1, <1>3, <3>2
  <2>2. ASSUME NEW i \in 1 .. Len(rest) - 1 PROVE r[i] = Tail(rest)[i]
    BY <1>1, <1>3, <2>1
  <2> QED
    BY <1>1, <2>1, <2>2, SeqEqual
<1> QED
  BY <1>1, <1>2, <1>3, <1>4, <1>6, <1>7, <1>8, <1>9 DEF Joined

\* The walk: where it is stays within the bounds of a path.
Good == {w \in Walkers : Len(w.at) + Len(w.rest) <= MaxDepth}
NoLink(l, at) == \A n \in 1 .. Len(at) : Prefix(at, n) \notin DOMAIN l
Walkable(l) == {w \in Good : NoLink(l, w.at)}
Walked(walk, l, p) ==
    /\ walk \in [0 .. WalkSteps -> Walkable(l)] /\ walk[0] = [at |-> <<>>, rest |-> p, links |-> 0]
    /\ \A i \in 1 .. WalkSteps : walk[i] = WalkStep(l, walk[i - 1])

\* What a step does to a path that is at \o rest: nothing, or one round of resolvePath.
Stays(v, w) == v.links = w.links /\ v.at \o v.rest = w.at \o w.rest
Follows(l, v, w) ==
    /\ v.links = w.links + 1 /\ v.at = <<>> /\ v.at \o v.rest = Follow(l, w.at \o w.rest)
    /\ LinkPrefixes(l, w.at \o w.rest) # {}

LEMMA WalkStepIs ==
  ASSUME NEW l \in Partial(Paths, Targets), NEW w \in Walkable(l), NEW v, v = WalkStep(l, w)
  PROVE  /\ v \in Walkable(l) /\ w.at \o w.rest \in Paths
         /\ w.rest = <<>> => v = w
         /\ w.rest # <<>> => /\ Len(w.at) + 1 <= MaxDepth
                             /\ \/ Stays(v, w) /\ Len(v.at) = Len(w.at) + 1
                                \/ Follows(l, v, w)
<1>1. PICK at \in Paths, rest \in Paths, k \in Nat : w = [at |-> at, rest |-> rest, links |-> k]
  BY DEF Walkable, Good, Walkers
<1>2. /\ NoLink(l, at) /\ w.at = at /\ w.rest = rest /\ w.links = k /\ at \in Seq(Names) /\ rest \in Seq(Names) /\ MaxDepth \in Nat
      /\ Len(at) + Len(rest) <= MaxDepth /\ Len(at) \in Nat /\ Len(rest) \in Nat
  BY <1>1, PathIs, VfsBounds, LenProperties DEF Walkable, Good
<1>3. PICK q : q = at \o rest
  OBVIOUS
<1>4. q \in Paths /\ Len(q) = Len(at) + Len(rest)
  <2>1. q \in Seq(Names) /\ Len(q) = Len(at) + Len(rest)
    BY <1>2, <1>3, ConcatProperties
  <2> QED
    BY <1>2, <2>1, PathIs
<1>5. CASE rest = <<>>
  BY <1>1, <1>2, <1>3, <1>4, <1>5 DEF WalkStep
<1>6. CASE rest # <<>>
  <2>1. PICK on : on = Append(at, Head(rest))
    OBVIOUS
  <2>2. PICK tail : tail = Tail(rest)
    OBVIOUS
  <2>3. /\ on \in Seq(Names) /\ Len(on) = Len(at) + 1 /\ tail \in Seq(Names) /\ Len(tail) = Len(rest) - 1
        /\ on \o tail = q /\ Prefix(q, Len(at) + 1) = on /\ Prefix(on, Len(at) + 1) = on
        /\ SubSeq(q, Len(at) + 2, Len(q)) = tail
        /\ \A n \in 1 .. Len(at) : Prefix(q, n) = Prefix(at, n) /\ Prefix(on, n) = Prefix(at, n)
    <3>1. at \in Seq(Names) /\ rest \in Seq(Names)
      BY <1>2
    <3>2. Joined(at, rest, on, tail, q)
      BY <1>3, <1>6, <2>1, <2>2, <3>1, Junction
    <3> QED
      BY <3>2 DEF Joined
  <2>4. Len(at) + 1 <= MaxDepth /\ Len(rest) >= 1
    <3>1. Len(rest) # 0
      BY <1>2, <1>6, EmptySeq
    <3> QED
      BY <1>2, <3>1
  <2>5. CASE on \notin DOMAIN l
    <3>1. v = [at |-> on, rest |-> tail, links |-> k]
      BY <1>1, <1>2, <1>6, <2>1, <2>2, <2>5 DEF WalkStep
    <3>2. on \in Paths /\ tail \in Paths
      BY <1>2, <2>3, <2>4, PathIs
    <3>3. v \in Good
      BY <1>2, <2>3, <3>1, <3>2 DEF Good, Walkers
    <3>4. NoLink(l, on)
      <4> SUFFICES ASSUME NEW n \in 1 .. Len(on) PROVE Prefix(on, n) \notin DOMAIN l
        BY DEF NoLink
      <4>1. n \in 1 .. Len(at) \/ n = Len(at) + 1
        BY <1>2, <2>3
      <4> QED
        BY <1>2, <2>3, <2>5, <4>1 DEF NoLink
    <3>5. v.at = on /\ v.rest = tail /\ v.links = k
      BY <3>1
    <3>6. v \in Walkable(l)
      BY <3>3, <3>4, <3>5 DEF Walkable
    <3>7. Stays(v, w) /\ Len(v.at) = Len(w.at) + 1
      BY <1>2, <1>3, <2>3, <3>5 DEF Stays
    <3> QED
      BY <1>2, <1>3, <1>4, <1>6, <2>4, <3>6, <3>7
  <2>6. CASE on \in DOMAIN l
    <3>1. PICK t \in Paths : t = l[on] /\ Len(t) = 1
      BY <2>6, PartialIs DEF Targets
    <3>2. v = [at |-> <<>>, rest |-> t \o tail, links |-> k + 1]
      BY <1>1, <1>2, <1>6, <2>1, <2>2, <2>6, <3>1 DEF WalkStep
    <3>3. t \o tail \in Seq(Names) /\ Len(t \o tail) = Len(rest)
      <4>1. t \in Seq(Names)
        BY PathIs
      <4>2. t \o tail \in Seq(Names) /\ Len(t \o tail) = Len(t) + Len(tail)
        BY <2>3, <4>1, ConcatProperties
      <4> QED
        BY <1>2, <2>3, <3>1, <4>2
    <3>4. t \o tail \in Paths /\ <<>> \in Paths /\ Len(<<>>) = 0
      <4>1. <<>> \in Seq(Names) /\ Len(<<>>) = 0
        BY EmptySeq
      <4>2. t \o tail \in Paths
        BY <1>2, <3>3, PathIs
      <4> QED
        BY <4>1, <4>2, RootPath
    <3>5. v \in Good
      BY <1>2, <3>2, <3>3, <3>4 DEF Good, Walkers
    <3>6. NoLink(l, <<>>)
      BY <3>4 DEF NoLink
    <3>7. LinkPrefixes(l, q) # {} /\ Min(LinkPrefixes(l, q)) = Len(at) + 1
      <4>1. Len(at) + 1 \in LinkPrefixes(l, q)
        BY <1>2, <1>4, <2>3, <2>4, <2>6 DEF LinkPrefixes
      <4>2. \A n \in LinkPrefixes(l, q) : n \in 1 .. Len(q) /\ n \notin 1 .. Len(at)
        BY <1>2, <2>3 DEF LinkPrefixes, NoLink
      <4>3. LinkPrefixes(l, q) \in SUBSET (0 .. Len(q)) /\ Len(q) \in Nat
        BY <1>2, <1>4 DEF LinkPrefixes
      <4>4. Min(LinkPrefixes(l, q)) \in LinkPrefixes(l, q) /\ Min(LinkPrefixes(l, q)) <= Len(at) + 1
        BY <4>1, <4>3, LeastOf
      <4> QED
        BY <1>2, <4>1, <4>2, <4>3, <4>4
    <3>8. Follow(l, q) = t \o tail
      <4>1. (Len(at) + 1) + 1 = Len(at) + 2
        BY <1>2
      <4> QED
        BY <2>3, <3>1, <3>7, <4>1 DEF Follow
    <3>9. <<>> \o (t \o tail) = t \o tail
      BY <3>3, ConcatEmptySeq
    <3>10. v.at = <<>> /\ v.rest = t \o tail /\ v.links = k + 1
      BY <3>2
    <3>11. v \in Walkable(l)
      BY <3>5, <3>6, <3>10 DEF Walkable
    <3>12. Follows(l, v, w)
      BY <1>2, <1>3, <3>7, <3>8, <3>9, <3>10 DEF Follows
    <3> QED
      BY <1>2, <1>3, <1>4, <1>6, <2>4, <3>11, <3>12
  <2> QED
    BY <2>5, <2>6
<1> QED
  BY <1>5, <1>6

LEMMA StepsType == WalkSteps \in Nat /\ MaxLink \in Nat /\ MaxDepth \in Nat
<1>1. MaxLink \in Nat /\ MaxDepth \in Nat
  BY VfsBounds
<1> QED
  BY <1>1 DEF WalkSteps

LEMMA WalkIs ==
  ASSUME NEW l \in Partial(Paths, Targets), NEW p \in Paths
  PROVE  \E walk : Walked(walk, l, p) /\ WalkPath(l, p) = walk[WalkSteps]
<1>0. PICK N \in Nat : N = WalkSteps
  BY StepsType
<1>1. PICK start \in Walkable(l) : start = [at |-> <<>>, rest |-> p, links |-> 0]
  <2>1. <<>> \in Seq(Names) /\ Len(<<>>) = 0 /\ MaxDepth \in Nat /\ Len(p) <= MaxDepth /\ Len(p) \in Nat
    BY EmptySeq, PathIs, LenProperties, VfsBounds
  <2>2. <<>> \in Paths
    BY RootPath
  <2>3. [at |-> <<>>, rest |-> p, links |-> 0] \in Good
    BY <2>1, <2>2 DEF Good, Walkers
  <2> QED
    BY <2>1, <2>3 DEF Walkable, NoLink
<1>2. PICK step : step = [i \in 1 .. N |-> [w \in Walkable(l) |-> WalkStep(l, w)]]
  OBVIOUS
<1>3. \A i \in 1 .. N : \A w \in Walkable(l) : step[i][w] = WalkStep(l, w) /\ step[i][w] \in Walkable(l)
  BY <1>2, WalkStepIs
<1>4. PICK h : Runs(h, N, Walkable(l), start, step)
  BY <1>3, Iterates
<1>5. /\ h \in [0 .. N -> Walkable(l)] /\ h[0] = start
      /\ \A i \in 1 .. N : h[i - 1] \in Walkable(l) /\ h[i] = WalkStep(l, h[i - 1])
  BY <1>3, <1>4 DEF Runs
<1>6. h = [i \in 0 .. N |-> IF i = 0 THEN start ELSE WalkStep(l, h[i - 1])]
  BY <1>5
<1>7. PICK f : f = CHOOSE g : g = [i \in 0 .. N |-> IF i = 0 THEN start ELSE WalkStep(l, g[i - 1])]
  OBVIOUS
<1>8. f = [i \in 0 .. N |-> IF i = 0 THEN start ELSE WalkStep(l, f[i - 1])]
  BY <1>6, <1>7
<1>9. f[0] = start /\ \A i \in 1 .. N : f[i] = WalkStep(l, f[i - 1])
  <2>1. \A i \in 0 .. N : f[i] = IF i = 0 THEN start ELSE WalkStep(l, f[i - 1])
    BY <1>8
  <2>2. \A i \in 1 .. N : i \in 0 .. N /\ i # 0
    OBVIOUS
  <2> QED
    BY <2>1, <2>2
<1>10. \A i \in 0 .. N : f[i] \in Walkable(l)
  <2> DEFINE S == {i \in 0 .. N : f[i] \in Walkable(l)}
  <2>1. 0 \in S /\ S \in SUBSET (0 .. N)
    BY <1>9
  <2>2. ASSUME NEW i \in S, i < N PROVE i + 1 \in S
    <3>1. f[i + 1] = WalkStep(l, f[i]) /\ f[i] \in Walkable(l) /\ i + 1 \in 0 .. N
      BY <1>9, <2>2
    <3> QED
      BY <3>1, WalkStepIs
  <2> HIDE DEF S
  <2>3. \A i \in 0 .. N : i \in S
    BY <2>1, <2>2, Climb
  <2> QED
    BY <2>3 DEF S
<1>11. f = [i \in 0 .. N |-> f[i]]
  BY <1>8
<1>12. Walked(f, l, p)
  BY <1>0, <1>1, <1>9, <1>10, <1>11 DEF Walked
<1>13. WalkPath(l, p) = f[WalkSteps]
  BY <1>0, <1>1, <1>7 DEF WalkPath
<1> QED
  BY <1>12, <1>13

\* The walk at step i and the rounds: they agree until the rounds run out of
\* links, and a walk that has names left has used its steps on links.
KeepsUp(l, path, w, i) ==
    /\ w.links <= MaxLink + 1 => path[w.links] = w.at \o w.rest
    /\ w.links > MaxLink + 1 => LinkPrefixes(l, path[MaxLink + 1]) # {}
    /\ w.rest = <<>> \/ i <= w.links * MaxDepth + Len(w.at)

LEMMA StepKeepsUp ==
  ASSUME NEW l \in Partial(Paths, Targets), NEW p \in Paths, NEW path, Rounds(path, l, p),
         NEW i \in Nat, NEW w \in Walkable(l), NEW v, v = WalkStep(l, w), KeepsUp(l, path, w, i)
  PROVE  KeepsUp(l, path, v, i + 1)
<1>1. /\ v \in Walkable(l) /\ w.at \o w.rest \in Paths
      /\ w.rest = <<>> => v = w
      /\ w.rest # <<>> => /\ Len(w.at) + 1 <= MaxDepth
                          /\ \/ Stays(v, w) /\ Len(v.at) = Len(w.at) + 1
                             \/ Follows(l, v, w)
  BY WalkStepIs
<1>2. MaxLink \in Nat /\ MaxDepth \in Nat /\ w.links \in Nat /\ Len(w.at) \in Nat
  BY StepsType, PathIs, LenProperties DEF Walkable, Good, Walkers
<1>3. CASE w.rest = <<>>
  BY <1>1, <1>3 DEF KeepsUp
<1>4. CASE w.rest # <<>> /\ Stays(v, w) /\ Len(v.at) = Len(w.at) + 1
  <2>1. i + 1 <= v.links * MaxDepth + Len(v.at)
    <3>1. PICK m \in Nat : m = w.links * MaxDepth
      BY <1>2
    <3>2. i <= m + Len(w.at) /\ v.links * MaxDepth = m
      BY <1>4, <3>1 DEF KeepsUp, Stays
    <3>3. PICK a \in Nat : a = Len(w.at)
      BY <1>2
    <3>4. m \in Nat /\ a \in Nat
      BY <3>1, <3>3
    <3>5. i <= m + a
      BY <3>2, <3>3
    <3>6. i + 1 <= m + (a + 1)
      BY <3>4, <3>5
    <3> QED
      BY <1>4, <3>2, <3>3, <3>6
  <2> QED
    BY <1>4, <2>1 DEF KeepsUp, Stays
<1>5. CASE w.rest # <<>> /\ Follows(l, v, w)
  <2>1. PICK q \in Paths : q = w.at \o w.rest
    BY <1>1
  <2>2. /\ v.links = w.links + 1 /\ v.at = <<>> /\ v.at \o v.rest = Follow(l, q) /\ LinkPrefixes(l, q) # {}
    BY <1>5, <2>1 DEF Follows
  <2>3. ASSUME v.links <= MaxLink + 1 PROVE path[v.links] = v.at \o v.rest
    <3>1. w.links <= MaxLink + 1 /\ v.links \in 1 .. MaxLink + 1 /\ v.links - 1 = w.links
      BY <1>2, <2>2, <2>3
    <3>2. path[w.links] = q
      BY <2>1, <3>1 DEF KeepsUp
    <3>3. path[v.links] = [x \in Paths |-> Follow(l, x)][q]
      BY <3>1, <3>2 DEF Rounds, Walk
    <3> QED
      BY <2>2, <3>3
  <2>4. ASSUME v.links > MaxLink + 1 PROVE LinkPrefixes(l, path[MaxLink + 1]) # {}
    <3>1. CASE w.links > MaxLink + 1
      BY <3>1 DEF KeepsUp
    <3>2. CASE w.links <= MaxLink + 1
      <4>1. w.links = MaxLink + 1
        BY <1>2, <2>2, <2>4, <3>2
      <4>2. path[MaxLink + 1] = q
        BY <2>1, <3>2, <4>1 DEF KeepsUp
      <4> QED
        BY <2>2, <4>2
    <3> QED
      BY <1>2, <3>1, <3>2
  <2>5. i + 1 <= v.links * MaxDepth + Len(v.at)
    <3>1. PICK m \in Nat : m = w.links * MaxDepth
      BY <1>2
    <3>2. (w.links + 1) * MaxDepth = m + MaxDepth
      BY <1>2, <3>1
    <3>3. i <= m + Len(w.at) /\ Len(w.at) + 1 <= MaxDepth
      BY <1>1, <1>5, <3>1 DEF KeepsUp
    <3>4. v.links * MaxDepth = m + MaxDepth /\ Len(v.at) = 0
      <4>1. Len(<<>>) = 0
        BY EmptySeq
      <4> QED
        BY <2>2, <3>2, <4>1
    <3> QED
      BY <1>2, <3>3, <3>4
  <2> QED
    BY <2>3, <2>4, <2>5 DEF KeepsUp
<1> QED
  BY <1>1, <1>3, <1>4, <1>5

LEMMA WalkKeepsUp ==
  ASSUME NEW l \in Partial(Paths, Targets), NEW p \in Paths, NEW path, Rounds(path, l, p),
         NEW walk, Walked(walk, l, p)
  PROVE  KeepsUp(l, path, walk[WalkSteps], WalkSteps)
<1>0. PICK N \in Nat : N = WalkSteps
  BY StepsType
<1> DEFINE S == {i \in 0 .. N : KeepsUp(l, path, walk[i], i)}
<1>1. 0 \in S
  <2>1. walk[0] = [at |-> <<>>, rest |-> p, links |-> 0] /\ path[0] = p /\ MaxLink \in Nat /\ MaxDepth \in Nat
    BY StepsType DEF Walked, Rounds, Walk
  <2>2. <<>> \o p = p /\ Len(<<>>) = 0
    BY PathIs, ConcatEmptySeq, EmptySeq
  <2>3. walk[0].links = 0 /\ walk[0].at = <<>> /\ walk[0].rest = p
    BY <2>1
  <2>4. 0 * MaxDepth = 0
    BY <2>1
  <2>5. KeepsUp(l, path, walk[0], 0)
    BY <2>1, <2>2, <2>3, <2>4 DEF KeepsUp
  <2> QED
    BY <2>5
<1>2. ASSUME NEW i \in S, i < N PROVE i + 1 \in S
  <2>1. i \in Nat /\ i + 1 \in 1 .. N /\ (i + 1) - 1 = i /\ i \in 0 .. N
    BY <1>2
  <2>2. walk[i] \in Walkable(l) /\ walk[i + 1] = WalkStep(l, walk[i])
    BY <1>0, <2>1 DEF Walked
  <2>3. KeepsUp(l, path, walk[i], i)
    BY <1>2
  <2>4. KeepsUp(l, path, walk[i + 1], i + 1)
    BY <2>1, <2>2, <2>3, StepKeepsUp
  <2> QED
    BY <2>1, <2>4
<1>3. S \in SUBSET (0 .. N)
  OBVIOUS
<1> HIDE DEF S
<1>4. \A i \in 0 .. N : i \in S
  BY <1>1, <1>2, <1>3, Climb
<1> QED
  BY <1>0, <1>4 DEF S

\* Once no prefix of a path is a link the rounds leave it alone.
LEMMA RoundsEnd ==
  ASSUME NEW l \in Partial(Paths, Targets), NEW p \in Paths, NEW path, Rounds(path, l, p),
         NEW k \in 0 .. MaxLink + 1, LinkPrefixes(l, path[k]) = {}
  PROVE  path[MaxLink + 1] = path[k]
<1>0. PICK N \in Nat : N = MaxLink + 1
  BY StepsType
<1> DEFINE S == {i \in 0 .. N : i >= k => path[i] = path[k]}
<1>1. /\ path \in [0 .. N -> Paths] /\ k \in 0 .. N
      /\ \A i \in 1 .. N : path[i] = [q \in Paths |-> Follow(l, q)][path[i - 1]]
  BY <1>0 DEF Rounds, Walk
<1>2. 0 \in S
  BY <1>1
<1>3. ASSUME NEW i \in S, i < N PROVE i + 1 \in S
  <2>1. i + 1 \in 1 .. N /\ (i + 1) - 1 = i /\ i \in 0 .. N
    BY <1>3
  <2>2. ASSUME i + 1 >= k PROVE path[i + 1] = path[k]
    <3>1. CASE i + 1 = k
      BY <3>1
    <3>2. CASE i >= k
      <4>1. path[i] = path[k] /\ path[k] \in Paths
        BY <1>1, <1>3, <3>2
      <4>2. path[i + 1] = Follow(l, path[k])
        BY <1>1, <2>1, <4>1
      <4> QED
        BY <4>2 DEF Follow
    <3> QED
      BY <1>1, <2>1, <2>2, <3>1, <3>2
  <2> QED
    BY <2>1, <2>2
<1>4. S \in SUBSET (0 .. N)
  OBVIOUS
<1> HIDE DEF S
<1>5. \A i \in 0 .. N : i \in S
  BY <1>2, <1>3, <1>4, Climb
<1>6. N \in S
  BY <1>5
<1>7. N >= k
  BY <1>1
<1> QED
  BY <1>0, <1>6, <1>7 DEF S

\* resolvePath returns where the walk ends, or a path with a link in it.
LEMMA ResolvedIsWalked ==
  ASSUME NEW l \in Partial(Paths, Targets), NEW p \in Paths, NEW w, w = WalkPath(l, p)
  PROVE  IF w.links > MaxLink + 1
         THEN LinkPrefixes(l, resolvePath(l, p)) # {}
         ELSE w.rest = <<>> /\ resolvePath(l, p) = w.at
<1>1. PICK path : Rounds(path, l, p) /\ resolvePath(l, p) = path[MaxLink + 1]
  BY ResolvedPath
<1>2. PICK walk : Walked(walk, l, p) /\ w = walk[WalkSteps]
  BY WalkIs
<1>3. KeepsUp(l, path, w, WalkSteps)
  BY <1>1, <1>2, WalkKeepsUp
<1>4. w \in Walkable(l) /\ WalkSteps \in Nat /\ MaxLink \in Nat /\ MaxDepth \in Nat
  BY <1>2, StepsType DEF Walked
<1>5. w.links \in Nat /\ w.at \in Seq(Names) /\ w.rest \in Seq(Names) /\ NoLink(l, w.at) /\ Len(w.at) + Len(w.rest) <= MaxDepth
  BY <1>4, PathIs DEF Walkable, Good, Walkers
<1>6. CASE w.links > MaxLink + 1
  BY <1>1, <1>3, <1>6 DEF KeepsUp
<1>7. CASE ~(w.links > MaxLink + 1)
  <2>1. w.rest = <<>>
    <3> SUFFICES ASSUME w.rest # <<>> PROVE FALSE
      OBVIOUS
    <3>1. Len(w.at) \in Nat /\ Len(w.rest) \in Nat \ {0}
      BY <1>5, EmptySeq, LenProperties
    <3>2. PICK a \in Nat, b \in Nat : a = Len(w.at) /\ b = Len(w.rest) /\ b # 0 /\ a + b <= MaxDepth
      BY <1>5, <3>1
    <3>3. WalkSteps <= w.links * MaxDepth + a
      BY <1>3, <3>2 DEF KeepsUp
    <3>4. w.links <= MaxLink + 1
      BY <1>4, <1>5, <1>7
    <3>5. w.links * MaxDepth <= (MaxLink + 1) * MaxDepth
      <4>1. PICK k \in Nat, m \in Nat, d \in Nat : k = w.links /\ m = MaxLink + 1 /\ d = MaxDepth /\ k <= m
        BY <1>4, <1>5, <3>4
      <4>2. (m - k) * d >= 0 /\ (m - k) * d = m * d - k * d
        BY <4>1
      <4> QED
        BY <4>1, <4>2
    <3>6. WalkSteps = (MaxLink + 1) * MaxDepth + MaxDepth
      BY <1>4 DEF WalkSteps
    <3>7. PICK x \in Nat, y \in Nat, n \in Nat, d \in Nat :
             x = w.links * MaxDepth /\ y = (MaxLink + 1) * MaxDepth /\ n = WalkSteps /\ d = MaxDepth
      BY <1>4, <1>5
    <3>8. n <= x + a /\ x <= y /\ n = y + d /\ a + b <= d /\ b # 0
      BY <3>2, <3>3, <3>5, <3>6, <3>7
    <3> QED
      BY <3>8
  <2>2. w.links \in 0 .. MaxLink + 1 /\ path[w.links] = w.at \o w.rest
    <3>1. w.links <= MaxLink + 1
      BY <1>4, <1>5, <1>7
    <3>2. path[w.links] = w.at \o w.rest
      BY <1>3, <3>1 DEF KeepsUp
    <3> QED
      BY <1>4, <1>5, <3>1, <3>2
  <2>3. w.at \o w.rest = w.at
    BY <1>5, <2>1, ConcatEmptySeq
  <2>4. LinkPrefixes(l, w.at) = {}
    BY <1>5 DEF LinkPrefixes, NoLink
  <2>5. path[MaxLink + 1] = w.at
    BY <1>1, <2>2, <2>3, <2>4, RoundsEnd
  <2> QED
    BY <1>1, <1>7, <2>1, <2>5
<1> QED
  BY <1>6, <1>7

-----------------------------------------------------------------------------
(* The methods of the name space. *)
LEMMA Fields ==
  ASSUME NEW n \in NameSpaces
  PROVE  /\ n.files \in Partial(Paths, Bufs) /\ n.dirs \subseteq Paths /\ n.links \in Partial(Paths, Targets)
         /\ n.white \subseteq Paths /\ n.children \in Partial(Paths, SUBSET Names)
BY DEF NameSpaces

\* A method replaces some of the maps.
Replaced(n, f, d, l, w, c) == [n EXCEPT !.files = f, !.dirs = d, !.links = l, !.white = w, !.children = c]
LEMMA ReplacedType ==
  ASSUME NEW n \in NameSpaces, NEW f \in Partial(Paths, Bufs), NEW d \in SUBSET Paths, NEW l \in Partial(Paths, Targets),
         NEW w \in SUBSET Paths, NEW c \in Partial(Paths, SUBSET Names)
  PROVE  Replaced(n, f, d, l, w, c) \in NameSpaces
BY DEF NameSpaces, Replaced

LEMMA ParentPath ==
  ASSUME NEW p \in Paths, p # <<>>
  PROVE  Parent(p) \in Paths /\ Base(p) \in Names
<1>1. p \in Seq(Names) /\ Len(p) \in Nat /\ Len(p) # 0
  BY PathIs
<1>2. Len(p) - 1 \in 0 .. Len(p) /\ Len(p) \in 1 .. Len(p)
  BY <1>1
<1> QED
  BY <1>1, <1>2, PrefixPath DEF Parent, Base

LEMMA AddChildType ==
  ASSUME NEW ch \in Partial(Paths, SUBSET Names), NEW p \in Paths
  PROVE  addChild(ch, p) \in Partial(Paths, SUBSET Names)
<1>1. PICK d \in Paths : d = IF p = <<>> THEN <<>> ELSE Parent(p)
  BY ParentPath, RootPath
<1>2. PICK old \in SUBSET Names : old = IF d \in DOMAIN ch THEN ch[d] ELSE {}
  BY PartialIs
<1>3. PICK new \in SUBSET Names : new = old \cup (IF p = <<>> THEN {} ELSE {Base(p)})
  BY ParentPath
<1>4. addChild(ch, p) = With(ch, d, new)
  BY <1>1, <1>2, <1>3 DEF addChild
<1> QED
  BY <1>4, WithPartial

LEMMA RemoveChildType ==
  ASSUME NEW ch \in Partial(Paths, SUBSET Names), NEW p \in Paths
  PROVE  removeChild(ch, p) \in Partial(Paths, SUBSET Names)
<1>1. PICK d \in Paths : d = IF p = <<>> THEN <<>> ELSE Parent(p)
  BY ParentPath, RootPath
<1>2. CASE d \in DOMAIN ch /\ p # <<>>
  <2>1. removeChild(ch, p) = [ch EXCEPT ![d] = @ \ {Base(p)}]
    BY <1>1, <1>2 DEF removeChild
  <2>2. DOMAIN ch \subseteq Paths /\ \A x \in DOMAIN ch : ch[x] \subseteq Names
    BY PartialIs
  <2>3. DOMAIN removeChild(ch, p) = DOMAIN ch /\ \A x \in DOMAIN ch : removeChild(ch, p)[x] \subseteq ch[x]
    BY <1>2, <2>1
  <2>4. removeChild(ch, p) = [x \in DOMAIN removeChild(ch, p) |-> removeChild(ch, p)[x]]
    BY <2>1
  <2>5. DOMAIN removeChild(ch, p) \subseteq Paths /\ \A x \in DOMAIN removeChild(ch, p) : removeChild(ch, p)[x] \in SUBSET Names
    BY <2>2, <2>3
  <2> QED
    BY <2>4, <2>5, PartialIs
<1>3. CASE ~(d \in DOMAIN ch /\ p # <<>>)
  BY <1>1, <1>3 DEF removeChild
<1> QED
  BY <1>2, <1>3

LEMMA RegisterDirType ==
  ASSUME NEW n \in NameSpaces, NEW d \in Paths
  PROVE  registerDir(n, d) \in NameSpaces /\ registerDir(n, d).files = n.files
<1>1. CASE d \notin n.dirs
  <2>1. PICK c \in Partial(Paths, SUBSET Names) :
           c = IF d \in DOMAIN n.children THEN n.children ELSE With(n.children, d, {})
    BY Fields, WithPartial
  <2>2. PICK a \in Partial(Paths, SUBSET Names) : a = addChild(c, d)
    BY AddChildType
  <2>3. registerDir(n, d) = [n EXCEPT !.dirs = n.dirs \cup {d}, !.children = a]
    BY <1>1, <2>1, <2>2 DEF registerDir
  <2> QED
    BY <2>3 DEF NameSpaces
<1>2. CASE d \in n.dirs
  BY <1>2 DEF registerDir
<1> QED
  BY <1>1, <1>2

LEMMA RegisterParentsType ==
  ASSUME NEW n \in NameSpaces, NEW p \in Paths
  PROVE  registerParents(n, p) \in NameSpaces /\ registerParents(n, p).files = n.files
<1>1. Len(p) \in Nat /\ \A k \in 1 .. Len(p) : Prefix(p, k - 1) \in Paths
  BY PathIs, PrefixPath
<1>2. PICK up : up = CHOOSE u : u = [k \in 0 .. Len(p) |-> IF k = 0 THEN n ELSE registerDir(u[k - 1], Prefix(p, k - 1))]
  OBVIOUS
<1>3. registerParents(n, p) = up[Len(p)]
  BY <1>2 DEF registerParents
<1>4. PICK step : step = [k \in 1 .. Len(p) |-> [x \in NameSpaces |-> registerDir(x, Prefix(p, k - 1))]]
  OBVIOUS
<1>5. \A k \in 1 .. Len(p) : \A x \in NameSpaces : step[k][x] = registerDir(x, Prefix(p, k - 1))
  BY <1>4
<1>6. PICK h : Runs(h, Len(p), NameSpaces, n, step)
  <2>1. \A k \in 1 .. Len(p) : \A x \in NameSpaces : step[k][x] \in NameSpaces
    BY <1>1, <1>5, RegisterDirType
  <2> QED
    BY <1>1, <2>1, Iterates
<1>7. h = [k \in 0 .. Len(p) |-> IF k = 0 THEN n ELSE registerDir(h[k - 1], Prefix(p, k - 1))]
  <2>1. h \in [0 .. Len(p) -> NameSpaces] /\ h[0] = n
    BY <1>6 DEF Runs
  <2>2. ASSUME NEW k \in 1 .. Len(p) PROVE h[k] = registerDir(h[k - 1], Prefix(p, k - 1))
    <3>1. k - 1 \in 0 .. Len(p) /\ h[k - 1] \in NameSpaces /\ h[k] = step[k][h[k - 1]]
      BY <1>1, <1>6, <2>1 DEF Runs
    <3> QED
      BY <1>5, <3>1
  <2> QED
    BY <1>1, <2>1, <2>2
<1>8. up = [k \in 0 .. Len(p) |-> IF k = 0 THEN n ELSE registerDir(up[k - 1], Prefix(p, k - 1))]
  BY <1>2, <1>7
<1>9. \A k \in 0 .. Len(p) : up[k] = IF k = 0 THEN n ELSE registerDir(up[k - 1], Prefix(p, k - 1))
  BY ONLY <1>1, <1>8
<1> DEFINE S == {k \in 0 .. Len(p) : up[k] \in NameSpaces /\ up[k].files = n.files}
<1>10. 0 \in S
  BY <1>1, <1>9
<1>11. ASSUME NEW k \in S, k < Len(p) PROVE k + 1 \in S
  <2>1. k + 1 \in 1 .. Len(p) /\ k + 1 # 0 /\ (k + 1) - 1 = k /\ up[k] \in NameSpaces /\ up[k].files = n.files
    BY <1>1, <1>11
  <2>2. up[k + 1] = registerDir(up[k], Prefix(p, k)) /\ Prefix(p, k) \in Paths
    BY <1>1, <1>9, <2>1
  <2> QED
    BY <2>1, <2>2, RegisterDirType
<1>12. Len(p) \in S
  <2>1. S \in SUBSET (0 .. Len(p)) /\ Len(p) \in 0 .. Len(p)
    BY <1>1
  <2> HIDE DEF S
  <2> QED
    BY <1>1, <1>10, <1>11, <2>1, Climb
<1> QED
  BY <1>3, <1>12

LEMMA AddFileType ==
  ASSUME NEW n \in NameSpaces, NEW p \in Paths, NEW b \in Bufs
  PROVE  addFile(n, p, b) \in NameSpaces /\ addFile(n, p, b).files = With(n.files, p, b)
<1>1. PICK f \in Partial(Paths, Bufs) : f = With(n.files, p, b)
  BY Fields, WithPartial
<1>2. PICK n1 \in NameSpaces : n1 = [n EXCEPT !.files = f, !.white = n.white \ {p}] /\ n1.files = f
  <2>1. [n EXCEPT !.files = f, !.white = n.white \ {p}] = Replaced(n, f, n.dirs, n.links, n.white \ {p}, n.children)
    BY DEF NameSpaces, Replaced
  <2>2. n.dirs \in SUBSET Paths /\ n.links \in Partial(Paths, Targets) /\ n.white \ {p} \in SUBSET Paths
        /\ n.children \in Partial(Paths, SUBSET Names)
    BY Fields
  <2>3. Replaced(n, f, n.dirs, n.links, n.white \ {p}, n.children) \in NameSpaces
    BY <2>2, ReplacedType
  <2>4. [n EXCEPT !.files = f, !.white = n.white \ {p}].files = f
    BY DEF NameSpaces
  <2> QED
    BY <2>1, <2>3, <2>4
<1>3. PICK n2 \in NameSpaces : n2 = registerParents(n1, p) /\ n2.files = f
  BY <1>2, RegisterParentsType
<1>4. PICK c \in Partial(Paths, SUBSET Names) : c = addChild(n2.children, p)
  BY Fields, AddChildType
<1>5. addFile(n, p, b) = [n2 EXCEPT !.children = c]
  BY <1>1, <1>2, <1>3, <1>4 DEF addFile
<1> QED
  BY <1>1, <1>3, <1>5 DEF NameSpaces

LEMMA MkdirType ==
  ASSUME NEW n \in NameSpaces, NEW p \in Paths
  PROVE  mkdir(n, p) \in NameSpaces /\ mkdir(n, p).files = n.files
<1>1. PICK n1 \in NameSpaces : n1 = registerDir(n, p) /\ n1.files = n.files
  BY RegisterDirType
<1>2. PICK n2 \in NameSpaces : n2 = registerParents(n1, p) /\ n2.files = n.files
  BY <1>1, RegisterParentsType
<1>3. mkdir(n, p) = [n2 EXCEPT !.white = n2.white \ {p}]
  BY <1>1, <1>2 DEF mkdir
<1> QED
  BY <1>2, <1>3 DEF NameSpaces

LEMMA UnlinkType ==
  ASSUME NEW n \in NameSpaces, NEW p \in Paths
  PROVE  unlink(n, p) \in NameSpaces /\ unlink(n, p).files = Without(n.files, p)
<1>1. PICK f \in Partial(Paths, Bufs) : f = Without(n.files, p)
  BY Fields, WithoutPartial
<1>2. PICK l \in Partial(Paths, Targets) : l = Without(n.links, p)
  BY Fields, WithoutPartial
<1>3. PICK c \in Partial(Paths, SUBSET Names) : c = removeChild(n.children, p)
  BY Fields, RemoveChildType
<1>4. unlink(n, p) = [n EXCEPT !.files = f, !.links = l, !.white = n.white \cup {p}, !.children = c]
  BY <1>1, <1>2, <1>3 DEF unlink
<1>5. unlink(n, p) = Replaced(n, f, n.dirs, l, n.white \cup {p}, c)
  BY <1>4 DEF NameSpaces, Replaced
<1>6. n.dirs \in SUBSET Paths /\ n.white \cup {p} \in SUBSET Paths
  BY Fields
<1>7. unlink(n, p) \in NameSpaces
  BY <1>5, <1>6, ReplacedType
<1>8. unlink(n, p).files = f
  BY <1>4 DEF NameSpaces
<1> QED
  BY <1>1, <1>7, <1>8

LEMMA RmdirType ==
  ASSUME NEW n \in NameSpaces, NEW p \in Paths
  PROVE  rmdir(n, p) \in NameSpaces /\ rmdir(n, p).files = n.files
<1>1. PICK c1 \in Partial(Paths, SUBSET Names) : c1 = Without(n.children, p)
  BY Fields, WithoutPartial
<1>2. PICK c2 \in Partial(Paths, SUBSET Names) : c2 = removeChild(c1, p)
  BY RemoveChildType
<1>3. rmdir(n, p) = [n EXCEPT !.dirs = n.dirs \ {p}, !.white = n.white \cup {p}, !.children = c2]
  BY <1>1, <1>2 DEF rmdir
<1>4. rmdir(n, p) = Replaced(n, n.files, n.dirs \ {p}, n.links, n.white \cup {p}, c2)
  BY <1>3 DEF NameSpaces, Replaced
<1>5. /\ n.files \in Partial(Paths, Bufs) /\ n.dirs \ {p} \in SUBSET Paths /\ n.links \in Partial(Paths, Targets)
      /\ n.white \cup {p} \in SUBSET Paths
  BY Fields
<1>6. rmdir(n, p) \in NameSpaces
  BY <1>4, <1>5, ReplacedType
<1>7. rmdir(n, p).files = n.files
  BY <1>3 DEF NameSpaces
<1> QED
  BY <1>6, <1>7

LEMMA SymlinkType ==
  ASSUME NEW n \in NameSpaces, NEW p \in Paths, NEW target \in Targets
  PROVE  createSymlink(n, target, p) \in NameSpaces /\ createSymlink(n, target, p).files = n.files
<1>1. PICK l \in Partial(Paths, Targets) : l = With(n.links, p, target)
  BY Fields, WithPartial
<1>2. PICK c \in Partial(Paths, SUBSET Names) : c = addChild(n.children, p)
  BY Fields, AddChildType
<1>3. createSymlink(n, target, p) =
        [n EXCEPT !.links = l, !.dirs = n.dirs \cup {p}, !.white = n.white \ {p}, !.children = c]
  BY <1>1, <1>2 DEF createSymlink
<1>4. createSymlink(n, target, p) = Replaced(n, n.files, n.dirs \cup {p}, l, n.white \ {p}, c)
  BY <1>3 DEF NameSpaces, Replaced
<1>5. n.files \in Partial(Paths, Bufs) /\ n.dirs \cup {p} \in SUBSET Paths /\ n.white \ {p} \in SUBSET Paths
  BY Fields
<1>6. createSymlink(n, target, p) \in NameSpaces
  BY <1>4, <1>5, ReplacedType
<1>7. createSymlink(n, target, p).files = n.files
  BY <1>3 DEF NameSpaces
<1> QED
  BY <1>6, <1>7

LEMMA RenameType ==
  ASSUME NEW n \in NameSpaces, NEW p \in Paths, NEW q \in Paths
  PROVE  rename(n, p, q) \in NameSpaces /\ rename(n, p, q).files = Move(n.files, p, q)
<1>1. PICK f \in Partial(Paths, Bufs) : f = Move(n.files, p, q)
  BY Fields, MovePartial
<1>2. PICK l \in Partial(Paths, Targets) : l = Move(n.links, p, q)
  BY Fields, MovePartial
<1>3. PICK d \in SUBSET Paths : d = IF p \in n.dirs THEN (n.dirs \ {p}) \cup {q} ELSE n.dirs
  BY Fields
<1>4. PICK c1 \in Partial(Paths, SUBSET Names) :
         c1 = IF p \in n.dirs /\ p \in DOMAIN n.children THEN With(Without(n.children, p), q, n.children[p]) ELSE n.children
  <2>1. CASE p \in n.dirs /\ p \in DOMAIN n.children
    <3>1. PICK w \in Partial(Paths, SUBSET Names) : w = Without(n.children, p)
      BY Fields, WithoutPartial
    <3>2. n.children[p] \in SUBSET Names
      BY <2>1, Fields, PartialIs
    <3>3. PICK x \in SUBSET Names : x = n.children[p]
      BY <3>2
    <3> QED
      BY <2>1, <3>1, <3>3, WithPartial
  <2>2. CASE ~(p \in n.dirs /\ p \in DOMAIN n.children)
    BY <2>2, Fields
  <2> QED
    BY <2>1, <2>2
<1>5. PICK n1 \in NameSpaces : n1 = [n EXCEPT !.files = f, !.links = l, !.dirs = d, !.children = c1] /\ n1.files = f /\ n1.children = c1
  <2>1. [n EXCEPT !.files = f, !.links = l, !.dirs = d, !.children = c1] =
          Replaced(n, f, d, l, n.white, c1)
    BY DEF NameSpaces, Replaced
  <2>2. n.white \in SUBSET Paths
    BY Fields
  <2>3. [n EXCEPT !.files = f, !.links = l, !.dirs = d, !.children = c1] \in NameSpaces
    <3>1. Replaced(n, f, d, l, n.white, c1) \in NameSpaces
      BY <2>2, ReplacedType
    <3> QED
      BY <2>1, <3>1
  <2>4. PICK n1 : n1 = [n EXCEPT !.files = f, !.links = l, !.dirs = d, !.children = c1]
    OBVIOUS
  <2>5. n1.files = f /\ n1.children = c1
    BY <2>4 DEF NameSpaces
  <2> QED
    BY <2>3, <2>4, <2>5
<1>6. PICK c2 \in Partial(Paths, SUBSET Names) : c2 = removeChild(c1, p)
  BY RemoveChildType
<1>7. PICK c3 \in Partial(Paths, SUBSET Names) : c3 = addChild(c2, q)
  BY AddChildType
<1>8. PICK n2 \in NameSpaces : n2 = [n1 EXCEPT !.children = c3] /\ n2.files = f
  <2>1. [n1 EXCEPT !.children = c3] =
          Replaced(n1, f, n1.dirs, n1.links, n1.white, c3)
    BY <1>5 DEF NameSpaces, Replaced
  <2>2. n1.dirs \in SUBSET Paths /\ n1.links \in Partial(Paths, Targets) /\ n1.white \in SUBSET Paths
    BY Fields
  <2>3. [n1 EXCEPT !.children = c3] \in NameSpaces
    <3>1. n1.files \in Partial(Paths, Bufs) /\ f = n1.files
      BY <1>5, Fields
    <3>2. Replaced(n1, f, n1.dirs, n1.links, n1.white, c3) \in NameSpaces
      BY <2>2, <3>1, ReplacedType
    <3> QED
      BY <2>1, <3>2
  <2>4. [n1 EXCEPT !.children = c3].files = f
    BY <1>5 DEF NameSpaces
  <2> QED
    BY <2>3, <2>4
<1>9. PICK r \in NameSpaces : r = registerParents(n2, q) /\ r.files = f
  BY <1>8, RegisterParentsType
<1>10. n1 = [n EXCEPT !.files = Move(@, p, q), !.links = Move(@, p, q),
                       !.dirs = IF p \in @ THEN (@ \ {p}) \cup {q} ELSE @,
                       !.children = IF p \in n.dirs /\ p \in DOMAIN @
                                    THEN With(Without(@, p), q, @[p]) ELSE @]
  BY <1>1, <1>2, <1>3, <1>4, <1>5
<1>11. n2 = [n1 EXCEPT !.children = addChild(removeChild(@, p), q)]
  BY <1>5, <1>6, <1>7, <1>8
<1>12. rename(n, p, q) = [r EXCEPT !.white = (r.white \cup {p}) \ {q}]
  BY <1>9, <1>10, <1>11 DEF rename
<1> QED
  BY <1>1, <1>9, <1>12 DEF NameSpaces

-----------------------------------------------------------------------------
(* Buffers and open files. *)
LEMMA ImageOf ==
  ASSUME NEW D, IsFiniteSet(D), NEW g, g = [x \in D |-> g[x]]
  PROVE  /\ IsFiniteSet({g[x] : x \in D}) /\ Cardinality({g[x] : x \in D}) <= Cardinality(D)
         /\ Cardinality({g[x] : x \in D}) \in Nat
<1>1. g \in Surjection(D, {g[x] : x \in D})
  BY DEF Surjection
<1> QED
  BY <1>1, FS_Surjection, FS_CardinalityType

LEMMA FreshBufFree ==
  ASSUME IInv
  PROVE  FreshBuf \in Bufs /\ FreshBuf \notin Refs(ns, fds) /\ FreshBuf # NoBuf
<1> DEFINE F == {ns.files[x] : x \in DOMAIN ns.files}
           g == [o \in DOMAIN fds |-> fds[o].buf]
           O == {g[o] : o \in DOMAIN fds}
<1>1. Cardinality(Paths) \in Nat /\ MaxOpen \in Nat /\ IsFiniteSet(Paths)
  BY VfsBounds, FS_CardinalityType
<1>2. DOMAIN ns.files \subseteq Paths /\ ns.files = [x \in DOMAIN ns.files |-> ns.files[x]] /\ DOMAIN fds \subseteq Objects
  BY Fields, PartialIs DEF IInv
<1>3. IsFiniteSet(DOMAIN ns.files) /\ Cardinality(DOMAIN ns.files) <= Cardinality(Paths) /\ Cardinality(DOMAIN ns.files) \in Nat
  BY <1>1, <1>2, FS_Subset, FS_CardinalityType
<1>4. IsFiniteSet(Objects) /\ Cardinality(Objects) = MaxOpen
  BY <1>1, FS_Interval DEF Objects
<1>5. IsFiniteSet(DOMAIN fds) /\ Cardinality(DOMAIN fds) <= MaxOpen /\ Cardinality(DOMAIN fds) \in Nat
  BY <1>2, <1>4, FS_Subset, FS_CardinalityType
<1>6. IsFiniteSet(F) /\ Cardinality(F) <= Cardinality(DOMAIN ns.files) /\ Cardinality(F) \in Nat
  BY <1>2, <1>3, ImageOf
<1>7. IsFiniteSet(O) /\ Cardinality(O) <= Cardinality(DOMAIN fds) /\ Cardinality(O) \in Nat
  <2>1. g = [o \in DOMAIN fds |-> g[o]]
    OBVIOUS
  <2> HIDE DEF g
  <2> QED
    BY <1>5, <2>1, ImageOf
<1>8. Refs(ns, fds) = F \cup O
  BY DEF Refs, Range
<1>9. IsFiniteSet(F \cup O) /\ Cardinality(F \cup O) <= Cardinality(Paths) + MaxOpen /\ Cardinality(F \cup O) \in Nat
  <2>1. IsFiniteSet(F \cap O) /\ Cardinality(F \cap O) \in Nat
    <3> HIDE DEF F, O
    <3>1. IsFiniteSet(F \cap O)
      BY <1>6, FS_Intersection
    <3> QED
      BY <3>1, FS_CardinalityType
  <2>2. IsFiniteSet(F \cup O) /\ Cardinality(F \cup O) = Cardinality(F) + Cardinality(O) - Cardinality(F \cap O)
    <3> HIDE DEF F, O
    <3> QED
      BY <1>6, <1>7, FS_Union
  <2> HIDE DEF F, O
  <2>3. Cardinality(F \cup O) \in Nat
    BY <2>2, FS_CardinalityType
  <2>4. Cardinality(F) + Cardinality(O) <= Cardinality(Paths) + MaxOpen
    BY <1>1, <1>3, <1>5, <1>6, <1>7
  <2> QED
    BY <1>1, <1>6, <1>7, <2>1, <2>2, <2>3, <2>4
<1>10. Bufs = 1 .. Cardinality(Paths) + MaxOpen + 1 /\ IsFiniteSet(Bufs) /\ Cardinality(Bufs) = Cardinality(Paths) + MaxOpen + 1
  BY <1>1, FS_Interval DEF Bufs
<1>11. ~(Bufs \subseteq Refs(ns, fds))
  <2> SUFFICES ASSUME Bufs \subseteq Refs(ns, fds) PROVE FALSE
    OBVIOUS
  <2>1. Cardinality(Bufs) <= Cardinality(F \cup O)
    <3> HIDE DEF F, O
    <3> QED
      BY <1>8, <1>9, FS_Subset
  <2> HIDE DEF F, O
  <2> QED
    BY <1>1, <1>9, <1>10, <2>1
<1>12. PICK k \in Nat : k = Cardinality(Paths) + MaxOpen + 1
  BY <1>1
<1>13. Bufs \ Refs(ns, fds) \in SUBSET (0 .. k) /\ Bufs \ Refs(ns, fds) # {}
  BY <1>10, <1>11, <1>12
<1>14. FreshBuf \in Bufs \ Refs(ns, fds)
  BY <1>13, LeastOf DEF FreshBuf
<1> QED
  BY <1>1, <1>10, <1>14 DEF NoBuf

LEMMA FreshObjectFree ==
  ASSUME IInv, DOMAIN fds # Objects
  PROVE  FreshObject \in Objects /\ FreshObject \notin DOMAIN fds
<1>1. DOMAIN fds \subseteq Objects /\ MaxOpen \in Nat
  BY PartialIs, VfsBounds DEF IInv
<1>2. Objects \ DOMAIN fds # {}
  BY <1>1
<1>3. Objects \ DOMAIN fds \in SUBSET (0 .. MaxOpen)
  BY <1>1 DEF Objects
<1> QED
  BY <1>1, <1>2, <1>3, LeastOf DEF FreshObject

LEMMA MaxIs ==
  ASSUME NEW a \in Nat, NEW b \in Nat
  PROVE  Max({a, b}) = IF a >= b THEN a ELSE b
BY DEF Max

LEMMA BytesIs ==
  ASSUME NEW s \in Bytes
  PROVE  Len(s) \in 0 .. MaxLen /\ s = [i \in 1 .. Len(s) |-> s[i]] /\ \A i \in 1 .. Len(s) : s[i] \in {0, 1}
<1>1. PICK n \in 0 .. MaxLen : s \in [1 .. n -> {0, 1}]
  BY DEF Bytes
<1>2. MaxLen \in Nat
  BY VfsBounds
<1>3. s \in Seq({0, 1}) /\ Len(s) = n
  BY <1>1, <1>2
<1> QED
  BY <1>1, <1>3

LEMMA PutType ==
  ASSUME NEW s \in Bytes, NEW off \in 0 .. MaxLen, off < MaxLen
  PROVE  PutByte(s, off, 1) \in Bytes
<1>1. MaxLen \in Nat /\ Len(s) \in 0 .. MaxLen /\ \A i \in 1 .. Len(s) : s[i] \in {0, 1}
  BY VfsBounds, BytesIs
<1>2. PICK n \in 0 .. MaxLen : n = Max({Len(s), off + 1})
  BY <1>1, MaxIs
<1>3. PutByte(s, off, 1) \in [1 .. n -> {0, 1}]
  BY <1>1, <1>2 DEF PutByte
<1> QED
  BY <1>3 DEF Bytes

LEMMA ResizeType ==
  ASSUME NEW s \in Bytes, NEW n \in 0 .. MaxLen
  PROVE  Resize(s, n) \in Bytes /\ (n = Len(s) => Resize(s, n) = s)
<1>1. Len(s) \in 0 .. MaxLen /\ s = [i \in 1 .. Len(s) |-> s[i]] /\ \A i \in 1 .. Len(s) : s[i] \in {0, 1}
  BY BytesIs
<1>2. Resize(s, n) \in [1 .. n -> {0, 1}]
  BY <1>1 DEF Resize
<1>3. ASSUME n = Len(s) PROVE Resize(s, n) = s
  <2>1. Resize(s, n) = [i \in 1 .. n |-> s[i]]
    BY <1>1, <1>3 DEF Resize
  <2> QED
    BY <1>1, <1>3, <2>1
<1> QED
  BY <1>2, <1>3 DEF Bytes

LEMMA HeapStep ==
  ASSUME NEW h \in [Bufs -> Bytes], SetHeap(h)
  PROVE  heap' \in [Bufs -> Bytes] /\ \A b \in Bufs : b \in Refs(ns', fds') => heap'[b] = h[b]
<1>1. <<>> \in Bytes
  <2>1. 0 \in 0 .. MaxLen /\ <<>> \in [1 .. 0 -> {0, 1}]
    BY VfsBounds
  <2> QED
    BY <2>1 DEF Bytes
<1> QED
  BY <1>1 DEF SetHeap

LEMMA ArgPath ==
  ASSUME IInv, NEW p \in Args
  PROVE  p \in Paths /\ Resolved(p) \in Paths
<1>1. p \in Paths /\ ns.links \in Partial(Paths, Targets)
  BY ArgsAssumption, Fields DEF IInv
<1> QED
  BY <1>1, ResolvedPath DEF Resolved

-----------------------------------------------------------------------------
(* The steps. *)
Kept == IInv' /\ SharingNeedsDetached /\ WriterStaysAttached

\* IInv without the bound on calls.
State(n, f, h) ==
    /\ n \in NameSpaces /\ f \in Partial(Objects, OpenFiles) /\ h \in [Bufs -> Bytes]
    /\ \A o \in DOMAIN f : ~f[o].isDir => f[o].buf \in Bufs
Counted == fsCalls < MaxFsCalls /\ fsCalls' = fsCalls + 1

LEMMA StateKept ==
  ASSUME IInv, Counted, State(ns', fds', heap')
  PROVE  IInv'
<1>1. fsCalls' \in 0 .. MaxFsCalls
  BY VfsBounds DEF IInv, Counted
<1> QED
  BY <1>1 DEF IInv, State

\* An open file has a path and a buffer; what it refers to is kept.
LEMMA FileIs ==
  ASSUME IInv, NEW o \in DOMAIN fds
  PROVE  /\ fds[o] \in OpenFiles /\ fds[o].path \in Paths /\ fds[o].isDir \in BOOLEAN
         /\ (~fds[o].isDir => fds[o].buf \in Bufs) /\ fds[o].buf \in Refs(ns, fds)
<1>1. fds[o] \in OpenFiles
  BY PartialIs DEF IInv
<1> QED
  BY <1>1 DEF IInv, OpenFiles, Refs

\* A descriptor whose buffer stays, with its bytes, is not changed.
Same(o) == fds'[o].buf = fds[o].buf /\ fds'[o].isDir = fds[o].isDir /\ (fds[o].isDir \/ heap'[fds[o].buf] = heap[fds[o].buf])
LEMMA Unwritten ==
  ASSUME \A o \in DOMAIN fds \cap DOMAIN fds' : Same(o) \/ Attached(o)'
  PROVE  WriterStaysAttached
BY DEF Same, WriterStaysAttached, Contents

LEMMA OpenAsStep ==
  ASSUME IInv, DOMAIN fds # Objects, NEW p \in Paths, NEW b \in Bufs \cup {NoBuf}, NEW flags, NEW dir \in BOOLEAN,
         ~dir => b \in Bufs, OpenAs(p, b, flags, dir)
  PROVE  /\ fds' \in Partial(Objects, OpenFiles)
         /\ \A o \in DOMAIN fds' : ~fds'[o].isDir => fds'[o].buf \in Bufs
         /\ \A o \in DOMAIN fds : o \in DOMAIN fds' /\ fds'[o] = fds[o]
<1>1. PICK r \in OpenFiles : r = [path |-> p, buf |-> b, pos |-> 0, append |-> "append" \in flags, isDir |-> dir]
  <2>1. 0 \in 0 .. MaxLen
    BY VfsBounds
  <2>2. ("append" \in flags) \in BOOLEAN
    OBVIOUS
  <2>3. PICK a \in BOOLEAN : a = ("append" \in flags)
    BY <2>2, Zenon
  <2>4. [path |-> p, buf |-> b, pos |-> 0, append |-> a, isDir |-> dir] \in OpenFiles
    BY <2>1 DEF OpenFiles
  <2> QED
    BY <2>3, <2>4, Zenon
<1>2. FreshObject \in Objects /\ FreshObject \notin DOMAIN fds
  BY FreshObjectFree
<1>3. fds' = With(fds, FreshObject, r)
  BY <1>1 DEF OpenAs
<1>4. fds' \in Partial(Objects, OpenFiles) /\ IsWith(fds', fds, FreshObject, r)
  BY <1>2, <1>3, WithPartial DEF IInv
<1>5. ~r.isDir => r.buf \in Bufs
  BY <1>1
<1> QED
  BY <1>2, <1>4, <1>5 DEF IsWith, IInv

LEMMA OpenDirStep ==
  ASSUME IInv, Counted, NEW p \in Args, NEW flags, OpenDir(p, flags)
  PROVE  Kept
<1>1. Resolved(p) \in Paths
  BY ArgPath
<1>2. /\ fds' \in Partial(Objects, OpenFiles)
      /\ \A o \in DOMAIN fds' : ~fds'[o].isDir => fds'[o].buf \in Bufs
      /\ \A o \in DOMAIN fds : o \in DOMAIN fds' /\ fds'[o] = fds[o]
  BY <1>1, OpenAsStep DEF OpenDir
<1>3. ns' = ns /\ heap' = heap
  BY DEF OpenDir
<1>4. IInv'
  BY <1>2, <1>3, StateKept DEF State, IInv
<1>5. WriterStaysAttached
  BY <1>2, <1>3, Unwritten DEF Same
<1> QED
  BY <1>3, <1>4, <1>5 DEF Kept, SharingNeedsDetached, NoSharedBuffer

\* A step that keeps all descriptors and their bytes, and gives at most one path a new buffer.
Renewed(n) == \/ n.files = ns.files
              \/ \E p \in Paths, b \in Bufs : b \notin Refs(ns, fds) /\ n.files = With(ns.files, p, b)
LEMMA RenewedDiffers ==
  ASSUME IInv, NEW n, Renewed(n), NoSharedBuffer
  PROVE  Different(n.files)
<1>1. Different(ns.files)
  BY DEF NoSharedBuffer, Different
<1>2. ASSUME NEW p \in Paths, NEW b \in Bufs, b \notin Refs(ns, fds), n.files = With(ns.files, p, b) PROVE Different(n.files)
  <2>1. IsWith(n.files, ns.files, p, b)
    BY <1>2, Fields, WithPartial DEF IInv
  <2>2. \A q \in DOMAIN ns.files : ns.files[q] # b
    BY <1>2 DEF Refs, Range
  <2> QED
    BY <1>1, <2>1, <2>2 DEF IsWith, Different
<1> QED
  BY <1>1, <1>2 DEF Renewed

\* Descriptors stay, so what they refer to keeps its bytes.
LEMMA DescriptorsStay ==
  ASSUME IInv, NEW h \in [Bufs -> Bytes], SetHeap(h), NEW o \in DOMAIN fds, o \in DOMAIN fds', fds'[o] = fds[o],
         ~fds[o].isDir => h[fds[o].buf] = heap[fds[o].buf]
  PROVE  Same(o)
<1>1. ~fds[o].isDir => fds[o].buf \in Bufs
  BY FileIs
<1>2. fds[o].buf \in Refs(ns', fds')
  BY DEF Refs
<1> QED
  BY <1>1, <1>2, HeapStep DEF Same

\* Some maps of names change, and no file gets another buffer.
LEMMA NamesStep ==
  ASSUME IInv, Counted, ns' \in NameSpaces, ns'.files = ns.files, UNCHANGED <<fds, heap>>
  PROVE  Kept
<1>1. IInv'
  BY StateKept DEF State, IInv
<1>2. WriterStaysAttached
  BY Unwritten DEF Same
<1> QED
  BY <1>1, <1>2 DEF Kept, SharingNeedsDetached, NoSharedBuffer

\* Descriptors come or go, the others stay, and the buffers in use keep their bytes.
Quiet(h) == /\ \A o \in DOMAIN fds \cap DOMAIN fds' : fds'[o] = fds[o]
            /\ \A b \in Bufs \cap Refs(ns, fds) : h[b] = heap[b]
LEMMA QuietStep ==
  ASSUME IInv, Counted, NEW h \in [Bufs -> Bytes], SetHeap(h), Quiet(h), ns' \in NameSpaces,
         fds' \in Partial(Objects, OpenFiles), \A o \in DOMAIN fds' : ~fds'[o].isDir => fds'[o].buf \in Bufs,
         NoSharedBuffer => Different(ns'.files)
  PROVE  Kept
<1>1. IInv'
  <2>1. heap' \in [Bufs -> Bytes]
    BY HeapStep
  <2> QED
    BY <2>1, StateKept DEF State
<1>2. ASSUME NEW o \in DOMAIN fds \cap DOMAIN fds' PROVE Same(o)
  <2>1. ~fds[o].isDir => h[fds[o].buf] = heap[fds[o].buf]
    BY FileIs DEF Quiet
  <2>2. fds'[o] = fds[o]
    BY DEF Quiet
  <2> QED
    BY <2>1, <2>2, DescriptorsStay
<1>3. WriterStaysAttached
  BY <1>2, Unwritten
<1> QED
  BY <1>1, <1>3 DEF Kept, SharingNeedsDetached, NoSharedBuffer, Different

LEMMA Refiled ==
  ASSUME NEW n \in NameSpaces, NEW f \in Partial(Paths, Bufs)
  PROVE  [n EXCEPT !.files = f] \in NameSpaces /\ [n EXCEPT !.files = f].files = f
BY DEF NameSpaces

\* The buffer a path has already.
LEMMA RefiledDiffers ==
  ASSUME NEW f \in Partial(Paths, Bufs), Different(f), NEW p \in DOMAIN f
  PROVE  Different(With(f, p, f[p]))
<1>1. p \in Paths /\ f[p] \in Bufs
  BY PartialIs
<1>2. IsWith(With(f, p, f[p]), f, p, f[p])
  BY <1>1, WithPartial
<1> QED
  BY <1>2 DEF IsWith, Different

LEMMA OpenFileStep ==
  ASSUME IInv, Counted, NEW p \in Args, NEW flags, OpenFile(p, flags)
  PROVE  Kept
<1>1. PICK r \in Paths : r = Resolved(p)
  BY ArgPath
<1>2. ns.files \in Partial(Paths, Bufs) /\ r \in DOMAIN ns.files /\ ns \in NameSpaces /\ heap \in [Bufs -> Bytes]
  BY <1>1, Fields DEF OpenFile, IInv
<1>3. FreshBuf \in Bufs /\ FreshBuf \notin Refs(ns, fds)
  BY FreshBufFree
<1>4. PICK b \in Bufs : b = IF "trunc" \in flags THEN FreshBuf ELSE ns.files[r]
  BY <1>2, <1>3, PartialIs
<1>5. OpenAs(r, b, flags, FALSE) /\ ns' = [ns EXCEPT !.files[r] = b] /\ SetHeap(heap) /\ DOMAIN fds # Objects
  BY <1>1, <1>4 DEF OpenFile
<1>6. /\ fds' \in Partial(Objects, OpenFiles)
      /\ \A o \in DOMAIN fds' : ~fds'[o].isDir => fds'[o].buf \in Bufs
      /\ \A o \in DOMAIN fds : o \in DOMAIN fds' /\ fds'[o] = fds[o]
  BY <1>5, OpenAsStep
<1>7. PICK f \in Partial(Paths, Bufs) : f = With(ns.files, r, b)
  BY <1>2, WithPartial
<1>8. ns' = [ns EXCEPT !.files = f]
  <2>1. [ns.files EXCEPT ![r] = b] = With(ns.files, r, b)
    BY <1>2, PartialIs DEF With
  <2> QED
    BY <1>5, <1>7, <2>1
<1>9. ns' \in NameSpaces /\ ns'.files = f
  BY <1>2, <1>7, <1>8, Refiled
<1>10. ASSUME NoSharedBuffer PROVE Different(ns'.files)
  <2>1. CASE "trunc" \in flags
    <3>1. Renewed(ns')
      BY <1>3, <1>4, <1>7, <1>9, <2>1 DEF Renewed
    <3> QED
      BY <1>10, <3>1, RenewedDiffers
  <2>2. CASE ~("trunc" \in flags)
    <3>1. Different(ns.files) /\ b = ns.files[r]
      BY <1>4, <1>10, <2>2 DEF NoSharedBuffer, Different
    <3> QED
      BY <1>2, <1>7, <1>9, <3>1, RefiledDiffers
  <2> QED
    BY <2>1, <2>2
<1>11. Quiet(heap)
  BY <1>6 DEF Quiet
<1> QED
  BY <1>2, <1>5, <1>6, <1>9, <1>10, <1>11, QuietStep

LEMMA CreateStep ==
  ASSUME IInv, Counted, NEW p \in Args, NEW flags, Create(p, flags)
  PROVE  Kept
<1>1. PICK r \in Paths : r = Resolved(p)
  BY ArgPath
<1>2. ns \in NameSpaces /\ heap \in [Bufs -> Bytes]
  BY DEF IInv
<1>3. PICK b \in Bufs : b = FreshBuf /\ b \notin Refs(ns, fds)
  BY FreshBufFree
<1>4. OpenAs(r, b, flags, FALSE) /\ ns' = addFile(ns, r, b) /\ SetHeap(heap) /\ DOMAIN fds # Objects
  BY <1>1, <1>3 DEF Create
<1>5. /\ fds' \in Partial(Objects, OpenFiles)
      /\ \A o \in DOMAIN fds' : ~fds'[o].isDir => fds'[o].buf \in Bufs
      /\ \A o \in DOMAIN fds : o \in DOMAIN fds' /\ fds'[o] = fds[o]
  BY <1>4, OpenAsStep
<1>6. ns' \in NameSpaces /\ ns'.files = With(ns.files, r, b)
  BY <1>2, <1>4, AddFileType
<1>7. Renewed(ns')
  BY <1>3, <1>6 DEF Renewed
<1>8. Quiet(heap)
  BY <1>5 DEF Quiet
<1> QED
  BY <1>2, <1>4, <1>5, <1>6, <1>7, <1>8, QuietStep, RenewedDiffers

LEMMA NamesSteps ==
  ASSUME IInv, Counted, NEW p \in Args, NEW q \in Args, Mkdir(p) \/ Rmdir(p) \/ Symlink(q, p)
  PROVE  Kept
<1>1. PICK r \in Paths : r = Resolved(p)
  BY ArgPath
<1>2. p \in Paths /\ q \in Paths /\ ns \in NameSpaces
  BY ArgPath DEF IInv
<1>3. CASE Mkdir(p)
  <2>1. ns' = mkdir(ns, r) /\ UNCHANGED <<fds, heap>>
    BY <1>1, <1>3 DEF Mkdir
  <2> QED
    BY <1>2, <2>1, MkdirType, NamesStep
<1>4. CASE Rmdir(p)
  <2>1. ns' = rmdir(ns, r) /\ UNCHANGED <<fds, heap>>
    BY <1>1, <1>4 DEF Rmdir
  <2> QED
    BY <1>2, <2>1, RmdirType, NamesStep
<1>5. CASE Symlink(q, p)
  <2>1. q \in Targets /\ ns' = createSymlink(ns, q, p) /\ UNCHANGED <<fds, heap>>
    BY <1>2, <1>5 DEF Symlink, Targets
  <2> QED
    BY <1>2, <2>1, SymlinkType, NamesStep
<1> QED
  BY <1>3, <1>4, <1>5

\* QuietStep for a call that opens and closes nothing.
LEMMA FilesStep ==
  ASSUME IInv, Counted, NEW h \in [Bufs -> Bytes], SetHeap(h), \A b \in Bufs \cap Refs(ns, fds) : h[b] = heap[b],
         UNCHANGED fds, ns' \in NameSpaces, NoSharedBuffer => Different(ns'.files)
  PROVE  Kept
<1>1. Quiet(h)
  BY DEF Quiet
<1>2. fds' \in Partial(Objects, OpenFiles) /\ \A o \in DOMAIN fds' : ~fds'[o].isDir => fds'[o].buf \in Bufs
  BY DEF IInv
<1> QED
  BY <1>1, <1>2, QuietStep

LEMMA UnlinkStep ==
  ASSUME IInv, Counted, NEW p \in Args, Unlink(p)
  PROVE  Kept
<1>1. PICK r \in Paths : r = Resolved(p)
  BY ArgPath
<1>2. ns \in NameSpaces /\ heap \in [Bufs -> Bytes] /\ ns.files \in Partial(Paths, Bufs)
  BY Fields DEF IInv
<1>3. ns' = unlink(ns, r) /\ UNCHANGED fds /\ SetHeap(heap)
  BY <1>1 DEF Unlink
<1>4. ns' \in NameSpaces /\ ns'.files = Without(ns.files, r)
  BY <1>2, <1>3, UnlinkType
<1>5. IsWithout(ns'.files, ns.files, r)
  BY <1>2, <1>4, WithoutPartial
<1>6. NoSharedBuffer => Different(ns'.files)
  BY <1>5 DEF IsWithout, NoSharedBuffer, Different
<1> QED
  BY <1>2, <1>3, <1>4, <1>6, FilesStep

LEMMA RenameStep ==
  ASSUME IInv, Counted, NEW p \in Args, NEW q \in Args, Rename(p, q)
  PROVE  Kept
<1>1. PICK r \in Paths : r = Resolved(p)
  BY ArgPath
<1>2. PICK t \in Paths : t = Resolved(q)
  BY ArgPath
<1>3. ns \in NameSpaces /\ heap \in [Bufs -> Bytes] /\ ns.files \in Partial(Paths, Bufs)
  BY Fields DEF IInv
<1>4. ns' = rename(ns, r, t) /\ UNCHANGED fds /\ SetHeap(heap)
  BY <1>1, <1>2 DEF Rename
<1>5. ns' \in NameSpaces /\ ns'.files = Move(ns.files, r, t)
  BY <1>3, <1>4, RenameType
<1>6. NoSharedBuffer => Different(ns.files)
  BY DEF NoSharedBuffer, Different
<1>7. NoSharedBuffer => Different(ns'.files)
  BY <1>3, <1>5, <1>6, MovePartial
<1> QED
  BY <1>3, <1>4, <1>5, <1>7, FilesStep

LEMMA LinkStep ==
  ASSUME IInv, Counted, NEW p \in Args, NEW q \in Args, Link(p, q)
  PROVE  Kept
<1>1. PICK r \in Paths : r = Resolved(p)
  BY ArgPath
<1>2. PICK t \in Paths : t = Resolved(q)
  BY ArgPath
<1>3. ns \in NameSpaces /\ heap \in [Bufs -> Bytes] /\ ns.files \in Partial(Paths, Bufs) /\ r \in DOMAIN ns.files
  BY <1>1, Fields DEF IInv, Link
<1>4. PICK b \in Bufs : b = FreshBuf /\ b \notin Refs(ns, fds)
  BY FreshBufFree
<1>5. ns.files[r] \in Bufs
  BY <1>3, PartialIs
<1>6. PICK v \in Bytes : v = heap[ns.files[r]]
  BY <1>3, <1>5
<1>7. PICK h \in [Bufs -> Bytes] : h = [heap EXCEPT ![b] = v]
  BY <1>3
<1>8. ns' = addFile(ns, t, b) /\ UNCHANGED fds /\ SetHeap(h)
  BY <1>1, <1>2, <1>4, <1>6, <1>7 DEF Link, LinkBuf
<1>9. ns' \in NameSpaces /\ ns'.files = With(ns.files, t, b)
  BY <1>3, <1>8, AddFileType
<1>10. Renewed(ns')
  BY <1>4, <1>9 DEF Renewed
<1>11. \A c \in Bufs \cap Refs(ns, fds) : h[c] = heap[c]
  BY <1>3, <1>4, <1>7
<1> QED
  BY <1>8, <1>9, <1>10, <1>11, FilesStep, RenewedDiffers

LEMMA CloseStep ==
  ASSUME IInv, Counted, NEW o \in Objects, CloseObject(o)
  PROVE  Kept
<1>1. ns' \in NameSpaces /\ ns' = ns /\ heap \in [Bufs -> Bytes] /\ SetHeap(heap)
  BY DEF CloseObject, IInv
<1>2. fds' \in Partial(Objects, OpenFiles) /\ IsWithout(fds', fds, o)
  BY WithoutPartial DEF CloseObject, IInv
<1>3. \A x \in DOMAIN fds' : x \in DOMAIN fds /\ fds'[x] = fds[x]
  BY <1>2 DEF IsWithout
<1>4. \A x \in DOMAIN fds' : ~fds'[x].isDir => fds'[x].buf \in Bufs
  BY <1>3 DEF IInv
<1>5. Quiet(heap)
  BY <1>3 DEF Quiet
<1>6. NoSharedBuffer => Different(ns'.files)
  BY <1>1 DEF NoSharedBuffer, Different
<1> QED
  BY <1>1, <1>2, <1>4, <1>5, <1>6, QuietStep

-----------------------------------------------------------------------------
(* Steps that change one descriptor. *)
\* Descriptor o gets a buffer and a position.
Moved(o, b, pos) == fds' = [fds EXCEPT ![o].buf = b, ![o].pos = pos]
LEMMA MovedType ==
  ASSUME IInv, NEW o \in DOMAIN fds, NEW b \in Bufs \cup {NoBuf}, ~fds[o].isDir => b \in Bufs, NEW pos \in 0 .. MaxLen, Moved(o, b, pos)
  PROVE  /\ fds' \in Partial(Objects, OpenFiles) /\ DOMAIN fds' = DOMAIN fds
         /\ \A x \in DOMAIN fds' : ~fds'[x].isDir => fds'[x].buf \in Bufs
         /\ \A x \in DOMAIN fds : x # o => fds'[x] = fds[x]
         /\ fds'[o].buf = b /\ fds'[o].path = fds[o].path /\ fds'[o].isDir = fds[o].isDir
<1>1. fds = [x \in DOMAIN fds |-> fds[x]] /\ DOMAIN fds \subseteq Objects /\ \A x \in DOMAIN fds : fds[x] \in OpenFiles
  BY PartialIs DEF IInv
<1>2. PICK r : r = [fds[o] EXCEPT !.buf = b, !.pos = pos]
  OBVIOUS
<1>3. r \in OpenFiles /\ r.buf = b /\ r.path = fds[o].path /\ r.isDir = fds[o].isDir
  <2>1. fds[o] \in OpenFiles
    BY <1>1
  <2> QED
    BY <1>2, <2>1 DEF OpenFiles
<1>4. fds' = [fds EXCEPT ![o] = r]
  BY <1>2 DEF Moved
<1>5. DOMAIN fds' = DOMAIN fds /\ fds'[o] = r /\ \A x \in DOMAIN fds : x # o => fds'[x] = fds[x]
  BY <1>4
<1>6. fds' = [x \in DOMAIN fds' |-> fds'[x]]
  BY <1>4
<1>7. fds' \in Partial(Objects, OpenFiles)
  <2>1. DOMAIN fds' \subseteq Objects /\ \A x \in DOMAIN fds' : fds'[x] \in OpenFiles
    BY <1>1, <1>3, <1>5
  <2> QED
    BY <1>6, <2>1, PartialIs
<1>8. \A x \in DOMAIN fds' : ~fds'[x].isDir => fds'[x].buf \in Bufs
  BY <1>3, <1>5 DEF IInv
<1> QED
  BY <1>3, <1>5, <1>7, <1>8

LEMMA PositionStep ==
  ASSUME IInv, Counted, NEW o \in DOMAIN fds, NEW pos \in 0 .. MaxLen, fds' = [fds EXCEPT ![o].pos = pos], UNCHANGED <<ns, heap>>
  PROVE  Kept
<1>1. PICK b \in Bufs \cup {NoBuf} : b = fds[o].buf /\ (~fds[o].isDir => b \in Bufs)
  BY FileIs DEF OpenFiles
<1>2. Moved(o, b, pos)
  <2>1. fds[o] \in OpenFiles
    BY FileIs
  <2>2. [fds[o] EXCEPT !.buf = b, !.pos = pos] = [fds[o] EXCEPT !.pos = pos]
    BY <1>1, <2>1 DEF OpenFiles
  <2> QED
    BY <2>2 DEF Moved
<1>3. /\ fds' \in Partial(Objects, OpenFiles) /\ DOMAIN fds' = DOMAIN fds
      /\ \A x \in DOMAIN fds' : ~fds'[x].isDir => fds'[x].buf \in Bufs
      /\ \A x \in DOMAIN fds : x # o => fds'[x] = fds[x]
      /\ fds'[o].buf = b /\ fds'[o].path = fds[o].path /\ fds'[o].isDir = fds[o].isDir
  BY <1>1, <1>2, MovedType
<1>4. IInv'
  BY <1>3, StateKept DEF State, IInv
<1>5. WriterStaysAttached
  BY <1>1, <1>3, Unwritten DEF Same
<1> QED
  BY <1>4, <1>5 DEF Kept, SharingNeedsDetached, NoSharedBuffer

\* Bytes change inside the buffer: whoever refers to it still does.
LEMMA InPlaceStep ==
  ASSUME IInv, Counted, NEW o, IsFile(o), NEW pos \in 0 .. MaxLen, Moved(o, fds[o].buf, pos), UNCHANGED ns,
         NEW h \in [Bufs -> Bytes], SetHeap(h)
  PROVE  Kept
<1>1. o \in DOMAIN fds /\ ~fds[o].isDir
  BY DEF IsFile
<1>2. PICK b \in Bufs : b = fds[o].buf
  BY <1>1, FileIs
<1>3. /\ fds' \in Partial(Objects, OpenFiles) /\ DOMAIN fds' = DOMAIN fds
      /\ \A x \in DOMAIN fds' : ~fds'[x].isDir => fds'[x].buf \in Bufs
      /\ \A x \in DOMAIN fds : x # o => fds'[x] = fds[x]
      /\ fds'[o].buf = b /\ fds'[o].path = fds[o].path /\ fds'[o].isDir = fds[o].isDir
  BY <1>1, <1>2, MovedType
<1>4. IInv'
  BY <1>3, HeapStep, StateKept DEF State, IInv
<1>5. \A x \in DOMAIN fds : fds'[x].path = fds[x].path /\ fds'[x].buf = fds[x].buf
  BY <1>2, <1>3
<1>6. WriterStaysAttached
  BY <1>5 DEF WriterStaysAttached, Attached
<1> QED
  BY <1>4, <1>6 DEF Kept, SharingNeedsDetached, NoSharedBuffer

\* The descriptor and its path get buffer b: one nobody has, or the one the
\* descriptor has, with the bytes it has.
LEMMA ReplaceStep ==
  ASSUME IInv, Counted, NEW o, IsFile(o), NEW b \in Bufs, NEW v \in Bytes, NEW pos \in 0 .. MaxLen, Moved(o, b, pos),
         b \notin Refs(ns, fds) \/ (b = fds[o].buf /\ v = heap[b]),
         ns' = [ns EXCEPT !.files = With(@, fds[o].path, b)], SetHeap([heap EXCEPT ![b] = v])
  PROVE  Kept
<1>1. o \in DOMAIN fds /\ ~fds[o].isDir
  BY DEF IsFile
<1>2. PICK p \in Paths : p = fds[o].path
  BY <1>1, FileIs
<1>3. /\ fds' \in Partial(Objects, OpenFiles) /\ DOMAIN fds' = DOMAIN fds
      /\ \A x \in DOMAIN fds' : ~fds'[x].isDir => fds'[x].buf \in Bufs
      /\ \A x \in DOMAIN fds : x # o => fds'[x] = fds[x]
      /\ fds'[o].buf = b /\ fds'[o].path = fds[o].path /\ fds'[o].isDir = fds[o].isDir
  BY <1>1, MovedType
<1>4. ns \in NameSpaces /\ ns.files \in Partial(Paths, Bufs) /\ heap \in [Bufs -> Bytes]
  BY Fields DEF IInv
<1>5. PICK f \in Partial(Paths, Bufs) : f = With(ns.files, p, b) /\ IsWith(f, ns.files, p, b)
  BY <1>4, WithPartial
<1>6. ns' = [ns EXCEPT !.files = f]
  BY <1>2, <1>5
<1>7. ns' \in NameSpaces /\ ns'.files = f
  BY <1>4, <1>6, Refiled
<1>8. PICK h \in [Bufs -> Bytes] : h = [heap EXCEPT ![b] = v]
  BY <1>4
<1>9. SetHeap(h)
  BY <1>8
<1>10. \A c \in Bufs \cap Refs(ns, fds) : h[c] = heap[c]
  BY <1>4, <1>8
<1>11. IInv'
  BY <1>3, <1>7, <1>9, HeapStep, StateKept DEF State
<1>12. Attached(o)'
  BY <1>2, <1>3, <1>5, <1>7 DEF Attached, IsWith
<1>13. ASSUME NEW x \in DOMAIN fds, x # o PROVE Same(x)
  <2>1. ~fds[x].isDir => h[fds[x].buf] = heap[fds[x].buf]
    BY <1>10, FileIs
  <2>2. x \in DOMAIN fds' /\ fds'[x] = fds[x]
    BY <1>3, <1>13
  <2> QED
    BY <1>9, <2>1, <2>2, DescriptorsStay
<1>14. WriterStaysAttached
  BY <1>12, <1>13, Unwritten
<1>15. SharingNeedsDetached
  <2>1. ASSUME NoSharedBuffer, \A x \in DOMAIN fds : fds[x].isDir \/ Attached(x) PROVE Different(f)
    <3>1. CASE b \notin Refs(ns, fds)
      <4>1. Renewed(ns')
        BY <1>5, <1>7, <3>1 DEF Renewed
      <4> QED
        BY <1>7, <2>1, <4>1, RenewedDiffers
    <3>2. CASE b = fds[o].buf
      <4>1. p \in DOMAIN ns.files /\ b = ns.files[p]
        BY <1>1, <1>2, <2>1, <3>2 DEF Attached
      <4>2. Different(ns.files)
        BY <2>1 DEF NoSharedBuffer, Different
      <4> QED
        BY <1>4, <1>5, <4>1, <4>2, RefiledDiffers
    <3> QED
      BY <3>1, <3>2
  <2> QED
    BY <1>7, <2>1 DEF SharingNeedsDetached, NoSharedBuffer, Different
<1> QED
  BY <1>11, <1>14, <1>15 DEF Kept

LEMMA WriteAtStep ==
  ASSUME IInv, Counted, NEW o, IsFile(o), NEW off \in 0 .. MaxLen, NEW pos \in 0 .. MaxLen, WriteAt(o, off, pos)
  PROVE  Kept
<1>1. o \in DOMAIN fds /\ ~fds[o].isDir
  BY DEF IsFile
<1>2. PICK c \in Bufs : c = fds[o].buf /\ c \in Refs(ns, fds)
  BY <1>1, FileIs
<1>3. heap \in [Bufs -> Bytes]
  BY DEF IInv
<1>4. PICK v \in Bytes : v = PutByte(heap[c], off, 1)
  BY <1>3, PutType DEF WriteAt
<1>5. PICK b \in Bufs : b = Grown(o, off + 1) /\ (b = c \/ b \notin Refs(ns, fds))
  BY <1>2, FreshBufFree DEF Grown
<1>6. Moved(o, b, pos) /\ ns' = Grow(o, b) /\ SetHeap([heap EXCEPT ![b] = v])
  BY <1>2, <1>4, <1>5 DEF WriteAt, Moved
<1>7. CASE b = c
  <2>1. UNCHANGED ns
    BY <1>2, <1>6, <1>7 DEF Grow
  <2>2. PICK h \in [Bufs -> Bytes] : h = [heap EXCEPT ![b] = v]
    BY <1>3
  <2> QED
    BY <1>2, <1>6, <1>7, <2>1, <2>2, InPlaceStep
<1>8. CASE b \notin Refs(ns, fds)
  <2>1. ns' = [ns EXCEPT !.files = With(@, fds[o].path, b)]
    BY <1>2, <1>6, <1>8 DEF Grow
  <2> QED
    BY <1>6, <1>8, <2>1, ReplaceStep
<1> QED
  BY <1>5, <1>7, <1>8

LEMMA OffsetIs ==
  ASSUME IInv, NEW o, IsFile(o), NEW n \in 0 .. MaxLen
  PROVE  Offset(o, n) \in 0 .. MaxLen /\ fds[o].pos \in 0 .. MaxLen
<1>1. fds[o] \in OpenFiles /\ fds[o].buf \in Bufs
  BY FileIs DEF IsFile
<1>2. Len(heap[fds[o].buf]) \in 0 .. MaxLen
  BY <1>1, BytesIs DEF IInv
<1> QED
  BY <1>1, <1>2 DEF Offset, OpenFiles

LEMMA FtruncateStep ==
  ASSUME IInv, Counted, NEW o, NEW n \in 0 .. MaxLen, Ftruncate(o, n)
  PROVE  Kept
<1>1. IsFile(o) /\ o \in DOMAIN fds /\ ~fds[o].isDir
  BY DEF Ftruncate, IsFile
<1>2. PICK c \in Bufs : c = fds[o].buf
  BY <1>1, FileIs
<1>3. PICK s \in Bytes : s = heap[c]
  BY DEF IInv
<1>4. PICK v \in Bytes : v = Resize(s, n) /\ (n = Len(s) => v = s)
  BY ResizeType
<1>5. PICK b \in Bufs : b = IF n = Len(s) THEN c ELSE FreshBuf
  BY FreshBufFree
<1>6. b \notin Refs(ns, fds) \/ (b = fds[o].buf /\ v = heap[b])
  BY <1>2, <1>3, <1>4, <1>5, FreshBufFree
<1>7. /\ fds' = [fds EXCEPT ![o].buf = b] /\ ns' = [ns EXCEPT !.files = With(@, fds[o].path, b)]
      /\ SetHeap([heap EXCEPT ![b] = v])
  BY <1>2, <1>3, <1>4, <1>5 DEF Ftruncate
<1>8. PICK pos \in 0 .. MaxLen : pos = fds[o].pos
  BY <1>1, FileIs DEF OpenFiles
<1>9. Moved(o, b, pos)
  <2>1. fds[o] \in OpenFiles
    BY <1>1, FileIs
  <2>2. [fds[o] EXCEPT !.buf = b, !.pos = pos] = [fds[o] EXCEPT !.buf = b]
    BY <1>8, <2>1 DEF OpenFiles
  <2> QED
    BY <1>7, <2>2 DEF Moved
<1> QED
  BY <1>1, <1>6, <1>7, <1>9, ReplaceStep

LEMMA FileSteps ==
  ASSUME IInv, Counted, NEW o, NEW n \in 0 .. MaxLen, Write(o) \/ Read(o) \/ PWrite(o, n) \/ Lseek(o, n)
  PROVE  Kept
<1>1. CASE Write(o)
  <2>1. IsFile(o) /\ WriteAt(o, Offset(o, fds[o].pos), Offset(o, fds[o].pos) + 1)
    BY <1>1 DEF Write
  <2>2. PICK k \in 0 .. MaxLen : k = Offset(o, fds[o].pos)
    BY <2>1, OffsetIs
  <2>3. k + 1 \in 0 .. MaxLen
    <3>1. k < MaxLen /\ MaxLen \in Nat
      BY <2>1, <2>2, VfsBounds DEF WriteAt
    <3> QED
      BY <3>1
  <2> QED
    BY <2>1, <2>2, <2>3, WriteAtStep
<1>2. CASE PWrite(o, n)
  <2>1. IsFile(o) /\ WriteAt(o, Offset(o, n), fds[o].pos)
    BY <1>2 DEF PWrite
  <2> QED
    BY <2>1, OffsetIs, WriteAtStep
<1>3. CASE Read(o)
  <2>1. IsFile(o) /\ o \in DOMAIN fds /\ fds[o].pos < Len(heap[fds[o].buf])
    BY <1>3 DEF Read, IsFile
  <2>2. fds[o] \in OpenFiles /\ fds[o].buf \in Bufs
    BY <2>1, FileIs DEF IsFile
  <2>3. Len(heap[fds[o].buf]) \in 0 .. MaxLen
    BY <2>2, BytesIs DEF IInv
  <2>4. PICK k \in 0 .. MaxLen : k = fds[o].pos + 1
    <3>1. PICK l \in 0 .. MaxLen : l = Len(heap[fds[o].buf])
      BY <2>3
    <3>2. PICK m \in 0 .. MaxLen : m = fds[o].pos
      BY <2>2 DEF OpenFiles
    <3>3. m < l /\ MaxLen \in Nat
      BY <2>1, <3>1, <3>2, VfsBounds
    <3>4. m + 1 \in 0 .. MaxLen
      BY <3>3
    <3> QED
      BY <3>2, <3>4
  <2>5. fds' = [fds EXCEPT ![o].pos = k] /\ UNCHANGED <<ns, heap>>
    BY <1>3, <2>4 DEF Read
  <2> QED
    BY <2>1, <2>5, PositionStep
<1>4. CASE Lseek(o, n)
  BY <1>4, PositionStep DEF Lseek
<1> QED
  BY <1>1, <1>2, <1>3, <1>4

LEMMA NextKept ==
  ASSUME IInv, VfsNext
  PROVE  Kept
<1>1. Counted
  BY DEF VfsNext, Counted
<1>2. ASSUME NEW p \in Args, NEW f \in Flags, OpenDir(p, f) \/ OpenFile(p, f) \/ Create(p, f) PROVE Kept
  BY <1>1, <1>2, OpenDirStep, OpenFileStep, CreateStep
<1>3. ASSUME NEW o \in Objects, Write(o) \/ Read(o) \/ CloseObject(o) PROVE Kept
  <2>1. 0 \in 0 .. MaxLen
    BY VfsBounds
  <2> QED
    BY <1>1, <1>3, <2>1, FileSteps, CloseStep
<1>4. ASSUME NEW o \in Objects, NEW n \in 0 .. MaxLen, PWrite(o, n) \/ Lseek(o, n) \/ Ftruncate(o, n) PROVE Kept
  BY <1>1, <1>4, FileSteps, FtruncateStep
<1>5. ASSUME NEW p \in Args, Mkdir(p) \/ Unlink(p) \/ Rmdir(p) PROVE Kept
  BY <1>1, <1>5, NamesSteps, UnlinkStep
<1>6. ASSUME NEW p \in Args, NEW q \in Args, Rename(p, q) \/ Symlink(p, q) \/ Link(p, q) PROVE Kept
  BY <1>1, <1>6, RenameStep, NamesSteps, LinkStep
<1> QED
  BY <1>2, <1>3, <1>4, <1>5, <1>6 DEF VfsNext

-----------------------------------------------------------------------------
(* The theorems. *)
LEMMA InitIInv == VfsInit => IInv
<1> SUFFICES ASSUME VfsInit PROVE IInv
  OBVIOUS
<1>1. Cardinality(Paths) \in Nat /\ MaxOpen \in Nat /\ MaxLen \in Nat /\ MaxLen >= 1 /\ MaxFsCalls \in Nat
  BY VfsBounds, FS_CardinalityType
<1>2. 1 \in Bufs /\ BaseFile \in Paths
  BY <1>1, ArgsAssumption DEF Bufs
<1>3. \A S, T : <<>> \in Partial(S, T)
  <2> SUFFICES ASSUME NEW S, NEW T PROVE <<>> \in Partial(S, T)
    OBVIOUS
  <2>1. <<>> \in [{} -> T]
    OBVIOUS
  <2> QED
    BY <2>1 DEF Partial
<1>4. PICK n \in NameSpaces : n = [files |-> <<>>, dirs |-> {}, links |-> <<>>, white |-> {}, children |-> <<>>]
  BY <1>3 DEF NameSpaces
<1>5. ns \in NameSpaces
  BY <1>2, <1>4, AddFileType DEF VfsInit
<1>6. <<>> \in Bytes /\ <<1>> \in Bytes
  <2>1. <<>> \in [1 .. 0 -> {0, 1}] /\ <<1>> \in [1 .. 1 -> {0, 1}] /\ 0 \in 0 .. MaxLen /\ 1 \in 0 .. MaxLen
    BY <1>1
  <2> QED
    BY <2>1 DEF Bytes
<1>7. heap \in [Bufs -> Bytes]
  BY <1>6 DEF VfsInit
<1>8. fds \in Partial(Objects, OpenFiles) /\ DOMAIN fds = {}
  BY <1>3 DEF VfsInit
<1> QED
  BY <1>1, <1>5, <1>7, <1>8 DEF VfsInit, IInv

LEMMA StutterKept ==
  ASSUME IInv, UNCHANGED fsVars
  PROVE  Kept
<1>1. fsCalls' = fsCalls /\ ns' = ns /\ fds' = fds /\ heap' = heap
  BY DEF fsVars
<1>2. IInv'
  BY <1>1 DEF IInv
<1>3. WriterStaysAttached
  BY <1>1, Unwritten DEF Same
<1> QED
  BY <1>1, <1>2, <1>3 DEF Kept, SharingNeedsDetached, NoSharedBuffer

LEMMA IInvPathsSound == IInv => PathsSound
<1> SUFFICES ASSUME IInv PROVE PathsSound
  OBVIOUS
<1>1. /\ ns.files \in Partial(Paths, Bufs) /\ ns.dirs \subseteq Paths /\ ns.links \in Partial(Paths, Targets)
      /\ ns.white \subseteq Paths /\ ns.children \in Partial(Paths, SUBSET Names)
  BY Fields DEF IInv
<1>2. VfsTypeOK
  <2>1. DOMAIN ns.files \subseteq Paths /\ \A p \in DOMAIN ns.files : ns.files[p] \in Bufs
    BY <1>1, PartialIs
  <2>2. DOMAIN ns.links \subseteq Paths /\ \A p \in DOMAIN ns.links : ns.links[p] \in Paths
    BY <1>1, PartialIs DEF Targets
  <2>3. DOMAIN ns.children \subseteq Paths /\ \A p \in DOMAIN ns.children : ns.children[p] \subseteq Names
    BY <1>1, PartialIs
  <2>4. DOMAIN fds \subseteq Objects /\ \A o \in DOMAIN fds : fds[o] \in OpenFiles
    BY PartialIs DEF IInv
  <2> QED
    BY <1>1, <2>1, <2>2, <2>3, <2>4 DEF IInv, VfsTypeOK, OpenFiles, Bytes
<1>3. ASSUME NEW p \in Args, NEW w, w = WalkPath(ns.links, p)
      PROVE  IF w.links > MaxLink + 1
             THEN LinkPrefixes(ns.links, Resolved(p)) # {}
             ELSE w.rest = <<>> /\ Resolved(p) = w.at
  <2>1. p \in Paths
    BY ArgPath
  <2> QED
    BY <1>1, <1>3, <2>1, ResolvedIsWalked DEF Resolved
<1>4. ResolveExact
  BY <1>3 DEF ResolveExact
<1> QED
  BY <1>2, <1>4 DEF PathsSound

\* The maps of the name space hold paths, files and links of the model and every
\* open file a buffer, and resolvePath (filesystem.js) returns what the path
\* means when it is walked name by name, for every number of rounds: it stops
\* short of that only where the walk follows more than MaxLink + 1 links, and
\* then with a path that leads through a link.
THEOREM PathsSoundCorrect == VfsSpec => []PathsSound
<1>1. IInv /\ [VfsNext]_fsVars => IInv'
  BY NextKept, StutterKept DEF Kept
<1> QED
  BY <1>1, InitIInv, IInvPathsSound, PTL DEF VfsSpec

\* VirtualFS.write, ftruncate, rename, unlink and openFile: two paths come to
\* hold one byte array only through a descriptor that has lost its file, and a
\* write or truncation through an attached descriptor leaves it attached.
THEOREM BuffersSoundCorrect == VfsSpec => BuffersSound
<1>1. IInv /\ [VfsNext]_fsVars => IInv'
  BY NextKept, StutterKept DEF Kept
<1>2. IInv /\ [VfsNext]_fsVars => [SharingNeedsDetached /\ WriterStaysAttached]_fsVars
  BY NextKept DEF Kept
<1> QED
  BY <1>1, <1>2, InitIInv, PTL DEF VfsSpec, BuffersSound

=============================================================================
