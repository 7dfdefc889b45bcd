--------------------------- MODULE LifecycleProofs ---------------------------
(***************************************************************************)
(* Proofs about Lifecycle for every number of processes, pids, pipes and   *)
(* workers, and failing instantiation.  For all kinds of forks and a slow  *)
(* bridge: a worker has one life at a time, and pooled workers are idle.   *)
(* Where only PID 1 forks, and only to exec, as a shell does: pids are     *)
(* unique and known to the parent, a worker finds no other process's pipes *)
(* in its cache, and a process keeps its entry, memory and pipes.          *)
(***************************************************************************)
EXTENDS Lifecycle, SequenceTheorems, TLAPS

ForkTypes == {"exec", "full"}
BootTypes == {"boot", "exec", "full"}

(* What travels on the channels. *)
ForkRequests == [type : ForkTypes, g : Procs, pid : PidNums, pipes : SUBSET Pipes, parent : PidNums]
PipeMsgs == [type : {"pipe"}, g : {0}, pid : PidNums, pipes : SUBSET Pipes]
KernelMsgs == [type : {"register", "memory", "exit"}, g : Procs, pid : PidNums \ {0}, pipes : {{}}]
BootMsgs == [type : BootTypes, g : Procs, pid : PidNums \ {0}, pipes : SUBSET Pipes]
ResetMsgs == [type : {"reset"}, g : {0}, pid : {0}, pipes : {{}}]
ReportMsgs == [type : {"memory", "exit"}, g : Procs, pid : PidNums \ {0}, pipes : {{}}]
AckMsgs == [type : {"reset-ack"}, g : {0}, pid : {0}, pipes : {{}}]
ToPage == ForkRequests \cup PipeMsgs
ToWorker == BootMsgs \cup ResetMsgs \cup PipeMsgs
FromWorkers == ReportMsgs \cup AckMsgs

ChannelsOK ==
    /\ k2m \in Seq(ToPage) /\ m2k \in Seq(KernelMsgs)
    /\ m2w \in [Workers -> Seq(ToWorker)] /\ w2m \in [Workers -> Seq(FromWorkers)]

(* TypeOK by parts, with what it leaves to the shape of Init and Next. *)
Caches == UNION {[S -> 0 .. MaxPipes] : S \in SUBSET Slots}
WorkerStates == [st : {"idle", "boot", "settle", "run"}, g : 0 .. MaxProcs, kind : BootTypes, cache : Caches]
Entries == [ctl : 0 .. MaxProcs, mem : 0 .. MaxProcs, fds : SUBSET Pipes]

IdTypes ==
    /\ bridge \in BOOLEAN /\ bridgePid \in PidNums \ {0} /\ nextPid \in 1 .. (MaxPid + 1)
    /\ counter \in [Procs -> 1 .. MaxPid] /\ procs \in Procs /\ pipes \in 0 .. MaxPipes
    /\ pid \in [Procs -> PidNums] /\ told \in [Procs -> PidNums]
    /\ pipesOf \in [Procs -> SUBSET Pipes]
KernelTypes ==
    /\ DOMAIN table \subseteq PidNums /\ exitCodes \subseteq PidNums \ {0}
    /\ \A p \in DOMAIN table : table[p] \in Entries
PageTypes ==
    /\ pool \in Seq(Workers) /\ \A i \in 1 .. Len(pool) : pool[i] \in 1 .. made
    /\ made \in Workers /\ closure \in [Workers -> PidNums]
    /\ DOMAIN exec \subseteq PidNums \ {0} /\ \A p \in DOMAIN exec : exec[p] \in 1 .. made
OwnRing(cache) == \A k \in DOMAIN cache : cache[k] \in {0, k[2]}
WorkerTypes == wk \in [Workers -> WorkerStates] /\ \A w \in Workers : OwnRing(wk[w].cache)
Types == IdTypes /\ KernelTypes /\ PageTypes /\ WorkerTypes /\ ChannelsOK

(* Messages of some types in a queue. *)
HasType(q, T) == \E i \in 1 .. Len(q) : q[i].type \in T
AtMostOne(q, T) == \A i, j \in 1 .. Len(q) : q[i].type \in T /\ q[j].type \in T => i = j

(* A worker has one life at a time: it is in the pool, or a boot message waits for it, or *)
(* a process runs in it, or its exit message waits, or (after a failed start) none.       *)
Pooled(w) == \E i \in 1 .. Len(pool) : pool[i] = w
OneLife(w) ==
    /\ AtMostOne(m2w[w], BootTypes) /\ AtMostOne(w2m[w], {"exit"})
    /\ Pooled(w) => ~Live(w) /\ ~HasType(m2w[w], BootTypes) /\ ~HasType(w2m[w], {"exit"})
    /\ Live(w) => ~HasType(m2w[w], BootTypes) /\ ~HasType(w2m[w], {"exit"})
    /\ HasType(m2w[w], BootTypes) => ~HasType(w2m[w], {"exit"})
    /\ w > made => ~Live(w) /\ ~HasType(m2w[w], BootTypes) /\ ~HasType(w2m[w], {"exit"})

\* The page's two maps agree, and a pooled worker is nobody's.
ExecOK == \A p \in DOMAIN exec : closure[exec[p]] = p /\ ~Pooled(exec[p])

PoolOnce == \A i, j \in 1 .. Len(pool) : i # j => pool[i] # pool[j]

\* A process that runs or is to be booted has been given its pid.
PidGiven ==
    \A w \in Workers :
       /\ Live(w) => wk[w].g \in Procs /\ pid[wk[w].g] # 0
       /\ \A i \in 1 .. Len(m2w[w]) : m2w[w][i].type \in BootTypes => pid[m2w[w][i].g] # 0

\* Fork requests come in the order of the forks, so that there are never more workers
\* than the first pool and one for each process.
SpawnOrder ==
    /\ made + 1 <= PoolSize + procs
    /\ \A i \in 1 .. Len(k2m) : k2m[i].type \in ForkTypes =>
          /\ k2m[i].g <= procs /\ made + 2 <= PoolSize + k2m[i].g /\ pid[k2m[i].g] = 0
          /\ \A j \in 1 .. Len(k2m) : k2m[j].type \in ForkTypes /\ i < j => k2m[i].g < k2m[j].g
    /\ \A g \in Procs : g > procs => pid[g] = 0

IInv ==
    /\ Types /\ PoolOnce /\ ExecOK /\ PidGiven /\ SpawnOrder
    /\ \A w \in Workers : OneLife(w)

-----------------------------------------------------------------------------
(* Functions that grow and shrink. *)
LEMMA WithProperties ==
  ASSUME NEW f, NEW x, NEW y
  PROVE  /\ DOMAIN With(f, x, y) = DOMAIN f \cup {x}
         /\ With(f, x, y)[x] = y
         /\ \A z \in DOMAIN f \ {x} : With(f, x, y)[z] = f[z]
BY DEF With, Over

LEMMA WithoutProperties ==
  ASSUME NEW f, NEW x
  PROVE  /\ DOMAIN Without(f, x) = DOMAIN f \ {x}
         /\ \A z \in DOMAIN f \ {x} : Without(f, x)[z] = f[z]
BY DEF Without, Restrict

(* Messages appended to a queue and taken from it. *)
LEMMA SendProperties ==
  ASSUME NEW S, NEW q \in Seq(S), NEW m \in S
  PROVE  /\ Append(q, m) \in Seq(S) /\ Len(Append(q, m)) = Len(q) + 1
         /\ Append(q, m)[Len(q) + 1] = m
         /\ \A i \in 1 .. Len(q) : Append(q, m)[i] = q[i]
OBVIOUS

LEMMA TailProperties ==
  ASSUME NEW S, NEW q \in Seq(S), q # << >>
  PROVE  /\ Tail(q) \in Seq(S) /\ Len(Tail(q)) = Len(q) - 1 /\ Len(q) \in Nat \ {0}
         /\ Head(q) = q[1] /\ Head(q) \in S
         /\ \A i \in 1 .. Len(Tail(q)) : Tail(q)[i] = q[i + 1]
OBVIOUS

LEMMA FrontProperties ==
  ASSUME NEW S, NEW q \in Seq(S), q # << >>
  PROVE  /\ Front(q) \in Seq(S) /\ Len(Front(q)) = Len(q) - 1
         /\ Len(q) \in Nat \ {0} /\ Last(q) = q[Len(q)]
         /\ \A i \in 1 .. Len(Front(q)) : Front(q)[i] = q[i]
<1>1. Len(q) \in Nat \ {0} /\ Last(q) = q[Len(q)]
  BY DEF Last
<1>2. \A i \in 1 .. Len(q) - 1 : q[i] \in S
  OBVIOUS
<1>3. Front(q) = SubSeq(q, 1, Len(q) - 1)
  BY DEF Front
<1>4. PICK n \in Nat : Len(q) = n + 1
  BY <1>1
<1>5. Front(q) = SubSeq(q, 1, n) /\ \A i \in 1 .. n : q[i] \in S
  BY <1>2, <1>3, <1>4
<1>6. /\ Front(q) \in Seq(S)
      /\ Len(Front(q)) = IF 1 <= n THEN n - 1 + 1 ELSE 0
      /\ \A i \in 1 .. n - 1 + 1 : Front(q)[i] = q[1 + i - 1]
  BY <1>5, SubSeqProperties
<1>7. Len(Front(q)) = n /\ \A i \in 1 .. n : Front(q)[i] = q[i]
  BY <1>6
<1> QED
  BY <1>1, <1>4, <1>6, <1>7

LEMMA AppendHas ==
  ASSUME NEW S, NEW q \in Seq(S), NEW m \in S, NEW T
  PROVE  /\ HasType(Append(q, m), T) <=> HasType(q, T) \/ m.type \in T
         /\ AtMostOne(q, T) /\ (HasType(q, T) => m.type \notin T) => AtMostOne(Append(q, m), T)
<1> Len(q) \in Nat
  OBVIOUS
<1>1. HasType(Append(q, m), T) <=> HasType(q, T) \/ m.type \in T
  BY SendProperties DEF HasType
<1>2. ASSUME AtMostOne(q, T), HasType(q, T) => m.type \notin T
      PROVE  AtMostOne(Append(q, m), T)
  BY <1>2, SendProperties DEF HasType, AtMostOne
<1> QED
  BY <1>1, <1>2

LEMMA TailHas ==
  ASSUME NEW S, NEW q \in Seq(S), q # << >>, NEW T
  PROVE  /\ HasType(Tail(q), T) => HasType(q, T)
         /\ AtMostOne(q, T) => AtMostOne(Tail(q), T)
         /\ Head(q).type \in T => HasType(q, T)
         /\ AtMostOne(q, T) /\ Head(q).type \in T => ~HasType(Tail(q), T)
<1> USE TailProperties
<1>1. HasType(Tail(q), T) => HasType(q, T)
  BY DEF HasType
<1>2. AtMostOne(q, T) => AtMostOne(Tail(q), T)
  <2> SUFFICES ASSUME AtMostOne(q, T), NEW i \in 1 .. Len(Tail(q)), NEW j \in 1 .. Len(Tail(q)),
                      Tail(q)[i].type \in T, Tail(q)[j].type \in T
               PROVE  i = j
    BY DEF AtMostOne
  <2>1. i + 1 \in 1 .. Len(q) /\ j + 1 \in 1 .. Len(q)
    OBVIOUS
  <2> QED
    BY <2>1 DEF AtMostOne
<1>3. Head(q).type \in T => HasType(q, T)
  BY DEF HasType
<1>4. AtMostOne(q, T) /\ Head(q).type \in T => ~HasType(Tail(q), T)
  <2> SUFFICES ASSUME AtMostOne(q, T), q[1].type \in T,
                      NEW i \in 1 .. Len(Tail(q)), Tail(q)[i].type \in T
               PROVE  FALSE
    BY DEF HasType
  <2>1. i + 1 \in 1 .. Len(q) /\ 1 \in 1 .. Len(q) /\ i + 1 # 1 /\ q[i + 1].type \in T
    OBVIOUS
  <2> QED
    BY <2>1 DEF AtMostOne
<1> QED
  BY <1>1, <1>2, <1>3, <1>4

-----------------------------------------------------------------------------
(* Types. *)
LEMMA TypesImplyTypeOK == Types => TypeOK
BY DEF Types, TypeOK, IdTypes, KernelTypes, PageTypes, WorkerTypes, WorkerStates, Entries, Caches, OwnRing, BootTypes

LEMMA EntryPut ==
  ASSUME KernelTypes, NEW p \in PidNums, NEW e \in Entries,
         table' = With(table, p, e), UNCHANGED exitCodes
  PROVE  KernelTypes'
<1>1. /\ DOMAIN table' = DOMAIN table \cup {p} /\ table'[p] = e
      /\ \A z \in DOMAIN table \ {p} : table'[z] = table[z]
  BY DEF With, Over
<1> QED
  BY <1>1 DEF KernelTypes

LEMMA CacheGrows ==
  ASSUME NEW c \in Caches, OwnRing(c), NEW side \in {"kernel", "guest"}, NEW S \in SUBSET Pipes,
         NEW h \in [{side} \X S -> 0 .. MaxPipes], OwnRing(h)
  PROVE  Over(h, c) \in Caches /\ OwnRing(Over(h, c))
<1>1. PICK D \in SUBSET Slots : c \in [D -> 0 .. MaxPipes]
  BY DEF Caches
<1>2. ({side} \X S) \cup D \in SUBSET Slots
  BY DEF Slots
<1>3. Over(h, c) \in [({side} \X S) \cup D -> 0 .. MaxPipes]
  BY <1>1 DEF Over
<1>4. OwnRing(Over(h, c))
  BY <1>1 DEF OwnRing, Over
<1> QED
  BY <1>2, <1>3, <1>4 DEF Caches

LEMMA CachesMade ==
  ASSUME NEW S \in SUBSET Pipes
  PROVE  LET zero == [k \in {"kernel"} \X S |-> 0]
             own == [k \in {"kernel"} \X S |-> k[2]] IN
         /\ zero \in [{"kernel"} \X S -> 0 .. MaxPipes] /\ OwnRing(zero)
         /\ own \in [{"kernel"} \X S -> 0 .. MaxPipes] /\ OwnRing(own)
<1>1. MaxPipes \in Nat
  BY LifecycleBounds
<1>2. \A k \in {"kernel"} \X S : k[2] \in Pipes
  OBVIOUS
<1> QED
  BY <1>1, <1>2 DEF OwnRing, Pipes

LEMMA EmptyCache == << >> \in Caches /\ OwnRing(<< >>)
<1>1. << >> \in [{} -> 0 .. MaxPipes] /\ {} \in SUBSET Slots
  OBVIOUS
<1> QED
  BY <1>1 DEF Caches, OwnRing

LEMMA InitTypes == Init => Types
<1> SUFFICES ASSUME Init PROVE Types
  OBVIOUS
<1> USE LifecycleBounds DEF Init
<1>1. IdTypes
  BY DEF IdTypes, PidNums, Procs, Pipes
<1>2. KernelTypes
  BY DEF KernelTypes
<1>3. PageTypes
  BY DEF PageTypes, Workers, PidNums
<1>4. WorkerTypes
  BY EmptyCache DEF WorkerTypes, WorkerStates, BootTypes
<1>5. ChannelsOK
  <2>1. Msg("register", 1, 1, {}) \in KernelMsgs /\ Msg("boot", 1, 1, {}) \in ToWorker
    BY DEF Msg, KernelMsgs, ToWorker, BootMsgs, BootTypes, Procs, PidNums
  <2> QED
    BY <2>1 DEF ChannelsOK
<1> QED
  BY <1>1, <1>2, <1>3, <1>4, <1>5 DEF Types

LEMMA WorkerPut ==
  ASSUME WorkerTypes, NEW w \in Workers, NEW r \in WorkerStates, OwnRing(r.cache),
         wk' = [wk EXCEPT ![w] = r]
  PROVE  WorkerTypes'
BY DEF WorkerTypes

\* One message sent and one taken, on each kind of channel.
LEMMA SentToPage ==
  ASSUME ChannelsOK, NEW m \in ToPage, k2m' = Append(k2m, m), UNCHANGED <<m2k, m2w, w2m>>
  PROVE  ChannelsOK'
BY DEF ChannelsOK

LEMMA WorkerQueuePut ==
  ASSUME ChannelsOK, NEW w \in Workers, NEW q \in Seq(ToWorker)
  PROVE  [m2w EXCEPT ![w] = q] \in [Workers -> Seq(ToWorker)]
BY DEF ChannelsOK

LEMMA ReportQueuePut ==
  ASSUME ChannelsOK, NEW w \in Workers, NEW q \in Seq(FromWorkers)
  PROVE  [w2m EXCEPT ![w] = q] \in [Workers -> Seq(FromWorkers)]
BY DEF ChannelsOK

LEMMA Reports ==
  ASSUME IdTypes, PidGiven, NEW w \in Workers, Live(w), NEW t \in {"memory", "exit"}
  PROVE  Msg(t, wk[w].g, pid[wk[w].g], {}) \in FromWorkers
BY DEF IdTypes, PidGiven, Msg, FromWorkers, ReportMsgs

LEMMA LiveProcess ==
  ASSUME IdTypes, PidGiven, NEW w \in Workers, Running(w)
  PROVE  Live(w) /\ wk[w].g \in Procs /\ pid[wk[w].g] \in PidNums \ {0}
BY DEF IdTypes, PidGiven, Running

LEMMA ForkTypesKept ==
  ASSUME Types, PidGiven, NEW w \in Workers, NEW kind \in ForkTypes, NEW p \in PidNums, Fork(w, kind, p)
  PROVE  /\ KernelTypes' /\ ChannelsOK' /\ procs' \in Procs /\ counter' \in [Procs -> 1 .. MaxPid]
         /\ told' \in [Procs -> PidNums] /\ pipesOf' \in [Procs -> SUBSET Pipes]
<1> DEFINE g == wk[w].g
           S == table[pid[g]].fds
<1> USE DEF Types
<1>1. g \in Procs /\ pid[g] \in PidNums /\ Served(g)
  BY LiveProcess DEF Fork
<1>2. table[pid[g]] \in Entries /\ S \in SUBSET Pipes
  BY <1>1 DEF Served, KernelTypes, Entries
<1>3. procs + 1 \in Procs /\ ForkPid(g) \in 1 .. MaxPid
  <2>1. procs < MaxProcs /\ procs \in 1 .. MaxProcs /\ ForkPid(g) <= MaxPid /\ counter[g] \in 1 .. MaxPid
    BY <1>1 DEF Fork, IdTypes, Procs
  <2> QED
    BY <2>1, LifecycleBounds DEF Procs, ForkPid
<1>4. KernelTypes'
  <2>1. Entry(0, 0, S) \in Entries
    BY <1>2, LifecycleBounds DEF Entry, Entries
  <2> QED
    BY <2>1, EntryPut DEF Fork
<1>5. ChannelsOK'
  <2>1. ForkRequest(kind, procs + 1, p, S, pid[g]) \in ToPage
    BY <1>1, <1>2, <1>3 DEF ForkRequest, ToPage, ForkRequests
  <2> QED
    BY <2>1, SentToPage DEF Fork
<1> QED
  <2>1. /\ procs' = procs + 1 /\ counter' = [counter EXCEPT ![g] = ForkPid(g)]
        /\ told' = [told EXCEPT ![procs + 1] = ForkPid(g)] /\ pipesOf' = [pipesOf EXCEPT ![procs + 1] = pipesOf[g]]
    BY DEF Fork
  <2>2. ForkPid(g) \in PidNums
    BY <1>3 DEF PidNums
  <2> QED
    BY <1>1, <1>3, <1>4, <1>5, <2>1, <2>2 DEF IdTypes

LEMMA TypesPreserved == IInv /\ [Next]_vars => Types'
<1> SUFFICES ASSUME IInv, [Next]_vars PROVE Types'
  OBVIOUS
<1> USE DEF Types
<1>0. Types /\ PidGiven /\ SpawnOrder /\ \A w \in Workers : OneLife(w)
  BY DEF IInv
<1> USE <1>0
<1>1. ASSUME NEW w \in Workers, ForkExec(w) PROVE Types'
  <2> DEFINE p == ForkPid(wk[w].g)
  <2>1. p \in PidNums \ {0}
    <3>1. Running(w) /\ ForkPid(wk[w].g) <= MaxPid
      BY <1>1 DEF ForkExec, Fork
    <3>2. counter[wk[w].g] \in 1 .. MaxPid
      BY <3>1, LiveProcess DEF IdTypes
    <3>3. MaxPid \in Nat
      BY LifecycleBounds
    <3> HIDE DEF p
    <3>4. p = counter[wk[w].g] + 1
      BY DEF p, ForkPid
    <3> QED
      BY <3>1, <3>2, <3>3, <3>4 DEF ForkPid, PidNums
  <2>2. nextPid' \in 1 .. (MaxPid + 1)
    <3>1. nextPid' = IF p >= nextPid THEN p + 1 ELSE nextPid
      BY <1>1 DEF ForkExec
    <3>2. p \in 1 .. MaxPid /\ nextPid \in 1 .. (MaxPid + 1)
      BY <2>1 DEF IdTypes, PidNums
    <3> QED
      BY <3>1, <3>2, LifecycleBounds
  <2>3. Fork(w, "exec", p) /\ "exec" \in ForkTypes
    BY <1>1 DEF ForkExec, ForkTypes
  <2> QED
    BY <1>1, <2>1, <2>2, <2>3, ForkTypesKept
    DEF ForkExec, Fork, IdTypes, PageTypes, WorkerTypes, page
<1>2. ASSUME NEW w \in Workers, FullFork(w) PROVE Types'
  <2>1. /\ bridgePid' \in PidNums \ {0} /\ nextPid' \in 1 .. (MaxPid + 1)
        /\ \E p \in PidNums : Fork(w, "full", p)
    BY <1>2, LifecycleBounds DEF FullFork, IdTypes, PidNums
  <2>2. "full" \in ForkTypes
    BY DEF ForkTypes
  <2> QED
    BY <2>1, <2>2, ForkTypesKept DEF Fork, IdTypes, PageTypes, WorkerTypes, page
<1>3. ASSUME NEW w \in Workers, VforkExit(w) PROVE Types'
  <2>1. wk[w].g \in Procs
    BY <1>3, LiveProcess DEF VforkExit
  <2>2. counter' \in [Procs -> 1 .. MaxPid]
    <3>1. ForkPid(wk[w].g) \in 1 .. MaxPid
      BY <1>3, <2>1, LifecycleBounds DEF VforkExit, IdTypes, ForkPid
    <3> QED
      BY <1>3, <2>1, <3>1 DEF VforkExit, IdTypes
  <2> QED
    BY <1>3, <2>2 DEF VforkExit, IdTypes, KernelTypes, PageTypes, WorkerTypes, ChannelsOK, kern, page, chans
<1>4. ASSUME NEW w \in Workers, PipeCreate(w) PROVE Types'
  <2> DEFINE g == wk[w].g
             q == pipes + 1
  <2>1. g \in Procs /\ pid[g] \in PidNums /\ Served(g) /\ q \in Pipes
    BY <1>4, LiveProcess, LifecycleBounds DEF PipeCreate, IdTypes, Pipes
  <2>2. IdTypes'
    <3>1. pipes' \in 0 .. MaxPipes /\ pipesOf' \in [Procs -> SUBSET Pipes]
      BY <1>4, <2>1, LifecycleBounds DEF PipeCreate, IdTypes, Pipes
    <3> QED
      BY <1>4, <3>1 DEF PipeCreate, IdTypes
  <2>3. KernelTypes'
    BY <1>4, <2>1 DEF PipeCreate, KernelTypes, Entries, Served
  <2>4. WorkerTypes'
    <3> DEFINE h == [z \in {<<"guest", q>>} |-> q]
               r == [wk[w] EXCEPT !.cache = Over(h, wk[w].cache)]
    <3>1. wk[w] \in WorkerStates /\ wk[w].cache \in Caches /\ OwnRing(wk[w].cache)
      BY DEF WorkerTypes, WorkerStates
    <3>2. {<<"guest", q>>} = {"guest"} \X {q} /\ {q} \in SUBSET Pipes
      BY <2>1
    <3>3. h \in [{"guest"} \X {q} -> 0 .. MaxPipes]
      BY <3>2, <2>1 DEF Pipes
    <3>4. OwnRing(h)
      BY DEF OwnRing
    <3>5. Over(h, wk[w].cache) \in Caches /\ OwnRing(Over(h, wk[w].cache))
      BY <3>1, <3>2, <3>3, <3>4, CacheGrows
    <3>6. r \in WorkerStates /\ OwnRing(r.cache)
      BY <3>1, <3>5 DEF WorkerStates
    <3>7. wk' = [wk EXCEPT ![w] = r]
      <4>1. With(wk[w].cache, <<"guest", q>>, q) = Over(h, wk[w].cache)
        BY DEF With, Over
      <4> QED
        BY <1>4, <4>1 DEF PipeCreate
    <3> QED
      BY <3>6, <3>7, WorkerPut
  <2>5. ChannelsOK'
    <3>1. Msg("pipe", 0, pid[g], {q}) \in ToPage
      BY <2>1 DEF Msg, ToPage, PipeMsgs
    <3> QED
      BY <1>4, <3>1, SentToPage DEF PipeCreate
  <2> QED
    BY <1>4, <2>2, <2>3, <2>4, <2>5 DEF PipeCreate, PageTypes, page
<1>5. ASSUME NEW w \in Workers, GuestExit(w) PROVE Types'
  <2> DEFINE r == [wk[w] EXCEPT !.st = "idle"]
             m == Msg("exit", wk[w].g, pid[wk[w].g], {})
  <2>1. WorkerTypes'
    <3>1. r \in WorkerStates /\ OwnRing(r.cache) /\ wk' = [wk EXCEPT ![w] = r]
      BY <1>5 DEF GuestExit, WorkerTypes, WorkerStates
    <3> QED
      BY <3>1, WorkerPut
  <2>2. ChannelsOK'
    <3>1. m \in FromWorkers
      BY <1>5, LiveProcess, Reports DEF GuestExit
    <3>2. Append(w2m[w], m) \in Seq(FromWorkers)
      BY <3>1, SendProperties DEF ChannelsOK
    <3>3. w2m' = [w2m EXCEPT ![w] = Append(w2m[w], m)] /\ UNCHANGED <<k2m, m2k, m2w>>
      BY <1>5 DEF GuestExit
    <3> QED
      BY <3>2, <3>3, ReportQueuePut DEF ChannelsOK
  <2> QED
    BY <1>5, <2>1, <2>2 DEF GuestExit, IdTypes, KernelTypes, PageTypes, ids, kern, page
<1>6. ASSUME NEW w \in Workers, Start(w) PROVE Types'
  <2> DEFINE m == Head(m2w[w])
             zero == [k \in {"kernel"} \X m.pipes |-> 0]
             r == [st |-> "boot", g |-> m.g, kind |-> m.type, cache |-> Over(zero, wk[w].cache)]
  <2>1. m2w[w] \in Seq(ToWorker) /\ m \in ToWorker /\ m.type \in BootTypes /\ Tail(m2w[w]) \in Seq(ToWorker)
    BY <1>6, TailProperties DEF Start, Got, ChannelsOK, BootTypes
  <2>2. m \in BootMsgs
    BY <2>1 DEF ToWorker, ResetMsgs, PipeMsgs, BootTypes
  <2>3. WorkerTypes'
    <3>1. wk[w].cache \in Caches /\ OwnRing(wk[w].cache) /\ m.pipes \in SUBSET Pipes
      BY <2>2 DEF WorkerTypes, WorkerStates, BootMsgs
    <3>2. zero \in [{"kernel"} \X m.pipes -> 0 .. MaxPipes] /\ OwnRing(zero)
      BY <3>1, CachesMade
    <3>3. Over(zero, wk[w].cache) \in Caches /\ OwnRing(Over(zero, wk[w].cache))
      BY <3>1, <3>2, CacheGrows
    <3>4. r \in WorkerStates /\ OwnRing(r.cache)
      BY <2>2, <3>3 DEF WorkerStates, BootMsgs, Procs
    <3> QED
      BY <1>6, <3>4, WorkerPut DEF Start
  <2>4. ChannelsOK'
    BY <1>6, <2>1, WorkerQueuePut DEF Start, ChannelsOK
  <2> QED
    BY <1>6, <2>3, <2>4 DEF Start, IdTypes, KernelTypes, PageTypes, ids, kern, page
<1>7. ASSUME NEW w \in Workers, Instantiated(w) PROVE Types'
  <2> DEFINE r == [wk[w] EXCEPT !.st = IF wk[w].kind = "full" THEN "settle" ELSE "run"]
             m == Msg("memory", wk[w].g, pid[wk[w].g], {})
  <2>1. WorkerTypes'
    <3>1. r \in WorkerStates /\ OwnRing(r.cache) /\ wk' = [wk EXCEPT ![w] = r]
      BY <1>7 DEF Instantiated, WorkerTypes, WorkerStates
    <3> QED
      BY <3>1, WorkerPut
  <2>2. ChannelsOK'
    <3>1. m \in FromWorkers
      BY <1>7, Reports DEF Instantiated, Live
    <3>2. Append(w2m[w], m) \in Seq(FromWorkers)
      BY <3>1, SendProperties DEF ChannelsOK
    <3>3. w2m' = [w2m EXCEPT ![w] = Append(w2m[w], m)] /\ UNCHANGED <<k2m, m2k, m2w>>
      BY <1>7 DEF Instantiated
    <3> QED
      BY <3>2, <3>3, ReportQueuePut DEF ChannelsOK
  <2> QED
    BY <1>7, <2>1, <2>2 DEF Instantiated, IdTypes, KernelTypes, PageTypes, ids, kern, page
<1>8. ASSUME NEW w \in Workers, NEW st \in {"idle", "run"}, wk' = [wk EXCEPT ![w].st = st],
             UNCHANGED <<ids, kern, page, chans>>
      PROVE  Types'
  <2> DEFINE r == [wk[w] EXCEPT !.st = st]
  <2>1. r \in WorkerStates /\ OwnRing(r.cache) /\ wk' = [wk EXCEPT ![w] = r]
    BY <1>8 DEF WorkerTypes, WorkerStates
  <2> QED
    BY <1>8, <2>1, WorkerPut DEF IdTypes, KernelTypes, PageTypes, ChannelsOK, ids, kern, page, chans
<1>9. ASSUME NEW w \in Workers, Reset(w) PROVE Types'
  <2> DEFINE r == [wk[w] EXCEPT !.cache = << >>]
             m == Msg("reset-ack", 0, 0, {})
  <2>1. m2w[w] \in Seq(ToWorker) /\ Tail(m2w[w]) \in Seq(ToWorker)
    BY <1>9, TailProperties DEF Reset, Got, ChannelsOK
  <2>2. WorkerTypes'
    <3>1. r \in WorkerStates /\ OwnRing(r.cache) /\ wk' = [wk EXCEPT ![w] = r]
      BY <1>9, EmptyCache DEF Reset, WorkerTypes, WorkerStates, CacheAfterReset
    <3> QED
      BY <3>1, WorkerPut
  <2>3. ChannelsOK'
    <3>1. m \in FromWorkers
      BY DEF Msg, FromWorkers, AckMsgs
    <3>2. Append(w2m[w], m) \in Seq(FromWorkers)
      BY <3>1, SendProperties DEF ChannelsOK
    <3>3. w2m' = [w2m EXCEPT ![w] = Append(w2m[w], m)] /\ m2w' = [m2w EXCEPT ![w] = Tail(m2w[w])]
      BY <1>9 DEF Reset
    <3> QED
      BY <1>9, <2>1, <3>2, <3>3, ReportQueuePut, WorkerQueuePut DEF Reset, ChannelsOK
  <2> QED
    BY <1>9, <2>2, <2>3 DEF Reset, IdTypes, KernelTypes, PageTypes, ids, kern, page
<1>10. ASSUME NEW w \in Workers, PipeFdCache(w) PROVE Types'
  <2> DEFINE m == Head(m2w[w])
             own == [k \in {"kernel"} \X m.pipes |-> k[2]]
             r == [wk[w] EXCEPT !.cache = Over(own, wk[w].cache)]
  <2>1. m2w[w] \in Seq(ToWorker) /\ m \in ToWorker /\ m.type = "pipe" /\ Tail(m2w[w]) \in Seq(ToWorker)
    BY <1>10, TailProperties DEF PipeFdCache, Got, ChannelsOK
  <2>2. m.pipes \in SUBSET Pipes
    BY <2>1 DEF ToWorker, ResetMsgs, PipeMsgs, BootMsgs
  <2>3. WorkerTypes'
    <3>1. wk[w].cache \in Caches /\ OwnRing(wk[w].cache)
      BY DEF WorkerTypes, WorkerStates
    <3>2. own \in [{"kernel"} \X m.pipes -> 0 .. MaxPipes] /\ OwnRing(own)
      BY <2>2, CachesMade
    <3>3. Over(own, wk[w].cache) \in Caches /\ OwnRing(Over(own, wk[w].cache))
      BY <2>2, <3>1, <3>2, CacheGrows
    <3>4. r \in WorkerStates /\ OwnRing(r.cache)
      BY <3>3 DEF WorkerTypes, WorkerStates
    <3> QED
      BY <1>10, <3>4, WorkerPut DEF PipeFdCache
  <2>4. ChannelsOK'
    BY <1>10, <2>1, WorkerQueuePut DEF PipeFdCache, ChannelsOK
  <2> QED
    BY <1>10, <2>3, <2>4 DEF PipeFdCache, IdTypes, KernelTypes, PageTypes, ids, kern, page
<1>11. ASSUME Spawn PROVE Types'
  <2> DEFINE m == Head(k2m)
             p == SpawnPid(m)
             w == IF pool # << >> THEN Last(pool) ELSE made + 1
  <2>1. m \in ForkRequests /\ Tail(k2m) \in Seq(ToPage) /\ Len(k2m) \in Nat \ {0} /\ m = k2m[1]
    BY <1>11, TailProperties DEF Spawn, ChannelsOK, ToPage, PipeMsgs
  <2>2. m.g \in Procs /\ m.type \in BootTypes /\ p \in PidNums \ {0} /\ m.pipes \in SUBSET Pipes
    BY <1>11, <2>1 DEF Spawn, ForkRequests, ForkTypes, BootTypes, SpawnPid, PidNums
  <2>3. made + 2 <= PoolSize + m.g
    BY <2>1 DEF SpawnOrder, ForkRequests
  <2>4. /\ w \in Workers /\ made' \in Workers /\ made <= made' /\ w \in 1 .. made'
        /\ pool' \in Seq(Workers) /\ \A i \in 1 .. Len(pool') : pool'[i] \in 1 .. made
    <3>1. CASE pool # << >>
      <4>1. w = Last(pool) /\ pool' = Front(pool) /\ made' = made
        BY <1>11, <3>1 DEF Spawn
      <4>2. pool \in Seq(Workers) /\ made \in Workers /\ \A i \in 1 .. Len(pool) : pool[i] \in 1 .. made
        BY DEF PageTypes
      <4>3. /\ w = pool[Len(pool)] /\ Len(pool) \in Nat \ {0}
            /\ pool' \in Seq(Workers) /\ Len(pool') = Len(pool) - 1
            /\ \A i \in 1 .. Len(pool') : pool'[i] = pool[i]
        BY <3>1, <4>1, <4>2, FrontProperties
      <4>4. made \in Int /\ w \in 1 .. made /\ w \in Workers
        BY <4>2, <4>3, LifecycleBounds DEF Workers
      <4> QED
        BY <4>1, <4>2, <4>3, <4>4
    <3>2. CASE pool = << >>
      BY <1>11, <2>2, <2>3, <3>2, LifecycleBounds DEF Spawn, PageTypes, Workers, Procs
    <3> QED
      BY <3>1, <3>2
  <2>5. PageTypes'
    <3>1. exec' = With(exec, p, w) /\ closure' = [closure EXCEPT ![w] = p]
      BY <1>11 DEF Spawn
    <3>2. /\ DOMAIN exec' = DOMAIN exec \cup {p} /\ exec'[p] = w
          /\ \A z \in DOMAIN exec \ {p} : exec'[z] = exec[z]
      BY <3>1 DEF With, Over
    <3>3. 1 .. made \subseteq 1 .. made'
      BY <2>4 DEF PageTypes, Workers
    <3> QED
      BY <2>2, <2>4, <3>1, <3>2, <3>3 DEF PageTypes
  <2>6. IdTypes'
    BY <1>11, <2>2 DEF Spawn, IdTypes
  <2>7. ChannelsOK'
    <3>1. Msg("register", m.g, p, {}) \in KernelMsgs /\ Msg(m.type, m.g, p, m.pipes) \in ToWorker
      BY <2>2 DEF Msg, KernelMsgs, ToWorker, BootMsgs
    <3>2. m2k' = Append(m2k, Msg("register", m.g, p, {})) /\ k2m' = Tail(k2m) /\ w2m' = w2m
      BY <1>11 DEF Spawn
    <3>3. m2w' = [m2w EXCEPT ![w] = Append(m2w[w], Msg(m.type, m.g, p, m.pipes))]
      BY <1>11 DEF Spawn
    <3>4. Append(m2w[w], Msg(m.type, m.g, p, m.pipes)) \in Seq(ToWorker)
      BY <2>4, <3>1 DEF ChannelsOK
    <3>5. m2w' \in [Workers -> Seq(ToWorker)]
      BY <2>4, <3>3, <3>4, WorkerQueuePut
    <3> QED
      BY <2>1, <3>1, <3>2, <3>5 DEF ChannelsOK
  <2> QED
    BY <1>11, <2>5, <2>6, <2>7 DEF Spawn, KernelTypes, WorkerTypes, kern
<1>12. ASSUME RelayPipe PROVE Types'
  <2> DEFINE m == Head(k2m)
             w == exec[m.pid]
  <2>1. m \in PipeMsgs /\ Tail(k2m) \in Seq(ToPage)
    <3>1. m \in ToPage /\ Tail(k2m) \in Seq(ToPage) /\ m.type = "pipe"
      BY <1>12, TailProperties DEF RelayPipe, ChannelsOK
    <3> QED
      BY <3>1 DEF ToPage, ForkRequests, ForkTypes
  <2>2. m2w' \in [Workers -> Seq(ToWorker)]
    <3>1. CASE m.pid \in DOMAIN exec
      <4>1. w \in Workers
        BY <3>1, LifecycleBounds DEF PageTypes, Workers
      <4>2. Append(m2w[w], m) \in Seq(ToWorker)
        BY <2>1, <4>1 DEF ChannelsOK, ToWorker
      <4> QED
        BY <1>12, <3>1, <4>1, <4>2, WorkerQueuePut DEF RelayPipe
    <3>2. CASE m.pid \notin DOMAIN exec
      BY <1>12, <3>2 DEF RelayPipe, ChannelsOK
    <3> QED
      BY <3>1, <3>2
  <2> QED
    BY <1>12, <2>1, <2>2 DEF RelayPipe, IdTypes, KernelTypes, PageTypes, WorkerTypes, ChannelsOK, ids, kern, page
<1>13. ASSUME NEW w \in Workers, NEW t \in {"memory", "exit", "reset-ack"}, FromWorker(w, t)
       PROVE  /\ [w2m EXCEPT ![w] = Tail(w2m[w])] \in [Workers -> Seq(FromWorkers)]
              /\ t # "reset-ack" => Append(m2k, Head(w2m[w])) \in Seq(KernelMsgs)
  <2>1. w2m[w] \in Seq(FromWorkers) /\ w2m[w] # << >> /\ Head(w2m[w]).type = t
    BY <1>13 DEF ChannelsOK, FromWorker
  <2>2. Head(w2m[w]) \in FromWorkers /\ Tail(w2m[w]) \in Seq(FromWorkers)
    BY <2>1, TailProperties
  <2>3. t # "reset-ack" => Head(w2m[w]) \in KernelMsgs
    BY <2>1, <2>2 DEF FromWorkers, AckMsgs, ReportMsgs, KernelMsgs
  <2> QED
    BY <2>2, <2>3, ReportQueuePut DEF ChannelsOK
<1>14. ASSUME NEW w \in Workers, RelayMemory(w) PROVE Types'
  BY <1>14, <1>13 DEF RelayMemory, IdTypes, KernelTypes, PageTypes, WorkerTypes, ChannelsOK, ids, kern, page
<1>15. ASSUME NEW w \in Workers, ExitMessage(w) PROVE Types'
  <2>1. /\ w2m' \in [Workers -> Seq(FromWorkers)] /\ m2k' \in Seq(KernelMsgs)
    BY <1>15, <1>13 DEF ExitMessage
  <2>2. m2w' \in [Workers -> Seq(ToWorker)]
    <3>1. Msg("reset", 0, 0, {}) \in ToWorker
      BY DEF Msg, ToWorker, ResetMsgs
    <3>2. Append(m2w[w], Msg("reset", 0, 0, {})) \in Seq(ToWorker)
      BY <3>1 DEF ChannelsOK
    <3>3. m2w' = m2w \/ m2w' = [m2w EXCEPT ![w] = Append(m2w[w], Msg("reset", 0, 0, {}))]
      BY <1>15 DEF ExitMessage
    <3> QED
      BY <3>2, <3>3, WorkerQueuePut DEF ChannelsOK
  <2>3. PageTypes'
    <3>1. exec' = Without(exec, closure[w]) /\ UNCHANGED <<made, closure>> /\ (pool' = pool \/ pool' = Append(pool, w))
      BY <1>15 DEF ExitMessage, PoolAfter
    <3>2. w \in 1 .. made
      <4>1. HasType(w2m[w], {"exit"})
        BY <1>15, TailHas DEF ExitMessage, FromWorker, ChannelsOK
      <4> QED
        BY <4>1 DEF OneLife, PageTypes, Workers
    <3>3. DOMAIN exec' \subseteq DOMAIN exec /\ \A z \in DOMAIN exec' : exec'[z] = exec[z]
      BY <3>1 DEF Without, Restrict
    <3>4. pool' \in Seq(Workers) /\ \A i \in 1 .. Len(pool') : pool'[i] \in 1 .. made
      <4>1. pool \in Seq(Workers) /\ \A i \in 1 .. Len(pool) : pool[i] \in 1 .. made
        BY DEF PageTypes
      <4>2. CASE pool' = Append(pool, w)
        BY <3>1, <3>2, <4>1, <4>2, SendProperties
      <4> QED
        BY <3>1, <4>1, <4>2
    <3> QED
      BY <3>1, <3>3, <3>4 DEF PageTypes
  <2> QED
    BY <1>15, <2>1, <2>2, <2>3 DEF ExitMessage, IdTypes, KernelTypes, WorkerTypes, ChannelsOK, ids, kern
<1>16. ASSUME NEW w \in Workers, ResetAck(w) PROVE Types'
  BY <1>16, <1>13 DEF ResetAck, IdTypes, KernelTypes, PageTypes, WorkerTypes, ChannelsOK, ids, kern, page
<1>17. ASSUME NEW t, ToKernel(t) PROVE Head(m2k) \in KernelMsgs /\ Tail(m2k) \in Seq(KernelMsgs)
  BY <1>17, TailProperties DEF ToKernel, ChannelsOK
<1>18. ASSUME Register PROVE Types'
  <2> DEFINE m == Head(m2k)
             e == [Existing(m.pid) EXCEPT !.ctl = m.g]
  <2>1. m.pid \in PidNums \ {0} /\ m.g \in Procs /\ Tail(m2k) \in Seq(KernelMsgs)
    BY <1>18, <1>17 DEF Register, KernelMsgs
  <2>2. e \in Entries
    <3>1. Existing(m.pid) \in Entries
      BY LifecycleBounds DEF Existing, KernelTypes, Entry, Entries
    <3> QED
      BY <2>1, <3>1 DEF Entries, Procs
  <2>3. KernelTypes'
    BY <1>18, <2>1, <2>2, EntryPut DEF Register
  <2>4. nextPid' \in 1 .. (MaxPid + 1)
    <3>1. m.pid \in 1 .. MaxPid /\ nextPid \in 1 .. (MaxPid + 1)
      BY <2>1 DEF IdTypes, PidNums
    <3>2. nextPid' = IF m.pid >= nextPid THEN m.pid + 1 ELSE nextPid
      BY <1>18 DEF Register
    <3> QED
      BY <3>1, <3>2, LifecycleBounds
  <2> QED
    BY <1>18, <2>1, <2>3, <2>4 DEF Register, IdTypes, PageTypes, WorkerTypes, ChannelsOK, page
<1>19. ASSUME RegisterMemory PROVE Types'
  <2> DEFINE m == Head(m2k)
  <2>1. m.g \in Procs /\ Tail(m2k) \in Seq(KernelMsgs)
    BY <1>19, <1>17 DEF RegisterMemory, KernelMsgs
  <2>2. KernelTypes'
    <3>1. CASE m.pid \in DOMAIN table
      <4>1. [table[m.pid] EXCEPT !.mem = m.g] \in Entries
        BY <2>1, <3>1 DEF KernelTypes, Entries, Procs
      <4>2. table' = [table EXCEPT ![m.pid] = [table[m.pid] EXCEPT !.mem = m.g]] /\ UNCHANGED exitCodes
        BY <1>19, <3>1 DEF RegisterMemory
      <4>3. DOMAIN table' = DOMAIN table /\ \A z \in DOMAIN table : table'[z] \in Entries
        BY <4>1, <4>2 DEF KernelTypes
      <4> QED
        BY <4>2, <4>3 DEF KernelTypes
    <3> QED
      BY <1>19, <3>1 DEF RegisterMemory, KernelTypes
  <2> QED
    BY <1>19, <2>1, <2>2 DEF RegisterMemory, IdTypes, PageTypes, WorkerTypes, ChannelsOK, ids, page
<1>20. ASSUME WorkerExit PROVE Types'
  <2> DEFINE m == Head(m2k)
  <2>1. m.pid \in PidNums \ {0} /\ Tail(m2k) \in Seq(KernelMsgs)
    BY <1>20, <1>17 DEF WorkerExit, KernelMsgs
  <2>2. KernelTypes'
    BY <1>20, <2>1 DEF WorkerExit, AfterExit, Without, Restrict, KernelTypes
  <2> QED
    BY <1>20, <2>1, <2>2 DEF WorkerExit, IdTypes, PageTypes, WorkerTypes, ChannelsOK, ids, page
<1>21. CASE UNCHANGED vars
  BY <1>21 DEF vars, IdTypes, KernelTypes, PageTypes, WorkerTypes, ChannelsOK, ids, kern, page, chans
<1>22. ASSUME NEW w \in Workers, InstantiateFails(w) \/ Settled(w) PROVE Types'
  BY <1>22, <1>8 DEF InstantiateFails, Settled
<1> QED
  BY <1>1, <1>2, <1>3, <1>4, <1>5, <1>6, <1>7, <1>9, <1>10, <1>11, <1>12, <1>14, <1>15, <1>16,
     <1>18, <1>19, <1>20, <1>21, <1>22
  DEF Next, GuestStep, WorkerStep, PageStep, KernelStep

-----------------------------------------------------------------------------
(* One life at a time. *)
Lives == PoolOnce /\ ExecOK /\ \A w \in Workers : OneLife(w)

LEMMA SameLife ==
  ASSUME NEW v \in Workers, OneLife(v), made \in Int, made' \in Int, made <= made',
         m2w'[v] = m2w[v], w2m'[v] = w2m[v], wk'[v].st = wk[v].st, Pooled(v)' => Pooled(v)
  PROVE  OneLife(v)'
<1>1. Live(v)' <=> Live(v)
  BY DEF Live
<1>2. v \in Int
  BY LifecycleBounds DEF Workers
<1> QED
  BY <1>1, <1>2 DEF OneLife

\* A step of the worker w alone: the page's data and the other workers stay as they are.
LEMMA StepOfOne ==
  ASSUME IInv, NEW w \in Workers, UNCHANGED page, OneLife(w)',
         \A v \in Workers \ {w} : m2w'[v] = m2w[v] /\ w2m'[v] = w2m[v] /\ wk'[v].st = wk[v].st
  PROVE  Lives'
<1>1. PoolOnce' /\ ExecOK'
  BY DEF IInv, PoolOnce, ExecOK, Pooled, page
<1>2. made \in Int /\ made' = made
  BY LifecycleBounds DEF IInv, Types, PageTypes, Workers, page
<1>3. \A v \in Workers : Pooled(v)' <=> Pooled(v)
  BY DEF Pooled, page
<1>4. ASSUME NEW v \in Workers PROVE OneLife(v)'
  BY <1>2, <1>3, SameLife DEF IInv
<1> QED
  BY <1>1, <1>4 DEF Lives

\* A step of nobody's life.
LEMMA StepOfNone ==
  ASSUME IInv, UNCHANGED <<page, m2w, w2m>>, \A v \in Workers : wk'[v].st = wk[v].st
  PROVE  Lives'
<1>1. PoolSize \in Workers
  BY LifecycleBounds DEF Workers
<1>2. made \in Int /\ made' = made
  BY LifecycleBounds DEF IInv, Types, PageTypes, Workers, page
<1>3. \A v \in Workers : Pooled(v)' <=> Pooled(v)
  BY DEF Pooled, page
<1>4. OneLife(PoolSize)'
  BY <1>1, <1>2, <1>3, SameLife DEF IInv
<1> QED
  BY <1>1, <1>4, StepOfOne

\* What the step of one worker does to it.
LEMMA LifeOfQueues ==
  ASSUME Types, NEW w \in Workers
  PROVE  /\ m2w[w] \in Seq(ToWorker) /\ w2m[w] \in Seq(FromWorkers) /\ wk[w] \in WorkerStates
         /\ BootTypes = {"boot", "exec", "full"}
BY DEF Types, ChannelsOK, WorkerTypes, BootTypes

LEMMA SpawnTakes ==
  ASSUME IInv, Spawn
  PROVE  \E w \in Workers :
            /\ w = IF pool # << >> THEN Last(pool) ELSE made + 1
            /\ made \in Int /\ made' \in Int /\ made <= made' /\ w <= made'
            /\ (\A p1 \in DOMAIN exec : exec[p1] # w) /\ (Pooled(w) \/ w > made)
            /\ (\A v \in Workers : Pooled(v)' => Pooled(v) /\ v # w) /\ PoolOnce'
<1>0. Types /\ PoolOnce /\ ExecOK /\ \A w \in Workers : OneLife(w)
  BY DEF IInv
<1> PICK w : w = IF pool # << >> THEN Last(pool) ELSE made + 1
  OBVIOUS
<1>1. made \in Int /\ \A v \in Workers : v \in Int
  BY <1>0, LifecycleBounds DEF Types, PageTypes, Workers
<1>2. CASE pool # << >>
  <2>1. pool \in Seq(Workers) /\ pool' = Front(pool) /\ w = Last(pool) /\ made' = made
    BY <1>0, <1>2 DEF Spawn, Types, PageTypes
  <2>2. /\ w = pool[Len(pool)] /\ Len(pool) \in Nat \ {0} /\ Len(pool') = Len(pool) - 1
        /\ \A i \in 1 .. Len(pool') : pool'[i] = pool[i]
    BY <1>2, <2>1, FrontProperties
  <2>3. w \in 1 .. made /\ w \in Workers /\ Pooled(w)
    BY <1>0, <2>1, <2>2 DEF Types, PageTypes, Pooled
  <2>4. \A p1 \in DOMAIN exec : exec[p1] # w
    BY <1>0, <2>3 DEF ExecOK
  <2>5. \A i \in 1 .. Len(pool') : pool[i] # w /\ i \in 1 .. Len(pool)
    BY <1>0, <2>2 DEF PoolOnce
  <2>6. \A v \in Workers : Pooled(v)' => Pooled(v) /\ v # w
    BY <2>2, <2>5 DEF Pooled
  <2>7. PoolOnce'
    BY <1>0, <2>2, <2>5 DEF PoolOnce
  <2> QED
    BY <1>1, <2>1, <2>3, <2>4, <2>6, <2>7
<1>3. CASE pool = << >>
  <2>1. pool' = pool /\ w = made + 1 /\ made' = w
    BY <1>3 DEF Spawn
  <2>2. w \in Workers
    <3>1. Types'
      BY TypesPreserved DEF Next, PageStep
    <3> QED
      BY <2>1, <3>1 DEF Types, PageTypes
  <2>3. /\ \A p1 \in DOMAIN exec : exec[p1] # w
        /\ \A v \in Workers : ~Pooled(v)
    BY <1>0, <1>1, <1>3, <2>1 DEF Types, PageTypes, Pooled
  <2>4. PoolOnce' /\ \A v \in Workers : ~Pooled(v)'
    BY <1>0, <1>3, <2>1, <2>3 DEF Pooled, PoolOnce
  <2> QED
    BY <1>1, <2>1, <2>2, <2>3, <2>4
<1> QED
  BY <1>2, <1>3

LEMMA LivesKept == IInv /\ [Next]_vars => Lives'
<1> SUFFICES ASSUME IInv, [Next]_vars PROVE Lives'
  OBVIOUS
<1>0. Types /\ PoolOnce /\ ExecOK /\ \A w \in Workers : OneLife(w)
  BY DEF IInv
<1>1. ASSUME NEW w \in Workers, ForkExec(w) \/ FullFork(w) \/ VforkExit(w) PROVE Lives'
  BY <1>1, StepOfNone DEF ForkExec, FullFork, VforkExit, Fork, page, chans
<1>2. ASSUME NEW w \in Workers, PipeCreate(w) PROVE Lives'
  <2>1. \A v \in Workers : wk'[v].st = wk[v].st
    BY <1>0, <1>2 DEF PipeCreate, Types, WorkerTypes, WorkerStates
  <2> QED
    BY <1>2, <2>1, StepOfNone DEF PipeCreate, page
<1>3. ASSUME NEW w \in Workers, GuestExit(w) PROVE Lives'
  <2> DEFINE m == Msg("exit", wk[w].g, pid[wk[w].g], {})
  <2>1. /\ m \in FromWorkers /\ m.type = "exit" /\ Live(w) /\ ~Live(w)'
        /\ w2m'[w] = Append(w2m[w], m) /\ m2w'[w] = m2w[w] /\ UNCHANGED page
    <3>1. Live(w) /\ m \in FromWorkers /\ m.type = "exit"
      BY <1>3, LiveProcess, Reports DEF GuestExit, IInv, Types, Msg
    <3>2. w2m'[w] = Append(w2m[w], m) /\ m2w'[w] = m2w[w] /\ UNCHANGED page /\ wk'[w].st = "idle"
      BY <1>3, <1>0 DEF GuestExit, Types, ChannelsOK, WorkerTypes, WorkerStates
    <3> QED
      BY <3>1, <3>2 DEF Live
  <2>2. AtMostOne(w2m'[w], {"exit"})
    BY <1>0, <2>1, LifeOfQueues, AppendHas DEF OneLife
  <2>3. ~Pooled(w)' /\ ~(w > made) /\ made' = made
    BY <1>0, <2>1 DEF OneLife, Pooled, page
  <2>4. OneLife(w)'
    BY <1>0, <2>1, <2>2, <2>3 DEF OneLife
  <2> QED
    BY <1>0, <1>3, <2>1, <2>4, StepOfOne DEF GuestExit, Types, ChannelsOK, WorkerTypes
<1>4. ASSUME NEW w \in Workers, Start(w) PROVE Lives'
  <2>1. /\ m2w[w] # << >> /\ Head(m2w[w]).type \in BootTypes /\ Live(w)'
        /\ m2w'[w] = Tail(m2w[w]) /\ w2m'[w] = w2m[w] /\ UNCHANGED page
    BY <1>4, <1>0 DEF Start, Got, BootTypes, Live, Types, ChannelsOK, WorkerTypes
  <2>2. HasType(m2w[w], BootTypes) /\ ~HasType(m2w'[w], BootTypes) /\ AtMostOne(m2w'[w], BootTypes)
    BY <1>0, <2>1, LifeOfQueues, TailHas DEF OneLife
  <2>3. ~Pooled(w)' /\ ~(w > made) /\ made' = made
    BY <1>0, <2>1, <2>2 DEF OneLife, Pooled, page
  <2>4. OneLife(w)'
    BY <1>0, <2>1, <2>2, <2>3 DEF OneLife
  <2> QED
    BY <1>0, <1>4, <2>1, <2>4, StepOfOne DEF Start, Types, ChannelsOK, WorkerTypes
<1>5. ASSUME NEW w \in Workers, Instantiated(w) PROVE Lives'
  <2> DEFINE m == Msg("memory", wk[w].g, pid[wk[w].g], {})
  <2>1. /\ m \in FromWorkers /\ m.type = "memory" /\ Live(w) /\ Live(w)'
        /\ w2m'[w] = Append(w2m[w], m) /\ m2w'[w] = m2w[w] /\ UNCHANGED page
    <3>1. Live(w) /\ m \in FromWorkers /\ m.type = "memory"
      BY <1>5, Reports DEF Instantiated, IInv, Types, Msg, Live
    <3>2. w2m'[w] = Append(w2m[w], m) /\ m2w'[w] = m2w[w] /\ UNCHANGED page /\ wk'[w].st \in {"settle", "run"}
      BY <1>5, <1>0 DEF Instantiated, Types, ChannelsOK, WorkerTypes, WorkerStates
    <3> QED
      BY <3>1, <3>2 DEF Live
  <2>2. AtMostOne(w2m'[w], {"exit"}) /\ ~HasType(w2m'[w], {"exit"})
    BY <1>0, <2>1, LifeOfQueues, AppendHas DEF OneLife
  <2>3. ~Pooled(w)' /\ ~(w > made) /\ made' = made
    BY <1>0, <2>1 DEF OneLife, Pooled, page
  <2>4. OneLife(w)'
    BY <1>0, <2>1, <2>2, <2>3 DEF OneLife
  <2> QED
    BY <1>0, <1>5, <2>1, <2>4, StepOfOne DEF Instantiated, Types, ChannelsOK, WorkerTypes
<1>6. ASSUME NEW w \in Workers, InstantiateFails(w) PROVE Lives'
  <2>1. ~Live(w)' /\ m2w'[w] = m2w[w] /\ w2m'[w] = w2m[w] /\ UNCHANGED page
    BY <1>0, <1>6 DEF InstantiateFails, Live, chans, Types, WorkerTypes, WorkerStates
  <2>2. OneLife(w)'
    <3>1. Live(w) /\ (Pooled(w)' <=> Pooled(w)) /\ made' = made
      BY <1>6, <2>1 DEF InstantiateFails, Live, Pooled, page
    <3> QED
      BY <1>0, <2>1, <3>1 DEF OneLife
  <2> QED
    BY <1>0, <1>6, <2>1, <2>2, StepOfOne DEF InstantiateFails, chans, Types, WorkerTypes
<1>7. ASSUME NEW w \in Workers, Settled(w) PROVE Lives'
  <2>1. Live(w) /\ Live(w)' /\ m2w'[w] = m2w[w] /\ w2m'[w] = w2m[w] /\ UNCHANGED page
    BY <1>0, <1>7 DEF Settled, Live, chans, Types, WorkerTypes, WorkerStates
  <2>2. OneLife(w)'
    <3>1. (Pooled(w)' <=> Pooled(w)) /\ made' = made
      BY <2>1 DEF Pooled, page
    <3> QED
      BY <1>0, <2>1, <3>1 DEF OneLife
  <2> QED
    BY <1>0, <1>7, <2>1, <2>2, StepOfOne DEF Settled, chans, Types, WorkerTypes
<1>8. ASSUME NEW w \in Workers, Reset(w) PROVE Lives'
  <2> DEFINE m == Msg("reset-ack", 0, 0, {})
  <2>1. /\ m \in FromWorkers /\ m.type = "reset-ack" /\ (Live(w)' <=> Live(w)) /\ m2w[w] # << >>
        /\ w2m'[w] = Append(w2m[w], m) /\ m2w'[w] = Tail(m2w[w]) /\ UNCHANGED page
    <3>1. m \in FromWorkers /\ m.type = "reset-ack"
      BY DEF Msg, FromWorkers, AckMsgs
    <3> QED
      BY <1>8, <1>0, <3>1 DEF Reset, Got, Types, ChannelsOK, WorkerTypes, WorkerStates, Live
  <2>2. /\ AtMostOne(w2m'[w], {"exit"}) /\ (HasType(w2m'[w], {"exit"}) => HasType(w2m[w], {"exit"}))
        /\ AtMostOne(m2w'[w], BootTypes) /\ (HasType(m2w'[w], BootTypes) => HasType(m2w[w], BootTypes))
    BY <1>0, <2>1, LifeOfQueues, AppendHas, TailHas DEF OneLife
  <2>3. (Pooled(w)' <=> Pooled(w)) /\ made' = made
    BY <2>1 DEF Pooled, page
  <2>4. OneLife(w)'
    BY <1>0, <2>1, <2>2, <2>3 DEF OneLife
  <2> QED
    BY <1>0, <1>8, <2>1, <2>4, StepOfOne DEF Reset, Types, ChannelsOK, WorkerTypes
<1>9. ASSUME NEW w \in Workers, PipeFdCache(w) PROVE Lives'
  <2>1. /\ (Live(w)' <=> Live(w)) /\ m2w[w] # << >> /\ w2m'[w] = w2m[w] /\ m2w'[w] = Tail(m2w[w])
        /\ UNCHANGED page
    BY <1>9, <1>0 DEF PipeFdCache, Got, Types, ChannelsOK, WorkerTypes, WorkerStates, Live
  <2>2. AtMostOne(m2w'[w], BootTypes) /\ (HasType(m2w'[w], BootTypes) => HasType(m2w[w], BootTypes))
    BY <1>0, <2>1, LifeOfQueues, TailHas DEF OneLife
  <2>3. (Pooled(w)' <=> Pooled(w)) /\ made' = made
    BY <2>1 DEF Pooled, page
  <2>4. OneLife(w)'
    BY <1>0, <2>1, <2>2, <2>3 DEF OneLife
  <2> QED
    BY <1>0, <1>9, <2>1, <2>4, StepOfOne DEF PipeFdCache, Types, ChannelsOK, WorkerTypes
<1>10. ASSUME Spawn PROVE Lives'
  <2> DEFINE m == Head(k2m)
             p == SpawnPid(m)
             boot == Msg(m.type, m.g, p, m.pipes)
  <2> PICK w \in Workers :
         /\ w = IF pool # << >> THEN Last(pool) ELSE made + 1
         /\ made \in Int /\ made' \in Int /\ made <= made' /\ w <= made'
         /\ (\A p1 \in DOMAIN exec : exec[p1] # w) /\ (Pooled(w) \/ w > made)
         /\ (\A v \in Workers : Pooled(v)' => Pooled(v) /\ v # w) /\ PoolOnce'
    BY <1>10, SpawnTakes
  <2>1. /\ m \in ForkRequests /\ m.type \in BootTypes /\ p \in PidNums \ {0}
    <3>1. m \in ToPage /\ m.type \in ForkTypes
      BY <1>0, <1>10, TailProperties DEF Spawn, Types, ChannelsOK, ForkTypes
    <3>2. m \in ForkRequests
      BY <3>1 DEF ToPage, PipeMsgs, ForkTypes
    <3> QED
      BY <1>10, <3>2 DEF Spawn, ForkRequests, ForkTypes, BootTypes, SpawnPid, PidNums
  <2>3. /\ boot \in ToWorker /\ boot.type \in BootTypes
    BY <2>1 DEF Msg, ToWorker, BootMsgs, ForkRequests
  <2>4. /\ m2w'[w] = Append(m2w[w], boot) /\ \A v \in Workers \ {w} : m2w'[v] = m2w[v]
        /\ w2m' = w2m /\ wk' = wk /\ exec' = With(exec, p, w) /\ closure' = [closure EXCEPT ![w] = p]
    BY <1>0, <1>10 DEF Spawn, Types, ChannelsOK
  <2>5. OneLife(w)'
    <3>1. ~Live(w) /\ ~HasType(m2w[w], BootTypes) /\ ~HasType(w2m[w], {"exit"})
      BY <1>0 DEF OneLife
    <3>2. AtMostOne(m2w'[w], BootTypes)
      <4>1. AtMostOne(m2w[w], BootTypes) /\ m2w[w] \in Seq(ToWorker) /\ boot \in ToWorker
        BY <1>0, <2>3, LifeOfQueues DEF OneLife
      <4>2. AtMostOne(Append(m2w[w], boot), BootTypes)
        BY ONLY <3>1, <4>1, AppendHas
      <4> QED
        BY <2>4, <4>2
    <3>3. ~Live(w)' /\ ~Pooled(w)' /\ ~(w > made')
      BY <2>4, <3>1, LifecycleBounds DEF Live, Workers
    <3> QED
      BY <1>0, <2>4, <3>1, <3>2, <3>3 DEF OneLife
  <2>6. ASSUME NEW v \in Workers \ {w} PROVE OneLife(v)'
    BY <1>0, <2>4, SameLife
  <2>7. ExecOK'
    <3>1. /\ DOMAIN exec' = DOMAIN exec \cup {p} /\ exec'[p] = w
          /\ \A z \in DOMAIN exec \ {p} : exec'[z] = exec[z]
      BY <2>4 DEF With, Over
    <3>2. closure'[w] = p /\ \A v \in Workers \ {w} : closure'[v] = closure[v]
      BY <1>0, <2>4 DEF Types, PageTypes
    <3>3. \A z \in DOMAIN exec : exec[z] \in Workers \ {w}
      BY <1>0, LifecycleBounds DEF Types, PageTypes, Workers
    <3> QED
      BY <1>0, <3>1, <3>2, <3>3 DEF ExecOK
  <2> QED
    BY <2>5, <2>6, <2>7 DEF Lives
<1>11. ASSUME RelayPipe PROVE Lives'
  <2> DEFINE m == Head(k2m)
  <2> PICK w : w = exec[m.pid]
    OBVIOUS
  <2>1. CASE m.pid \notin DOMAIN exec
    BY <1>11, <2>1, StepOfNone DEF RelayPipe
  <2>2. CASE m.pid \in DOMAIN exec
    <3>1. w \in Workers
      BY <1>0, <2>2, LifecycleBounds DEF Types, PageTypes, Workers
    <3>2. m \in ToWorker /\ m.type \notin BootTypes
      <4>1. m \in ToPage /\ m.type = "pipe"
        BY <1>0, <1>11, TailProperties DEF RelayPipe, Types, ChannelsOK
      <4> QED
        BY <4>1 DEF ToPage, ToWorker, ForkRequests, ForkTypes, BootTypes
    <3>3. /\ m2w'[w] = Append(m2w[w], m) /\ \A v \in Workers \ {w} : m2w'[v] = m2w[v]
          /\ w2m' = w2m /\ wk' = wk /\ UNCHANGED page
      BY <1>0, <1>11, <2>2, <3>1 DEF RelayPipe, Types, ChannelsOK
    <3>4. AtMostOne(m2w'[w], BootTypes) /\ (HasType(m2w'[w], BootTypes) => HasType(m2w[w], BootTypes))
      BY <1>0, <3>1, <3>2, <3>3, LifeOfQueues, AppendHas DEF OneLife
    <3>5. (Pooled(w)' <=> Pooled(w)) /\ made' = made /\ (Live(w)' <=> Live(w))
      BY <3>3 DEF Pooled, page, Live
    <3>6. OneLife(w)'
      BY <1>0, <3>1, <3>3, <3>4, <3>5 DEF OneLife
    <3> QED
      BY <3>1, <3>3, <3>6, StepOfOne
  <2> QED
    BY <2>1, <2>2
<1>12. ASSUME NEW w \in Workers, RelayMemory(w) \/ ResetAck(w) PROVE Lives'
  <2>1. /\ w2m[w] # << >> /\ w2m'[w] = Tail(w2m[w]) /\ m2w'[w] = m2w[w] /\ wk' = wk /\ UNCHANGED page
    BY <1>0, <1>12 DEF RelayMemory, ResetAck, FromWorker, Types, ChannelsOK
  <2>2. AtMostOne(w2m'[w], {"exit"}) /\ (HasType(w2m'[w], {"exit"}) => HasType(w2m[w], {"exit"}))
    BY <1>0, <2>1, LifeOfQueues, TailHas DEF OneLife
  <2>3. (Pooled(w)' <=> Pooled(w)) /\ made' = made /\ (Live(w)' <=> Live(w))
    BY <2>1 DEF Pooled, page, Live
  <2>4. OneLife(w)'
    BY <1>0, <2>1, <2>2, <2>3 DEF OneLife
  <2> QED
    BY <1>0, <1>12, <2>1, <2>4, StepOfOne DEF RelayMemory, ResetAck, Types, ChannelsOK
<1>13. ASSUME NEW w \in Workers, ExitMessage(w) PROVE Lives'
  <2> DEFINE reset == Msg("reset", 0, 0, {})
  <2>1. /\ w2m[w] # << >> /\ Head(w2m[w]).type \in {"exit"} /\ w2m'[w] = Tail(w2m[w]) /\ wk' = wk
        /\ UNCHANGED <<made, closure>> /\ exec' = Without(exec, closure[w])
        /\ (m2w'[w] = m2w[w] \/ m2w'[w] = Append(m2w[w], reset)) /\ (pool' = pool \/ pool' = Append(pool, w))
        /\ \A v \in Workers \ {w} : m2w'[v] = m2w[v] /\ w2m'[v] = w2m[v]
    BY <1>0, <1>13 DEF ExitMessage, FromWorker, PoolAfter, Types, ChannelsOK
  <2>2. HasType(w2m[w], {"exit"}) /\ ~HasType(w2m'[w], {"exit"}) /\ AtMostOne(w2m'[w], {"exit"})
    BY <1>0, <2>1, LifeOfQueues, TailHas DEF OneLife
  <2>3. ~Live(w) /\ ~Live(w)' /\ ~Pooled(w) /\ ~HasType(m2w[w], BootTypes) /\ AtMostOne(m2w[w], BootTypes)
    BY <1>0, <2>1, <2>2 DEF OneLife, Live
  <2>4. ~HasType(m2w'[w], BootTypes) /\ AtMostOne(m2w'[w], BootTypes)
    <3>1. reset \in ToWorker /\ reset.type \notin BootTypes
      BY DEF Msg, ToWorker, ResetMsgs, BootTypes
    <3> QED
      <4>1. m2w[w] \in Seq(ToWorker)
        BY <1>0, LifeOfQueues
      <4>2. ~HasType(Append(m2w[w], reset), BootTypes) /\ AtMostOne(Append(m2w[w], reset), BootTypes)
        BY ONLY <2>3, <3>1, <4>1, AppendHas
      <4> QED
        BY <2>1, <2>3, <4>2
  <2>5. pool \in Seq(Workers) /\ Len(pool) \in Nat
    BY <1>0 DEF Types, PageTypes
  <2>6. PoolOnce' /\ \A v \in Workers \ {w} : Pooled(v)' => Pooled(v)
    <3>1. CASE pool' = pool
      BY <1>0, <3>1 DEF PoolOnce, Pooled
    <3>2. CASE pool' = Append(pool, w)
      <4>1. /\ Len(pool') = Len(pool) + 1 /\ pool'[Len(pool) + 1] = w
            /\ \A i \in 1 .. Len(pool) : pool'[i] = pool[i] /\ pool[i] # w
        BY <2>3, <2>5, <3>2, SendProperties DEF Pooled
      <4>2. \A i \in 1 .. Len(pool') : i \in 1 .. Len(pool) \/ i = Len(pool) + 1
        BY <2>5, <4>1
      <4> QED
        BY <1>0, <2>5, <4>1, <4>2 DEF PoolOnce, Pooled
    <3> QED
      BY <2>1, <3>1, <3>2
  <2>7. made \in Int /\ \A v \in Workers : v \in Int
    BY <1>0, LifecycleBounds DEF Types, PageTypes, Workers
  <2>8. OneLife(w)'
    BY <1>0, <2>1, <2>2, <2>3, <2>4 DEF OneLife
  <2>9. ASSUME NEW v \in Workers \ {w} PROVE OneLife(v)'
    BY <1>0, <2>1, <2>6, <2>7, SameLife
  <2>10. ExecOK'
    <3>1. DOMAIN exec' = DOMAIN exec \ {closure[w]} /\ \A z \in DOMAIN exec' : exec'[z] = exec[z]
      BY <2>1 DEF Without, Restrict
    <3>2. \A z \in DOMAIN exec' : exec[z] \in Workers \ {w}
      BY <1>0, <3>1, LifecycleBounds DEF ExecOK, Types, PageTypes, Workers
    <3> QED
      BY <1>0, <2>1, <2>6, <3>1, <3>2 DEF ExecOK
  <2> QED
    BY <2>6, <2>8, <2>9, <2>10 DEF Lives
<1>14. CASE KernelStep \/ UNCHANGED vars
  BY <1>14, StepOfNone DEF KernelStep, Register, RegisterMemory, WorkerExit, vars, page, chans
<1> QED
  BY <1>1, <1>2, <1>3, <1>4, <1>5, <1>6, <1>7, <1>8, <1>9, <1>10, <1>11, <1>12, <1>13, <1>14
  DEF Next, GuestStep, WorkerStep, PageStep

-----------------------------------------------------------------------------
(* Pids are given before they are used. *)
Old(r, q, T) == \A i \in 1 .. Len(r) : r[i].type \in T => \E j \in 1 .. Len(q) : r[i] = q[j]

LEMMA OldMessages ==
  ASSUME NEW S, NEW q \in Seq(S), NEW T
  PROVE  /\ Old(q, q, T)
         /\ q # << >> => Old(Tail(q), q, T)
         /\ \A m \in S : m.type \notin T => Old(Append(q, m), q, T)
<1>1. q # << >> => Old(Tail(q), q, T)
  BY TailProperties DEF Old
<1>2. ASSUME NEW m \in S, m.type \notin T PROVE Old(Append(q, m), q, T)
  <2>1. \A i \in 1 .. Len(Append(q, m)) : i \in 1 .. Len(q) \/ i = Len(q) + 1
    BY SendProperties
  <2> QED
    BY <1>2, <2>1, SendProperties DEF Old
<1> QED
  BY <1>1, <1>2 DEF Old

LEMMA GivenKept ==
  ASSUME Types, PidGiven, \A g \in Procs : pid[g] # 0 => pid'[g] # 0,
         \A v \in Workers :
            /\ Live(v)' => (Live(v) /\ wk'[v].g = wk[v].g) \/ (wk'[v].g \in Procs /\ pid'[wk'[v].g] # 0)
            /\ Old(m2w'[v], m2w[v], BootTypes)
  PROVE  PidGiven'
<1>1. ASSUME NEW v \in Workers, NEW j \in 1 .. Len(m2w[v]), m2w[v][j].type \in BootTypes
      PROVE  pid'[m2w[v][j].g] # 0
  <2>1. m2w[v][j] \in ToWorker
    BY LifeOfQueues
  <2>2. m2w[v][j].g \in Procs
    BY <1>1, <2>1 DEF ToWorker, BootMsgs, ResetMsgs, PipeMsgs, BootTypes
  <2> QED
    BY <1>1, <2>2 DEF PidGiven
<1> QED
  BY <1>1 DEF PidGiven, Old

LEMMA PidGivenKept == IInv /\ [Next]_vars => PidGiven'
<1> SUFFICES ASSUME IInv, [Next]_vars PROVE PidGiven'
  OBVIOUS
<1>0. Types /\ PidGiven /\ \A v \in Workers : m2w[v] \in Seq(ToWorker) /\ Old(m2w[v], m2w[v], BootTypes)
  BY LifeOfQueues, OldMessages DEF IInv
<1>1. ASSUME NEW w \in Workers, GuestStep(w) \/ Instantiated(w) \/ InstantiateFails(w) \/ Settled(w)
      PROVE  PidGiven'
  <2>1. pid' = pid /\ m2w' = m2w
    BY <1>1 DEF GuestStep, ForkExec, FullFork, VforkExit, Fork, PipeCreate, GuestExit,
                Instantiated, InstantiateFails, Settled, ids, chans
  <2>2. \A v \in Workers : wk'[v].g = wk[v].g /\ (wk'[v].st # "idle" => wk[v].st # "idle")
    <3>1. CASE wk' = wk
      BY <3>1
    <3>2. CASE PipeCreate(w)
      BY <1>0, <3>2 DEF PipeCreate, Types, WorkerTypes, WorkerStates
    <3>3. CASE \E s \in {"idle", "settle", "run"} : wk' = [wk EXCEPT ![w].st = s] /\ wk[w].st # "idle"
      BY <1>0, <3>3 DEF Types, WorkerTypes, WorkerStates
    <3> QED
      BY <1>1, <3>1, <3>2, <3>3 DEF GuestStep, ForkExec, FullFork, VforkExit, Fork, GuestExit,
                Instantiated, InstantiateFails, Settled, Running, Live
  <2> QED
    BY <1>0, <2>1, <2>2, GivenKept DEF Live
<1>2. ASSUME NEW w \in Workers, Start(w) PROVE PidGiven'
  <2>1. /\ m2w[w] # << >> /\ Head(m2w[w]).type \in BootTypes /\ m2w'[w] = Tail(m2w[w]) /\ pid' = pid
        /\ wk'[w].g = Head(m2w[w]).g
        /\ \A v \in Workers \ {w} : m2w'[v] = m2w[v] /\ wk'[v] = wk[v]
    BY <1>0, <1>2 DEF Start, Got, BootTypes, ids, Types, ChannelsOK, WorkerTypes
  <2>2. Head(m2w[w]) \in ToWorker /\ Head(m2w[w]) = m2w[w][1] /\ 1 \in 1 .. Len(m2w[w])
    BY <1>0, <2>1, TailProperties
  <2>3. wk'[w].g \in Procs /\ pid'[wk'[w].g] # 0
    BY <1>0, <2>1, <2>2 DEF PidGiven, ToWorker, BootMsgs, ResetMsgs, PipeMsgs, BootTypes
  <2>4. Old(m2w'[w], m2w[w], BootTypes)
    BY <1>0, <2>1, OldMessages
  <2> QED
    BY <1>0, <2>1, <2>3, <2>4, GivenKept DEF Live
<1>3. ASSUME NEW w \in Workers, Reset(w) \/ PipeFdCache(w) PROVE PidGiven'
  <2>1. /\ m2w[w] # << >> /\ m2w'[w] = Tail(m2w[w]) /\ pid' = pid
        /\ \A v \in Workers \ {w} : m2w'[v] = m2w[v]
        /\ \A v \in Workers : wk'[v].st = wk[v].st /\ wk'[v].g = wk[v].g
    <3>1. PICK c : wk' = [wk EXCEPT ![w].cache = c]
      BY <1>3 DEF Reset, PipeFdCache
    <3>2. \A v \in Workers : wk'[v].st = wk[v].st /\ wk'[v].g = wk[v].g
      BY <1>0, <3>1 DEF Types, WorkerTypes, WorkerStates
    <3> QED
      BY <1>0, <1>3, <3>2 DEF Reset, PipeFdCache, Got, ids, Types, ChannelsOK
  <2>2. Old(m2w'[w], m2w[w], BootTypes)
    BY <1>0, <2>1, OldMessages
  <2> QED
    BY <1>0, <2>1, <2>2, GivenKept DEF Live
<1>4. ASSUME Spawn PROVE PidGiven'
  <2>1. PICK w \in Workers, m \in ForkRequests :
           /\ m2w' = [m2w EXCEPT ![w] = Append(@, Msg(m.type, m.g, SpawnPid(m), m.pipes))]
           /\ pid' = [pid EXCEPT ![m.g] = SpawnPid(m)]
    <3>1. Head(k2m) \in ToPage /\ Head(k2m).type \in ForkTypes
      BY <1>0, <1>4, TailProperties DEF Spawn, Types, ChannelsOK, ForkTypes
    <3>2. Head(k2m) \in ForkRequests
      BY <3>1 DEF ToPage, PipeMsgs, ForkTypes
    <3>3. (IF pool # << >> THEN Last(pool) ELSE made + 1) \in Workers
      <4>1. CASE pool # << >>
        <5>1. pool \in Seq(Workers)
          BY <1>0 DEF Types, PageTypes
        <5>2. Last(pool) = pool[Len(pool)] /\ Len(pool) \in Nat \ {0}
          BY <4>1, <5>1, FrontProperties
        <5> QED
          BY <4>1, <5>1, <5>2
      <4>2. CASE pool = << >>
        BY <1>4, <4>2, TypesPreserved DEF Spawn, Types, PageTypes
      <4> QED
        BY <4>1, <4>2
    <3> QED
      BY <1>4, <3>2, <3>3 DEF Spawn
  <2>2. SpawnPid(m) # 0 /\ m.g \in Procs
    BY DEF SpawnPid, ForkRequests, PidNums
  <2>3. \A g \in Procs : (pid[g] # 0 => pid'[g] # 0) /\ pid'[m.g] # 0
    BY <1>0, <2>1, <2>2 DEF Types, IdTypes
  <2> DEFINE boot == Msg(m.type, m.g, SpawnPid(m), m.pipes)
  <2>4. wk' = wk
    BY <1>4 DEF Spawn
  <2>5. ASSUME NEW v \in Workers, NEW i \in 1 .. Len(m2w'[v]), m2w'[v][i].type \in BootTypes
        PROVE  pid'[m2w'[v][i].g] # 0
    <3>1. ASSUME NEW j \in 1 .. Len(m2w[v]), m2w[v][j].type \in BootTypes PROVE pid'[m2w[v][j].g] # 0
      <4>1. m2w[v][j] \in ToWorker
        BY <1>0
      <4>2. m2w[v][j].g \in Procs
        BY <3>1, <4>1 DEF ToWorker, BootMsgs, ResetMsgs, PipeMsgs, BootTypes
      <4> QED
        BY <1>0, <2>3, <3>1, <4>2 DEF PidGiven
    <3>2. CASE v # w
      BY <1>0, <2>1, <2>5, <3>1, <3>2 DEF Types, ChannelsOK
    <3>3. CASE v = w
      <4>1. m2w'[v] = Append(m2w[v], boot) /\ boot.g = m.g /\ boot \in ToWorker
        <5>1. SpawnPid(m) \in PidNums \ {0}
          BY <1>4, <2>1, <2>2, TypesPreserved DEF Types, IdTypes
        <5>2. boot.g = m.g /\ boot \in ToWorker
          BY <5>1 DEF Msg, ToWorker, BootMsgs, ForkRequests, ForkTypes, BootTypes
        <5> QED
          BY <1>0, <2>1, <3>3, <5>2 DEF Types, ChannelsOK
      <4>2. CASE i \in 1 .. Len(m2w[v])
        <5>1. m2w'[v][i] = m2w[v][i]
          BY <1>0, <4>1, <4>2, SendProperties
        <5> QED
          BY <2>5, <3>1, <4>2, <5>1
      <4>3. CASE i \notin 1 .. Len(m2w[v])
        <5>1. m2w'[v][i] = boot
          BY <1>0, <2>5, <4>1, <4>3, SendProperties
        <5> QED
          BY <2>2, <2>3, <4>1, <5>1
      <4> QED
        BY <4>2, <4>3
    <3> QED
      BY <3>2, <3>3
  <2> QED
    BY <1>0, <2>3, <2>4, <2>5 DEF PidGiven, Live
<1>5. ASSUME RelayPipe PROVE PidGiven'
  <2>1. pid' = pid /\ wk' = wk
    BY <1>5 DEF RelayPipe, ids
  <2>2. ASSUME NEW v \in Workers PROVE Old(m2w'[v], m2w[v], BootTypes)
    <3> DEFINE m == Head(k2m)
    <3>1. m \in ToPage /\ m.type = "pipe"
      BY <1>0, <1>5, TailProperties DEF RelayPipe, Types, ChannelsOK
    <3>2. m \in ToWorker /\ m.type \notin BootTypes
      BY <3>1 DEF ToPage, ToWorker, ForkRequests, ForkTypes, BootTypes
    <3>3. m2w'[v] = m2w[v] \/ m2w'[v] = Append(m2w[v], m)
      BY <1>0, <1>5 DEF RelayPipe, Types, ChannelsOK
    <3> QED
      BY <1>0, <3>2, <3>3, OldMessages
  <2> QED
    BY <1>0, <2>1, <2>2, GivenKept DEF Live
<1>6. ASSUME NEW w \in Workers, RelayMemory(w) \/ ResetAck(w) PROVE PidGiven'
  BY <1>0, <1>6, GivenKept DEF RelayMemory, ResetAck, ids, Live
<1>7. ASSUME NEW w \in Workers, ExitMessage(w) PROVE PidGiven'
  <2>1. pid' = pid /\ wk' = wk
    BY <1>7 DEF ExitMessage, ids
  <2>2. ASSUME NEW v \in Workers PROVE Old(m2w'[v], m2w[v], BootTypes)
    <3> DEFINE m == Msg("reset", 0, 0, {})
    <3>1. m \in ToWorker /\ m.type \notin BootTypes
      BY DEF Msg, ToWorker, ResetMsgs, BootTypes
    <3>2. m2w'[v] = m2w[v] \/ m2w'[v] = Append(m2w[v], m)
      BY <1>0, <1>7 DEF ExitMessage, Types, ChannelsOK
    <3> QED
      BY <1>0, <3>1, <3>2, OldMessages
  <2> QED
    BY <1>0, <2>1, <2>2, GivenKept DEF Live
<1>8. CASE KernelStep \/ UNCHANGED vars
  BY <1>0, <1>8, GivenKept DEF KernelStep, Register, RegisterMemory, WorkerExit, vars, ids, page, chans, Live
<1> QED
  BY <1>1, <1>2, <1>3, <1>4, <1>5, <1>6, <1>7, <1>8 DEF Next, GuestStep, WorkerStep, PageStep

-----------------------------------------------------------------------------
(* The order of the forks. *)
LEMMA SpawnOrderKept == IInv /\ [Next]_vars => SpawnOrder'
<1> SUFFICES ASSUME IInv, [Next]_vars PROVE SpawnOrder'
  OBVIOUS
<1>0. Types /\ SpawnOrder /\ PidGiven /\ Types' /\ k2m \in Seq(ToPage)
  BY TypesPreserved DEF IInv, Types, ChannelsOK
<1> made \in Int /\ procs \in Int /\ PoolSize \in Int /\ \A g \in Procs : g \in Int
  BY <1>0, LifecycleBounds DEF Types, IdTypes, PageTypes, Procs, Workers
<1>1. ASSUME NEW w \in Workers, NEW kind \in ForkTypes, NEW p \in PidNums, Fork(w, kind, p)
      PROVE  SpawnOrder'
  <2> DEFINE m == ForkRequest(kind, procs + 1, p, table[pid[wk[w].g]].fds, pid[wk[w].g])
  <2>1. procs + 1 \in Procs /\ procs' = procs + 1 /\ made' = made /\ pid' = pid /\ k2m' = Append(k2m, m)
    BY <1>0, <1>1, LifecycleBounds DEF Fork, page, Types, IdTypes, Procs
  <2>2. m \in ToPage /\ m.g = procs + 1 /\ m.type \in ForkTypes
    <3>1. wk[w].g \in Procs /\ pid[wk[w].g] \in PidNums /\ Served(wk[w].g)
      BY <1>0, <1>1, LiveProcess DEF Fork, Types
    <3>2. table[pid[wk[w].g]].fds \in SUBSET Pipes
      BY <1>0, <3>1 DEF Served, Types, KernelTypes, Entries
    <3> QED
      BY <2>1, <3>1, <3>2 DEF ForkRequest, ToPage, ForkRequests
  <2>3. pid[procs + 1] = 0
    BY <1>0, <2>1 DEF SpawnOrder
  <2>4. /\ Len(k2m') = Len(k2m) + 1 /\ k2m'[Len(k2m) + 1] = m /\ Len(k2m) \in Nat
        /\ \A i \in 1 .. Len(k2m) : k2m'[i] = k2m[i]
    BY <1>0, <2>1, <2>2, SendProperties
  <2>5. \A i \in 1 .. Len(k2m) : k2m[i].type \in ForkTypes => k2m[i].g \in Procs
    <3>1. \A x \in ToPage : x.type \in ForkTypes => x.g \in Procs
      BY DEF ToPage, ForkRequests, PipeMsgs, ForkTypes
    <3> QED
      BY <1>0, <3>1
  <2>6. ASSUME NEW i \in 1 .. Len(k2m'), k2m'[i].type \in ForkTypes
        PROVE  /\ k2m'[i].g <= procs' /\ made' + 2 <= PoolSize + k2m'[i].g /\ pid'[k2m'[i].g] = 0
               /\ \A j \in 1 .. Len(k2m') : k2m'[j].type \in ForkTypes /\ i < j => k2m'[i].g < k2m'[j].g
    <3>1. CASE i \in 1 .. Len(k2m)
      <4>1. k2m[i].g <= procs /\ made + 2 <= PoolSize + k2m[i].g /\ pid[k2m[i].g] = 0 /\ k2m[i].g \in Int
        BY <1>0, <2>4, <2>5, <2>6, <3>1 DEF SpawnOrder
      <4>2. ASSUME NEW j \in 1 .. Len(k2m'), k2m'[j].type \in ForkTypes, i < j PROVE k2m'[i].g < k2m'[j].g
        <5>1. CASE j \in 1 .. Len(k2m)
          BY <1>0, <2>4, <2>6, <3>1, <4>2, <5>1 DEF SpawnOrder
        <5>2. CASE j = Len(k2m) + 1
          BY <1>0, <2>2, <2>4, <3>1, <4>1, <5>2
        <5> QED
          BY <2>4, <5>1, <5>2
      <4>3. k2m'[i] = k2m[i]
        BY <2>4, <3>1
      <4>4. k2m'[i].g <= procs' /\ made' + 2 <= PoolSize + k2m'[i].g /\ pid'[k2m'[i].g] = 0
        BY <2>1, <4>1, <4>3
      <4> QED
        BY <4>2, <4>4
    <3>2. CASE i = Len(k2m) + 1
      <4>1. k2m'[i] = m
        BY <2>4, <3>2
      <4>2. \A j \in 1 .. Len(k2m') : ~(i < j)
        BY <2>4, <3>2
      <4>3. made + 1 <= PoolSize + procs
        BY <1>0 DEF SpawnOrder
      <4>4. k2m'[i].g <= procs' /\ made' + 2 <= PoolSize + k2m'[i].g /\ pid'[k2m'[i].g] = 0
        BY <2>1, <2>2, <2>3, <4>1, <4>3
      <4> QED
        BY <4>2, <4>4
    <3> QED
      BY <2>4, <3>1, <3>2
  <2>7. /\ made' + 1 <= PoolSize + procs'
        /\ \A g \in Procs : g > procs' => pid'[g] = 0
    BY <1>0, <2>1 DEF SpawnOrder
  <2> QED
    BY <2>6, <2>7 DEF SpawnOrder
<1>2. ASSUME NEW w \in Workers, ForkExec(w) \/ FullFork(w) PROVE SpawnOrder'
  <2>1. \E kind \in ForkTypes, p \in PidNums : Fork(w, kind, p)
    <3>1. CASE ForkExec(w)
      <4>1. ForkPid(wk[w].g) \in PidNums
        BY <1>0, <3>1, LiveProcess DEF ForkExec, Fork, ForkPid, Types, IdTypes, PidNums
      <4> QED
        BY <3>1, <4>1 DEF ForkExec, ForkTypes
    <3>2. CASE FullFork(w)
      BY <1>0, <3>2, LifecycleBounds DEF FullFork, ForkTypes, Types, IdTypes, PidNums
    <3> QED
      BY <1>2, <3>1, <3>2
  <2> QED
    BY <1>1, <2>1
<1>3. ASSUME UNCHANGED <<k2m, pid, procs, made>> PROVE SpawnOrder'
  BY <1>0, <1>3 DEF SpawnOrder
<1>4. ASSUME NEW w \in Workers, PipeCreate(w) PROVE SpawnOrder'
  <2> DEFINE m == Msg("pipe", 0, pid[wk[w].g], {pipes + 1})
  <2>1. m \in ToPage /\ m.type \notin ForkTypes
    <3>1. wk[w].g \in Procs /\ pid[wk[w].g] \in PidNums /\ pipes + 1 \in Pipes
      BY <1>0, <1>4, LiveProcess, LifecycleBounds DEF PipeCreate, Types, IdTypes, Pipes
    <3> QED
      BY <3>1 DEF Msg, ToPage, PipeMsgs, ForkTypes
  <2>2. k2m' = Append(k2m, m) /\ UNCHANGED <<pid, procs, made>>
    BY <1>4 DEF PipeCreate, page
  <2>3. /\ \A i \in 1 .. Len(k2m) : k2m'[i] = k2m[i]
        /\ \A i \in 1 .. Len(k2m') : k2m'[i].type \in ForkTypes => i \in 1 .. Len(k2m)
    BY <1>0, <2>1, <2>2, SendProperties
  <2> QED
    BY <1>0, <2>2, <2>3 DEF SpawnOrder
<1>5. ASSUME k2m # << >>, k2m' = Tail(k2m), UNCHANGED <<pid, procs, made>> PROVE SpawnOrder'
  <2>1. /\ Len(k2m') = Len(k2m) - 1 /\ Len(k2m) \in Nat
        /\ \A i \in 1 .. Len(k2m') : k2m'[i] = k2m[i + 1] /\ i + 1 \in 1 .. Len(k2m)
    BY <1>0, <1>5, TailProperties
  <2> QED
    BY <1>0, <1>5, <2>1 DEF SpawnOrder
<1>6. ASSUME Spawn PROVE SpawnOrder'
  <2>1. /\ Len(k2m') = Len(k2m) - 1 /\ Len(k2m) \in Nat \ {0} /\ Head(k2m) = k2m[1]
        /\ \A i \in 1 .. Len(k2m') : k2m'[i] = k2m[i + 1] /\ i + 1 \in 1 .. Len(k2m) /\ 1 < i + 1
    BY <1>0, <1>6, TailProperties DEF Spawn
  <2>2. PICK m : m = Head(k2m)
    OBVIOUS
  <2>3. m.type \in ForkTypes /\ m = k2m[1] /\ 1 \in 1 .. Len(k2m) /\ m.g \in Procs
    <3>1. \A x \in ToPage : x.type \in ForkTypes => x.g \in Procs
      BY DEF ToPage, ForkRequests, PipeMsgs, ForkTypes
    <3> QED
      BY <1>0, <1>6, <2>1, <2>2, <3>1 DEF Spawn, ForkTypes
  <2>4. /\ procs' = procs /\ made' \in {made, made + 1} /\ pid' = [pid EXCEPT ![m.g] = SpawnPid(m)]
    BY <1>6, <2>2 DEF Spawn
  <2>5. m.g <= procs /\ made + 2 <= PoolSize + m.g /\ \A g \in Procs \ {m.g} : pid'[g] = pid[g]
    BY <1>0, <2>3, <2>4 DEF SpawnOrder, Types, IdTypes
  <2>6. ASSUME NEW i \in 1 .. Len(k2m'), k2m'[i].type \in ForkTypes
        PROVE  /\ k2m'[i].g <= procs' /\ made' + 2 <= PoolSize + k2m'[i].g /\ pid'[k2m'[i].g] = 0
               /\ \A j \in 1 .. Len(k2m') : k2m'[j].type \in ForkTypes /\ i < j => k2m'[i].g < k2m'[j].g
    <3>1. k2m'[i] = k2m[i + 1] /\ i + 1 \in 1 .. Len(k2m) /\ 1 < i + 1 /\ k2m[i + 1].type \in ForkTypes
      BY <2>1, <2>6
    <3>2. k2m[i + 1] \in ToPage
      BY <1>0, <3>1
    <3>3. k2m[i + 1].g \in Procs
      BY <3>1, <3>2 DEF ToPage, ForkRequests, PipeMsgs, ForkTypes
    <3>4. m.g < k2m[i + 1].g
      BY <1>0, <2>3, <3>1 DEF SpawnOrder
    <3>5. k2m[i + 1].g <= procs /\ pid[k2m[i + 1].g] = 0
      BY <1>0, <3>1 DEF SpawnOrder
    <3>6. \A j \in 1 .. Len(k2m') : k2m'[j].type \in ForkTypes /\ i < j => k2m'[i].g < k2m'[j].g
      BY <1>0, <2>1, <3>1 DEF SpawnOrder
    <3>7. pid'[k2m[i + 1].g] = 0
      BY <1>0, <2>3, <2>5, <3>3, <3>4, <3>5
    <3>8. made' + 2 <= PoolSize + k2m[i + 1].g
      BY <1>0, <2>3, <2>4, <2>5, <3>3, <3>4
    <3> QED
      BY <2>4, <3>1, <3>5, <3>6, <3>7, <3>8
  <2>7. \A g \in Procs : g > procs' => pid'[g] = 0
    BY <1>0, <2>3, <2>4, <2>5 DEF SpawnOrder
  <2>8. made' + 1 <= PoolSize + procs'
    BY <1>0, <2>3, <2>4, <2>5
  <2> QED
    BY <2>6, <2>7, <2>8 DEF SpawnOrder
<1>7. ASSUME RelayPipe PROVE SpawnOrder'
  BY <1>5, <1>7 DEF RelayPipe, ids, page
<1> QED
  BY <1>2, <1>3, <1>4, <1>6, <1>7
  DEF Next, GuestStep, WorkerStep, PageStep, KernelStep, VforkExit, GuestExit, Start, Instantiated,
      InstantiateFails, Settled, Reset, PipeFdCache, RelayMemory, ExitMessage, ResetAck, Register,
      RegisterMemory, WorkerExit, ids, page, chans, vars

LEMMA InitInv == Init => IInv
<1> SUFFICES ASSUME Init PROVE IInv
  OBVIOUS
<1> USE LifecycleBounds DEF Init
<1>1. Types
  BY InitTypes
<1>2. /\ \A w \in Workers : w2m[w] = << >> /\ ~Live(w)
      /\ \A w \in Workers \ {PoolSize} : m2w[w] = << >>
      /\ PoolSize \in Workers /\ m2w[PoolSize] = <<Msg("boot", 1, 1, {})>>
  BY DEF Live, Workers
<1>3. /\ Len(pool) = PoolSize - 1 /\ \A i \in 1 .. Len(pool) : pool[i] = i /\ i # PoolSize /\ i <= made
  OBVIOUS
<1>4. PoolOnce /\ ExecOK
  BY <1>2, <1>3 DEF PoolOnce, ExecOK, Pooled
<1>5. \A w \in Workers : OneLife(w)
  <2>1. \A w \in Workers : ~HasType(w2m[w], {"exit"}) /\ AtMostOne(w2m[w], {"exit"})
    BY <1>2 DEF HasType, AtMostOne
  <2>2. \A w \in Workers \ {PoolSize} : ~HasType(m2w[w], BootTypes) /\ AtMostOne(m2w[w], BootTypes)
    BY <1>2 DEF HasType, AtMostOne
  <2>3. AtMostOne(m2w[PoolSize], BootTypes) /\ ~Pooled(PoolSize) /\ ~(PoolSize > made)
    BY <1>2, <1>3 DEF AtMostOne, Pooled
  <2> QED
    BY <1>2, <2>1, <2>2, <2>3 DEF OneLife
<1>6. PidGiven
  BY <1>2 DEF PidGiven, Msg, Procs
<1>7. SpawnOrder
  BY DEF SpawnOrder, Procs
<1> QED
  BY <1>1, <1>4, <1>5, <1>6, <1>7 DEF IInv

(***************************************************************************)
(* However forks, exits, failed starts, timeouts and late messages         *)
(* interleave, a worker has one life at a time.                            *)
(***************************************************************************)
THEOREM Inductive == Spec => []IInv
<1>1. IInv /\ [Next]_vars => IInv'
  BY TypesPreserved, LivesKept, PidGivenKept, SpawnOrderKept DEF IInv, Lives
<1> QED
  BY InitInv, <1>1, PTL DEF Spec

(***************************************************************************)
(* PoolSound (_spawnChildWorker, _handleChildExit): the tables and queues  *)
(* are well formed; a pooled worker is in the pool once, runs nothing, is  *)
(* registered for no pid, and only resets and stale pipe messages wait for *)
(* it.                                                                     *)
(***************************************************************************)
THEOREM PoolSoundCorrect == Spec => []PoolSound
<1>1. IInv => PoolSound
  <2> SUFFICES ASSUME IInv PROVE PoolSound
    OBVIOUS
  <2>0. Types /\ PoolOnce /\ ExecOK /\ \A w \in Workers : OneLife(w)
    BY DEF IInv
  <2>1. ASSUME NEW i \in 1 .. Len(pool)
        PROVE  /\ ~Live(pool[i]) /\ \A p \in DOMAIN exec : exec[p] # pool[i]
               /\ \A k \in 1 .. Len(m2w[pool[i]]) : m2w[pool[i]][k].type \in {"reset", "pipe"}
    <3>1. pool[i] \in Workers /\ Pooled(pool[i])
      BY <2>0 DEF Types, PageTypes, Pooled
    <3>2. ~Live(pool[i]) /\ ~HasType(m2w[pool[i]], BootTypes) /\ \A p \in DOMAIN exec : exec[p] # pool[i]
      BY <2>0, <3>1 DEF OneLife, ExecOK
    <3>3. \A m \in ToWorker : m.type \in BootTypes \/ m.type \in {"reset", "pipe"}
      BY DEF ToWorker, BootMsgs, ResetMsgs, PipeMsgs
    <3>4. m2w[pool[i]] \in Seq(ToWorker)
      BY <2>0, <3>1, LifeOfQueues
    <3> QED
      BY <3>2, <3>3, <3>4 DEF HasType
  <2> QED
    BY <2>0, <2>1, TypesImplyTypeOK DEF PoolSound, PoolIsIdle, PoolOnce
<1> QED
  BY <1>1, Inductive, PTL

(* Processes that PID 1 starts. *)

FirstForksExec == Forkers \subseteq {1} /\ Kinds \subseteq {"exec"}

Msgs(q) == {q[i] : i \in 1 .. Len(q)}

(* The pid of a fork is new, and request, parent and child agree on it. *)
ToldOK ==
    /\ told[1] = 1 /\ pid[1] = 1
    /\ \A g \in Procs \ {1} : g <= procs => told[g] \in 2 .. counter[1]
    /\ \A g, h \in Procs : g <= procs /\ h <= procs /\ told[g] = told[h] => g = h
    /\ \A g \in Procs : pid[g] # 0 => pid[g] = told[g] /\ g <= procs
    /\ \A m \in Msgs(k2m) : m.type \in ForkTypes => m.pid # 0 /\ m.pid = told[m.g]

Active(w) == Live(w) \/ HasType(m2w[w], BootTypes) \/ HasType(w2m[w], {"exit"})

(* A worker, the page's two maps and the messages of a life mean one process. *)
Whose(w) ==
    /\ \A m \in Msgs(m2w[w]) : m.type \in BootTypes => m.pid = pid[m.g] /\ m.pid = closure[w]
    /\ \A m \in Msgs(w2m[w]) : m.type \in {"memory", "exit"} => m.pid = pid[m.g]
    /\ \A m \in Msgs(w2m[w]) : m.type = "exit" => m.pid = closure[w]
    /\ Live(w) => pid[wk[w].g] = closure[w]
    /\ Active(w) => closure[w] \in DOMAIN exec /\ exec[closure[w]] = w
    /\ w > made => closure[w] = 0
ExecGiven == \A p \in DOMAIN exec : \E g \in Procs : pid[g] = p

(* The pipes a worker's cache may hold: those of the process the page has it for; and what *)
(* is there beyond them, or on its way, is wiped out by a reset on its way.                *)
Mine(w) == {x \in Pipes : ~Pooled(w) /\ \E g \in Procs : pid[g] # 0 /\ pid[g] = closure[w] /\ x \in pipesOf[g]}
Swept(q, i) == \E j \in 1 .. Len(q) : i < j /\ q[j].type = "reset"
Clean(q, M) == \A i \in 1 .. Len(q) : q[i].type = "pipe" => q[i].pipes \subseteq M \/ Swept(q, i)
BootLast(q) == \A i, j \in 1 .. Len(q) : q[i].type \in BootTypes /\ q[j].type = "reset" => j < i
CacheOK(w) ==
    /\ (\A k \in DOMAIN wk[w].cache : k[2] \in Mine(w)) \/ HasType(m2w[w], {"reset"})
    /\ Clean(m2w[w], Mine(w)) /\ BootLast(m2w[w])
    /\ Live(w) \/ HasType(w2m[w], {"exit"}) => ~HasType(m2w[w], {"reset"})
    /\ \A m \in Msgs(m2w[w]) : m.type \in BootTypes => m.pipes \subseteq pipesOf[m.g]
SentPipes ==
    \A m \in Msgs(k2m) :
       /\ m.type \in ForkTypes => m.pipes \subseteq pipesOf[m.g]
       /\ m.type = "pipe" => \E g \in Procs : pid[g] = m.pid /\ pid[g] # 0 /\ m.pipes \subseteq pipesOf[g]

(* What the kernel is told, in the order of a life, and its entries. *)
RegisterFirst(q) ==
    \A i, j \in 1 .. Len(q) : q[i].type # "register" /\ q[j].type = "register" /\ q[i].pid = q[j].pid => j < i
ToKernelOK ==
    /\ RegisterFirst(m2k)
    /\ \A m \in Msgs(m2k) :
          /\ m.pid = pid[m.g]
          /\ m.type = "exit" => m.pid \notin DOMAIN exec
          /\ m.type = "register" => m.pid \in DOMAIN table \/ (m.g = 1 /\ pipesOf[1] = {})
Registering(g) == \E m \in Msgs(m2k) : m.type = "register" /\ m.pid = pid[g]
Registered(g) == pid[g] \in DOMAIN table /\ table[pid[g]].ctl = g
Requested == \A m \in Msgs(k2m) : m.type \in ForkTypes => m.pid \in DOMAIN table
EntryPipes == \A g \in Procs : g <= procs /\ told[g] \in DOMAIN table => table[told[g]].fds = pipesOf[g]
EntryKept == \A g \in Procs : pid[g] \in DOMAIN exec => Registered(g) \/ Registering(g)
MemoryKept ==
    \A w \in Workers : wk[w].st \in {"settle", "run"} =>
       \/ MemorySent(wk[w].g, w2m[w]) \/ MemorySent(wk[w].g, m2k)
       \/ Registered(wk[w].g) /\ table[pid[wk[w].g]].mem = wk[w].g

JInv ==
    /\ ToldOK /\ ExecGiven /\ SentPipes /\ ToKernelOK /\ Requested /\ EntryPipes /\ EntryKept /\ MemoryKept
    /\ \A w \in Workers : Whose(w) /\ CacheOK(w)

-----------------------------------------------------------------------------
(* Queues as sets of messages. *)
LEMMA MsgsOf ==
  ASSUME NEW S, NEW q \in Seq(S)
  PROVE  /\ Msgs(q) \subseteq S
         /\ \A m \in S : Msgs(Append(q, m)) = Msgs(q) \cup {m}
         /\ q # << >> => /\ Msgs(Tail(q)) \subseteq Msgs(q) /\ Head(q) \in Msgs(q)
                         /\ \A x \in Msgs(q) : x = Head(q) \/ x \in Msgs(Tail(q))
<1>1. Msgs(q) \subseteq S
  BY DEF Msgs
<1>2. ASSUME NEW m \in S PROVE Msgs(Append(q, m)) = Msgs(q) \cup {m}
  <2>1. /\ Len(Append(q, m)) = Len(q) + 1 /\ Append(q, m)[Len(q) + 1] = m /\ Len(q) \in Nat
        /\ \A i \in 1 .. Len(q) : Append(q, m)[i] = q[i]
    BY SendProperties
  <2>2. \A i : i \in 1 .. Len(Append(q, m)) <=> i \in 1 .. Len(q) \/ i = Len(q) + 1
    BY <2>1
  <2> QED
    BY <2>1, <2>2 DEF Msgs
<1>3. ASSUME q # << >>
      PROVE  /\ Msgs(Tail(q)) \subseteq Msgs(q) /\ Head(q) \in Msgs(q)
             /\ \A x \in Msgs(q) : x = Head(q) \/ x \in Msgs(Tail(q))
  <2>1. /\ Len(Tail(q)) = Len(q) - 1 /\ Len(q) \in Nat \ {0} /\ Head(q) = q[1]
        /\ \A i \in 1 .. Len(Tail(q)) : Tail(q)[i] = q[i + 1]
    BY <1>3, TailProperties
  <2>2. \A i \in 1 .. Len(Tail(q)) : i + 1 \in 1 .. Len(q)
    BY <2>1
  <2>3. 1 \in 1 .. Len(q)
    BY <2>1
  <2>4. Msgs(Tail(q)) \subseteq Msgs(q) /\ Head(q) \in Msgs(q)
    BY <2>1, <2>2, <2>3 DEF Msgs
  <2>5. ASSUME NEW i \in 1 .. Len(q) PROVE q[i] = Head(q) \/ q[i] \in Msgs(Tail(q))
    <3>1. CASE i = 1
      BY <2>1, <3>1
    <3>2. CASE i # 1
      <4>1. i - 1 \in 1 .. Len(Tail(q)) /\ i - 1 + 1 = i
        BY <2>1, <3>2
      <4> QED
        BY <2>1, <4>1 DEF Msgs
    <3> QED
      BY <3>1, <3>2
  <2> QED
    BY <2>4, <2>5 DEF Msgs
<1> QED
  BY <1>1, <1>2, <1>3

LEMMA HasMsgs == ASSUME NEW q, NEW T PROVE HasType(q, T) <=> \E m \in Msgs(q) : m.type \in T
BY DEF HasType, Msgs

\* What the page does when it takes a fork-request.
LEMMA SpawnEffect ==
  ASSUME IInv, Spawn
  PROVE  \E w \in Workers, m \in ForkRequests :
            /\ m = Head(k2m) /\ k2m # << >> /\ k2m' = Tail(k2m) /\ pid[m.g] = 0 /\ m.g <= procs
            /\ m.type \in ForkTypes /\ SpawnPid(m) \in PidNums \ {0}
            /\ pid' = [pid EXCEPT ![m.g] = SpawnPid(m)]
            /\ exec' = With(exec, SpawnPid(m), w) /\ closure' = [closure EXCEPT ![w] = SpawnPid(m)]
            /\ m2k' = Append(m2k, Msg("register", m.g, SpawnPid(m), {}))
            /\ Msg("register", m.g, SpawnPid(m), {}) \in KernelMsgs
            /\ m2w' = [m2w EXCEPT ![w] = Append(m2w[w], Msg(m.type, m.g, SpawnPid(m), m.pipes))]
            /\ Msg(m.type, m.g, SpawnPid(m), m.pipes) \in ToWorker
            /\ ~Live(w) /\ ~HasType(m2w[w], BootTypes) /\ ~HasType(w2m[w], {"exit"})
            /\ made <= made' /\ w <= made' /\ (Pooled(w) \/ w > made)
            /\ \A p \in DOMAIN exec : exec[p] # w
            /\ \A v \in Workers : Pooled(v)' => Pooled(v) /\ v # w
<1>0. Types /\ SpawnOrder /\ \A w \in Workers : OneLife(w)
  BY DEF IInv
<1>1. PICK w \in Workers :
         /\ w = IF pool # << >> THEN Last(pool) ELSE made + 1
         /\ made \in Int /\ made' \in Int /\ made <= made' /\ w <= made'
         /\ (\A p1 \in DOMAIN exec : exec[p1] # w) /\ (Pooled(w) \/ w > made)
         /\ (\A v \in Workers : Pooled(v)' => Pooled(v) /\ v # w) /\ PoolOnce'
  BY SpawnTakes
<1>2. PICK m : m = Head(k2m)
  OBVIOUS
<1>3. /\ m \in ForkRequests /\ m.type \in ForkTypes /\ m.g \in Procs /\ pid[m.g] = 0 /\ m.g <= procs
  <2>1. m \in ToPage /\ m.type \in ForkTypes /\ m = k2m[1] /\ 1 \in 1 .. Len(k2m)
    BY <1>0, <1>2, TailProperties DEF Spawn, Types, ChannelsOK, ForkTypes
  <2> QED
    BY <1>0, <2>1 DEF SpawnOrder, ToPage, PipeMsgs, ForkTypes, ForkRequests
<1>4. SpawnPid(m) \in PidNums \ {0}
  BY <1>2, <1>3 DEF Spawn, ForkRequests, SpawnPid, PidNums
<1>5. /\ Msg("register", m.g, SpawnPid(m), {}) \in KernelMsgs
      /\ Msg(m.type, m.g, SpawnPid(m), m.pipes) \in ToWorker
  BY <1>3, <1>4 DEF Msg, KernelMsgs, ToWorker, BootMsgs, BootTypes, ForkRequests, ForkTypes
<1>6. ~Live(w) /\ ~HasType(m2w[w], BootTypes) /\ ~HasType(w2m[w], {"exit"})
  BY <1>0, <1>1 DEF OneLife
<1>7. /\ k2m # << >> /\ k2m' = Tail(k2m) /\ pid' = [pid EXCEPT ![m.g] = SpawnPid(m)]
      /\ exec' = With(exec, SpawnPid(m), w) /\ closure' = [closure EXCEPT ![w] = SpawnPid(m)]
      /\ m2k' = Append(m2k, Msg("register", m.g, SpawnPid(m), {}))
      /\ m2w' = [m2w EXCEPT ![w] = Append(m2w[w], Msg(m.type, m.g, SpawnPid(m), m.pipes))]
  BY <1>1, <1>2 DEF Spawn
<1> QED
  BY <1>1, <1>2, <1>3, <1>4, <1>5, <1>6, <1>7

\* What fork and execve do to the kernel's table and to the page's queue.
LEMMA ForkEffect ==
  ASSUME FirstForksExec, IInv, NEW w \in Workers, ForkExec(w) \/ FullFork(w)
  PROVE  LET n == procs + 1
             c == counter[1] + 1
             S == table[pid[1]].fds
             m == ForkRequest("exec", n, c, S, pid[1]) IN
         /\ n \in Procs /\ n # 1 /\ pid[n] = 0 /\ c \in PidNums \ {0} /\ wk[w].g = 1 /\ Live(w) /\ Served(1)
         /\ procs' = n /\ counter' = [counter EXCEPT ![1] = c] /\ told' = [told EXCEPT ![n] = c]
         /\ pipesOf' = [pipesOf EXCEPT ![n] = pipesOf[1]] /\ table' = With(table, c, Entry(0, 0, S))
         /\ k2m' = Append(k2m, m) /\ m \in ToPage /\ m.type = "exec" /\ m.g = n /\ m.pid = c /\ m.pipes = S
         /\ UNCHANGED <<pid, pipes, exitCodes, page, wk, m2k, m2w, w2m>>
<1>0. Types /\ SpawnOrder /\ PidGiven
  BY DEF IInv
<1>1. ~FullFork(w)
  BY DEF FullFork, Fork, FirstForksExec
<1>2. Fork(w, "exec", ForkPid(wk[w].g)) /\ wk[w].g = 1 /\ Live(w) /\ 1 \in Procs
  BY <1>1, LifecycleBounds DEF ForkExec, Fork, FirstForksExec, Running, Procs
<1>3. ForkPid(wk[w].g) = counter[1] + 1
  BY <1>2 DEF ForkPid
<1>4. /\ procs + 1 \in Procs /\ procs + 1 # 1 /\ counter[1] + 1 \in PidNums \ {0} /\ counter[1] + 1 <= MaxPid
      /\ procs + 1 > procs
  <2>1. procs < MaxProcs /\ procs \in 1 .. MaxProcs /\ counter[1] + 1 <= MaxPid /\ counter[1] \in 1 .. MaxPid
    BY <1>0, <1>2, <1>3 DEF Fork, Types, IdTypes, Procs
  <2> QED
    BY <2>1, LifecycleBounds DEF Procs, PidNums
<1>5. pid[procs + 1] = 0
  BY <1>0, <1>4 DEF SpawnOrder
<1>6. table[pid[1]].fds \in SUBSET Pipes /\ pid[1] \in PidNums
  BY <1>0, <1>2 DEF Fork, Served, Types, IdTypes, KernelTypes, Entries
<1>7. ForkRequest("exec", procs + 1, counter[1] + 1, table[pid[1]].fds, pid[1]) \in ToPage
  BY <1>4, <1>6 DEF ForkRequest, ToPage, ForkRequests, ForkTypes
<1> QED
  BY <1>2, <1>3, <1>4, <1>5, <1>7 DEF Fork, ForkRequest

LEMMA PipeEffect ==
  ASSUME IInv, NEW w \in Workers, PipeCreate(w)
  PROVE  LET g == wk[w].g
             q == pipes + 1
             m == Msg("pipe", 0, pid[g], {q}) IN
         /\ g \in Procs /\ pid[g] \in PidNums \ {0} /\ q \in Pipes /\ Live(w) /\ Served(g)
         /\ table' = [table EXCEPT ![pid[g]].fds = table[pid[g]].fds \cup {q}]
         /\ pipesOf' = [pipesOf EXCEPT ![g] = pipesOf[g] \cup {q}]
         /\ k2m' = Append(k2m, m) /\ m \in ToPage /\ m.type = "pipe" /\ m.pid = pid[g] /\ m.pipes = {q}
         /\ wk' = [wk EXCEPT ![w].cache = With(wk[w].cache, <<"guest", q>>, q)]
         /\ UNCHANGED <<counter, procs, pid, told, exitCodes, page, m2k, m2w, w2m>>
<1>1. wk[w].g \in Procs /\ pid[wk[w].g] \in PidNums \ {0} /\ Live(w) /\ pipes + 1 \in Pipes
  BY LiveProcess, LifecycleBounds DEF IInv, PipeCreate, Types, IdTypes, Pipes
<1>2. Msg("pipe", 0, pid[wk[w].g], {pipes + 1}) \in ToPage
  BY <1>1 DEF Msg, ToPage, PipeMsgs
<1> QED
  BY <1>1, <1>2 DEF PipeCreate, Msg

-----------------------------------------------------------------------------
(* Pids. *)
LEMMA GivenOnce ==
  ASSUME ToldOK, NEW g \in Procs, NEW h \in Procs, pid[g] = pid[h], pid[g] # 0
  PROVE  g = h
BY DEF ToldOK

LEMMA NewPid ==
  ASSUME IInv, ToldOK, ExecGiven, NEW m \in ForkRequests, k2m # << >>, m = Head(k2m),
         m.type \in ForkTypes, pid[m.g] = 0, m.g <= procs
  PROVE  /\ SpawnPid(m) = m.pid /\ m.pid = told[m.g] /\ m.g # 1 /\ m.g \in Procs
         /\ \A g \in Procs : pid[g] # m.pid
         /\ m.pid \notin DOMAIN exec
<1>1. m \in Msgs(k2m)
  <2>1. k2m \in Seq(ToPage)
    BY DEF IInv, Types, ChannelsOK
  <2> QED
    BY <2>1, MsgsOf
<1>2. SpawnPid(m) = m.pid /\ m.pid = told[m.g] /\ m.pid # 0 /\ m.g \in Procs /\ m.g # 1
  BY <1>1 DEF ToldOK, SpawnPid, ForkRequests
<1>3. \A g \in Procs : pid[g] # m.pid
  BY <1>2 DEF ToldOK
<1> QED
  BY <1>2, <1>3 DEF ExecGiven

LEMMA ToldKept ==
  ASSUME FirstForksExec, IInv, JInv, [Next]_vars
  PROVE  ToldOK'
<1>0. /\ Types /\ SpawnOrder /\ ToldOK /\ ExecGiven /\ k2m \in Seq(ToPage) /\ procs \in Int
      /\ counter[1] \in Int /\ counter[1] >= 1 /\ 1 \in Procs /\ \A g \in Procs : g \in Int
  <2>1. 1 \in Procs /\ \A g \in Procs : g \in Int
    BY LifecycleBounds DEF Procs
  <2> QED
    BY <2>1 DEF IInv, JInv, Types, IdTypes, ChannelsOK
<1>1. ASSUME NEW w \in Workers, ForkExec(w) \/ FullFork(w) PROVE ToldOK'
  <2>1. PICK m \in ToPage, n \in Procs, c \in Int :
           /\ n = procs + 1 /\ c = counter[1] + 1 /\ procs' = n /\ n # 1 /\ pid' = pid
           /\ counter' = [counter EXCEPT ![1] = c] /\ told' = [told EXCEPT ![n] = c] /\ pid[n] = 0
           /\ k2m' = Append(k2m, m) /\ m.g = n /\ m.pid = c
    BY <1>0, <1>1, ForkEffect
  <2>2. told \in [Procs -> PidNums] /\ counter \in [Procs -> 1 .. MaxPid]
    BY <1>0 DEF Types, IdTypes
  <2>3. counter'[1] = c /\ told'[n] = c /\ \A g \in Procs \ {n} : told'[g] = told[g]
    BY <1>0, <2>1, <2>2
  <2>4. \A g \in Procs : g <= procs => told[g] <= counter[1] /\ told[g] \in Int /\ g # n
    BY <1>0, <2>1 DEF ToldOK
  <2>5. \A g \in Procs : g <= procs' => g <= procs \/ g = n
    BY <1>0, <2>1
  <2>6. \A g \in Procs \ {1} : g <= procs' => told'[g] \in 2 .. counter'[1]
    BY <1>0, <2>1, <2>3, <2>5 DEF ToldOK
  <2>7. \A g, h \in Procs : g <= procs' /\ h <= procs' /\ told'[g] = told'[h] => g = h
    BY <1>0, <2>1, <2>3, <2>4, <2>5 DEF ToldOK
  <2>8. \A g \in Procs : pid'[g] # 0 => pid'[g] = told'[g] /\ g <= procs'
    BY <1>0, <2>1, <2>3 DEF ToldOK
  <2>9. ASSUME NEW x \in Msgs(k2m'), x.type \in ForkTypes PROVE x.pid # 0 /\ x.pid = told'[x.g]
    <3>1. CASE x \in Msgs(k2m)
      <4>1. x.g <= procs /\ x.g \in Procs
        <5>1. x \in ToPage
          BY <1>0, <3>1, MsgsOf
        <5> QED
          BY <1>0, <2>9, <3>1, <5>1 DEF SpawnOrder, Msgs, ToPage, ForkRequests, PipeMsgs, ForkTypes
      <4> QED
        BY <1>0, <2>3, <2>4, <2>9, <3>1, <4>1 DEF ToldOK
    <3>2. CASE x = m
      BY <1>0, <2>1, <2>3, <3>2
    <3> QED
      BY <1>0, <2>1, <2>9, <3>1, <3>2, MsgsOf
  <2>10. told'[1] = 1 /\ pid'[1] = 1
    BY <1>0, <2>1, <2>3 DEF ToldOK
  <2> QED
    BY <2>6, <2>7, <2>8, <2>9, <2>10 DEF ToldOK
<1>2. ASSUME NEW w \in Workers, VforkExit(w) PROVE ToldOK'
  <2>1. wk[w].g = 1 /\ counter' = [counter EXCEPT ![1] = counter[1] + 1] /\ UNCHANGED <<told, pid, procs, k2m>>
    BY <1>2 DEF VforkExit, FirstForksExec, ForkPid, chans
  <2>2. counter'[1] = counter[1] + 1
    BY <1>0, <2>1 DEF Types, IdTypes
  <2>3. \A g \in Procs \ {1} : g <= procs' => told'[g] \in 2 .. counter'[1]
    BY <1>0, <2>1, <2>2 DEF ToldOK
  <2> QED
    BY <1>0, <2>1, <2>3 DEF ToldOK
<1>3. ASSUME NEW w \in Workers, PipeCreate(w) PROVE ToldOK'
  <2>1. PICK m \in ToPage : k2m' = Append(k2m, m) /\ m.type = "pipe" /\ UNCHANGED <<told, pid, procs, counter>>
    BY <1>3, PipeEffect DEF IInv
  <2>2. Msgs(k2m') = Msgs(k2m) \cup {m}
    BY <1>0, <2>1, MsgsOf
  <2>3. m.type \notin ForkTypes
    BY <2>1 DEF ForkTypes
  <2> QED
    BY <1>0, <2>1, <2>2, <2>3 DEF ToldOK
<1>4. ASSUME Spawn PROVE ToldOK'
  <2>1. PICK m \in ForkRequests :
           /\ m = Head(k2m) /\ k2m # << >> /\ k2m' = Tail(k2m) /\ pid[m.g] = 0 /\ m.g <= procs
           /\ m.type \in ForkTypes /\ pid' = [pid EXCEPT ![m.g] = SpawnPid(m)]
    BY <1>4, SpawnEffect
  <2>2. SpawnPid(m) = told[m.g] /\ m.g # 1 /\ m.g \in Procs
    BY <1>0, <2>1, NewPid
  <2>3. pid'[m.g] = told[m.g] /\ \A g \in Procs \ {m.g} : pid'[g] = pid[g]
    BY <1>0, <2>1, <2>2 DEF Types, IdTypes
  <2>4. UNCHANGED <<told, procs, counter>>
    BY <1>4 DEF Spawn
  <2>5. Msgs(k2m') \subseteq Msgs(k2m)
    BY <1>0, <2>1, MsgsOf
  <2>6. \A g \in Procs : pid'[g] # 0 => pid'[g] = told'[g] /\ g <= procs'
    BY <1>0, <2>1, <2>2, <2>3, <2>4 DEF ToldOK
  <2>7. \A x \in Msgs(k2m') : x.type \in ForkTypes => x.pid # 0 /\ x.pid = told'[x.g]
    BY <1>0, <2>4, <2>5 DEF ToldOK
  <2>8. told'[1] = 1 /\ pid'[1] = 1
    BY <1>0, <2>2, <2>3, <2>4 DEF ToldOK
  <2> QED
    BY <1>0, <2>4, <2>6, <2>7, <2>8 DEF ToldOK
<1>5. ASSUME RelayPipe PROVE ToldOK'
  <2>1. k2m # << >> /\ k2m' = Tail(k2m) /\ UNCHANGED <<told, pid, procs, counter>>
    BY <1>5 DEF RelayPipe, ids
  <2>2. Msgs(k2m') \subseteq Msgs(k2m)
    BY <1>0, <2>1, MsgsOf
  <2> QED
    BY <1>0, <2>1, <2>2 DEF ToldOK
<1>6. ASSUME UNCHANGED <<told, pid, procs, counter, k2m>> PROVE ToldOK'
  BY <1>0, <1>6 DEF ToldOK
<1> QED
  BY <1>1, <1>2, <1>3, <1>4, <1>5, <1>6
  DEF Next, GuestStep, WorkerStep, PageStep, KernelStep, GuestExit, Start, Instantiated,
      InstantiateFails, Settled, Reset, PipeFdCache, RelayMemory, ExitMessage, ResetAck, Register,
      RegisterMemory, WorkerExit, ids, chans, vars

-----------------------------------------------------------------------------
(* Whose worker it is. *)
LEMMA WhoseFrame ==
  ASSUME IInv, NEW v \in Workers, Whose(v), \A g \in Procs : pid[g] # 0 => pid'[g] = pid[g],
         \A m \in Msgs(m2w'[v]) : m.type \in BootTypes => m \in Msgs(m2w[v]),
         \A m \in Msgs(w2m'[v]) : m.type \in {"memory", "exit"} => m \in Msgs(w2m[v]),
         Live(v)' => Live(v) /\ wk'[v].g = wk[v].g, closure'[v] = closure[v], v > made' => v > made,
         Active(v)' => closure[v] \in DOMAIN exec' /\ (exec[closure[v]] = v => exec'[closure[v]] = v)
  PROVE  Whose(v)' /\ (Active(v)' => Active(v))
<1>1. /\ \A m \in Msgs(m2w[v]) : m.type \in BootTypes => m.g \in Procs /\ m.pid # 0
      /\ \A m \in Msgs(w2m[v]) : m.type \in {"memory", "exit"} => m.g \in Procs /\ m.pid # 0
  <2>1. Msgs(m2w[v]) \subseteq ToWorker /\ Msgs(w2m[v]) \subseteq FromWorkers
    BY LifeOfQueues, MsgsOf DEF IInv
  <2> QED
    BY <2>1 DEF ToWorker, BootMsgs, ResetMsgs, PipeMsgs, BootTypes, FromWorkers, ReportMsgs, AckMsgs
<1>2. Live(v) => wk[v].g \in Procs /\ pid[wk[v].g] # 0
  BY DEF IInv, PidGiven
<1>3. Active(v)' => Active(v)
  BY HasMsgs DEF Active
<1>4. /\ \A m \in Msgs(m2w'[v]) : m.type \in BootTypes => m.pid = pid'[m.g] /\ m.pid = closure'[v]
      /\ \A m \in Msgs(w2m'[v]) : m.type \in {"memory", "exit"} => m.pid = pid'[m.g]
      /\ \A m \in Msgs(w2m'[v]) : m.type = "exit" => m.pid = closure'[v]
  BY <1>1 DEF Whose
<1>5. /\ Live(v)' => pid'[wk'[v].g] = closure'[v]
      /\ v > made' => closure'[v] = 0
  BY <1>2 DEF Whose
<1>6. Active(v)' => closure'[v] \in DOMAIN exec' /\ exec'[closure'[v]] = v
  BY <1>3 DEF Whose
<1> QED
  BY <1>3, <1>4, <1>5, <1>6 DEF Whose

\* A step that changes neither the page's maps nor the pids, but w's life.
LEMMA WhoseOfOne ==
  ASSUME IInv, JInv, NEW w \in Workers, UNCHANGED <<page, pid>>, Whose(w)',
         \A v \in Workers \ {w} : m2w'[v] = m2w[v] /\ w2m'[v] = w2m[v] /\ wk'[v] = wk[v]
  PROVE  \A v \in Workers : Whose(v)'
<1> SUFFICES ASSUME NEW v \in Workers \ {w} PROVE Whose(v)'
  OBVIOUS
<1>1. Whose(v) /\ (Active(v)' <=> Active(v)) /\ (Live(v)' <=> Live(v)) /\ UNCHANGED <<closure, exec, made>>
  BY DEF JInv, Active, Live, page
<1>2. Active(v)' => closure[v] \in DOMAIN exec' /\ (exec[closure[v]] = v => exec'[closure[v]] = v)
  BY <1>1 DEF Whose
<1> QED
  BY <1>1, <1>2, WhoseFrame

\* A step after which the worker w has no message of a life that it had not before.
LEMMA WhoseOfNone ==
  ASSUME IInv, JInv, UNCHANGED <<page, pid>>,
         \A v \in Workers :
            /\ \A m \in Msgs(m2w'[v]) : m.type \in BootTypes => m \in Msgs(m2w[v])
            /\ \A m \in Msgs(w2m'[v]) : m.type \in {"memory", "exit"} => m \in Msgs(w2m[v])
            /\ Live(v)' => Live(v) /\ wk'[v].g = wk[v].g
  PROVE  \A v \in Workers : Whose(v)'
<1> SUFFICES ASSUME NEW v \in Workers PROVE Whose(v)'
  OBVIOUS
<1>1. Whose(v) /\ UNCHANGED <<closure, exec, made>>
  BY DEF JInv, page
<1>2. Active(v)' => Active(v)
  BY HasMsgs DEF Active
<1>3. Active(v)' => closure[v] \in DOMAIN exec' /\ (exec[closure[v]] = v => exec'[closure[v]] = v)
  BY <1>1, <1>2 DEF Whose
<1> QED
  BY <1>1, <1>3, WhoseFrame

LEMMA WhoseKept ==
  ASSUME FirstForksExec, IInv, JInv, [Next]_vars
  PROVE  \A v \in Workers : Whose(v)'
<1>0. /\ Types /\ ToldOK /\ \A v \in Workers : Whose(v) /\ OneLife(v) /\ m2w[v] \in Seq(ToWorker) /\ w2m[v] \in Seq(FromWorkers)
  BY LifeOfQueues DEF IInv, JInv
<1>1. ASSUME UNCHANGED <<page, pid, m2w, w2m>>, \A v \in Workers : wk'[v].g = wk[v].g /\ (Live(v)' => Live(v))
      PROVE  \A v \in Workers : Whose(v)'
  BY <1>1, WhoseOfNone
<1>2. ASSUME NEW w \in Workers, GuestStep(w) /\ ~GuestExit(w) PROVE \A v \in Workers : Whose(v)'
  <2>1. UNCHANGED <<page, pid, m2w, w2m>>
    BY <1>2 DEF GuestStep, ForkExec, FullFork, Fork, VforkExit, PipeCreate, page, chans
  <2>2. wk' = wk \/ \E c : wk' = [wk EXCEPT ![w].cache = c]
    BY <1>2 DEF GuestStep, ForkExec, FullFork, Fork, VforkExit, PipeCreate
  <2>3. \A v \in Workers : wk'[v].g = wk[v].g /\ wk'[v].st = wk[v].st
    BY <1>0, <2>2 DEF Types, WorkerTypes, WorkerStates
  <2> QED
    BY <1>1, <2>1, <2>3 DEF Live
<1>3. ASSUME NEW w \in Workers, Settled(w) \/ InstantiateFails(w) PROVE \A v \in Workers : Whose(v)'
  <2>1. UNCHANGED <<page, pid, m2w, w2m>> /\ Live(w) /\ \E s \in {"idle", "run"} : wk' = [wk EXCEPT ![w].st = s]
    BY <1>3 DEF Settled, InstantiateFails, ids, chans, Live
  <2>2. \A v \in Workers : wk'[v].g = wk[v].g /\ (v # w => wk'[v].st = wk[v].st)
    BY <1>0, <2>1 DEF Types, WorkerTypes, WorkerStates
  <2> QED
    BY <1>1, <2>1, <2>2 DEF Live
<1>4. ASSUME NEW w \in Workers, NEW t \in {"memory", "exit"}, NEW m \in FromWorkers, NEW s \in {"idle", "settle", "run"},
             m = Msg(t, wk[w].g, pid[wk[w].g], {}), Live(w), UNCHANGED <<page, pid, m2w>>,
             w2m' = [w2m EXCEPT ![w] = Append(w2m[w], m)], wk' = [wk EXCEPT ![w].st = s]
      PROVE  \A v \in Workers : Whose(v)'
  <2>1. Msgs(w2m'[w]) = Msgs(w2m[w]) \cup {m}
    <3>1. w2m'[w] = Append(w2m[w], m)
      BY <1>0, <1>4 DEF Types, ChannelsOK
    <3> QED
      BY <1>0, <3>1, MsgsOf
  <2>2. wk'[w].g = wk[w].g /\ pid[wk[w].g] = closure[w] /\ m.pid = pid[m.g] /\ m.pid = closure[w]
    BY <1>0, <1>4 DEF Whose, Msg, Types, WorkerTypes, WorkerStates
  <2>3. closure[w] \in DOMAIN exec /\ exec[closure[w]] = w
    BY <1>0, <1>4 DEF Whose, Active
  <2>4. UNCHANGED <<closure, exec, made>>
    BY <1>4 DEF page
  <2>5. Whose(w)'
    BY <1>0, <1>4, <2>1, <2>2, <2>3, <2>4 DEF Whose
  <2> QED
    BY <1>0, <1>4, <2>5, WhoseOfOne DEF Types, ChannelsOK, WorkerTypes
<1>5. ASSUME NEW w \in Workers, GuestExit(w) \/ Instantiated(w) PROVE \A v \in Workers : Whose(v)'
  <2>1. CASE GuestExit(w)
    <3>1. Live(w) /\ Msg("exit", wk[w].g, pid[wk[w].g], {}) \in FromWorkers
      BY <2>1, LiveProcess, Reports DEF GuestExit, IInv, Types
    <3> QED
      BY <1>4, <2>1, <3>1 DEF GuestExit, ids
  <2>2. CASE Instantiated(w)
    <3>1. Live(w) /\ Msg("memory", wk[w].g, pid[wk[w].g], {}) \in FromWorkers
      BY <2>2, Reports DEF Instantiated, IInv, Types, Live
    <3> QED
      BY <1>4, <2>2, <3>1 DEF Instantiated, ids
  <2> QED
    BY <1>5, <2>1, <2>2
<1>6. ASSUME NEW w \in Workers, Start(w) PROVE \A v \in Workers : Whose(v)'
  <2>1. /\ m2w[w] # << >> /\ Head(m2w[w]).type \in BootTypes /\ m2w'[w] = Tail(m2w[w]) /\ w2m'[w] = w2m[w]
        /\ wk'[w].g = Head(m2w[w]).g /\ UNCHANGED <<closure, exec, made, pid>>
        /\ \A v \in Workers \ {w} : m2w'[v] = m2w[v] /\ w2m'[v] = w2m[v] /\ wk'[v] = wk[v]
    BY <1>0, <1>6 DEF Start, Got, BootTypes, ids, page, Types, ChannelsOK, WorkerTypes
  <2>2. Msgs(m2w'[w]) \subseteq Msgs(m2w[w]) /\ Head(m2w[w]) \in Msgs(m2w[w])
    BY <1>0, <2>1, MsgsOf
  <2>3. closure[w] \in DOMAIN exec /\ exec[closure[w]] = w /\ pid[wk'[w].g] = closure[w]
    BY <1>0, <2>1, <2>2, HasMsgs DEF Whose, Active
  <2>4. Whose(w)'
    BY <1>0, <2>1, <2>2, <2>3 DEF Whose
  <2>5. UNCHANGED <<page, pid>>
    BY <1>6 DEF Start, ids
  <2> QED
    BY <2>1, <2>4, <2>5, WhoseOfOne
<1>7. ASSUME NEW w \in Workers, Reset(w) \/ PipeFdCache(w) PROVE \A v \in Workers : Whose(v)'
  <2> DEFINE ack == Msg("reset-ack", 0, 0, {})
  <2>1. /\ m2w[w] # << >> /\ m2w'[w] = Tail(m2w[w]) /\ UNCHANGED <<page, pid>>
        /\ (w2m'[w] = w2m[w] \/ w2m'[w] = Append(w2m[w], ack))
        /\ \A v \in Workers \ {w} : m2w'[v] = m2w[v] /\ w2m'[v] = w2m[v]
    BY <1>0, <1>7 DEF Reset, PipeFdCache, Got, ids, page, Types, ChannelsOK
  <2>2. \E c : wk' = [wk EXCEPT ![w].cache = c]
    BY <1>7 DEF Reset, PipeFdCache
  <2>3. \A v \in Workers : wk'[v].g = wk[v].g /\ wk'[v].st = wk[v].st
    BY <1>0, <2>2 DEF Types, WorkerTypes, WorkerStates
  <2>4. ack \in FromWorkers /\ ack.type \notin {"memory", "exit"}
    BY DEF Msg, FromWorkers, AckMsgs
  <2>5. /\ Msgs(m2w'[w]) \subseteq Msgs(m2w[w])
        /\ \A m \in Msgs(w2m'[w]) : m.type \in {"memory", "exit"} => m \in Msgs(w2m[w])
    <3>1. Msgs(Append(w2m[w], ack)) = Msgs(w2m[w]) \cup {ack}
      BY <1>0, <2>4, MsgsOf
    <3>2. Msgs(Tail(m2w[w])) \subseteq Msgs(m2w[w])
      BY <1>0, <2>1, MsgsOf
    <3> QED
      BY <2>1, <2>4, <3>1, <3>2
  <2> QED
    BY <2>1, <2>3, <2>5, WhoseOfNone DEF Live
<1>8. ASSUME RelayPipe PROVE \A v \in Workers : Whose(v)'
  <2> DEFINE m == Head(k2m)
  <2>1. m \in ToWorker /\ m.type \notin BootTypes
    <3>1. m \in ToPage /\ m.type = "pipe"
      BY <1>0, <1>8, TailProperties DEF RelayPipe, Types, ChannelsOK
    <3> QED
      BY <3>1 DEF ToPage, ToWorker, ForkRequests, ForkTypes, BootTypes
  <2>2. ASSUME NEW v \in Workers PROVE \A x \in Msgs(m2w'[v]) : x.type \in BootTypes => x \in Msgs(m2w[v])
    <3>1. m2w'[v] = m2w[v] \/ m2w'[v] = Append(m2w[v], m)
      BY <1>0, <1>8 DEF RelayPipe, Types, ChannelsOK
    <3>2. Msgs(Append(m2w[v], m)) = Msgs(m2w[v]) \cup {m}
      BY <1>0, <2>1, MsgsOf
    <3> QED
      BY <2>1, <3>1, <3>2
  <2>3. UNCHANGED <<page, pid, w2m, wk>>
    BY <1>8 DEF RelayPipe, ids
  <2> QED
    BY <2>2, <2>3, WhoseOfNone DEF Live
<1>9. ASSUME NEW w \in Workers, RelayMemory(w) \/ ResetAck(w) PROVE \A v \in Workers : Whose(v)'
  <2>1. /\ UNCHANGED <<page, pid, m2w, wk>> /\ w2m[w] # << >> /\ w2m'[w] = Tail(w2m[w])
        /\ \A v \in Workers \ {w} : w2m'[v] = w2m[v]
    BY <1>0, <1>9 DEF RelayMemory, ResetAck, FromWorker, ids, Types, ChannelsOK
  <2>2. Msgs(w2m'[w]) \subseteq Msgs(w2m[w])
    BY <1>0, <2>1, MsgsOf
  <2> QED
    BY <2>1, <2>2, WhoseOfNone DEF Live
<1>10. ASSUME KernelStep \/ UNCHANGED vars PROVE \A v \in Workers : Whose(v)'
  BY <1>1, <1>10 DEF KernelStep, Register, RegisterMemory, WorkerExit, vars, ids, chans, Live
<1>11. ASSUME Spawn PROVE \A v \in Workers : Whose(v)'
  <2>1. PICK w \in Workers, m \in ForkRequests :
            /\ m = Head(k2m) /\ k2m # << >> /\ k2m' = Tail(k2m) /\ pid[m.g] = 0 /\ m.g <= procs
            /\ m.type \in ForkTypes /\ SpawnPid(m) \in PidNums \ {0}
            /\ pid' = [pid EXCEPT ![m.g] = SpawnPid(m)]
            /\ exec' = With(exec, SpawnPid(m), w) /\ closure' = [closure EXCEPT ![w] = SpawnPid(m)]
            /\ m2w' = [m2w EXCEPT ![w] = Append(m2w[w], Msg(m.type, m.g, SpawnPid(m), m.pipes))]
            /\ Msg(m.type, m.g, SpawnPid(m), m.pipes) \in ToWorker
            /\ ~Live(w) /\ ~HasType(m2w[w], BootTypes) /\ ~HasType(w2m[w], {"exit"})
            /\ made <= made' /\ w <= made' /\ made \in Int /\ made' \in Int
    <3>1. made \in Int /\ made' \in Int
      BY <1>11, SpawnTakes
    <3> QED
      BY <1>11, <3>1, SpawnEffect
  <2> DEFINE boot == Msg(m.type, m.g, SpawnPid(m), m.pipes)
  <2>2. PICK p \in PidNums \ {0} : p = SpawnPid(m)
    BY <2>1
  <2>3. m.g \in Procs /\ p \notin DOMAIN exec /\ \A g \in Procs : pid[g] # p
    BY <1>0, <2>1, <2>2, NewPid DEF JInv
  <2>4. /\ pid'[m.g] = p /\ \A g \in Procs \ {m.g} : pid'[g] = pid[g]
        /\ closure'[w] = p /\ \A v \in Workers \ {w} : closure'[v] = closure[v]
        /\ m2w'[w] = Append(m2w[w], boot) /\ \A v \in Workers \ {w} : m2w'[v] = m2w[v]
    BY <1>0, <2>1, <2>2, <2>3 DEF Types, IdTypes, PageTypes, ChannelsOK
  <2>5. DOMAIN exec' = DOMAIN exec \cup {p} /\ exec'[p] = w /\ \A z \in DOMAIN exec \ {p} : exec'[z] = exec[z]
    BY <2>1, <2>2 DEF With, Over
  <2>6. w2m' = w2m /\ wk' = wk /\ \A v \in Workers : v \in Int
    BY <1>11, LifecycleBounds DEF Spawn, Workers
  <2>7. \A g \in Procs : pid[g] # 0 => pid'[g] = pid[g]
    BY <2>1, <2>4
  <2>8. ASSUME NEW v \in Workers \ {w} PROVE Whose(v)'
    <3>1. Active(v)' => Active(v)
      BY <2>4, <2>6, <2>8 DEF Active, Live
    <3>2. Active(v)' => closure[v] \in DOMAIN exec' /\ (exec[closure[v]] = v => exec'[closure[v]] = v)
      BY <1>0, <2>3, <2>5, <3>1 DEF Whose
    <3>3. v > made' => v > made
      BY <2>1, <2>6
    <3> QED
      BY <1>0, <2>4, <2>6, <2>7, <2>8, <3>2, <3>3, WhoseFrame DEF Live
  <2>9. Whose(w)'
    <3>1. Msgs(m2w'[w]) = Msgs(m2w[w]) \cup {boot} /\ \A x \in Msgs(m2w[w]) : x.type \notin BootTypes
      BY <1>0, <2>1, <2>4, MsgsOf, HasMsgs
    <3>2. boot.pid = pid'[boot.g] /\ boot.pid = closure'[w]
      BY <2>2, <2>4 DEF Msg
    <3>3. \A x \in Msgs(w2m[w]) : x.type \in {"memory", "exit"} => x.type = "memory" /\ x.g \in Procs /\ x.pid # 0
      <4>1. Msgs(w2m[w]) \subseteq FromWorkers
        BY <1>0, MsgsOf
      <4> QED
        BY <2>1, <4>1, HasMsgs DEF FromWorkers, ReportMsgs, AckMsgs
    <3>4. \A x \in Msgs(w2m'[w]) : x.type \in {"memory", "exit"} => x.type = "memory" /\ x.pid = pid'[x.g]
      BY <1>0, <2>6, <2>7, <3>3 DEF Whose
    <3>5. ~Live(w)' /\ ~(w > made')
      BY <2>1, <2>6 DEF Live
    <3> QED
      BY <2>4, <2>5, <3>1, <3>2, <3>4, <3>5 DEF Whose
  <2> QED
    BY <2>8, <2>9
<1>12. ASSUME NEW w \in Workers, ExitMessage(w) PROVE \A v \in Workers : Whose(v)'
  <2> DEFINE reset == Msg("reset", 0, 0, {})
  <2>1. /\ w2m[w] # << >> /\ Head(w2m[w]).type = "exit" /\ w2m'[w] = Tail(w2m[w]) /\ UNCHANGED <<wk, made, closure, pid>>
        /\ exec' = Without(exec, closure[w])
        /\ (m2w'[w] = m2w[w] \/ m2w'[w] = Append(m2w[w], reset))
        /\ \A v \in Workers \ {w} : m2w'[v] = m2w[v] /\ w2m'[v] = w2m[v]
    BY <1>0, <1>12 DEF ExitMessage, FromWorker, ids, Types, ChannelsOK
  <2>2. reset \in ToWorker /\ reset.type \notin BootTypes
    BY DEF Msg, ToWorker, ResetMsgs, BootTypes
  <2>3. /\ \A x \in Msgs(m2w'[w]) : x.type \in BootTypes => x \in Msgs(m2w[w])
        /\ Msgs(w2m'[w]) \subseteq Msgs(w2m[w])
    <3>1. Msgs(Append(m2w[w], reset)) = Msgs(m2w[w]) \cup {reset}
      BY <1>0, <2>2, MsgsOf
    <3>2. Msgs(Tail(w2m[w])) \subseteq Msgs(w2m[w])
      BY <1>0, <2>1, MsgsOf
    <3> QED
      BY <2>1, <2>2, <3>1, <3>2
  <2>4. HasType(w2m[w], {"exit"}) /\ ~HasType(w2m'[w], {"exit"})
    BY <1>0, <2>1, TailHas DEF OneLife
  <2>5. ~Active(w)' /\ closure[w] \in DOMAIN exec /\ exec[closure[w]] = w
    <3>1. ~Live(w) /\ \A x \in Msgs(m2w[w]) : x.type \notin BootTypes
      BY <1>0, <2>4, HasMsgs DEF OneLife
    <3>2. ~Live(w)' /\ ~HasType(m2w'[w], BootTypes)
      BY <2>1, <2>3, <3>1, HasMsgs DEF Live
    <3> QED
      BY <1>0, <2>4, <3>2 DEF Active, Whose
  <2>6. DOMAIN exec' = DOMAIN exec \ {closure[w]} /\ \A z \in DOMAIN exec' : exec'[z] = exec[z]
    BY <2>1 DEF Without, Restrict
  <2>7. Whose(w)'
    BY <1>0, <2>1, <2>3, <2>5, WhoseFrame DEF Live
  <2>8. ASSUME NEW v \in Workers \ {w} PROVE Whose(v)'
    <3>1. Active(v)' => Active(v)
      BY <2>1, <2>8 DEF Active, Live
    <3>2. Active(v)' => closure[v] \in DOMAIN exec' /\ (exec[closure[v]] = v => exec'[closure[v]] = v)
      BY <1>0, <2>5, <2>6, <2>8, <3>1 DEF Whose
    <3> QED
      BY <1>0, <2>1, <2>8, <3>2, WhoseFrame DEF Live
  <2> QED
    BY <2>7, <2>8
<1> QED
  BY <1>2, <1>3, <1>5, <1>6, <1>7, <1>8, <1>9, <1>10, <1>11, <1>12
  DEF Next, GuestStep, WorkerStep, PageStep

LEMMA ExecGivenKept ==
  ASSUME FirstForksExec, IInv, JInv, [Next]_vars
  PROVE  ExecGiven'
<1>0. Types /\ ToldOK /\ ExecGiven /\ DOMAIN exec \subseteq PidNums \ {0}
  BY DEF IInv, JInv, Types, PageTypes
<1>1. ASSUME Spawn PROVE ExecGiven'
  <2>1. PICK w \in Workers, m \in ForkRequests :
            /\ m = Head(k2m) /\ k2m # << >> /\ pid[m.g] = 0 /\ m.g <= procs /\ m.type \in ForkTypes
            /\ pid' = [pid EXCEPT ![m.g] = SpawnPid(m)] /\ exec' = With(exec, SpawnPid(m), w)
    BY <1>1, SpawnEffect
  <2>2. m.g \in Procs
    BY <1>0, <2>1, NewPid DEF JInv
  <2>3. DOMAIN exec' = DOMAIN exec \cup {SpawnPid(m)}
    BY <2>1 DEF With, Over
  <2>4. pid'[m.g] = SpawnPid(m) /\ \A g \in Procs \ {m.g} : pid'[g] = pid[g]
    BY <1>0, <2>1, <2>2 DEF Types, IdTypes
  <2> QED
    BY <1>0, <2>1, <2>2, <2>3, <2>4 DEF ExecGiven
<1>2. ASSUME NEW w \in Workers, ExitMessage(w) PROVE ExecGiven'
  BY <1>0, <1>2 DEF ExitMessage, Without, Restrict, ids, ExecGiven
<1>3. ASSUME UNCHANGED <<exec, pid>> PROVE ExecGiven'
  BY <1>0, <1>3 DEF ExecGiven
<1> QED
  BY <1>1, <1>2, <1>3
  DEF Next, GuestStep, WorkerStep, PageStep, KernelStep, ForkExec, FullFork, Fork, VforkExit, PipeCreate, GuestExit, Start,
      Instantiated, InstantiateFails, Settled, Reset, PipeFdCache, RelayPipe, RelayMemory, ResetAck, Register,
      RegisterMemory, WorkerExit, ids, page, chans, vars

-----------------------------------------------------------------------------
(* Queues on which resets and boot messages stand in the right order. *)
LEMMA CleanQueue ==
  ASSUME NEW S, NEW q \in Seq(S), NEW M
  PROVE  /\ \A N : Clean(q, M) /\ M \subseteq N => Clean(q, N)
         /\ \A m \in S : Clean(q, M) /\ (m.type = "pipe" => m.pipes \subseteq M) => Clean(Append(q, m), M)
         /\ \A m \in S : m.type = "reset" => Clean(Append(q, m), M)
         /\ q # << >> /\ Clean(q, M) =>
               /\ Clean(Tail(q), M)
               /\ Head(q).type = "pipe" => Head(q).pipes \subseteq M \/ HasType(Tail(q), {"reset"})
<1>1. \A N : Clean(q, M) /\ M \subseteq N => Clean(q, N)
  BY DEF Clean
<1>2. ASSUME NEW m \in S
      PROVE  /\ Clean(q, M) /\ (m.type = "pipe" => m.pipes \subseteq M) => Clean(Append(q, m), M)
             /\ m.type = "reset" => Clean(Append(q, m), M)
  <2>1. /\ Len(Append(q, m)) = Len(q) + 1 /\ Append(q, m)[Len(q) + 1] = m /\ Len(q) \in Nat
        /\ \A i \in 1 .. Len(q) : Append(q, m)[i] = q[i]
    BY SendProperties
  <2>2. \A i \in 1 .. Len(Append(q, m)) : i \in 1 .. Len(q) \/ i = Len(q) + 1
    BY <2>1
  <2>3. \A i \in 1 .. Len(q) : i \in 1 .. Len(Append(q, m)) /\ i < Len(q) + 1
    BY <2>1
  <2>4. Len(q) + 1 \in 1 .. Len(Append(q, m))
    BY <2>1
  <2>5. \A i \in 1 .. Len(q) : Swept(q, i) \/ m.type = "reset" => Swept(Append(q, m), i)
    BY <2>1, <2>3, <2>4 DEF Swept
  <2> QED
    BY <2>1, <2>2, <2>5 DEF Clean
<1>3. ASSUME q # << >>, Clean(q, M)
      PROVE  /\ Clean(Tail(q), M)
             /\ Head(q).type = "pipe" => Head(q).pipes \subseteq M \/ HasType(Tail(q), {"reset"})
  <2>1. /\ Len(Tail(q)) = Len(q) - 1 /\ Len(q) \in Nat \ {0} /\ Head(q) = q[1]
        /\ \A i \in 1 .. Len(Tail(q)) : Tail(q)[i] = q[i + 1]
    BY <1>3, TailProperties
  <2>2. \A i \in 1 .. Len(Tail(q)) : i + 1 \in 1 .. Len(q)
    BY <2>1
  <2>3. \A j \in 1 .. Len(q) : 1 < j => j - 1 \in 1 .. Len(Tail(q)) /\ Tail(q)[j - 1] = q[j]
    BY <2>1
  <2>4. ASSUME NEW i \in 1 .. Len(Tail(q)), Swept(q, i + 1) PROVE Swept(Tail(q), i)
    <3>1. PICK j \in 1 .. Len(q) : i + 1 < j /\ q[j].type = "reset"
      BY <2>4 DEF Swept
    <3>2. j - 1 \in 1 .. Len(Tail(q)) /\ i < j - 1 /\ Tail(q)[j - 1].type = "reset"
      BY <2>1, <2>3, <3>1
    <3> QED
      BY <3>2 DEF Swept
  <2>5. Clean(Tail(q), M)
    BY <1>3, <2>1, <2>2, <2>4 DEF Clean
  <2>6. Swept(q, 1) => HasType(Tail(q), {"reset"})
    BY <2>3 DEF Swept, HasType
  <2>7. 1 \in 1 .. Len(q)
    BY <2>1
  <2> QED
    BY <1>3, <2>1, <2>5, <2>6, <2>7 DEF Clean
<1> QED
  BY <1>1, <1>2, <1>3

LEMMA BootLastQueue ==
  ASSUME NEW S, NEW q \in Seq(S), BootLast(q)
  PROVE  /\ \A m \in S : (m.type = "reset" => ~HasType(q, BootTypes)) => BootLast(Append(q, m))
         /\ q # << >> => /\ BootLast(Tail(q))
                         /\ Head(q).type \in BootTypes => ~HasType(q, {"reset"})
<1>1. ASSUME NEW m \in S, m.type = "reset" => ~HasType(q, BootTypes) PROVE BootLast(Append(q, m))
  <2>1. /\ Len(Append(q, m)) = Len(q) + 1 /\ Append(q, m)[Len(q) + 1] = m /\ Len(q) \in Nat
        /\ \A i \in 1 .. Len(q) : Append(q, m)[i] = q[i]
    BY SendProperties
  <2>2. \A i \in 1 .. Len(Append(q, m)) : i \in 1 .. Len(q) \/ i = Len(q) + 1
    BY <2>1
  <2>3. "reset" \notin BootTypes
    BY DEF BootTypes
  <2> SUFFICES ASSUME NEW i \in 1 .. Len(Append(q, m)), NEW j \in 1 .. Len(Append(q, m)),
                      Append(q, m)[i].type \in BootTypes, Append(q, m)[j].type = "reset"
               PROVE  j < i
    BY DEF BootLast
  <2>4. CASE i \in 1 .. Len(q) /\ j \in 1 .. Len(q)
    BY <2>1, <2>4 DEF BootLast
  <2>5. CASE i \in 1 .. Len(q) /\ j = Len(q) + 1
    BY <1>1, <2>1, <2>5 DEF HasType
  <2>6. CASE i = Len(q) + 1
    BY <2>1, <2>2, <2>3, <2>6
  <2> QED
    BY <2>2, <2>4, <2>5, <2>6
<1>2. ASSUME q # << >> PROVE BootLast(Tail(q)) /\ (Head(q).type \in BootTypes => ~HasType(q, {"reset"}))
  <2>1. /\ Len(Tail(q)) = Len(q) - 1 /\ Len(q) \in Nat \ {0} /\ Head(q) = q[1]
        /\ \A i \in 1 .. Len(Tail(q)) : Tail(q)[i] = q[i + 1]
    BY <1>2, TailProperties
  <2>2. \A i \in 1 .. Len(Tail(q)) : i + 1 \in 1 .. Len(q)
    BY <2>1
  <2>3. BootLast(Tail(q))
    <3> SUFFICES ASSUME NEW i \in 1 .. Len(Tail(q)), NEW j \in 1 .. Len(Tail(q)),
                        Tail(q)[i].type \in BootTypes, Tail(q)[j].type = "reset"
                 PROVE  j < i
      BY DEF BootLast
    <3>1. j + 1 < i + 1
      BY <2>1, <2>2 DEF BootLast
    <3> QED
      BY <3>1
  <2>4. 1 \in 1 .. Len(q) /\ \A j \in 1 .. Len(q) : ~(j < 1)
    BY <2>1
  <2> QED
    BY <2>1, <2>3, <2>4 DEF BootLast, HasType
<1> QED
  BY <1>1, <1>2

(* What processes keep: their pid, once they have one, and their pipes. *)
Grow == \A g \in Procs : g <= procs => pipesOf[g] \subseteq pipesOf'[g] /\ (pid[g] # 0 => pid'[g] = pid[g])

LEMMA Growing ==
  ASSUME FirstForksExec, IInv, JInv, [Next]_vars
  PROVE  Grow
<1>0. Types /\ ToldOK /\ procs \in Int
  BY LifecycleBounds DEF IInv, JInv, Types, IdTypes, Procs
<1>1. ASSUME NEW w \in Workers, ForkExec(w) \/ FullFork(w) PROVE Grow
  <2>1. pid' = pid /\ pipesOf' = [pipesOf EXCEPT ![procs + 1] = pipesOf[1]]
    BY <1>1, ForkEffect
  <2>2. \A g \in Procs : g <= procs => g # procs + 1
    BY <1>0
  <2> QED
    BY <1>0, <2>1, <2>2 DEF Grow, Types, IdTypes
<1>2. ASSUME NEW w \in Workers, PipeCreate(w) PROVE Grow
  BY <1>0, <1>2 DEF PipeCreate, Grow, Types, IdTypes
<1>3. ASSUME Spawn PROVE Grow
  <2>1. PICK m \in ForkRequests : pid[m.g] = 0 /\ pid' = [pid EXCEPT ![m.g] = SpawnPid(m)]
    BY <1>3, SpawnEffect
  <2> QED
    BY <1>0, <1>3, <2>1 DEF Spawn, Grow, Types, IdTypes
<1>4. ASSUME UNCHANGED <<pid, pipesOf>> PROVE Grow
  BY <1>4 DEF Grow
<1> QED
  BY <1>1, <1>2, <1>3, <1>4
  DEF Next, GuestStep, WorkerStep, PageStep, KernelStep, VforkExit, GuestExit, Start, Instantiated,
      InstantiateFails, Settled, Reset, PipeFdCache, RelayPipe, RelayMemory, ExitMessage, ResetAck, Register,
      RegisterMemory, WorkerExit, ids, vars

LEMMA SentPipesKept ==
  ASSUME FirstForksExec, IInv, JInv, [Next]_vars
  PROVE  SentPipes'
<1>0. /\ Types /\ SpawnOrder /\ ToldOK /\ SentPipes /\ Grow /\ EntryPipes /\ k2m \in Seq(ToPage) /\ procs \in Int /\ 1 \in Procs
  BY Growing, LifecycleBounds DEF IInv, JInv, Types, IdTypes, ChannelsOK, Procs
<1>1. \A x \in Msgs(k2m) : x.type \in ForkTypes => x.g \in Procs /\ x.g <= procs
  <2>1. Msgs(k2m) \subseteq ToPage
    BY <1>0, MsgsOf
  <2> QED
    BY <1>0, <2>1 DEF SpawnOrder, Msgs, ToPage, ForkRequests, PipeMsgs, ForkTypes
<1>2. \A g \in Procs : pid[g] # 0 => g <= procs
  BY <1>0 DEF ToldOK
<1>3. ASSUME NEW x \in Msgs(k2m)
      PROVE  /\ x.type \in ForkTypes => x.pipes \subseteq pipesOf'[x.g]
             /\ x.type = "pipe" => \E g \in Procs : pid'[g] = x.pid /\ pid'[g] # 0 /\ x.pipes \subseteq pipesOf'[g]
  <2>1. x.type \in ForkTypes => x.pipes \subseteq pipesOf'[x.g]
    BY <1>0, <1>1 DEF SentPipes, Grow
  <2>2. ASSUME x.type = "pipe"
        PROVE  \E g \in Procs : pid'[g] = x.pid /\ pid'[g] # 0 /\ x.pipes \subseteq pipesOf'[g]
    <3>1. PICK g \in Procs : pid[g] = x.pid /\ pid[g] # 0 /\ x.pipes \subseteq pipesOf[g]
      BY <1>0, <2>2 DEF SentPipes
    <3> QED
      BY <1>0, <1>2, <3>1 DEF Grow
  <2> QED
    BY <2>1, <2>2
<1>4. ASSUME NEW w \in Workers, ForkExec(w) \/ FullFork(w) PROVE SentPipes'
  <2>1. PICK m \in ToPage, n \in Procs :
           /\ n = procs + 1 /\ m.type = "exec" /\ m.g = n /\ m.pipes = table[pid[1]].fds /\ k2m' = Append(k2m, m)
           /\ pipesOf' = [pipesOf EXCEPT ![n] = pipesOf[1]] /\ Served(1)
    BY <1>4, ForkEffect
  <2>2. m.pipes = pipesOf[1] /\ pipesOf'[n] = pipesOf[1]
    <3>1. 1 <= procs /\ told[1] = pid[1]
      BY <1>0 DEF ToldOK
    <3> QED
      BY <1>0, <2>1, <3>1 DEF EntryPipes, Served, Types, IdTypes
  <2>3. Msgs(k2m') = Msgs(k2m) \cup {m}
    BY <1>0, <2>1, MsgsOf
  <2> QED
    BY <1>3, <2>1, <2>2, <2>3 DEF SentPipes
<1>5. ASSUME NEW w \in Workers, PipeCreate(w) PROVE SentPipes'
  <2>1. PICK m \in ToPage, g \in Procs :
           /\ m.type = "pipe" /\ m.pid = pid[g] /\ pid[g] # 0 /\ m.pipes = {pipes + 1} /\ k2m' = Append(k2m, m)
           /\ pipesOf' = [pipesOf EXCEPT ![g] = pipesOf[g] \cup {pipes + 1}] /\ pid' = pid
    BY <1>5, PipeEffect DEF PidNums
  <2>2. m.pipes \subseteq pipesOf'[g] /\ m.type \notin ForkTypes
    BY <1>0, <2>1 DEF Types, IdTypes, ForkTypes
  <2>3. Msgs(k2m') = Msgs(k2m) \cup {m}
    BY <1>0, <2>1, MsgsOf
  <2> QED
    BY <1>3, <2>1, <2>2, <2>3 DEF SentPipes
<1>6. ASSUME Spawn \/ RelayPipe PROVE SentPipes'
  <2>1. k2m # << >> /\ k2m' = Tail(k2m)
    BY <1>6 DEF Spawn, RelayPipe
  <2>2. Msgs(k2m') \subseteq Msgs(k2m)
    BY <1>0, <2>1, MsgsOf
  <2> QED
    BY <1>3, <2>2 DEF SentPipes
<1>7. ASSUME UNCHANGED k2m PROVE SentPipes'
  BY <1>3, <1>7 DEF SentPipes
<1> QED
  BY <1>4, <1>5, <1>6, <1>7
  DEF Next, GuestStep, WorkerStep, PageStep, KernelStep, VforkExit, GuestExit, Start, Instantiated,
      InstantiateFails, Settled, Reset, PipeFdCache, RelayMemory, ExitMessage, ResetAck, Register,
      RegisterMemory, WorkerExit, chans, vars

-----------------------------------------------------------------------------
(* The pipes in a worker's cache. *)
LEMMA MineGrows ==
  ASSUME Types, ToldOK, Grow, NEW v \in Workers, closure'[v] = closure[v], Pooled(v)' => Pooled(v)
  PROVE  Mine(v) \subseteq Mine(v)'
BY DEF ToldOK, Grow, Mine

\* v takes no message.
LEMMA CacheFrame ==
  ASSUME IInv, JInv, Grow, NEW v \in Workers, closure'[v] = closure[v], Pooled(v)' => Pooled(v),
         m2w'[v] = m2w[v], wk'[v].cache = wk[v].cache,
         Live(v)' \/ HasType(w2m'[v], {"exit"}) => Live(v) \/ HasType(w2m[v], {"exit"})
  PROVE  CacheOK(v)'
<1>1. Types /\ ToldOK /\ CacheOK(v) /\ Whose(v) /\ m2w[v] \in Seq(ToWorker)
  BY LifeOfQueues DEF IInv, JInv
<1>2. Mine(v) \subseteq Mine(v)'
  BY <1>1, MineGrows
<1>3. Clean(m2w'[v], Mine(v)')
  BY <1>1, <1>2, CleanQueue DEF CacheOK
<1>4. ASSUME NEW m \in Msgs(m2w[v]), m.type \in BootTypes PROVE m.pipes \subseteq pipesOf'[m.g]
  <2>1. m \in ToWorker
    BY <1>1, MsgsOf
  <2>2. m.g \in Procs /\ m.pid # 0 /\ m.pid = pid[m.g]
    BY <1>1, <1>4, <2>1 DEF Whose, ToWorker, BootMsgs, ResetMsgs, PipeMsgs, BootTypes
  <2> QED
    BY <1>1, <1>4, <2>2 DEF CacheOK, Grow, ToldOK
<1> QED
  BY <1>1, <1>2, <1>3, <1>4 DEF CacheOK

\* The process that w has is the one whose pipes w may hold.
LEMMA MineIs ==
  ASSUME IInv, JInv, NEW w \in Workers, NEW g \in Procs, pid[g] # 0, pid[g] = closure[w], ~Pooled(w)
  PROVE  Mine(w) = pipesOf[g]
<1>1. \A h \in Procs : pid[h] # 0 /\ pid[h] = closure[w] => h = g
  BY GivenOnce DEF JInv
<1>2. pipesOf[g] \subseteq Pipes
  BY DEF IInv, Types, IdTypes
<1> QED
  BY <1>1, <1>2 DEF Mine

LEMMA CacheKept ==
  ASSUME FirstForksExec, IInv, JInv, [Next]_vars
  PROVE  \A v \in Workers : CacheOK(v)'
<1>0. /\ Types /\ ExecOK /\ PidGiven /\ ToldOK /\ Grow /\ SentPipes
      /\ \A v \in Workers : OneLife(v) /\ Whose(v) /\ CacheOK(v) /\ m2w[v] \in Seq(ToWorker) /\ w2m[v] \in Seq(FromWorkers)
  BY Growing, LifeOfQueues DEF IInv, JInv
<1>1. ASSUME UNCHANGED <<page, m2w>>,
             \A v \in Workers : /\ wk'[v].cache = wk[v].cache
                                /\ Live(v)' \/ HasType(w2m'[v], {"exit"}) => Live(v) \/ HasType(w2m[v], {"exit"})
      PROVE  \A v \in Workers : CacheOK(v)'
  <2>1. \A v \in Workers : closure'[v] = closure[v] /\ (Pooled(v)' => Pooled(v)) /\ m2w'[v] = m2w[v]
    BY <1>1 DEF page, Pooled
  <2> QED
    BY <1>0, <1>1, <2>1, CacheFrame
<1>2. ASSUME NEW w \in Workers, ForkExec(w) \/ FullFork(w) \/ VforkExit(w) PROVE \A v \in Workers : CacheOK(v)'
  BY <1>1, <1>2 DEF ForkExec, FullFork, Fork, VforkExit, chans, Live
<1>3. ASSUME NEW w \in Workers, Instantiated(w) \/ InstantiateFails(w) \/ Settled(w) \/ GuestExit(w)
      PROVE  \A v \in Workers : CacheOK(v)'
  <2>1. /\ UNCHANGED <<page, m2w>> /\ Live(w)
        /\ \E s \in {"idle", "settle", "run"} : wk' = [wk EXCEPT ![w].st = s]
        /\ \A v \in Workers \ {w} : w2m'[v] = w2m[v]
    BY <1>0, <1>3 DEF Instantiated, InstantiateFails, Settled, GuestExit, Running, Live, chans, Types, ChannelsOK
  <2>2. \A v \in Workers : wk'[v].cache = wk[v].cache /\ (v # w => wk'[v].st = wk[v].st)
    BY <1>0, <2>1 DEF Types, WorkerTypes, WorkerStates
  <2> QED
    BY <1>1, <2>1, <2>2 DEF Live
<1>4. ASSUME NEW w \in Workers, RelayMemory(w) \/ ResetAck(w) PROVE \A v \in Workers : CacheOK(v)'
  <2>1. /\ UNCHANGED <<page, m2w, wk>> /\ w2m[w] # << >> /\ w2m'[w] = Tail(w2m[w])
        /\ \A v \in Workers \ {w} : w2m'[v] = w2m[v]
    BY <1>0, <1>4 DEF RelayMemory, ResetAck, FromWorker, Types, ChannelsOK
  <2>2. HasType(w2m'[w], {"exit"}) => HasType(w2m[w], {"exit"})
    BY <1>0, <2>1, TailHas
  <2> QED
    BY <1>1, <2>1, <2>2 DEF Live
<1>5. ASSUME KernelStep \/ UNCHANGED vars PROVE \A v \in Workers : CacheOK(v)'
  BY <1>1, <1>5 DEF KernelStep, Register, RegisterMemory, WorkerExit, vars, chans, Live
\* The steps in which one worker takes a message, or gets one.
<1>6. ASSUME NEW w \in Workers, CacheOK(w)',
             \A v \in Workers \ {w} :
                /\ closure'[v] = closure[v] /\ (Pooled(v)' => Pooled(v))
                /\ m2w'[v] = m2w[v] /\ w2m'[v] = w2m[v] /\ wk'[v] = wk[v]
      PROVE  \A v \in Workers : CacheOK(v)'
  BY <1>0, <1>6, CacheFrame DEF Live
<1>7. ASSUME NEW w \in Workers, PipeCreate(w) PROVE \A v \in Workers : CacheOK(v)'
  <2>1. PICK q \in Pipes, g \in Procs :
           /\ g = wk[w].g /\ pid[g] # 0 /\ Live(w) /\ pipesOf' = [pipesOf EXCEPT ![g] = pipesOf[g] \cup {q}]
           /\ wk' = [wk EXCEPT ![w].cache = With(wk[w].cache, <<"guest", q>>, q)]
           /\ UNCHANGED <<pid, page, m2w, w2m>>
    BY <1>7, PipeEffect DEF PidNums
  <2>2. /\ wk'[w].cache = With(wk[w].cache, <<"guest", q>>, q) /\ wk'[w].st = wk[w].st
        /\ \A v \in Workers \ {w} : wk'[v] = wk[v]
    BY <1>0, <2>1 DEF Types, WorkerTypes, WorkerStates
  <2>3. ~Pooled(w)' /\ closure'[w] = closure[w] /\ pid[g] = closure[w] /\ ~HasType(m2w[w], {"reset"})
    BY <1>0, <2>1 DEF OneLife, Whose, CacheOK, Pooled, page
  <2>4. q \in Mine(w)'
    BY <1>0, <2>1, <2>3 DEF Mine, Types, IdTypes
  <2>5. Mine(w) \subseteq Mine(w)'
    BY <1>0, <2>3, MineGrows
  <2>6. DOMAIN wk'[w].cache = DOMAIN wk[w].cache \cup {<<"guest", q>>} /\ <<"guest", q>>[2] = q
    BY <2>2 DEF With, Over
  <2>7. \A k \in DOMAIN wk'[w].cache : k[2] \in Mine(w)'
    BY <1>0, <2>3, <2>4, <2>5, <2>6 DEF CacheOK
  <2>8. Clean(m2w'[w], Mine(w)') /\ m2w'[w] = m2w[w]
    BY <1>0, <2>1, <2>5, CleanQueue DEF CacheOK
  <2>9. \A m \in Msgs(m2w'[w]) : m.type \in BootTypes => m.pipes \subseteq pipesOf'[m.g]
    <3>1. \A m \in Msgs(m2w[w]) : m.type \notin BootTypes
      BY <1>0, <2>1, HasMsgs DEF OneLife
    <3> QED
      BY <2>8, <3>1
  <2>10. CacheOK(w)'
    BY <1>0, <2>3, <2>7, <2>8, <2>9 DEF CacheOK
  <2> QED
    BY <1>6, <2>1, <2>2, <2>10 DEF page, Pooled
<1>8. ASSUME NEW w \in Workers, Start(w) PROVE \A v \in Workers : CacheOK(v)'
  <2>1. PICK m : m = Head(m2w[w])
    OBVIOUS
  <2>2. /\ m2w[w] # << >> /\ m.type \in BootTypes /\ m2w'[w] = Tail(m2w[w]) /\ UNCHANGED <<page, pid, pipesOf, w2m>>
        /\ wk'[w].cache = Over([k \in {"kernel"} \X m.pipes |-> 0], wk[w].cache)
        /\ \A v \in Workers \ {w} : m2w'[v] = m2w[v] /\ wk'[v] = wk[v]
    BY <1>0, <1>8, <2>1 DEF Start, Got, BootTypes, ids, Types, ChannelsOK, WorkerTypes
  <2>3. /\ m \in Msgs(m2w[w]) /\ m \in ToWorker /\ Msgs(m2w'[w]) \subseteq Msgs(m2w[w])
        /\ HasType(m2w[w], BootTypes) /\ ~HasType(m2w'[w], BootTypes)
    BY <1>0, <2>1, <2>2, MsgsOf, TailHas DEF OneLife
  <2>4. m.g \in Procs /\ m.pid # 0 /\ m.pid = pid[m.g] /\ m.pid = closure[w] /\ m.pipes \subseteq pipesOf[m.g]
    BY <1>0, <2>2, <2>3 DEF Whose, CacheOK, ToWorker, BootMsgs, ResetMsgs, PipeMsgs, BootTypes
  <2>5. ~HasType(m2w[w], {"reset"}) /\ ~HasType(m2w'[w], {"reset"}) /\ BootLast(m2w'[w]) /\ Clean(m2w'[w], Mine(w))
    BY <1>0, <2>1, <2>2, BootLastQueue, CleanQueue, TailHas DEF CacheOK
  <2>6. ~Pooled(w) /\ Mine(w)' = Mine(w)
    BY <1>0, <2>2, <2>3 DEF OneLife, Pooled, page, Mine
  <2>7. Mine(w) = pipesOf[m.g]
    BY <2>4, <2>6, MineIs
  <2>8. \A k \in DOMAIN wk'[w].cache : k[2] \in Mine(w)
    <3>1. DOMAIN wk'[w].cache = ({"kernel"} \X m.pipes) \cup DOMAIN wk[w].cache
      BY <2>2 DEF Over
    <3>2. \A k \in {"kernel"} \X m.pipes : k[2] \in m.pipes
      OBVIOUS
    <3>3. \A k \in DOMAIN wk[w].cache : k[2] \in Mine(w)
      BY <1>0, <2>5 DEF CacheOK
    <3> QED
      BY <2>4, <2>7, <3>1, <3>2, <3>3
  <2>9. \A x \in Msgs(m2w'[w]) : x.type \notin BootTypes
    BY <2>3, HasMsgs
  <2>10. CacheOK(w)'
    BY <2>5, <2>6, <2>8, <2>9 DEF CacheOK
  <2> QED
    BY <1>6, <2>2, <2>10 DEF page, Pooled
<1>9. ASSUME NEW w \in Workers, Reset(w) PROVE \A v \in Workers : CacheOK(v)'
  <2> DEFINE ack == Msg("reset-ack", 0, 0, {})
  <2>1. /\ m2w[w] # << >> /\ Head(m2w[w]).type = "reset" /\ m2w'[w] = Tail(m2w[w]) /\ UNCHANGED <<page, pid, pipesOf>>
        /\ w2m'[w] = Append(w2m[w], ack)
        /\ \A v \in Workers \ {w} : m2w'[v] = m2w[v] /\ w2m'[v] = w2m[v]
    BY <1>0, <1>9 DEF Reset, Got, ids, Types, ChannelsOK
  <2>2. wk'[w].cache = << >> /\ wk'[w].st = wk[w].st /\ \A v \in Workers \ {w} : wk'[v] = wk[v]
    BY <1>0, <1>9 DEF Reset, CacheAfterReset, Types, WorkerTypes, WorkerStates
  <2>3. Mine(w)' = Mine(w)
    BY <2>1 DEF Mine, Pooled, page
  <2>4. HasType(m2w[w], {"reset"})
    BY <1>0, <2>1, TailHas
  <2>5. ~Live(w)' /\ ~HasType(w2m'[w], {"exit"})
    <3>1. ~Live(w) /\ ~HasType(w2m[w], {"exit"})
      BY <1>0, <2>4 DEF CacheOK
    <3>2. ack \in FromWorkers /\ ack.type \notin {"exit"}
      BY DEF Msg, FromWorkers, AckMsgs
    <3>3. HasType(Append(w2m[w], ack), {"exit"}) <=> HasType(w2m[w], {"exit"}) \/ ack.type \in {"exit"}
      BY <1>0, <3>2, AppendHas
    <3> QED
      BY <2>1, <2>2, <3>1, <3>2, <3>3 DEF Live
  <2>6. Clean(m2w'[w], Mine(w)) /\ BootLast(m2w'[w]) /\ Msgs(m2w'[w]) \subseteq Msgs(m2w[w])
    BY <1>0, <2>1, CleanQueue, BootLastQueue, MsgsOf DEF CacheOK
  <2>7. CacheOK(w)'
    BY <1>0, <2>1, <2>2, <2>3, <2>5, <2>6 DEF CacheOK
  <2> QED
    BY <1>6, <2>1, <2>2, <2>7 DEF page, Pooled
<1>10. ASSUME NEW w \in Workers, PipeFdCache(w) PROVE \A v \in Workers : CacheOK(v)'
  <2>1. PICK m : m = Head(m2w[w])
    OBVIOUS
  <2>2. /\ m2w[w] # << >> /\ m.type = "pipe" /\ m2w'[w] = Tail(m2w[w]) /\ UNCHANGED <<page, pid, pipesOf, w2m>>
        /\ \A v \in Workers \ {w} : m2w'[v] = m2w[v]
    BY <1>0, <1>10, <2>1 DEF PipeFdCache, Got, ids, Types, ChannelsOK
  <2>3. /\ wk'[w].cache = Over([k \in {"kernel"} \X m.pipes |-> k[2]], wk[w].cache) /\ wk'[w].st = wk[w].st
        /\ \A v \in Workers \ {w} : wk'[v] = wk[v]
    BY <1>0, <1>10, <2>1 DEF PipeFdCache, Types, WorkerTypes, WorkerStates
  <2>4. Mine(w)' = Mine(w)
    BY <2>2 DEF Mine, Pooled, page
  <2>5. /\ Clean(m2w'[w], Mine(w)) /\ BootLast(m2w'[w]) /\ Msgs(m2w'[w]) \subseteq Msgs(m2w[w])
        /\ m.pipes \subseteq Mine(w) \/ HasType(m2w'[w], {"reset"})
        /\ HasType(m2w'[w], {"reset"}) => HasType(m2w[w], {"reset"})
    BY <1>0, <2>1, <2>2, CleanQueue, BootLastQueue, MsgsOf, TailHas DEF CacheOK
  <2>6. HasType(m2w[w], {"reset"}) => HasType(m2w'[w], {"reset"})
    <3>1. \A x \in Msgs(m2w[w]) : x = m \/ x \in Msgs(m2w'[w])
      BY <1>0, <2>1, <2>2, MsgsOf
    <3> QED
      BY <2>2, <3>1, HasMsgs
  <2>7. (\A k \in DOMAIN wk'[w].cache : k[2] \in Mine(w)) \/ HasType(m2w'[w], {"reset"})
    <3>1. DOMAIN wk'[w].cache = ({"kernel"} \X m.pipes) \cup DOMAIN wk[w].cache
      BY <2>3 DEF Over
    <3>2. \A k \in {"kernel"} \X m.pipes : k[2] \in m.pipes
      OBVIOUS
    <3>3. (\A k \in DOMAIN wk[w].cache : k[2] \in Mine(w)) \/ HasType(m2w[w], {"reset"})
      BY <1>0 DEF CacheOK
    <3> QED
      BY <2>5, <2>6, <3>1, <3>2, <3>3
  <2>8. CacheOK(w)'
    BY <1>0, <2>2, <2>3, <2>4, <2>5, <2>7 DEF CacheOK, Live
  <2> QED
    BY <1>6, <2>2, <2>3, <2>8 DEF page, Pooled
<1>11. ASSUME Spawn PROVE \A v \in Workers : CacheOK(v)'
  <2>1. PICK w \in Workers, m \in ForkRequests :
            /\ m = Head(k2m) /\ k2m # << >> /\ k2m' = Tail(k2m) /\ pid[m.g] = 0 /\ m.g <= procs
            /\ m.type \in ForkTypes /\ SpawnPid(m) \in PidNums \ {0}
            /\ pid' = [pid EXCEPT ![m.g] = SpawnPid(m)] /\ closure' = [closure EXCEPT ![w] = SpawnPid(m)]
            /\ m2w' = [m2w EXCEPT ![w] = Append(m2w[w], Msg(m.type, m.g, SpawnPid(m), m.pipes))]
            /\ Msg(m.type, m.g, SpawnPid(m), m.pipes) \in ToWorker
            /\ ~Live(w) /\ ~HasType(m2w[w], BootTypes) /\ ~HasType(w2m[w], {"exit"})
            /\ (Pooled(w) \/ w > made)
            /\ \A v \in Workers : Pooled(v)' => Pooled(v) /\ v # w
    BY <1>11, SpawnEffect
  <2> DEFINE boot == Msg(m.type, m.g, SpawnPid(m), m.pipes)
  <2>2. /\ m2w'[w] = Append(m2w[w], boot) /\ \A v \in Workers \ {w} : m2w'[v] = m2w[v] /\ closure'[v] = closure[v]
        /\ wk' = wk /\ w2m' = w2m /\ pipesOf' = pipesOf
    BY <1>0, <1>11, <2>1 DEF Types, ChannelsOK, PageTypes, Spawn
  <2>3. Mine(w) = {}
    <3>1. CASE Pooled(w)
      BY <3>1 DEF Mine
    <3>2. CASE w > made
      BY <1>0, <3>2 DEF Mine, Whose
    <3> QED
      BY <2>1, <3>1, <3>2
  <2>4. /\ (\A k \in DOMAIN wk[w].cache : k[2] \in Mine(w)') \/ HasType(m2w[w], {"reset"})
        /\ Clean(m2w[w], Mine(w)')
    <3>1. Mine(w) \subseteq Mine(w)'
      BY <2>3
    <3> QED
      BY <1>0, <3>1, CleanQueue DEF CacheOK
  <2>5. boot.type \in BootTypes /\ boot.type # "pipe" /\ boot.type # "reset" /\ boot.pipes = m.pipes /\ boot.g = m.g
    BY <2>1 DEF Msg, ForkTypes, BootTypes
  <2>6. Clean(m2w'[w], Mine(w)')
    BY <1>0, <2>1, <2>2, <2>4, <2>5, CleanQueue
  <2>7. BootLast(m2w'[w])
    BY <1>0, <2>1, <2>2, <2>5, BootLastQueue DEF CacheOK
  <2>8. HasType(m2w[w], {"reset"}) => HasType(m2w'[w], {"reset"})
    BY <1>0, <2>1, <2>2, AppendHas
  <2>9. \A x \in Msgs(m2w'[w]) : x.type \in BootTypes => x.pipes \subseteq pipesOf'[x.g]
    <3>1. Msgs(m2w'[w]) = Msgs(m2w[w]) \cup {boot}
      BY <1>0, <2>1, <2>2, MsgsOf
    <3>2. m.pipes \subseteq pipesOf[m.g]
      <4>1. m \in Msgs(k2m)
        BY <1>0, <2>1, MsgsOf DEF Types, ChannelsOK
      <4> QED
        BY <1>0, <2>1, <4>1 DEF SentPipes
    <3> QED
      BY <1>0, <2>2, <2>5, <3>1, <3>2 DEF CacheOK
  <2>10. CacheOK(w)'
    BY <2>1, <2>2, <2>4, <2>6, <2>7, <2>8, <2>9 DEF CacheOK, Live
  <2> QED
    BY <1>6, <2>1, <2>2, <2>10
<1>12. ASSUME RelayPipe PROVE \A v \in Workers : CacheOK(v)'
  <2>1. PICK m : m = Head(k2m)
    OBVIOUS
  <2>2. /\ m \in ToPage /\ m.type = "pipe" /\ m \in Msgs(k2m) /\ UNCHANGED <<page, pid, pipesOf, wk, w2m>>
    <3>1. k2m \in Seq(ToPage)
      BY <1>0 DEF Types, ChannelsOK
    <3> QED
      BY <1>12, <2>1, <3>1, MsgsOf, TailProperties DEF RelayPipe, ids
  <2>3. CASE m.pid \notin DOMAIN exec
    BY <1>1, <1>12, <2>1, <2>2, <2>3 DEF RelayPipe, Live
  <2>4. CASE m.pid \in DOMAIN exec
    <3>1. PICK w : w = exec[m.pid]
      OBVIOUS
    <3>2. w \in Workers /\ closure[w] = m.pid /\ ~Pooled(w)
      BY <1>0, <2>4, <3>1, LifecycleBounds DEF ExecOK, Types, PageTypes, Workers
    <3>3. m2w'[w] = Append(m2w[w], m) /\ \A v \in Workers \ {w} : m2w'[v] = m2w[v]
      BY <1>0, <1>12, <2>1, <2>4, <3>1, <3>2 DEF RelayPipe, Types, ChannelsOK
    <3>4. m \in ToWorker /\ m.type \notin BootTypes
      BY <2>2 DEF ToPage, ToWorker, ForkRequests, ForkTypes, BootTypes
    <3>5. m.pipes \subseteq Mine(w) /\ Mine(w)' = Mine(w)
      <4>1. PICK g \in Procs : pid[g] = m.pid /\ pid[g] # 0 /\ m.pipes \subseteq pipesOf[g]
        BY <1>0, <2>2 DEF SentPipes
      <4>2. Mine(w) = pipesOf[g]
        BY <3>2, <4>1, MineIs
      <4> QED
        BY <2>2, <4>1, <4>2 DEF Mine, Pooled, page
    <3>6. Clean(m2w'[w], Mine(w)) /\ BootLast(m2w'[w])
      BY <1>0, <2>2, <3>2, <3>3, <3>4, <3>5, CleanQueue, BootLastQueue DEF CacheOK
    <3>7. Msgs(m2w'[w]) = Msgs(m2w[w]) \cup {m}
      BY <1>0, <3>2, <3>3, <3>4, MsgsOf
    <3>8. HasType(m2w[w], {"reset"}) <=> HasType(m2w'[w], {"reset"})
      BY <2>2, <3>7, HasMsgs
    <3>9. CacheOK(w)'
      BY <1>0, <2>2, <3>2, <3>4, <3>5, <3>6, <3>7, <3>8 DEF CacheOK, Live
    <3> QED
      BY <1>6, <2>2, <3>2, <3>3, <3>9 DEF page, Pooled
  <2> QED
    BY <2>3, <2>4
<1>13. ASSUME NEW w \in Workers, ExitMessage(w) PROVE \A v \in Workers : CacheOK(v)'
  <2> DEFINE reset == Msg("reset", 0, 0, {})
  <2>1. /\ w2m[w] # << >> /\ Head(w2m[w]).type = "exit" /\ w2m'[w] = Tail(w2m[w])
        /\ UNCHANGED <<wk, made, closure, pid, pipesOf>>
        /\ \/ pool' = pool /\ m2w'[w] = m2w[w]
           \/ pool' = Append(pool, w) /\ m2w'[w] = Append(m2w[w], reset)
        /\ \A v \in Workers \ {w} : m2w'[v] = m2w[v] /\ w2m'[v] = w2m[v]
    BY <1>0, <1>13 DEF ExitMessage, FromWorker, PoolAfter, ids, Types, ChannelsOK
  <2>2. HasType(w2m[w], {"exit"}) /\ ~HasType(w2m'[w], {"exit"})
    BY <1>0, <2>1, TailHas DEF OneLife
  <2>3. ~Live(w) /\ ~HasType(m2w[w], BootTypes)
    BY <1>0, <2>2 DEF OneLife
  <2>4. \A v \in Workers \ {w} : Pooled(v)' => Pooled(v)
    <3>1. pool \in Seq(Workers)
      BY <1>0 DEF Types, PageTypes
    <3> QED
      BY <2>1, <3>1 DEF Pooled
  <2>5. CASE pool' = pool /\ m2w'[w] = m2w[w]
    <3>1. CacheOK(w)'
      BY <1>0, <2>1, <2>2, <2>3, <2>5, CacheFrame DEF Live, Pooled
    <3> QED
      BY <1>6, <2>1, <2>4, <3>1
  <2>6. CASE pool' = Append(pool, w) /\ m2w'[w] = Append(m2w[w], reset)
    <3>1. reset \in ToWorker /\ reset.type = "reset" /\ reset.type \notin BootTypes
      BY DEF Msg, ToWorker, ResetMsgs, BootTypes
    <3>2. Msgs(m2w'[w]) = Msgs(m2w[w]) \cup {reset}
      BY <1>0, <2>6, <3>1, MsgsOf
    <3>3. HasType(m2w'[w], {"reset"}) /\ \A x \in Msgs(m2w'[w]) : x.type \notin BootTypes
      BY <2>3, <3>1, <3>2, HasMsgs
    <3>4. Clean(m2w'[w], Mine(w)') /\ BootLast(m2w'[w])
      BY <1>0, <2>3, <2>6, <3>1, CleanQueue, BootLastQueue DEF CacheOK
    <3>5. ~Live(w)'
      BY <2>1, <2>3 DEF Live
    <3>6. CacheOK(w)'
      BY <2>2, <3>3, <3>4, <3>5 DEF CacheOK
    <3> QED
      BY <1>6, <2>1, <2>4, <3>6
  <2> QED
    BY <2>1, <2>5, <2>6
<1> QED
  BY <1>2, <1>3, <1>4, <1>5, <1>7, <1>8, <1>9, <1>10, <1>11, <1>12, <1>13
  DEF Next, GuestStep, WorkerStep, PageStep

-----------------------------------------------------------------------------
(* What the kernel is told. *)
LEMMA RegisterQueue ==
  ASSUME NEW S, NEW q \in Seq(S), RegisterFirst(q)
  PROVE  /\ \A m \in S : (m.type = "register" => \A x \in Msgs(q) : x.pid # m.pid) => RegisterFirst(Append(q, m))
         /\ q # << >> =>
               /\ RegisterFirst(Tail(q))
               /\ Head(q).type # "register" => \A x \in Msgs(q) : x.type = "register" => x.pid # Head(q).pid
<1>1. ASSUME NEW m \in S, m.type = "register" => \A x \in Msgs(q) : x.pid # m.pid
      PROVE  RegisterFirst(Append(q, m))
  <2>1. /\ Len(Append(q, m)) = Len(q) + 1 /\ Append(q, m)[Len(q) + 1] = m /\ Len(q) \in Nat
        /\ \A i \in 1 .. Len(q) : Append(q, m)[i] = q[i]
    BY SendProperties
  <2>2. \A i \in 1 .. Len(Append(q, m)) : i \in 1 .. Len(q) \/ i = Len(q) + 1
    BY <2>1
  <2> SUFFICES ASSUME NEW i \in 1 .. Len(Append(q, m)), NEW j \in 1 .. Len(Append(q, m)),
                      Append(q, m)[i].type # "register", Append(q, m)[j].type = "register",
                      Append(q, m)[i].pid = Append(q, m)[j].pid
               PROVE  j < i
    BY DEF RegisterFirst
  <2>3. CASE i \in 1 .. Len(q) /\ j \in 1 .. Len(q)
    BY <2>1, <2>3 DEF RegisterFirst
  <2>4. CASE i \in 1 .. Len(q) /\ j = Len(q) + 1
    BY <1>1, <2>1, <2>4 DEF Msgs
  <2>5. CASE i = Len(q) + 1
    <3>1. j # Len(q) + 1
      BY <2>1, <2>5
    <3> QED
      BY <2>1, <2>2, <2>5, <3>1
  <2> QED
    BY <2>2, <2>3, <2>4, <2>5
<1>2. ASSUME q # << >>
      PROVE  /\ RegisterFirst(Tail(q))
             /\ Head(q).type # "register" => \A x \in Msgs(q) : x.type = "register" => x.pid # Head(q).pid
  <2>1. /\ Len(Tail(q)) = Len(q) - 1 /\ Len(q) \in Nat \ {0} /\ Head(q) = q[1]
        /\ \A i \in 1 .. Len(Tail(q)) : Tail(q)[i] = q[i + 1]
    BY <1>2, TailProperties
  <2>2. \A i \in 1 .. Len(Tail(q)) : i + 1 \in 1 .. Len(q)
    BY <2>1
  <2>3. RegisterFirst(Tail(q))
    <3> SUFFICES ASSUME NEW i \in 1 .. Len(Tail(q)), NEW j \in 1 .. Len(Tail(q)), Tail(q)[i].type # "register",
                        Tail(q)[j].type = "register", Tail(q)[i].pid = Tail(q)[j].pid
                 PROVE  j < i
      BY DEF RegisterFirst
    <3>1. j + 1 < i + 1
      BY <2>1, <2>2 DEF RegisterFirst
    <3> QED
      BY <3>1
  <2>4. 1 \in 1 .. Len(q) /\ \A j \in 1 .. Len(q) : ~(j < 1)
    BY <2>1
  <2> QED
    BY <2>1, <2>3, <2>4 DEF RegisterFirst, Msgs
<1> QED
  BY <1>1, <1>2

\* A step that sends the kernel no message, or one that fits.
LEMMA KernelFrame ==
  ASSUME IInv, JInv, Grow, RegisterFirst(m2k'),
         \A x \in Msgs(m2k') : \/ x \in Msgs(m2k)
                               \/ /\ x.pid = pid'[x.g] /\ (x.type = "exit" => x.pid \notin DOMAIN exec')
                                  /\ (x.type = "register" => x.pid \in DOMAIN table'),
         \A x \in Msgs(m2k) : x.pid \notin DOMAIN exec => x.pid \notin DOMAIN exec',
         \A x \in Msgs(m2k') : x.type = "register" /\ x.pid \in DOMAIN table => x.pid \in DOMAIN table',
         pipesOf[1] = {} => pipesOf'[1] = {} \/ pid[1] \in DOMAIN table
  PROVE  ToKernelOK'
<1>1. \A x \in Msgs(m2k) : x.g \in Procs /\ x.pid # 0 /\ x.pid = pid[x.g]
  <2>1. Msgs(m2k) \subseteq KernelMsgs
    BY MsgsOf DEF IInv, Types, ChannelsOK
  <2> QED
    BY <2>1 DEF KernelMsgs, JInv, ToKernelOK
<1>2. \A x \in Msgs(m2k) : x.pid = pid'[x.g]
  BY <1>1 DEF Grow, JInv, ToldOK
<1>3. \A x \in Msgs(m2k') : x \in Msgs(m2k) /\ x.type = "register" =>
         x.pid \in DOMAIN table' \/ (x.g = 1 /\ pipesOf'[1] = {})
  BY <1>1 DEF JInv, ToKernelOK
<1> QED
  BY <1>2, <1>3 DEF JInv, ToKernelOK

LEMMA ToKernelKept ==
  ASSUME FirstForksExec, IInv, JInv, [Next]_vars
  PROVE  ToKernelOK'
<1>0. /\ Types /\ ToldOK /\ ExecGiven /\ ToKernelOK /\ Requested /\ Grow /\ m2k \in Seq(KernelMsgs) /\ RegisterFirst(m2k)
      /\ \A v \in Workers : Whose(v) /\ w2m[v] \in Seq(FromWorkers)
  BY Growing, LifeOfQueues DEF IInv, JInv, ToKernelOK, Types, ChannelsOK
<1>1. ASSUME UNCHANGED <<m2k, exec>>, DOMAIN table \subseteq DOMAIN table', pipesOf[1] = {} => pipesOf'[1] = {} \/ pid[1] \in DOMAIN table
      PROVE  ToKernelOK'
  BY <1>0, <1>1, KernelFrame
<1>2. ASSUME NEW w \in Workers, ForkExec(w) \/ FullFork(w) PROVE ToKernelOK'
  <2>1. PICK n \in Procs, c \in PidNums :
           /\ n # 1 /\ pipesOf' = [pipesOf EXCEPT ![n] = pipesOf[1]]
           /\ table' = With(table, c, Entry(0, 0, table[pid[1]].fds))
           /\ UNCHANGED <<m2k, page>>
    BY <1>2, ForkEffect
  <2>2. DOMAIN table \subseteq DOMAIN table' /\ pipesOf'[1] = pipesOf[1]
    BY <1>0, <2>1 DEF With, Over, Types, IdTypes
  <2> QED
    BY <1>1, <2>1, <2>2 DEF page
<1>3. ASSUME NEW w \in Workers, PipeCreate(w) PROVE ToKernelOK'
  <2>1. PICK g \in Procs :
           /\ Served(g) /\ pipesOf' = [pipesOf EXCEPT ![g] = pipesOf[g] \cup {pipes + 1}] /\ DOMAIN table' = DOMAIN table
           /\ UNCHANGED <<m2k, page>>
    BY <1>3, PipeEffect
  <2>2. pipesOf'[1] = pipesOf[1] \/ pid[1] \in DOMAIN table
    BY <1>0, <2>1 DEF Served, Types, IdTypes
  <2> QED
    BY <1>1, <2>1, <2>2 DEF page
<1>4. ASSUME Spawn PROVE ToKernelOK'
  <2>1. PICK w \in Workers, m \in ForkRequests :
            /\ m = Head(k2m) /\ k2m # << >> /\ pid[m.g] = 0 /\ m.g <= procs
            /\ m.type \in ForkTypes /\ SpawnPid(m) \in PidNums \ {0}
            /\ pid' = [pid EXCEPT ![m.g] = SpawnPid(m)]
            /\ exec' = With(exec, SpawnPid(m), w)
            /\ m2k' = Append(m2k, Msg("register", m.g, SpawnPid(m), {}))
            /\ Msg("register", m.g, SpawnPid(m), {}) \in KernelMsgs
    BY <1>4, SpawnEffect
  <2>2. PICK r \in KernelMsgs : r = Msg("register", m.g, SpawnPid(m), {})
    BY <2>1
  <2>3. r.type = "register" /\ r.g = m.g /\ r.pid = SpawnPid(m)
    BY <2>2 DEF Msg
  <2>4. SpawnPid(m) = m.pid /\ m.g \in Procs /\ \A g \in Procs : pid[g] # r.pid
    BY <1>0, <2>1, <2>3, NewPid
  <2>5. /\ UNCHANGED <<table, pipesOf>> /\ DOMAIN exec' = DOMAIN exec \cup {r.pid}
    BY <1>4, <2>1, <2>3 DEF Spawn, kern, With, Over
  <2>6. \A x \in Msgs(m2k) : x.pid # r.pid
    <3>1. Msgs(m2k) \subseteq KernelMsgs
      BY <1>0, MsgsOf
    <3> QED
      BY <1>0, <2>4, <3>1 DEF ToKernelOK, KernelMsgs
  <2>7. r.pid \in DOMAIN table /\ r.pid = pid'[r.g]
    <3>1. m \in Msgs(k2m)
      BY <1>0, <2>1, MsgsOf DEF Types, ChannelsOK
    <3> QED
      BY <1>0, <2>1, <2>3, <2>4, <3>1 DEF Requested, Types, IdTypes
  <2>8. Msgs(m2k') = Msgs(m2k) \cup {r} /\ RegisterFirst(m2k')
    BY <1>0, <2>1, <2>2, <2>6, MsgsOf, RegisterQueue
  <2> QED
    BY <1>0, <2>3, <2>5, <2>6, <2>7, <2>8, KernelFrame
<1>5. ASSUME NEW w \in Workers, RelayMemory(w) \/ ExitMessage(w) PROVE ToKernelOK'
  <2>1. PICK m : m = Head(w2m[w])
    OBVIOUS
  <2>2. /\ w2m[w] # << >> /\ m.type \in {"memory", "exit"} /\ m2k' = Append(m2k, m) /\ UNCHANGED <<pid, table, pipesOf>>
        /\ DOMAIN exec' \subseteq DOMAIN exec /\ (m.type = "exit" => closure[w] \notin DOMAIN exec')
    BY <1>5, <2>1 DEF RelayMemory, ExitMessage, FromWorker, Without, Restrict, ids, kern, page
  <2>3. m \in FromWorkers /\ m \in Msgs(w2m[w])
    BY <1>0, <2>1, <2>2, MsgsOf
  <2>4. m \in KernelMsgs
    BY <2>2, <2>3 DEF FromWorkers, ReportMsgs, AckMsgs, KernelMsgs
  <2>5. m.pid = pid'[m.g] /\ (m.type = "exit" => m.pid \notin DOMAIN exec')
    BY <1>0, <2>2, <2>3 DEF Whose
  <2>6. Msgs(m2k') = Msgs(m2k) \cup {m} /\ RegisterFirst(m2k')
    BY <1>0, <2>2, <2>4, MsgsOf, RegisterQueue
  <2> QED
    BY <1>0, <2>2, <2>5, <2>6, KernelFrame
<1>6. ASSUME KernelStep PROVE ToKernelOK'
  <2>1. PICK m : m = Head(m2k)
    OBVIOUS
  <2>2. /\ m2k # << >> /\ m2k' = Tail(m2k) /\ UNCHANGED <<exec, pid, pipesOf>>
    BY <1>6 DEF KernelStep, Register, RegisterMemory, WorkerExit, ToKernel, ids, page
  <2>3. Msgs(m2k') \subseteq Msgs(m2k) /\ RegisterFirst(m2k')
    BY <1>0, <2>2, MsgsOf, RegisterQueue
  <2>4. ASSUME NEW x \in Msgs(m2k'), x.type = "register", x.pid \in DOMAIN table PROVE x.pid \in DOMAIN table'
    <3>1. CASE Register
      BY <2>4, <3>1 DEF Register, With, Over
    <3>2. CASE RegisterMemory
      BY <2>4, <3>2 DEF RegisterMemory
    <3>3. CASE WorkerExit
      <4>1. x.pid # m.pid
        BY <1>0, <2>1, <2>2, <2>3, <2>4, <3>3, RegisterQueue DEF WorkerExit, ToKernel
      <4> QED
        BY <2>1, <2>4, <3>3, <4>1 DEF WorkerExit, AfterExit, Without, Restrict
    <3> QED
      BY <1>6, <3>1, <3>2, <3>3 DEF KernelStep
  <2> QED
    BY <1>0, <2>2, <2>3, <2>4, KernelFrame
<1>7. ASSUME UNCHANGED <<m2k, exec, table, pipesOf>> PROVE ToKernelOK'
  BY <1>1, <1>7
<1> QED
  BY <1>2, <1>3, <1>4, <1>5, <1>6, <1>7
  DEF Next, GuestStep, WorkerStep, PageStep, VforkExit, GuestExit, Start, Instantiated,
      InstantiateFails, Settled, Reset, PipeFdCache, RelayPipe, ResetAck, ids, kern, page, chans, vars

-----------------------------------------------------------------------------
(* The kernel's entries. *)

\* The pid of a message to the kernel, or of a process, is no other process's.
LEMMA MessagePid ==
  ASSUME IInv, JInv, NEW m \in Msgs(m2k)
  PROVE  /\ m \in KernelMsgs /\ m.g \in Procs /\ m.pid = pid[m.g] /\ m.pid # 0 /\ m.pid = told[m.g] /\ m.g <= procs
         /\ \A g \in Procs : g <= procs /\ told[g] = m.pid => g = m.g
<1>1. m \in KernelMsgs
  BY MsgsOf DEF IInv, Types, ChannelsOK
<1>2. m.g \in Procs /\ m.pid = pid[m.g] /\ m.pid # 0
  BY <1>1 DEF KernelMsgs, JInv, ToKernelOK
<1> QED
  BY <1>1, <1>2 DEF JInv, ToldOK

\* A pid that the kernel's table has under a new fork is no process's yet.
LEMMA NewEntry ==
  ASSUME FirstForksExec, IInv, JInv, NEW w \in Workers, ForkExec(w) \/ FullFork(w)
  PROVE  /\ \A g \in Procs : g <= procs => told[g] # counter[1] + 1 /\ g # procs + 1
         /\ \A g \in Procs : pid[g] # 0 => pid[g] # counter[1] + 1
<1>1. /\ counter[1] \in Int /\ counter[1] >= 1 /\ procs \in Int /\ ToldOK /\ \A g \in Procs : g \in Int
  BY LifecycleBounds DEF IInv, JInv, Types, IdTypes, Procs
<1>2. \A g \in Procs : g <= procs => told[g] # counter[1] + 1 /\ g # procs + 1
  BY <1>1 DEF ToldOK
<1> QED
  BY <1>1, <1>2 DEF ToldOK

LEMMA RequestedKept ==
  ASSUME FirstForksExec, IInv, JInv, [Next]_vars
  PROVE  Requested'
<1>0. /\ Types /\ SpawnOrder /\ ToldOK /\ Requested /\ k2m \in Seq(ToPage) /\ m2k \in Seq(KernelMsgs)
  BY DEF IInv, JInv, Types, ChannelsOK
<1>1. ASSUME NEW w \in Workers, ForkExec(w) \/ FullFork(w) PROVE Requested'
  <2>1. PICK m \in ToPage, c \in PidNums :
           /\ m.pid = c /\ table' = With(table, c, Entry(0, 0, table[pid[1]].fds)) /\ k2m' = Append(k2m, m)
    BY <1>1, ForkEffect
  <2>2. Msgs(k2m') = Msgs(k2m) \cup {m} /\ DOMAIN table' = DOMAIN table \cup {c}
    BY <1>0, <2>1, MsgsOf DEF With, Over
  <2> QED
    BY <1>0, <2>1, <2>2 DEF Requested
<1>2. ASSUME NEW w \in Workers, PipeCreate(w) PROVE Requested'
  <2>1. PICK m \in ToPage : m.type = "pipe" /\ k2m' = Append(k2m, m) /\ DOMAIN table' = DOMAIN table
    BY <1>2, PipeEffect
  <2>2. Msgs(k2m') = Msgs(k2m) \cup {m} /\ m.type \notin ForkTypes
    BY <1>0, <2>1, MsgsOf DEF ForkTypes
  <2> QED
    BY <1>0, <2>1, <2>2 DEF Requested
<1>3. ASSUME Spawn \/ RelayPipe PROVE Requested'
  <2>1. k2m # << >> /\ k2m' = Tail(k2m) /\ UNCHANGED table
    BY <1>3 DEF Spawn, RelayPipe, kern
  <2>2. Msgs(k2m') \subseteq Msgs(k2m)
    BY <1>0, <2>1, MsgsOf
  <2> QED
    BY <1>0, <2>1, <2>2 DEF Requested
<1>4. ASSUME WorkerExit PROVE Requested'
  <2>1. PICK m : m = Head(m2k)
    OBVIOUS
  <2>2. m \in Msgs(m2k) /\ table' = Without(table, m.pid) /\ k2m' = k2m
    BY <1>0, <1>4, <2>1, MsgsOf DEF WorkerExit, ToKernel, AfterExit
  <2>3. ASSUME NEW x \in Msgs(k2m), x.type \in ForkTypes PROVE x.pid # m.pid
    <3>1. x \in ToPage
      BY <1>0, MsgsOf
    <3>2. x.g \in Procs /\ x.g <= procs /\ pid[x.g] = 0 /\ x.pid = told[x.g]
      BY <1>0, <2>3, <3>1 DEF SpawnOrder, ToldOK, Msgs, ToPage, ForkRequests, PipeMsgs, ForkTypes
    <3> QED
      BY <2>2, <3>2, MessagePid
  <2> QED
    BY <1>0, <2>2, <2>3 DEF Requested, Without, Restrict
<1>5. ASSUME UNCHANGED k2m, DOMAIN table \subseteq DOMAIN table' PROVE Requested'
  BY <1>0, <1>5 DEF Requested
<1>6. ASSUME Register \/ RegisterMemory PROVE Requested'
  BY <1>5, <1>6 DEF Register, RegisterMemory, With, Over
<1> QED
  BY <1>1, <1>2, <1>3, <1>4, <1>5, <1>6
  DEF Next, GuestStep, WorkerStep, PageStep, KernelStep, VforkExit, GuestExit, Start, Instantiated,
      InstantiateFails, Settled, Reset, PipeFdCache, RelayMemory, ExitMessage, ResetAck, kern, chans, vars

LEMMA EntryPipesKept ==
  ASSUME FirstForksExec, IInv, JInv, [Next]_vars
  PROVE  EntryPipes'
<1>0. /\ Types /\ ToldOK /\ EntryPipes /\ ToKernelOK /\ m2k \in Seq(KernelMsgs) /\ procs \in Int
      /\ KernelTypes /\ IdTypes /\ 1 \in Procs
  BY LifecycleBounds DEF IInv, JInv, Types, IdTypes, ChannelsOK, Procs
<1>1. ASSUME NEW w \in Workers, ForkExec(w) \/ FullFork(w) PROVE EntryPipes'
  <2>1. PICK n \in Procs, c \in PidNums :
           /\ n = procs + 1 /\ c = counter[1] + 1 /\ procs' = n /\ told' = [told EXCEPT ![n] = c] /\ Served(1)
           /\ pipesOf' = [pipesOf EXCEPT ![n] = pipesOf[1]] /\ table' = With(table, c, Entry(0, 0, table[pid[1]].fds))
    BY <1>1, ForkEffect
  <2>2. /\ told'[n] = c /\ pipesOf'[n] = pipesOf[1]
        /\ \A g \in Procs \ {n} : told'[g] = told[g] /\ pipesOf'[g] = pipesOf[g]
    BY <1>0, <2>1 DEF IdTypes
  <2>3. /\ DOMAIN table' = DOMAIN table \cup {c} /\ table'[c].fds = table[pid[1]].fds
        /\ \A p \in DOMAIN table \ {c} : table'[p] = table[p]
    BY <2>1 DEF With, Over, Entry
  <2>4. table[pid[1]].fds = pipesOf[1]
    BY <1>0, <2>1 DEF ToldOK, EntryPipes, Served
  <2>5. \A g \in Procs : g <= procs' => g = n \/ (g <= procs /\ g # n /\ told[g] # c)
    <3>1. \A g \in Procs : g \in Int
      BY LifecycleBounds DEF Procs
    <3> QED
      BY <1>0, <1>1, <2>1, <3>1, NewEntry
  <2> QED
    BY <1>0, <2>2, <2>3, <2>4, <2>5 DEF EntryPipes
<1>2. ASSUME NEW w \in Workers, PipeCreate(w) PROVE EntryPipes'
  <2>1. PICK g \in Procs, q \in Pipes :
           /\ pid[g] # 0 /\ Served(g) /\ UNCHANGED <<told, procs>>
           /\ table' = [table EXCEPT ![pid[g]].fds = table[pid[g]].fds \cup {q}]
           /\ pipesOf' = [pipesOf EXCEPT ![g] = pipesOf[g] \cup {q}]
    BY <1>2, PipeEffect DEF PidNums
  <2>2. pid[g] = told[g] /\ g <= procs /\ pid[g] \in DOMAIN table /\ table[pid[g]] \in Entries
    BY <1>0, <2>1 DEF ToldOK, Served, KernelTypes
  <2>3. /\ table'[pid[g]].fds = table[pid[g]].fds \cup {q} /\ DOMAIN table' = DOMAIN table
        /\ \A p \in DOMAIN table \ {pid[g]} : table'[p] = table[p]
    BY <2>1, <2>2 DEF Entries
  <2>4. pipesOf'[g] = pipesOf[g] \cup {q} /\ \A h \in Procs \ {g} : pipesOf'[h] = pipesOf[h]
    BY <1>0, <2>1 DEF IdTypes
  <2>5. \A h \in Procs : h <= procs /\ told[h] = told[g] => h = g
    BY <1>0, <2>2 DEF ToldOK
  <2> QED
    BY <1>0, <2>1, <2>2, <2>3, <2>4, <2>5 DEF EntryPipes
<1>3. ASSUME KernelStep PROVE EntryPipes'
  <2>1. PICK m : m = Head(m2k)
    OBVIOUS
  <2>2. m \in Msgs(m2k) /\ UNCHANGED <<told, procs, pipesOf>>
    BY <1>0, <1>3, <2>1, MsgsOf DEF KernelStep, Register, RegisterMemory, WorkerExit, ToKernel, ids
  <2>3. m.pid = told[m.g] /\ m.g \in Procs /\ m.g <= procs
    BY <2>2, MessagePid
  <2>4. CASE Register
    <3>1. table' = With(table, m.pid, [Existing(m.pid) EXCEPT !.ctl = m.g]) /\ m.type = "register"
      BY <2>1, <2>4 DEF Register, ToKernel
    <3>2. Existing(m.pid).fds = pipesOf[m.g] /\ Existing(m.pid) \in Entries
      <4>1. CASE m.pid \in DOMAIN table
        BY <1>0, <2>3, <4>1 DEF Existing, EntryPipes, KernelTypes
      <4>2. CASE m.pid \notin DOMAIN table
        <5>1. m.g = 1 /\ pipesOf[1] = {}
          BY <1>0, <2>2, <3>1, <4>2 DEF ToKernelOK
        <5> QED
          BY <4>2, <5>1, LifecycleBounds DEF Existing, Entry, Entries
      <4> QED
        BY <4>1, <4>2
    <3>3. /\ DOMAIN table' = DOMAIN table \cup {m.pid} /\ table'[m.pid].fds = pipesOf[m.g]
          /\ \A p \in DOMAIN table \ {m.pid} : table'[p] = table[p]
      BY <3>1, <3>2 DEF With, Over, Entries
    <3> QED
      BY <1>0, <2>2, <2>3, <3>3, MessagePid DEF EntryPipes
  <2>5. CASE RegisterMemory
    <3>1. DOMAIN table' = DOMAIN table /\ \A p \in DOMAIN table : table'[p].fds = table[p].fds
      BY <1>0, <2>5 DEF RegisterMemory, KernelTypes, Entries
    <3> QED
      BY <1>0, <2>2, <3>1 DEF EntryPipes
  <2>6. CASE WorkerExit
    BY <1>0, <2>2, <2>6 DEF WorkerExit, AfterExit, Without, Restrict, EntryPipes
  <2> QED
    BY <1>3, <2>4, <2>5, <2>6 DEF KernelStep
<1>4. ASSUME UNCHANGED <<table, told, procs, pipesOf>> PROVE EntryPipes'
  BY <1>0, <1>4 DEF EntryPipes
<1> QED
  BY <1>1, <1>2, <1>3, <1>4
  DEF Next, GuestStep, WorkerStep, PageStep, Spawn, VforkExit, GuestExit, Start, Instantiated,
      InstantiateFails, Settled, Reset, PipeFdCache, RelayPipe, RelayMemory, ExitMessage, ResetAck, ids, kern, vars

\* The entry of a process that the page has a worker for stays as it is.
LEMMA EntryStays ==
  ASSUME FirstForksExec, IInv, JInv, [Next]_vars, NEW g \in Procs, pid[g] \in DOMAIN exec, Registered(g)
  PROVE  /\ Registered(g)' /\ pid'[g] = pid[g]
         /\ table[pid[g]].mem = g => table'[pid[g]].mem = g
<1>0. /\ Types /\ ToldOK /\ ToKernelOK /\ m2k \in Seq(KernelMsgs) /\ KernelTypes
      /\ pid[g] # 0 /\ pid[g] \in DOMAIN table /\ table[pid[g]] \in Entries /\ table[pid[g]].ctl = g
  BY DEF IInv, JInv, Types, PageTypes, ChannelsOK, Registered, KernelTypes
<1>1. pid'[g] = pid[g]
  BY <1>0, Growing DEF Grow, ToldOK
<1>2. ASSUME pid[g] \in DOMAIN table', table'[pid[g]] = table[pid[g]]
      PROVE  Registered(g)' /\ (table[pid[g]].mem = g => table'[pid[g]].mem = g)
  BY <1>0, <1>1, <1>2 DEF Registered
<1> DEFINE Goal == Registered(g)' /\ (table[pid[g]].mem = g => table'[pid[g]].mem = g)
<1>3. ASSUME NEW w \in Workers, ForkExec(w) \/ FullFork(w) PROVE Goal
  <2>1. table' = With(table, counter[1] + 1, Entry(0, 0, table[pid[1]].fds))
    BY <1>3, ForkEffect
  <2>2. pid[g] # counter[1] + 1
    BY <1>0, <1>3, NewEntry
  <2>3. pid[g] \in DOMAIN table' /\ table'[pid[g]] = table[pid[g]]
    BY <1>0, <2>1, <2>2 DEF With, Over
  <2> QED
    BY <1>2, <2>3
<1>4. ASSUME NEW w \in Workers, PipeCreate(w) PROVE Goal
  <2>0. /\ pid[wk[w].g] \in DOMAIN table /\ pipes + 1 \in Pipes
        /\ table' = [table EXCEPT ![pid[wk[w].g]].fds = table[pid[wk[w].g]].fds \cup {pipes + 1}]
    BY <1>4, PipeEffect DEF Served
  <2>1. PICK p \in DOMAIN table, q \in Pipes : table' = [table EXCEPT ![p].fds = table[p].fds \cup {q}]
    BY <2>0
  <2>2. DOMAIN table' = DOMAIN table /\ table'[pid[g]].ctl = table[pid[g]].ctl /\ table'[pid[g]].mem = table[pid[g]].mem
    BY <1>0, <2>1 DEF Entries
  <2> QED
    BY <1>0, <1>1, <2>2 DEF Registered
<1>5. ASSUME KernelStep PROVE Goal
  <2>1. PICK m : m = Head(m2k)
    OBVIOUS
  <2>2. m \in Msgs(m2k)
    BY <1>0, <1>5, <2>1, MsgsOf DEF KernelStep, Register, RegisterMemory, WorkerExit, ToKernel
  <2>3. m.pid = pid[m.g] /\ m.pid # 0 /\ m.g \in Procs /\ (m.pid = pid[g] => m.g = g)
    BY <1>0, <2>2, MessagePid, GivenOnce
  <2>4. CASE Register
    <3>1. table' = With(table, m.pid, [Existing(m.pid) EXCEPT !.ctl = m.g])
      BY <2>1, <2>4 DEF Register
    <3>2. CASE m.pid # pid[g]
      <4>1. pid[g] \in DOMAIN table' /\ table'[pid[g]] = table[pid[g]]
        BY <1>0, <3>1, <3>2 DEF With, Over
      <4> QED
        BY <1>2, <4>1
    <3>3. CASE m.pid = pid[g]
      <4>1. table' = With(table, pid[g], [table[pid[g]] EXCEPT !.ctl = g])
        BY <1>0, <2>3, <3>1, <3>3 DEF Existing
      <4>2. /\ pid[g] \in DOMAIN table' /\ table'[pid[g]] = [table[pid[g]] EXCEPT !.ctl = g]
        BY <4>1 DEF With, Over
      <4>3. table'[pid[g]].ctl = g /\ table'[pid[g]].mem = table[pid[g]].mem
        BY <1>0, <4>2 DEF Entries
      <4> QED
        BY <1>1, <4>2, <4>3 DEF Registered
    <3> QED
      BY <3>2, <3>3
  <2>5. CASE RegisterMemory
    <3>1. table' = IF m.pid \in DOMAIN table THEN [table EXCEPT ![m.pid].mem = m.g] ELSE table
      BY <2>1, <2>5 DEF RegisterMemory
    <3>2. DOMAIN table' = DOMAIN table /\ table'[pid[g]].ctl = table[pid[g]].ctl
      BY <1>0, <3>1 DEF Entries
    <3>3. table'[pid[g]].mem = IF m.pid = pid[g] THEN m.g ELSE table[pid[g]].mem
      BY <1>0, <3>1 DEF Entries
    <3> QED
      BY <1>0, <1>1, <2>3, <3>2, <3>3 DEF Registered
  <2>6. CASE WorkerExit
    <3>1. table' = Without(table, m.pid) /\ m.type = "exit"
      BY <2>1, <2>6 DEF WorkerExit, AfterExit, ToKernel
    <3>2. m.pid # pid[g]
      BY <1>0, <2>2, <3>1 DEF ToKernelOK
    <3>3. pid[g] \in DOMAIN table' /\ table'[pid[g]] = table[pid[g]]
      BY <1>0, <3>1, <3>2 DEF Without, Restrict
    <3> QED
      BY <1>2, <3>3
  <2> QED
    BY <1>5, <2>4, <2>5, <2>6 DEF KernelStep
<1>6. ASSUME UNCHANGED table PROVE Goal
  BY <1>0, <1>2, <1>6
<1> HIDE DEF Goal
<1>7. Goal
  BY <1>3, <1>4, <1>5, <1>6
  DEF Next, GuestStep, WorkerStep, PageStep, Spawn, VforkExit, GuestExit, Start, Instantiated,
      InstantiateFails, Settled, Reset, PipeFdCache, RelayPipe, RelayMemory, ExitMessage, ResetAck, kern, vars
<1> QED
  BY <1>1, <1>7 DEF Goal

\* Every message of the kernel's queue stays there but the one that is handled.
LEMMA QueueStays ==
  ASSUME IInv, [Next]_vars, NEW x \in Msgs(m2k)
  PROVE  x \in Msgs(m2k') \/ (KernelStep /\ x = Head(m2k))
<1>0. Types /\ m2k \in Seq(KernelMsgs) /\ \A w \in Workers : w2m[w] \in Seq(FromWorkers)
  BY LifeOfQueues DEF IInv, Types, ChannelsOK
<1>1. ASSUME NEW m \in KernelMsgs, m2k' = Append(m2k, m) PROVE x \in Msgs(m2k')
  BY <1>0, <1>1, MsgsOf
<1>2. ASSUME Spawn PROVE x \in Msgs(m2k')
  <2>1. PICK m \in ForkRequests : /\ m2k' = Append(m2k, Msg("register", m.g, SpawnPid(m), {}))
                                  /\ Msg("register", m.g, SpawnPid(m), {}) \in KernelMsgs
    BY <1>2, SpawnEffect
  <2> QED
    BY <1>1, <2>1
<1>3. ASSUME NEW w \in Workers, RelayMemory(w) \/ ExitMessage(w) PROVE x \in Msgs(m2k')
  <2>1. w2m[w] # << >> /\ Head(w2m[w]).type \in {"memory", "exit"} /\ m2k' = Append(m2k, Head(w2m[w]))
    BY <1>3 DEF RelayMemory, ExitMessage, FromWorker
  <2>2. Head(w2m[w]) \in FromWorkers
    BY <1>0, <2>1
  <2>3. Head(w2m[w]) \in KernelMsgs
    BY <2>1, <2>2 DEF FromWorkers, ReportMsgs, AckMsgs, KernelMsgs
  <2> QED
    BY <1>1, <2>1, <2>3
<1>4. CASE KernelStep
  BY <1>0, <1>4, MsgsOf DEF KernelStep, Register, RegisterMemory, WorkerExit, ToKernel
<1>5. ASSUME UNCHANGED m2k PROVE x \in Msgs(m2k')
  BY <1>5
<1> QED
  BY <1>2, <1>3, <1>4, <1>5
  DEF Next, GuestStep, WorkerStep, PageStep, ForkExec, FullFork, Fork, VforkExit, PipeCreate, GuestExit, Start,
      Instantiated, InstantiateFails, Settled, Reset, PipeFdCache, RelayPipe, ResetAck, chans, vars

LEMMA EntryKeptKept ==
  ASSUME FirstForksExec, IInv, JInv, [Next]_vars
  PROVE  EntryKept'
<1>0. /\ Types /\ IdTypes /\ ToldOK /\ ToKernelOK /\ EntryKept /\ Grow /\ m2k \in Seq(KernelMsgs) /\ DOMAIN exec \subseteq PidNums \ {0}
  BY Growing DEF IInv, JInv, Types, PageTypes, ChannelsOK
<1>1. ASSUME NEW g \in Procs, pid[g] \in DOMAIN exec PROVE Registered(g)' \/ Registering(g)'
  <2>1. pid'[g] = pid[g] /\ pid[g] # 0
    BY <1>0, <1>1 DEF Grow, ToldOK
  <2>2. CASE Registered(g)
    BY <1>1, <2>2, EntryStays
  <2>3. CASE Registering(g)
    <3>1. PICK x \in Msgs(m2k) : x.type = "register" /\ x.pid = pid[g]
      BY <2>3 DEF Registering
    <3>2. CASE x \in Msgs(m2k')
      BY <2>1, <3>1, <3>2 DEF Registering
    <3>3. CASE KernelStep /\ x = Head(m2k)
      <4>1. table' = With(table, x.pid, [Existing(x.pid) EXCEPT !.ctl = x.g])
        BY <3>1, <3>3 DEF KernelStep, Register, RegisterMemory, WorkerExit, ToKernel
      <4>2. x.g = g
        BY <2>1, <3>1, MessagePid, GivenOnce DEF JInv
      <4>3. Existing(x.pid) \in Entries
        BY <1>0, LifecycleBounds DEF Existing, Entry, Entries, Types, KernelTypes
      <4>4. pid[g] \in DOMAIN table' /\ table'[pid[g]] = [Existing(x.pid) EXCEPT !.ctl = g]
        BY <3>1, <4>1, <4>2 DEF With, Over
      <4>5. table'[pid[g]].ctl = g
        BY <4>3, <4>4 DEF Entries
      <4> QED
        BY <2>1, <4>4, <4>5 DEF Registered
    <3> QED
      BY <3>2, <3>3, QueueStays
  <2> QED
    BY <1>0, <1>1, <2>2, <2>3 DEF EntryKept
<1>2. ASSUME Spawn PROVE EntryKept'
  <2>1. PICK w \in Workers, m \in ForkRequests :
            /\ m = Head(k2m) /\ k2m # << >> /\ pid[m.g] = 0 /\ m.g <= procs /\ m.type \in ForkTypes
            /\ pid' = [pid EXCEPT ![m.g] = SpawnPid(m)] /\ exec' = With(exec, SpawnPid(m), w)
            /\ m2k' = Append(m2k, Msg("register", m.g, SpawnPid(m), {}))
            /\ Msg("register", m.g, SpawnPid(m), {}) \in KernelMsgs
    BY <1>2, SpawnEffect
  <2>2. SpawnPid(m) = m.pid /\ m.g \in Procs /\ \A g \in Procs : pid[g] # m.pid
    BY <2>1, NewPid DEF JInv
  <2>3. /\ pid'[m.g] = m.pid /\ \A g \in Procs \ {m.g} : pid'[g] = pid[g]
        /\ DOMAIN exec' = DOMAIN exec \cup {m.pid}
    BY <1>0, <2>1, <2>2 DEF IdTypes, With, Over
  <2>4. Registering(m.g)'
    <3>1. Msg("register", m.g, SpawnPid(m), {}) \in Msgs(m2k')
      BY <1>0, <2>1, MsgsOf
    <3> QED
      BY <2>2, <2>3, <3>1 DEF Registering, Msg
  <2> QED
    BY <1>1, <2>2, <2>3, <2>4 DEF EntryKept
<1>3. ASSUME UNCHANGED pid, DOMAIN exec' \subseteq DOMAIN exec PROVE EntryKept'
  BY <1>1, <1>3 DEF EntryKept
<1>4. ASSUME NEW w \in Workers, ExitMessage(w) PROVE EntryKept'
  BY <1>3, <1>4 DEF ExitMessage, Without, Restrict, ids
<1> QED
  BY <1>2, <1>3, <1>4
  DEF Next, GuestStep, WorkerStep, PageStep, KernelStep, ForkExec, FullFork, Fork, VforkExit, PipeCreate, GuestExit, Start,
      Instantiated, InstantiateFails, Settled, Reset, PipeFdCache, RelayPipe, RelayMemory, ResetAck, Register,
      RegisterMemory, WorkerExit, ids, page, chans, vars

\* A memory-ready message stays on its way, from the worker to the page and on to the
\* kernel, until the kernel takes it: then the entry has the memory of its process.
LEMMA MemoryKeptKept ==
  ASSUME FirstForksExec, IInv, JInv, [Next]_vars
  PROVE  MemoryKept'
<1>0. /\ Types /\ IdTypes /\ PidGiven /\ ToldOK /\ ToKernelOK /\ EntryKept /\ MemoryKept /\ m2k \in Seq(KernelMsgs)
      /\ \A v \in Workers : Whose(v) /\ w2m[v] \in Seq(FromWorkers)
  BY LifeOfQueues DEF IInv, JInv, Types, ChannelsOK
<1>1. ASSUME NEW w \in Workers, Instantiated(w) PROVE wk'[w].g = wk[w].g /\ MemorySent(wk[w].g, w2m'[w]) /\ Live(w)
  <2>1. PICK m \in FromWorkers : m = Msg("memory", wk[w].g, pid[wk[w].g], {})
    BY <1>0, <1>1, Reports DEF Instantiated, Live
  <2>2. w2m'[w] = Append(w2m[w], m) /\ wk'[w].g = wk[w].g
    BY <1>0, <1>1, <2>1 DEF Instantiated, Types, ChannelsOK, WorkerTypes, WorkerStates
  <2>3. m \in Msgs(w2m'[w]) /\ m.type = "memory" /\ m.g = wk[w].g
    <3>1. Msgs(Append(w2m[w], m)) = Msgs(w2m[w]) \cup {m}
      BY <1>0, MsgsOf
    <3> QED
      BY <2>1, <2>2, <3>1 DEF Msg
  <2>4. MemorySent(wk[w].g, w2m'[w])
    BY <2>3 DEF MemorySent, Msgs
  <2> QED
    BY <1>1, <2>2, <2>4 DEF Instantiated, Live
<1>2. ASSUME NEW w \in Workers, wk'[w].st \in {"settle", "run"}
      PROVE  wk'[w].g = wk[w].g /\ (wk[w].st \in {"settle", "run"} \/ Instantiated(w))
  <2>1. CASE \E v \in Workers : GuestStep(v)
    <3>1. PICK v \in Workers : GuestStep(v)
      BY <2>1
    <3>2. \/ wk' = wk \/ (\E c : wk' = [wk EXCEPT ![v].cache = c])
          \/ wk' = [wk EXCEPT ![v].st = "idle"]
      BY <3>1 DEF GuestStep, ForkExec, FullFork, Fork, VforkExit, PipeCreate, GuestExit
    <3>3. CASE \E c : wk' = [wk EXCEPT ![v].cache = c]
      BY <1>0, <1>2, <3>3 DEF Types, WorkerTypes, WorkerStates
    <3>4. CASE wk' = [wk EXCEPT ![v].st = "idle"]
      BY <1>0, <1>2, <3>4 DEF Types, WorkerTypes, WorkerStates
    <3> QED
      BY <1>2, <3>2, <3>3, <3>4
  <2>2. CASE \E v \in Workers : WorkerStep(v)
    <3>1. PICK v \in Workers : WorkerStep(v)
      BY <2>2
    <3>2. CASE Start(v)
      <4>1. wk'[v].st = "boot" /\ \A u \in Workers \ {v} : wk'[u] = wk[u]
        BY <1>0, <3>2 DEF Start, Types, WorkerTypes
      <4> QED
        BY <1>2, <4>1
    <3>3. CASE Instantiated(v) \/ InstantiateFails(v) \/ Settled(v)
      <4>1. \E s \in {"idle", "settle", "run"} : wk' = [wk EXCEPT ![v].st = s] /\ (Settled(v) => wk[v].st = "settle")
                                                /\ (InstantiateFails(v) => s = "idle")
        BY <3>3 DEF Instantiated, InstantiateFails, Settled
      <4> QED
        BY <1>0, <1>2, <3>3, <4>1 DEF Types, WorkerTypes, WorkerStates
    <3>4. CASE Reset(v) \/ PipeFdCache(v)
      <4>1. \E c : wk' = [wk EXCEPT ![v].cache = c]
        BY <3>4 DEF Reset, PipeFdCache
      <4> QED
        BY <1>0, <1>2, <4>1 DEF Types, WorkerTypes, WorkerStates
    <3> QED
      BY <3>1, <3>2, <3>3, <3>4 DEF WorkerStep
  <2>3. CASE wk' = wk
    BY <1>2, <2>3
  <2> QED
    BY <2>1, <2>2, <2>3
    DEF Next, PageStep, KernelStep, Spawn, RelayPipe, RelayMemory, ExitMessage, ResetAck,
        Register, RegisterMemory, WorkerExit, vars
<1>3. ASSUME NEW w \in Workers, Live(w) PROVE wk[w].g \in Procs /\ pid[wk[w].g] \in DOMAIN exec /\ pid[wk[w].g] # 0
  BY <1>0, <1>3 DEF PidGiven, Whose, Active
<1>4. ASSUME NEW g \in Procs, pid[g] \in DOMAIN exec, pid[g] # 0, MemorySent(g, m2k)
      PROVE  MemorySent(g, m2k') \/ (Registered(g)' /\ table'[pid'[g]].mem = g)
  <2>1. PICK x \in Msgs(m2k) : x.type = "memory" /\ x.g = g
    BY <1>4 DEF MemorySent, Msgs
  <2>2. CASE x \in Msgs(m2k')
    BY <2>1, <2>2 DEF MemorySent, Msgs
  <2>3. CASE KernelStep /\ x = Head(m2k)
    <3>1. /\ m2k # << >> /\ UNCHANGED pid
          /\ table' = IF x.pid \in DOMAIN table THEN [table EXCEPT ![x.pid].mem = x.g] ELSE table
      BY <2>1, <2>3 DEF KernelStep, Register, RegisterMemory, WorkerExit, ToKernel, ids
    <3>2. x.pid = pid[g]
      BY <1>0, <2>1 DEF ToKernelOK
    <3>3. ~Registering(g)
      <4>1. SUFFICES ASSUME NEW j \in 1 .. Len(m2k), m2k[j].type = "register", m2k[j].pid = pid[g] PROVE FALSE
        BY DEF Registering, Msgs
      <4>2. 1 \in 1 .. Len(m2k) /\ x = m2k[1]
        BY <1>0, <2>3, <3>1, TailProperties
      <4>3. j < 1
        BY <1>0, <2>1, <3>2, <4>1, <4>2 DEF ToKernelOK, RegisterFirst
      <4> QED
        BY <4>3
    <3>4. Registered(g)
      BY <1>0, <1>4, <3>3 DEF EntryKept
    <3>5. Registered(g)'
      BY <1>4, <3>4, EntryStays
    <3>6. table'[pid[g]].mem = g
      <4>1. pid[g] \in DOMAIN table /\ table[pid[g]] \in Entries
        BY <1>0, <3>4 DEF Registered, Types, KernelTypes
      <4>2. table' = [table EXCEPT ![pid[g]].mem = g]
        BY <2>1, <3>1, <3>2, <4>1
      <4> QED
        BY <4>1, <4>2 DEF Entries
    <3> QED
      BY <3>1, <3>5, <3>6
  <2> QED
    BY <2>2, <2>3, QueueStays
<1>5. ASSUME NEW w \in Workers, NEW g \in Procs, MemorySent(g, w2m[w])
      PROVE  MemorySent(g, w2m'[w]) \/ MemorySent(g, m2k')
  <2>1. PICK x \in Msgs(w2m[w]) : x.type = "memory" /\ x.g = g
    BY <1>5 DEF MemorySent, Msgs
  <2>2. ASSUME NEW m \in FromWorkers, w2m'[w] = Append(w2m[w], m) PROVE MemorySent(g, w2m'[w])
    <3>1. x \in Msgs(w2m'[w])
      BY <1>0, <2>2, MsgsOf
    <3> QED
      BY <2>1, <3>1 DEF MemorySent, Msgs
  <2>3. ASSUME w2m'[w] = Tail(w2m[w]), w2m[w] # << >>, x # Head(w2m[w]) PROVE MemorySent(g, w2m'[w])
    <3>1. x \in Msgs(w2m'[w])
      BY <1>0, <2>3, MsgsOf
    <3> QED
      BY <2>1, <3>1 DEF MemorySent, Msgs
  <2>4. ASSUME m2k' = Append(m2k, x) PROVE MemorySent(g, m2k')
    <3>1. x \in KernelMsgs
      <4>1. x \in FromWorkers
        BY <1>0, MsgsOf
      <4> QED
        BY <2>1, <4>1 DEF FromWorkers, ReportMsgs, AckMsgs, KernelMsgs
    <3>2. x \in Msgs(m2k')
      BY <1>0, <2>4, <3>1, MsgsOf
    <3> QED
      BY <2>1, <3>2 DEF MemorySent, Msgs
  <2>5. ASSUME NEW v \in Workers, RelayMemory(v) PROVE MemorySent(g, w2m'[w]) \/ MemorySent(g, m2k')
    <3>1. /\ w2m[v] # << >> /\ m2k' = Append(m2k, Head(w2m[v])) /\ w2m'[v] = Tail(w2m[v])
          /\ \A u \in Workers \ {v} : w2m'[u] = w2m[u]
      BY <1>0, <2>5 DEF RelayMemory, FromWorker, Types, ChannelsOK
    <3> QED
      BY <1>5, <2>3, <2>4, <3>1
  <2>6. ASSUME NEW v \in Workers, ExitMessage(v) \/ ResetAck(v) PROVE MemorySent(g, w2m'[w])
    <3>1. /\ w2m[v] # << >> /\ Head(w2m[v]).type # "memory" /\ w2m'[v] = Tail(w2m[v])
          /\ \A u \in Workers \ {v} : w2m'[u] = w2m[u]
      BY <1>0, <2>6 DEF ExitMessage, ResetAck, FromWorker, Types, ChannelsOK
    <3> QED
      BY <1>5, <2>1, <2>3, <3>1
  <2>7. ASSUME NEW v \in Workers, NEW m \in FromWorkers, w2m' = [w2m EXCEPT ![v] = Append(w2m[v], m)]
        PROVE  MemorySent(g, w2m'[w])
    <3>1. w2m'[v] = Append(w2m[v], m) /\ \A u \in Workers \ {v} : w2m'[u] = w2m[u]
      BY <1>0, <2>7 DEF Types, ChannelsOK
    <3> QED
      BY <1>5, <2>2, <3>1
  <2>8. ASSUME NEW v \in Workers, Instantiated(v) \/ GuestExit(v) \/ Reset(v) PROVE MemorySent(g, w2m'[w])
    <3>1. CASE Instantiated(v)
      <4>1. Msg("memory", wk[v].g, pid[wk[v].g], {}) \in FromWorkers
        BY <1>0, <3>1, Reports DEF Instantiated, Live
      <4> QED
        BY <2>7, <3>1, <4>1 DEF Instantiated
    <3>2. CASE GuestExit(v)
      <4>1. Msg("exit", wk[v].g, pid[wk[v].g], {}) \in FromWorkers
        BY <1>0, <3>2, Reports DEF GuestExit, Running
      <4> QED
        BY <2>7, <3>2, <4>1 DEF GuestExit
    <3>3. CASE Reset(v)
      <4>1. Msg("reset-ack", 0, 0, {}) \in FromWorkers
        BY DEF Msg, FromWorkers, AckMsgs
      <4> QED
        BY <2>7, <3>3, <4>1 DEF Reset
    <3> QED
      BY <2>8, <3>1, <3>2, <3>3
  <2>9. ASSUME UNCHANGED w2m PROVE MemorySent(g, w2m'[w])
    BY <1>5, <2>9
  <2> QED
    BY <2>5, <2>6, <2>8, <2>9
    DEF Next, GuestStep, WorkerStep, PageStep, KernelStep, ForkExec, FullFork, Fork, VforkExit, PipeCreate, Start,
        InstantiateFails, Settled, PipeFdCache, Spawn, RelayPipe, Register, RegisterMemory, WorkerExit, chans, vars
<1>6. ASSUME NEW w \in Workers, NEW g \in Procs, g = wk[w].g, wk'[w].st \in {"settle", "run"}
      PROVE  \/ MemorySent(g, w2m'[w]) \/ MemorySent(g, m2k')
             \/ Registered(g)' /\ table'[pid'[g]].mem = g
  <2>1. CASE Instantiated(w)
    BY <1>1, <1>6, <2>1
  <2>2. CASE wk[w].st \in {"settle", "run"}
    <3>1. pid[g] \in DOMAIN exec /\ pid[g] # 0
      BY <1>3, <1>6, <2>2 DEF Live
    <3>2. CASE Registered(g) /\ table[pid[g]].mem = g
      BY <3>1, <3>2, EntryStays
    <3> QED
      BY <1>0, <1>4, <1>5, <1>6, <2>2, <3>1, <3>2 DEF MemoryKept
  <2> QED
    BY <1>2, <1>6, <2>1, <2>2
<1>7. ASSUME NEW w \in Workers, wk'[w].st \in {"settle", "run"}
      PROVE  \E g \in Procs :
                /\ wk'[w].g = g
                /\ \/ MemorySent(g, w2m'[w]) \/ MemorySent(g, m2k')
                   \/ Registered(g)' /\ table'[pid'[g]].mem = g
  <2>1. wk[w].g \in Procs /\ wk'[w].g = wk[w].g
    BY <1>1, <1>2, <1>3, <1>7 DEF Live
  <2>2. PICK g \in Procs : g = wk[w].g
    BY <2>1
  <2>3. \/ MemorySent(g, w2m'[w]) \/ MemorySent(g, m2k')
        \/ Registered(g)' /\ table'[pid'[g]].mem = g
    BY <1>6, <1>7, <2>2
  <2> QED
    BY <2>1, <2>2, <2>3
<1> QED
  BY <1>7 DEF MemoryKept, MemorySent, Registered

-----------------------------------------------------------------------------
(* The theorems. *)
LEMMA JInit == Init => JInv
<1> SUFFICES ASSUME Init PROVE JInv
  OBVIOUS
<1>0. /\ PoolSize \in Workers /\ 1 \in Procs /\ k2m = << >> /\ table = << >> /\ procs = 1 /\ made = PoolSize
      /\ exec = [p \in {1} |-> PoolSize] /\ closure = [w \in Workers |-> IF w = PoolSize THEN 1 ELSE 0]
      /\ pid = [g \in Procs |-> IF g = 1 THEN 1 ELSE 0] /\ told = pid /\ pipesOf = [g \in Procs |-> {}]
      /\ m2k = <<Msg("register", 1, 1, {})>>
  BY LifecycleBounds DEF Init, Workers, Procs
<1>1. /\ Msgs(k2m) = {} /\ Msgs(m2k) = {Msg("register", 1, 1, {})}
      /\ Msgs(m2w[PoolSize]) = {Msg("boot", 1, 1, {})}
      /\ \A w \in Workers \ {PoolSize} : m2w[w] = << >>
      /\ \A w \in Workers : w2m[w] = << >> /\ Msgs(w2m[w]) = {} /\ wk[w].st = "idle" /\ wk[w].cache = << >> /\ w \in Int
  BY <1>0, LifecycleBounds DEF Init, Msgs, Workers
<1>2. \A w \in Workers \ {PoolSize} : Msgs(m2w[w]) = {}
  BY <1>1 DEF Msgs
<1>3. ToldOK
  BY <1>0, <1>1 DEF ToldOK, Procs
<1>4. ExecGiven /\ SentPipes /\ Requested
  BY <1>0, <1>1 DEF ExecGiven, SentPipes, Requested
<1>5. ToKernelOK
  <2>1. RegisterFirst(m2k)
    BY <1>0 DEF RegisterFirst, Msg
  <2> QED
    BY <1>0, <1>1, <2>1 DEF ToKernelOK, Msg
<1>6. EntryPipes
  BY <1>0 DEF EntryPipes
<1>7. EntryKept
  <2>1. Registering(1)
    BY <1>0, <1>1 DEF Registering, Msg
  <2> QED
    BY <1>0, <2>1 DEF EntryKept
<1>8. MemoryKept
  BY <1>1 DEF MemoryKept
<1>9. ASSUME NEW w \in Workers PROVE Whose(w)
  <2>1. CASE w = PoolSize
    BY <1>0, <1>1, <2>1 DEF Whose, Live, Msg
  <2>2. CASE w # PoolSize
    <3>1. ~Active(w)
      BY <1>1, <2>2 DEF Active, Live, HasType
    <3> QED
      BY <1>0, <1>1, <1>2, <2>2, <3>1 DEF Whose, Active
  <2> QED
    BY <2>1, <2>2
<1>10. ASSUME NEW w \in Workers PROVE CacheOK(w)
  <2>1. \A m \in Msgs(m2w[w]) : m = Msg("boot", 1, 1, {})
    BY <1>1, <1>2
  <2>2. ~HasType(m2w[w], {"reset"}) /\ Clean(m2w[w], Mine(w)) /\ BootLast(m2w[w])
    <3>1. \A i \in 1 .. Len(m2w[w]) : m2w[w][i].type = "boot"
      BY <2>1 DEF Msgs, Msg
    <3> QED
      BY <3>1 DEF HasType, Clean, BootLast
  <2> QED
    BY <1>0, <1>1, <2>1, <2>2 DEF CacheOK, Msg
<1> QED
  BY <1>3, <1>4, <1>5, <1>6, <1>7, <1>8, <1>9, <1>10 DEF JInv

\* Where only PID 1 forks, and only to exec, IInv and JInv together are inductive: the
\* messages of postMessage, the page's maps and the kernel's processTable agree at every
\* step on whose pid, worker, pipes, control SAB and memory are meant.
THEOREM ForkInductive == ASSUME FirstForksExec PROVE Spec => [](IInv /\ JInv)
<1>1. Init => IInv /\ JInv
  BY InitInv, JInit
<1>2. ASSUME IInv, JInv, [Next]_vars PROVE (IInv /\ JInv)'
  <2>1. IInv'
    BY <1>2, TypesPreserved, LivesKept, PidGivenKept, SpawnOrderKept DEF IInv, Lives
  <2>2. ToldOK' /\ ExecGiven' /\ SentPipes' /\ ToKernelOK' /\ Requested' /\ EntryPipes' /\ EntryKept' /\ MemoryKept'
    BY <1>2, ToldKept, ExecGivenKept, SentPipesKept, ToKernelKept, RequestedKept, EntryPipesKept, EntryKeptKept,
       MemoryKeptKept
  <2>3. \A w \in Workers : Whose(w)' /\ CacheOK(w)'
    BY <1>2, WhoseKept, CacheKept
  <2> QED
    BY <2>1, <2>2, <2>3 DEF JInv
<1>3. IInv /\ JInv /\ [Next]_vars => (IInv /\ JInv)'
  BY <1>2
<1> QED
  BY <1>1, <1>3, PTL DEF Spec

\* A process finds in its worker's localPipeFds its own pipes only, though workers are
\* pooled and the pipe-fd-cache messages of an earlier process may come after its end.
THEOREM CacheIsOwnCorrect == ASSUME FirstForksExec PROVE Spec => []CacheIsOwn
<1>1. IInv /\ JInv => CacheIsOwn
  <2> SUFFICES ASSUME IInv, JInv, NEW w \in Workers, Live(w) PROVE \A k \in DOMAIN wk[w].cache : k[2] \in pipesOf[wk[w].g]
    BY DEF CacheIsOwn
  <2>1. \A k \in DOMAIN wk[w].cache : k[2] \in Mine(w)
    BY DEF JInv, CacheOK
  <2>2. wk[w].g \in Procs /\ pid[wk[w].g] # 0 /\ pid[wk[w].g] = closure[w] /\ ~Pooled(w)
    BY DEF IInv, PidGiven, OneLife, JInv, Whose
  <2>3. Mine(w) = pipesOf[wk[w].g]
    BY <2>2, MineIs DEF JInv
  <2> QED
    BY <2>1, <2>3
<1> QED
  BY <1>1, ForkInductive, PTL

\* A process whose memory-ready message has reached the kernel is served as itself: its
\* entry has its control SAB, its memory and its pipes until it ends, though the entry is
\* written by its parent's fork, by register-worker and by register-memory in turn.
THEOREM LiveKeepsEntryCorrect == ASSUME FirstForksExec PROVE Spec => []LiveKeepsEntry
<1>1. IInv /\ JInv => LiveKeepsEntry
  <2> SUFFICES ASSUME IInv, JInv, NEW w \in Workers, NEW g \in Procs, g = wk[w].g, wk[w].st \in {"settle", "run"},
                      ~MemorySent(g, w2m[w]), ~MemorySent(g, m2k)
               PROVE  Served(g) /\ table[pid[g]].mem = g /\ pipesOf[g] \subseteq table[pid[g]].fds
    BY DEF LiveKeepsEntry, IInv, PidGiven, Live
  <2>1. Registered(g) /\ table[pid[g]].mem = g
    BY DEF JInv, MemoryKept
  <2>2. pid[g] # 0 /\ pid[g] = told[g] /\ g <= procs /\ g # 0
    BY DEF IInv, PidGiven, Live, JInv, ToldOK, Procs
  <2>3. table[pid[g]].fds = pipesOf[g]
    BY <2>1, <2>2 DEF JInv, EntryPipes, Registered
  <2> QED
    BY <2>1, <2>2, <2>3 DEF Served, Registered
<1> QED
  BY <1>1, ForkInductive, PTL

=============================================================================
