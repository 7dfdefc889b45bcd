----------------------------- MODULE RepString ------------------------------
(***************************************************************************)
(* The string instructions (string.c).  Memory is a function from linear   *)
(* addresses to bytes, the machine a record of the registers di, si, cx,   *)
(* al, the flags DF and ZF, and the memory.  An element is one byte.       *)
(* Addresses are the registers themselves (64-bit mode, no segment base).  *)
(***************************************************************************)
EXTENDS Integers

CONSTANTS
    PageSize,   \* bytes of a page (4096)
    LowSize,    \* 65536: the enhanced loops also stop where the low 16 bits wrap
    Top         \* the highest address

ASSUME StringBounds == PageSize \in Nat \ {0} /\ LowSize \in Nat \ {0} /\ Top \in Nat

Addresses == 0 .. Top
Least(S) == CHOOSE n \in S : \A o \in S : n <= o
Step(m) == IF m.df = 1 THEN -1 ELSE 1

\* One element of StringOp.
CmpsOnce(m) == [m EXCEPT !.zf = IF m.mem[m.si] = m.mem[m.di] THEN 1 ELSE 0, !.di = @ + Step(m), !.si = @ + Step(m)]
MovsOnce(m) == [m EXCEPT !.mem[m.di] = m.mem[m.si], !.di = @ + Step(m), !.si = @ + Step(m)]
StosOnce(m) == [m EXCEPT !.mem[m.di] = m.al, !.di = @ + Step(m)]
LodsOnce(m) == [m EXCEPT !.al = m.mem[m.si], !.si = @ + Step(m)]
ScasOnce(m) == [m EXCEPT !.zf = IF m.mem[m.di] = m.al THEN 1 ELSE 0, !.di = @ + Step(m)]

Once(op, m) ==
    CASE op = "cmps" -> CmpsOnce(m) [] op = "movs" -> MovsOnce(m) [] op = "stos" -> StosOnce(m)
      [] op = "lods" -> LodsOnce(m) [] op = "scas" -> ScasOnce(m)

Compares == {"cmps", "scas"}

\* Mutant of Stops: the prefixes are exchanged.
StopsOther(op, rep, m) == op \in Compares /\ ((rep = 2 /\ m.zf = 0) \/ (rep = 3 /\ m.zf = 1))
\* rep: 0 none, 2 repne, 3 rep or repe.
Stops(op, rep, m) == op \in Compares /\ ((rep = 2 /\ m.zf = 1) \/ (rep = 3 /\ m.zf = 0))

\* cx is looked at before an element and counted down after it, also after the one that stops.
StringOp(op, rep, m) ==
    LET run[i \in 0 .. Top + 1] ==
            IF i = 0 THEN [m |-> m, stop |-> FALSE]
            ELSE LET was == run[i - 1]
                     now == Once(op, was.m) IN
                 IF was.stop \/ was.m.cx = 0 THEN was
                 ELSE [m |-> [now EXCEPT !.cx = @ - 1], stop |-> Stops(op, rep, now)] IN
    IF rep = 0 THEN Once(op, m) ELSE run[Top + 1].m

\* What is left of the page of an address in the direction of the copy, and of the low half.
Remain(v, df) ==
    IF df = 0 THEN Least({PageSize - (v % PageSize), LowSize - (v % LowSize)})
    ELSE Least({(v % PageSize) + 1, (v % LowSize) + 1})

\* Mutant of CopyChunk: the bytes of a chunk are moved at once.
CopyAtOnce(mem, di, si, n, df) ==
    [a \in DOMAIN mem |->
        LET i == IF df = 0 THEN a - di ELSE di - a IN
        IF i \in 0 .. n - 1 THEN mem[IF df = 0 THEN si + i ELSE si - i] ELSE mem[a]]
\* The bytes of a chunk one by one, so that a copy onto itself repeats what it has written.
CopyChunk(mem, di, si, n, df) ==
    LET s == IF df = 0 THEN 1 ELSE -1
        upto[i \in 0 .. n] ==
            IF i = 0 THEN mem
            ELSE LET was == upto[i - 1] IN [was EXCEPT ![di + s * (i - 1)] = was[si + s * (i - 1)]] IN
    upto[n]

\* Chunks that stay in one page of both; equal addresses return at once, with the
\* registers as they were.
RepMovsbEnhanced(m) ==
    LET Chunk(w) == Least({w.cx, Remain(w.di, w.df), Remain(w.si, w.df)})
        run[i \in 0 .. Top + 1] ==
            IF i = 0 THEN m
            ELSE LET was == run[i - 1]
                     n == Chunk(was)
                     by == IF was.df = 0 THEN n ELSE -n IN
                 IF was.cx = 0 THEN was
                 ELSE [was EXCEPT !.mem = CopyChunk(@, was.di, was.si, n, was.df),
                                  !.di = @ + by, !.si = @ + by, !.cx = @ - n] IN
    IF m.cx = 0 \/ m.di = m.si THEN m ELSE run[Top + 1]

RepStosbEnhanced(m) ==
    LET run[i \in 0 .. Top + 1] ==
            IF i = 0 THEN m
            ELSE LET was == run[i - 1]
                     n == Least({was.cx, Remain(was.di, 0)}) IN
                 IF was.cx = 0 THEN was
                 ELSE [was EXCEPT !.mem = [a \in DOMAIN @ |-> IF a \in was.di .. was.di + n - 1 THEN was.al ELSE @[a]],
                                  !.di = @ + n, !.cx = @ - n] IN
    run[Top + 1]

OpMovsb(rep, m) == IF rep # 0 THEN RepMovsbEnhanced(m) ELSE StringOp("movs", 0, m)
OpStosb(rep, m) == IF rep # 0 /\ m.df = 0 THEN RepStosbEnhanced(m) ELSE StringOp("stos", rep, m)
=============================================================================
