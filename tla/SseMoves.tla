------------------------------ MODULE SseMoves ------------------------------
(***************************************************************************)
(* The vector instructions that move bytes: unpacking and shuffling (sse.c)*)
(* and the loads, stores and moves between registers (ssemov.c).           *)
(*                                                                         *)
(* A register is a function from 0 .. 15 (Sse) or 0 .. 7 (Mmx) to bytes.   *)
(***************************************************************************)
EXTENDS Integers, Sequences
LOCAL INSTANCE SequencesExt

(* Unpacking, done in place: bytes are stored one after the other, and when source and    *)
(* destination are one register (same), a read sees the bytes already stored.             *)

\* Mutant of Downwards: the low bytes first.
DownwardsNot(h, e) == [k \in 1 .. h |-> k - 1]
\* The order of the stores: from the last lane of e bytes down, or from the first byte up.
Downwards(h, e) == [k \in 1 .. h |-> h - e * ((k - 1) \div e + 1) + ((k - 1) % e)]
Upwards(h) == [k \in 1 .. h |-> k - 1]

\* Lane i of the result is lane i \div 2 of x or of y, counted from byte base.
Unpack(order, e, base, x, y, same) ==
    LET Store(z, i) ==
            LET from == base + e * (i \div (2 * e)) + (i % e) IN
            [z EXCEPT ![i] = IF (i \div e) % 2 = 0 \/ same THEN z[from] ELSE y[from]] IN
    FoldLeft(Store, x, order)

MmxPunpcklbw(x, y, same) == Unpack(Downwards(8, 1), 1, 0, x, y, same)
MmxPunpckhbw(x, y, same) == Unpack(Upwards(8), 1, 4, x, y, same)
MmxPunpcklwd(x, y, same) == Unpack(Downwards(8, 2), 2, 0, x, y, same)
MmxPunpckldq(x, y, same) == Unpack(Downwards(8, 4), 4, 0, x, y, same)
MmxPunpckhwd(x, y, same) == Unpack(Upwards(8), 2, 4, x, y, same)
MmxPunpckhdq(x, y, same) == Unpack(Upwards(8), 4, 4, x, y, same)
MmxPunpcklqdq(x, y, same) == x
MmxPunpckhqdq(x, y, same) == x
SsePunpcklbw(x, y, same) == Unpack(Downwards(16, 1), 1, 0, x, y, same)
SsePunpckhbw(x, y, same) == Unpack(Upwards(16), 1, 8, x, y, same)
SsePunpcklwd(x, y, same) == Unpack(Downwards(16, 2), 2, 0, x, y, same)
SsePunpckldq(x, y, same) == Unpack(Downwards(16, 4), 4, 0, x, y, same)
SsePunpckhwd(x, y, same) == Unpack(Upwards(16), 2, 8, x, y, same)
SsePunpckhdq(x, y, same) == Unpack(Upwards(16), 4, 8, x, y, same)
SsePunpcklqdq(x, y, same) == Unpack(Downwards(16, 8), 8, 0, x, y, same)
SsePunpckhqdq(x, y, same) == Unpack(Upwards(16), 8, 8, x, y, same)

MmxPshufb(x, y) == [b \in 0 .. 7 |-> IF y[b] >= 128 THEN 0 ELSE x[y[b] % 8]]
SsePshufb(x, y) == [b \in 0 .. 15 |-> IF y[b] >= 128 THEN 0 ELSE x[y[b] % 16]]

(* Loads, stores and moves.  The state s has vector registers, general registers and      *)
(* memory; an instruction i names the register field reg, the operand field rm, which is  *)
(* a register if isreg holds and the memory at address ea otherwise, and its prefixes:    *)
(* rep (0, 2 or 3), osz and rexw.  The Mm registers are the low halves of the vector ones.*)

Copy(dst, at, src, from, n) ==
    [b \in DOMAIN dst |-> IF b \in at .. at + n - 1 THEN src[from + b - at] ELSE dst[b]]
Clear(dst, at, n) == [b \in DOMAIN dst |-> IF b \in at .. at + n - 1 THEN 0 ELSE dst[b]]
InMemory(mem, ea, n) == [b \in 0 .. n - 1 |-> mem[ea + b]]

Reg(i, s) == s.xmm[i.reg]
SetReg(i, s, v) == [s EXCEPT !.xmm[i.reg] = v]
\* n bytes of the operand, which is a vector or a general register or memory.
XmmOperand(i, s, n) == IF i.isreg THEN s.xmm[i.rm] ELSE InMemory(s.mem, i.ea, n)
WordOperand(i, s, n) == IF i.isreg THEN s.gpr[i.rm] ELSE InMemory(s.mem, i.ea, n)
StoreMemory(i, s, from, n) == [s EXCEPT !.mem = Copy(@, i.ea, Reg(i, s), from, n)]
StoreXmm(i, s, n) == IF i.isreg THEN [s EXCEPT !.xmm[i.rm] = Copy(@, 0, Reg(i, s), 0, n)] ELSE StoreMemory(i, s, 0, n)
StoreWord(i, s, n) == IF i.isreg THEN [s EXCEPT !.gpr[i.rm] = Copy(@, 0, Reg(i, s), 0, n)] ELSE StoreMemory(i, s, 0, n)

MovdquVdqWdq(i, s) == SetReg(i, s, Copy(Reg(i, s), 0, XmmOperand(i, s, 16), 0, 16))
MovdquWdqVdq(i, s) == StoreXmm(i, s, 16)
\* The aligned forms fault on other addresses; the addresses here are aligned to 8 bytes,
\* and the fault is left out.
MovdqaVdqWdq(i, s) == SetReg(i, s, Copy(Reg(i, s), 0, XmmOperand(i, s, 16), 0, 16))
MovdqaWdqVdq(i, s) == StoreXmm(i, s, 16)
MovqPqQq(i, s) == SetReg(i, s, Copy(Reg(i, s), 0, XmmOperand(i, s, 8), 0, 8))
MovqQqPq(i, s) == StoreXmm(i, s, 8)
MovqVdqEqp(i, s) == SetReg(i, s, Clear(Copy(Reg(i, s), 0, WordOperand(i, s, 8), 0, 8), 8, 8))
MovdVdqEd(i, s) == SetReg(i, s, Copy(Clear(Reg(i, s), 0, 16), 0, WordOperand(i, s, 4), 0, 4))
MovqPqEqp(i, s) == SetReg(i, s, Copy(Reg(i, s), 0, WordOperand(i, s, 8), 0, 8))
MovdPqEd(i, s) == SetReg(i, s, Clear(Copy(Reg(i, s), 0, WordOperand(i, s, 4), 0, 4), 4, 4))
\* Mutant of MovdEdVdq: the upper half of the register is kept.
MovdEdKept(i, s) == StoreWord(i, s, 4)
MovdEdVdq(i, s) ==
    IF i.isreg THEN [s EXCEPT !.gpr[i.rm] = Clear(Copy(@, 0, Reg(i, s), 0, 4), 4, 4)] ELSE StoreMemory(i, s, 0, 4)
MovqEqpVdq(i, s) == StoreWord(i, s, 8)
MovdEdPq(i, s) ==
    IF i.isreg THEN [s EXCEPT !.gpr[i.rm] = Clear(Copy(@, 0, Reg(i, s), 0, 4), 4, 4)] ELSE StoreMemory(i, s, 0, 4)
MovqEqpPq(i, s) == StoreWord(i, s, 8)
MovntqMqPq(i, s) == StoreMemory(i, s, 0, 8)
MovqVqWq(i, s) == SetReg(i, s, Clear(Copy(Reg(i, s), 0, XmmOperand(i, s, 8), 0, 8), 8, 8))
\* Between registers a scalar is merged, from memory it is extended with zeros.
MovssVpsWps(i, s) ==
    LET merged == Copy(Reg(i, s), 0, XmmOperand(i, s, 4), 0, 4) IN
    SetReg(i, s, IF i.isreg THEN merged ELSE Clear(merged, 4, 12))
MovssWpsVps(i, s) == StoreXmm(i, s, 4)
\* Mutant of MovsdVpsWps: a load is merged as well.
MovsdMerged(i, s) == SetReg(i, s, Copy(Reg(i, s), 0, XmmOperand(i, s, 8), 0, 8))
MovsdVpsWps(i, s) ==
    LET merged == Copy(Reg(i, s), 0, XmmOperand(i, s, 8), 0, 8) IN
    SetReg(i, s, IF i.isreg THEN merged ELSE Clear(merged, 8, 8))
MovsdWpsVps(i, s) == StoreXmm(i, s, 8)
MovhlpsVqUq(i, s) == SetReg(i, s, Copy(Reg(i, s), 0, s.xmm[i.rm], 8, 8))
MovlpsVqMq(i, s) == SetReg(i, s, Copy(Reg(i, s), 0, InMemory(s.mem, i.ea, 8), 0, 8))
MovddupVqWq(i, s) ==
    LET src == XmmOperand(i, s, 8) IN SetReg(i, s, Copy(Copy(Reg(i, s), 0, src, 0, 8), 8, src, 0, 8))
\* A dword of every half, doubled: the one at byte from of the half.
Doubled(i, s, from) == SetReg(i, s, [b \in 0 .. 15 |-> XmmOperand(i, s, 16)[8 * (b \div 8) + from + (b % 4)]])
MovsldupVqWq(i, s) == Doubled(i, s, 0)
MovlpsMqVq(i, s) == StoreMemory(i, s, 0, 8)
MovlhpsVqUq(i, s) == SetReg(i, s, Copy(Reg(i, s), 8, s.xmm[i.rm], 0, 8))
MovhpsVqMq(i, s) == SetReg(i, s, Copy(Reg(i, s), 8, InMemory(s.mem, i.ea, 8), 0, 8))
MovshdupVqWq(i, s) == Doubled(i, s, 4)
MovhpsMqVq(i, s) == StoreMemory(i, s, 8, 8)
MovqWqVq(i, s) ==
    IF i.isreg THEN [s EXCEPT !.xmm[i.rm] = Clear(Copy(@, 0, Reg(i, s), 0, 8), 8, 8)] ELSE StoreMemory(i, s, 0, 8)
Movq2dqVdqNq(i, s) == SetReg(i, s, Clear(Copy(Reg(i, s), 0, s.xmm[i.rm], 0, 8), 8, 8))
Movdq2qPqUq(i, s) == SetReg(i, s, Copy(Reg(i, s), 0, s.xmm[i.rm], 0, 8))

(* The instruction an opcode and its prefixes stand for; s for an undefined one. *)

\* Rep(rde) | Osz(rde): with osz the numbers 0 and 2 become 1 and 3.
RepOrOsz(i) == IF i.osz /\ i.rep # 3 THEN i.rep + 1 ELSE i.rep
OpMovWpsVps(i, s) ==
    CASE RepOrOsz(i) < 2 -> MovdquWdqVdq(i, s) [] RepOrOsz(i) = 2 -> MovsdWpsVps(i, s) [] OTHER -> MovssWpsVps(i, s)
OpMov0f28(i, s) == MovdqaVdqWdq(i, s)
OpMov0f6e(i, s) ==
    CASE i.osz /\ i.rexw -> MovqVdqEqp(i, s) [] i.osz /\ ~i.rexw -> MovdVdqEd(i, s)
      [] ~i.osz /\ i.rexw -> MovqPqEqp(i, s) [] OTHER -> MovdPqEd(i, s)
OpMov0f6f(i, s) ==
    IF i.osz THEN MovdqaVdqWdq(i, s) ELSE IF i.rep = 3 THEN MovdquVdqWdq(i, s) ELSE MovqPqQq(i, s)
OpMov0fE7(i, s) == IF i.osz THEN MovdqaWdqVdq(i, s) ELSE MovntqMqPq(i, s)
OpMov0f7e(i, s) ==
    CASE i.rep = 3 -> MovqVqWq(i, s)
      [] i.rep # 3 /\ i.osz /\ i.rexw -> MovqEqpVdq(i, s) [] i.rep # 3 /\ i.osz /\ ~i.rexw -> MovdEdVdq(i, s)
      [] i.rep # 3 /\ ~i.osz /\ i.rexw -> MovqEqpPq(i, s) [] OTHER -> MovdEdPq(i, s)
OpMov0f7f(i, s) ==
    IF i.rep = 3 THEN MovdquWdqVdq(i, s) ELSE IF i.osz THEN MovdqaWdqVdq(i, s) ELSE MovqQqPq(i, s)
OpMov0f10(i, s) ==
    CASE RepOrOsz(i) < 2 -> MovdquVdqWdq(i, s) [] RepOrOsz(i) = 2 -> MovsdVpsWps(i, s) [] OTHER -> MovssVpsWps(i, s)
OpMov0f29(i, s) == MovdqaWdqVdq(i, s)
OpMov0f12(i, s) ==
    CASE RepOrOsz(i) = 0 -> IF i.isreg THEN MovhlpsVqUq(i, s) ELSE MovlpsVqMq(i, s)
      [] RepOrOsz(i) = 1 -> MovlpsVqMq(i, s) [] RepOrOsz(i) = 2 -> MovddupVqWq(i, s) [] OTHER -> MovsldupVqWq(i, s)
OpMov0f13(i, s) == MovlpsMqVq(i, s)
OpMov0f16(i, s) ==
    CASE RepOrOsz(i) = 0 -> IF i.isreg THEN MovlhpsVqUq(i, s) ELSE MovhpsVqMq(i, s)
      [] RepOrOsz(i) = 1 -> MovhpsVqMq(i, s) [] RepOrOsz(i) = 3 -> MovshdupVqWq(i, s) [] OTHER -> s
OpMov0f17(i, s) == MovhpsMqVq(i, s)
OpMov0fD6(i, s) ==
    CASE i.rep = 3 -> Movq2dqVdqNq(i, s) [] i.rep = 2 -> Movdq2qPqUq(i, s)
      [] i.rep = 0 /\ i.osz -> MovqWqVq(i, s) [] OTHER -> s

\* The sign bits of a register as a set of positions, as many as the prefix selects.
pmovmskb(p) == {b \in 0 .. 15 : p[b] >= 128}
OpPmovmskbGdqpNqUdq(i, s) == pmovmskb(s.xmm[i.rm]) \cap (IF i.osz THEN 0 .. 15 ELSE 0 .. 7)

\* Bytes of the register field where the operand has the sign bit, within one page.
OpMaskMovDiXmmRegXmmRm(i, s) ==
    [s EXCEPT !.mem = [a \in DOMAIN @ |->
        LET b == a - i.ea IN
        IF b \in 0 .. (IF i.osz THEN 15 ELSE 7) /\ s.xmm[i.rm][b] >= 128 THEN Reg(i, s)[b] ELSE @[a]]]
=============================================================================
