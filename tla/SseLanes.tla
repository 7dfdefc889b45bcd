------------------------------ MODULE SseLanes ------------------------------
(***************************************************************************)
(* The vector instructions that compute (sse.c, sse2.c, mmx.c).  A register*)
(* is a function from byte positions to bytes, 8 positions for the Mmx     *)
(* kernels and 16 for the Sse kernels; a kernel takes the destination x and*)
(* the source y and returns the destination it leaves.                     *)
(*                                                                         *)
(* A byte has W bits, 8 in the code, and lanes of w = 2, 4 and 8 bytes have*)
(* w * W: the 16, 32 and 64 bit lanes of the code, least byte first.       *)
(***************************************************************************)
EXTENDS Alu
LOCAL INSTANCE FiniteSetsExt
LOCAL INSTANCE TLC

CONSTANT W   \* bits in a byte

ASSUME ByteBits == W \in Nat /\ W >= 2

(* Lanes. *)

\* Lane i of w bytes as an unsigned and as a signed number.
ULane(w, x, i) ==
    LET upto[j \in 0 .. w] == IF j = 0 THEN 0 ELSE upto[j - 1] + x[w * i + j - 1] * 2^(W * (j - 1)) IN upto[w]
SLane(w, x, i) == Signed(W * w, ULane(w, x, i))

\* f, evaluated at once and not at each use.
Eager(f) == f @@ <<>>

\* The register of h bytes whose lanes of w bytes are v(0), v(1) ..., each cut to its width.
Lanes(h, w, v(_)) ==
    LET bytes == [i \in 0 .. h \div w - 1 |-> LET n == v(i) IN [j \in 0 .. w - 1 |-> (n \div 2^(W * j)) % 2^W]] IN
    Eager([b \in 0 .. h - 1 |-> bytes[b \div w][b % w]])
Zero(h) == [b \in 0 .. h - 1 |-> 0]

Clamp(low, high, v) == IF v < low THEN low ELSE IF v > high THEN high ELSE v
\* MAX(-32768, MIN(32767, v)) and the like, MIN(65535, MAX(0, v)) and the like.
SClamp(w, v) == Clamp(-2^(W * w - 1), 2^(W * w - 1) - 1, v)
UClamp(w, v) == Clamp(0, 2^(W * w) - 1, v)

Plus(a, b) == a + b
Less(a, b) == a - b
Lesser(a, b) == IF a < b THEN a ELSE b
Greater(a, b) == IF a > b THEN a ELSE b
Same(a, b) == -Bool(a = b)
Exceeds(a, b) == -Bool(a > b)
\* Mutant of Average: the halves are added.
HalvesAdded(a, b) == a \div 2 + b \div 2
Average(a, b) == (a + b + 1) \div 2
Distance(a, b) == IF a > b THEN a - b ELSE b - a
SizeOf(a, b) == IF b < 0 THEN -b ELSE b
Times(a, b) == a * b
Upper(a, b) == (a * b) \div 2^(2 * W)
\* Mutant of Rounded: cut off instead.
CutOff(a, b) == (a * b) \div 2^(2 * W - 1)
Rounded(a, b) == ((a * b) \div 2^(2 * W - 2) + 1) \div 2
\* The sign of b applied to a.
Signum(a, b) == IF b = 0 THEN 0 ELSE IF b < 0 THEN -a ELSE a

\* An operation on all lanes: unsigned, signed, and saturating unsigned and signed.
OnU(h, w, Op(_, _), x, y) == Lanes(h, w, LAMBDA i : Op(ULane(w, x, i), ULane(w, y, i)))
OnS(h, w, Op(_, _), x, y) == Lanes(h, w, LAMBDA i : Op(SLane(w, x, i), SLane(w, y, i)))
SatU(h, w, Op(_, _), x, y) == Lanes(h, w, LAMBDA i : UClamp(w, Op(ULane(w, x, i), ULane(w, y, i))))
SatS(h, w, Op(_, _), x, y) == Lanes(h, w, LAMBDA i : SClamp(w, Op(SLane(w, x, i), SLane(w, y, i))))

\* An operation on neighbouring lanes, first those of x, then those of y.
Across(h, w, Op(_, _), x, y) ==
    LET half == h \div (2 * w)
        Pair(r, i) == Op(SLane(w, r, 2 * i), SLane(w, r, 2 * i + 1)) IN
    Lanes(h, w, LAMBDA i : IF i < half THEN Pair(x, i) ELSE Pair(y, i - half))

\* Lanes of w bytes brought to half the width, first those of x, then those of y.
Pack(h, w, Narrow(_), x, y) ==
    LET half == h \div w IN
    Lanes(h, w \div 2, LAMBDA i : Narrow(IF i < half THEN SLane(w, x, i) ELSE SLane(w, y, i - half)))

\* The bytes of two registers that differ, summed over each lane.
Distances(h, w, x, y) ==
    Lanes(h, w, LAMBDA i : MapThenSumSet(LAMBDA b : Distance(x[b], y[b]), w * i .. w * i + w - 1))

Low(x) == [b \in 0 .. 7 |-> x[b]]
High(x) == [b \in 0 .. 7 |-> x[8 + b]]
Join(low, high) == Eager([b \in 0 .. 15 |-> IF b < 8 THEN low[b] ELSE high[b - 8]])
\* An Sse kernel that applies the Mmx kernel to both halves.
Halves(Mmx(_, _), x, y) == Join(Mmx(Low(x), Low(y)), Mmx(High(x), High(y)))

(* Bytes and words: mmx.c. *)

MmxPsubb(x, y) == OnU(8, 1, Less, x, y)
MmxPaddb(x, y) == OnU(8, 1, Plus, x, y)
MmxPavgb(x, y) == OnU(8, 1, Average, x, y)
MmxPabsb(x, y) == OnS(8, 1, SizeOf, x, y)
MmxPminub(x, y) == OnU(8, 1, Lesser, x, y)
MmxPmaxub(x, y) == OnU(8, 1, Greater, x, y)
MmxPcmpeqb(x, y) == OnU(8, 1, Same, x, y)
MmxPcmpgtb(x, y) == OnS(8, 1, Exceeds, x, y)
MmxPsubw(x, y) == OnU(8, 2, Less, x, y)
MmxPaddw(x, y) == OnU(8, 2, Plus, x, y)
MmxPaddsw(x, y) == SatS(8, 2, Plus, x, y)
MmxPsubsw(x, y) == SatS(8, 2, Less, x, y)
MmxPaddusw(x, y) == SatU(8, 2, Plus, x, y)
MmxPcmpgtw(x, y) == OnS(8, 2, Exceeds, x, y)
MmxPcmpeqw(x, y) == OnU(8, 2, Same, x, y)
MmxPavgw(x, y) == OnU(8, 2, Average, x, y)
MmxPmulhw(x, y) == OnS(8, 2, Upper, x, y)
MmxPmullw(x, y) == OnS(8, 2, Times, x, y)
Phsw(x, y, Op(_, _)) == Across(8, 2, LAMBDA a, b : SClamp(2, Op(a, b)), x, y)
MmxPhaddsw(x, y) == Phsw(x, y, Plus)
MmxPhsubsw(x, y) == Phsw(x, y, Less)

(* The same on 16 bytes, and logic on both sizes: sse2.c. *)

Bytewise(h, Op(_, _, _), x, y) == Eager([b \in 0 .. h - 1 |-> Op(W, x[b], y[b])])
AndNot(k, a, b) == And(k, 2^k - 1 - a, b)
MmxPor(x, y) == Bytewise(8, Or, x, y)
MmxPxor(x, y) == Bytewise(8, Xor, x, y)
MmxPand(x, y) == Bytewise(8, And, x, y)
MmxPandn(x, y) == Bytewise(8, AndNot, x, y)
SsePsubw(x, y) == OnU(16, 2, Less, x, y)
SsePaddw(x, y) == OnU(16, 2, Plus, x, y)
SsePaddusw(x, y) == SatU(16, 2, Plus, x, y)
SsePhaddsw(x, y) == Across(16, 2, LAMBDA a, b : SClamp(2, a + b), x, y)
SsePhsubsw(x, y) == Across(16, 2, LAMBDA a, b : SClamp(2, a - b), x, y)
SsePsubsw(x, y) == SatS(16, 2, Less, x, y)
SsePaddsw(x, y) == SatS(16, 2, Plus, x, y)
SsePcmpgtw(x, y) == OnS(16, 2, Exceeds, x, y)
SsePcmpeqw(x, y) == OnS(16, 2, Same, x, y)
SsePavgw(x, y) == OnU(16, 2, Average, x, y)
SsePmulhw(x, y) == OnS(16, 2, Upper, x, y)
SsePmullw(x, y) == OnS(16, 2, Times, x, y)
SsePsubb(x, y) == OnS(16, 1, Less, x, y)
SsePaddb(x, y) == OnS(16, 1, Plus, x, y)
SsePor(x, y) == Bytewise(16, Or, x, y)
SsePxor(x, y) == Bytewise(16, Xor, x, y)
SsePand(x, y) == Bytewise(16, And, x, y)
SsePandn(x, y) == Bytewise(16, AndNot, x, y)
SsePcmpeqb(x, y) == OnS(16, 1, Same, x, y)
SsePcmpgtb(x, y) == OnS(16, 1, Exceeds, x, y)
SsePavgb(x, y) == OnU(16, 1, Average, x, y)
SsePabsb(x, y) == OnS(16, 1, SizeOf, x, y)
SsePminub(x, y) == OnU(16, 1, Lesser, x, y)
SsePmaxub(x, y) == OnU(16, 1, Greater, x, y)

(* Bytes, words, double and quad words: sse.c. *)

MmxPaddusb(x, y) == SatU(8, 1, Plus, x, y)
MmxPsubusb(x, y) == SatU(8, 1, Less, x, y)
MmxPsubsb(x, y) == SatS(8, 1, Less, x, y)
MmxPaddsb(x, y) == SatS(8, 1, Plus, x, y)
MmxPmulhrsw(x, y) == OnS(8, 2, Rounded, x, y)
MmxPmaddubsw(x, y) ==
    Lanes(8, 2, LAMBDA i : LET Product(b) == x[b] * SLane(1, y, b) IN SClamp(2, Product(2 * i) + Product(2 * i + 1)))
MmxPsubd(x, y) == OnU(8, 4, Less, x, y)
MmxPaddd(x, y) == OnU(8, 4, Plus, x, y)
MmxPaddq(x, y) == OnU(8, 8, Plus, x, y)
MmxPsubq(x, y) == OnU(8, 8, Less, x, y)
MmxPsubusw(x, y) == SatU(8, 2, Less, x, y)
MmxPminsw(x, y) == OnS(8, 2, Lesser, x, y)
MmxPmaxsw(x, y) == OnS(8, 2, Greater, x, y)
MmxPackuswb(x, y) == Pack(8, 2, LAMBDA v : UClamp(1, v), x, y)
MmxPacksswb(x, y) == Pack(8, 2, LAMBDA v : SClamp(1, v), x, y)
MmxPackssdw(x, y) == Pack(8, 4, LAMBDA v : SClamp(2, v), x, y)
MmxPcmpgtd(x, y) == OnS(8, 4, Exceeds, x, y)
MmxPcmpeqd(x, y) == OnU(8, 4, Same, x, y)
\* As the code has it: one sum for each four bytes.
MmxPsadbw(x, y) == Distances(8, 4, x, y)
MmxPmaddwd(x, y) ==
    Lanes(8, 4, LAMBDA i : LET Product(j) == SLane(2, x, j) * SLane(2, y, j) IN Product(2 * i) + Product(2 * i + 1))
MmxPmulhuw(x, y) == OnU(8, 2, Upper, x, y)
MmxPmuludq(x, y) == Lanes(8, 8, LAMBDA i : ULane(4, x, 2 * i) * ULane(4, y, 2 * i))
MmxPmulld(x, y) == OnU(8, 4, Times, x, y)
MmxPsignb(x, y) == OnS(8, 1, Signum, x, y)
MmxPsignw(x, y) == OnS(8, 2, Signum, x, y)
MmxPsignd(x, y) == OnS(8, 4, Signum, x, y)
MmxPabsw(x, y) == OnS(8, 2, SizeOf, x, y)
MmxPabsd(x, y) == OnS(8, 4, SizeOf, x, y)
MmxPhaddw(x, y) == Across(8, 2, Plus, x, y)
MmxPhsubw(x, y) == Across(8, 2, Less, x, y)
MmxPhaddd(x, y) == Across(8, 4, Plus, x, y)
MmxPhsubd(x, y) == Across(8, 4, Less, x, y)

SsePsubd(x, y) == OnU(16, 4, Less, x, y)
SsePaddd(x, y) == OnU(16, 4, Plus, x, y)
SsePaddq(x, y) == OnU(16, 8, Plus, x, y)
SsePsubq(x, y) == OnU(16, 8, Less, x, y)
SsePackuswb(x, y) == Pack(16, 2, LAMBDA v : UClamp(1, v), x, y)
SsePacksswb(x, y) == Pack(16, 2, LAMBDA v : SClamp(1, v), x, y)
SsePackssdw(x, y) == Pack(16, 4, LAMBDA v : SClamp(2, v), x, y)
SsePsadbw(x, y) == Distances(16, 8, x, y)
SsePmuludq(x, y) == Lanes(16, 8, LAMBDA i : ULane(4, x, 2 * i) * ULane(4, y, 2 * i))
SsePhaddd(x, y) == Across(16, 4, Plus, x, y)
SsePhsubd(x, y) == Across(16, 4, Less, x, y)
SsePhaddw(x, y) == Across(16, 2, Plus, x, y)
SsePhsubw(x, y) == Across(16, 2, Less, x, y)
SsePsubsb(x, y) == SatS(16, 1, Less, x, y)
SsePaddsb(x, y) == SatS(16, 1, Plus, x, y)
SsePaddusb(x, y) == SatU(16, 1, Plus, x, y)
SsePsubusb(x, y) == SatU(16, 1, Less, x, y)
SsePsubusw(x, y) == Halves(MmxPsubusw, x, y)
SsePminsw(x, y) == Halves(MmxPminsw, x, y)
SsePmaxsw(x, y) == Halves(MmxPmaxsw, x, y)
SsePsignb(x, y) == Halves(MmxPsignb, x, y)
SsePsignw(x, y) == Halves(MmxPsignw, x, y)
SsePsignd(x, y) == Halves(MmxPsignd, x, y)
SsePmulhrsw(x, y) == Halves(MmxPmulhrsw, x, y)
SsePabsw(x, y) == Halves(MmxPabsw, x, y)
SsePabsd(x, y) == Halves(MmxPabsd, x, y)
SsePcmpgtd(x, y) == Halves(MmxPcmpgtd, x, y)
SsePcmpeqd(x, y) == Halves(MmxPcmpeqd, x, y)
SsePmaddwd(x, y) == Halves(MmxPmaddwd, x, y)
SsePmulhuw(x, y) == Halves(MmxPmulhuw, x, y)
SsePmulld(x, y) == OnU(16, 4, Times, x, y)
SsePmaddubsw(x, y) == Halves(MmxPmaddubsw, x, y)

(* Shifts of every lane by k bits: k an immediate byte, or all 64 bits of the low half of *)
(* the source.                                                                            *)

RightU(h, w, x, k) == IF k < W * w THEN Lanes(h, w, LAMBDA i : ULane(w, x, i) \div 2^k) ELSE Zero(h)
RightS(h, w, x, k) == LET n == Lesser(k, W * w - 1) IN Lanes(h, w, LAMBDA i : SLane(w, x, i) \div 2^n)
\* The bits that stay are shifted.
Left(h, w, x, k) == IF k < W * w THEN Lanes(h, w, LAMBDA i : (ULane(w, x, i) % 2^(W * w - k)) * 2^k) ELSE Zero(h)

MmxPsraw(x, k) == RightS(8, 2, x, k)
MmxPsrad(x, k) == RightS(8, 4, x, k)
MmxPsrlw(x, k) == RightU(8, 2, x, k)
MmxPsllw(x, k) == Left(8, 2, x, k)
MmxPsrld(x, k) == RightU(8, 4, x, k)
MmxPslld(x, k) == Left(8, 4, x, k)
MmxPsrlq(x, k) == RightU(8, 8, x, k)
MmxPsllq(x, k) == Left(8, 8, x, k)

MmxPsrawv(x, y) == RightS(8, 2, x, ULane(8, y, 0))
MmxPsradv(x, y) == RightS(8, 4, x, ULane(8, y, 0))
MmxPsrlwv(x, y) == RightU(8, 2, x, ULane(8, y, 0))
MmxPsllwv(x, y) == Left(8, 2, x, ULane(8, y, 0))
MmxPsrldv(x, y) == RightU(8, 4, x, ULane(8, y, 0))
MmxPslldv(x, y) == Left(8, 4, x, ULane(8, y, 0))
MmxPsrlqv(x, y) == RightU(8, 8, x, ULane(8, y, 0))
MmxPsllqv(x, y) == Left(8, 8, x, ULane(8, y, 0))

\* An Sse kernel that shifts one half after the other by an immediate.
ShiftHalves(Mmx(_, _), x, k) == Join(Mmx(Low(x), k), Mmx(High(x), k))
SsePsrlw(x, k) == ShiftHalves(MmxPsrlw, x, k)
SsePsraw(x, k) == ShiftHalves(MmxPsraw, x, k)
SsePsllw(x, k) == ShiftHalves(MmxPsllw, x, k)
SsePsrld(x, k) == ShiftHalves(MmxPsrld, x, k)
SsePsrad(x, k) == ShiftHalves(MmxPsrad, x, k)
SsePslld(x, k) == ShiftHalves(MmxPslld, x, k)
SsePsrlq(x, k) == ShiftHalves(MmxPsrlq, x, k)
SsePsllq(x, k) == ShiftHalves(MmxPsllq, x, k)

\* ... and by a register.  When source and destination are one register (same), the upper
\* half reads its count from the lower half already shifted.
ShiftBySource(Mmx(_, _), x, y, same) ==
    LET low == Mmx(Low(x), Low(y)) IN Join(low, Mmx(High(x), IF same THEN low ELSE Low(y)))
SsePsrawv(x, y, same) == ShiftBySource(MmxPsrawv, x, y, same)
SsePsradv(x, y, same) == ShiftBySource(MmxPsradv, x, y, same)
SsePsrlwv(x, y, same) == ShiftBySource(MmxPsrlwv, x, y, same)
SsePsllwv(x, y, same) == ShiftBySource(MmxPsllwv, x, y, same)
SsePsrldv(x, y, same) == ShiftBySource(MmxPsrldv, x, y, same)
SsePslldv(x, y, same) == ShiftBySource(MmxPslldv, x, y, same)
SsePsrlqv(x, y, same) == ShiftBySource(MmxPsrlqv, x, y, same)
SsePsllqv(x, y, same) == ShiftBySource(MmxPsllqv, x, y, same)

(* Dispatch: the operand-size prefix selects the Sse kernel; without it the Mmx kernel    *)
(* works on the low half of the register of the same number.                              *)

OpSse(osz, Mmx(_, _), Sse(_, _), x, y) == IF osz THEN Sse(x, y) ELSE Join(Mmx(Low(x), Low(y)), High(x))
OpPsb(osz, Mmx(_, _), Sse(_, _), x, k) == IF osz THEN Sse(x, k) ELSE Join(Mmx(Low(x), k), High(x))

\* The shifts by an immediate, by the reg field of the instruction; {} where it is undefined.
Op171(osz, reg, x, k) ==
    CASE reg = 2 -> {OpPsb(osz, MmxPsrlw, SsePsrlw, x, k)}
      [] reg = 4 -> {OpPsb(osz, MmxPsraw, SsePsraw, x, k)}
      [] reg = 6 -> {OpPsb(osz, MmxPsllw, SsePsllw, x, k)}
      [] OTHER -> {}
Op172(osz, reg, x, k) ==
    CASE reg = 2 -> {OpPsb(osz, MmxPsrld, SsePsrld, x, k)}
      [] reg = 4 -> {OpPsb(osz, MmxPsrad, SsePsrad, x, k)}
      [] reg = 6 -> {OpPsb(osz, MmxPslld, SsePslld, x, k)}
      [] OTHER -> {}

(* Shifts of the whole register by k bytes, and of two registers joined. *)

DownBytes(h, x, k) == LET n == Lesser(k, h) IN [b \in 0 .. h - 1 |-> IF b + n < h THEN x[b + n] ELSE 0]
UpBytes(h, x, k) == LET n == Lesser(k, h) IN [b \in 0 .. h - 1 |-> IF b < n THEN 0 ELSE x[b - n]]
\* Mutant of Aligned: the destination is taken for the lower half.
AlignedSwapped(h, x, y, k) ==
    LET n == Lesser(k, 2 * h) IN
    [b \in 0 .. h - 1 |-> IF b + n < h THEN x[b + n] ELSE IF b + n < 2 * h THEN y[b + n - h] ELSE 0]
Aligned(h, x, y, k) ==
    LET n == Lesser(k, 2 * h) IN
    [b \in 0 .. h - 1 |-> IF b + n < h THEN y[b + n] ELSE IF b + n < 2 * h THEN x[b + n - h] ELSE 0]

MmxPslldq(x, k) == UpBytes(8, x, k)
MmxPsrldq(x, k) == DownBytes(8, x, k)
MmxPalignr(x, y, k) == Aligned(8, x, y, k)
SsePslldq(x, k) == UpBytes(16, x, k)
SsePsrldq(x, k) == DownBytes(16, x, k)
SsePalignr(x, y, k) == Aligned(16, x, y, k)

Op173(osz, reg, x, k) ==
    CASE reg = 2 -> {OpPsb(osz, MmxPsrlq, SsePsrlq, x, k)}
      [] reg = 3 -> {OpPsb(osz, MmxPsrldq, SsePsrldq, x, k)}
      [] reg = 6 -> {OpPsb(osz, MmxPsllq, SsePsllq, x, k)}
      [] reg = 7 -> {OpPsb(osz, MmxPslldq, SsePslldq, x, k)}
      [] OTHER -> {}
OpSsePalignr(osz, x, y, k) ==
    IF osz THEN SsePalignr(x, y, k) ELSE Join(MmxPalignr(Low(x), Low(y), k), High(x))
=============================================================================
