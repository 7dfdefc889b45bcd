------------------------------ MODULE Vectors -------------------------------
(***************************************************************************)
(* Vector instructions against each other.  Every instruction is computed  *)
(* by code of its own, often once for 8 and once for 16 bytes; the         *)
(* properties compute a result by another sequence of instructions, or by  *)
(* the other form, and compare.                                            *)
(***************************************************************************)
EXTENDS Cpu, SseLanes, SseMoves

CONSTANTS
    As, Bs,     \* seeds of the words of the first and of the second register
    Counts      \* counts of the shifts by bytes and by bits

Words2 == 2^(2 * W)
WordsOf(v(_)) == Lanes(16, 2, v)

\* Registers of words that run through all pairs as the seeds do, one after the other in
\* the destination, scattered in the source.
PickSeed == in.kind = "none" /\ \E a \in As : in' = [kind |-> "seed", a |-> a]

PickLanes ==
    /\ in.kind = "seed"
    /\ \E b \in Bs :
         in' = [kind |-> "lanes", k |-> b,
                x |-> WordsOf(LAMBDA i : in.a + (Words2 \div 8) * ((3 * i) % 8)),
                y |-> WordsOf(LAMBDA i : b * (2 * i + 1))]

\* Two registers with different bytes and a count; whether they are one register.
PickBytes ==
    /\ in.kind = "none"
    /\ \E k \in Counts, same \in BOOLEAN :
         LET x == [b \in 0 .. 15 |-> b + 1] IN
         in' = [kind |-> "bytes", k |-> k, same |-> same, x |-> x, y |-> IF same THEN x ELSE [b \in 0 .. 15 |-> b + 101]]

Machine ==
    [xmm |-> [r \in 0 .. 1 |-> [b \in 0 .. 15 |-> 16 * r + b + 1 + 120 * (b % 2)]],
     gpr |-> [r \in 0 .. 1 |-> [b \in 0 .. 7 |-> 8 * r + b + 40]],
     mem |-> [a \in 0 .. 23 |-> a + 60]]

\* The prefixes of an instruction: not both of osz and rep.
PickMove ==
    /\ in.kind = "none"
    /\ \E reg, rm \in 0 .. 1, isreg, osz, rexw \in BOOLEAN, rep \in {0, 2, 3}, ea \in {0, 8} :
         /\ ~(osz /\ rep # 0)
         /\ in' = [kind |-> "move",
                   i |-> [reg |-> reg, rm |-> rm, isreg |-> isreg, osz |-> osz, rexw |-> rexw, rep |-> rep, ea |-> ea]]

VectorNext == Next \/ PickSeed \/ PickLanes \/ PickBytes \/ PickMove

VectorSpec == Init /\ [][VectorNext]_in

(* The two forms of an instruction. *)

\* Instructions that work lane by lane.
LaneWise(osz, x, y) ==
    << OpSse(osz, MmxPcmpgtb, SsePcmpgtb, x, y), OpSse(osz, MmxPcmpgtw, SsePcmpgtw, x, y),
       OpSse(osz, MmxPcmpeqb, SsePcmpeqb, x, y), OpSse(osz, MmxPcmpeqw, SsePcmpeqw, x, y),
       OpSse(osz, MmxPmullw, SsePmullw, x, y), OpSse(osz, MmxPminub, SsePminub, x, y),
       OpSse(osz, MmxPand, SsePand, x, y), OpSse(osz, MmxPaddusw, SsePaddusw, x, y),
       OpSse(osz, MmxPmaxub, SsePmaxub, x, y), OpSse(osz, MmxPandn, SsePandn, x, y),
       OpSse(osz, MmxPavgb, SsePavgb, x, y), OpSse(osz, MmxPavgw, SsePavgw, x, y),
       OpSse(osz, MmxPmulhw, SsePmulhw, x, y), OpSse(osz, MmxPsubsw, SsePsubsw, x, y),
       OpSse(osz, MmxPor, SsePor, x, y), OpSse(osz, MmxPaddsw, SsePaddsw, x, y),
       OpSse(osz, MmxPxor, SsePxor, x, y), OpSse(osz, MmxPsubb, SsePsubb, x, y),
       OpSse(osz, MmxPsubw, SsePsubw, x, y), OpSse(osz, MmxPaddb, SsePaddb, x, y),
       OpSse(osz, MmxPaddw, SsePaddw, x, y), OpSse(osz, MmxPabsb, SsePabsb, x, y),
       OpSse(osz, MmxPaddusb, SsePaddusb, x, y), OpSse(osz, MmxPsubusb, SsePsubusb, x, y),
       OpSse(osz, MmxPsubsb, SsePsubsb, x, y), OpSse(osz, MmxPaddsb, SsePaddsb, x, y),
       OpSse(osz, MmxPsubd, SsePsubd, x, y), OpSse(osz, MmxPaddd, SsePaddd, x, y),
       OpSse(osz, MmxPsubq, SsePsubq, x, y), OpSse(osz, MmxPaddq, SsePaddq, x, y),
       OpSse(osz, MmxPmuludq, SsePmuludq, x, y), OpSse(osz, MmxPmulld, SsePmulld, x, y),
       OpSse(osz, MmxPmaddubsw, SsePmaddubsw, x, y) >>

\* MmxPsadbw is not among them: it leaves two sums of four distances where the instruction,
\* and SsePsadbw in each half, has one of eight.
\* Instructions whose result takes its first half from x and its second from y.
Sideways(Mmx(_, _), Sse(_, _), x, y) == Sse(x, y) = Join(Mmx(Low(x), High(x)), Mmx(Low(y), High(y)))

FormsAgree(x, y) ==
    LET mmx == LaneWise(FALSE, x, y)
        sse == LaneWise(TRUE, x, y) IN
    /\ \A n \in DOMAIN sse : mmx[n] = Join(Low(sse[n]), High(x))
    /\ Sideways(MmxPhaddw, SsePhaddw, x, y) /\ Sideways(MmxPhsubw, SsePhsubw, x, y)
    /\ Sideways(MmxPhaddd, SsePhaddd, x, y) /\ Sideways(MmxPhsubd, SsePhsubd, x, y)
    /\ Sideways(MmxPhaddsw, SsePhaddsw, x, y) /\ Sideways(MmxPhsubsw, SsePhsubsw, x, y)
    /\ Sideways(MmxPackuswb, SsePackuswb, x, y) /\ Sideways(MmxPacksswb, SsePacksswb, x, y)
    /\ Sideways(MmxPackssdw, SsePackssdw, x, y)

(* One instruction by others, on 16 bytes. *)

Fill(w, v) == Lanes(16, w, LAMBDA i : v)
Complement(x) == SsePxor(x, SsePcmpeqw(x, x))
\* Words and bytes at even and odd places, extended with their sign or with zeros.
EvenW(x) == SsePsrad(SsePslld(x, 2 * W), 2 * W)
OddW(x) == SsePsrad(x, 2 * W)
EvenB(x) == SsePsraw(SsePsllw(x, W), W)
OddB(x) == SsePsraw(x, W)
EvenZ(x) == SsePsrlw(SsePsllw(x, W), W)
OddZ(x) == SsePsrlw(x, W)
\* x where the mask m is set, y elsewhere.
Select(m, x, y) == SsePor(SsePand(m, x), SsePandn(m, y))

\* Minimum, maximum, comparison, average and saturation by words are subtraction,
\* selection and arithmetic in wider lanes.
OrderLaws(x, y) ==
    LET zero == Fill(1, 0)
        ones == Fill(1, -1)
        gtb == SsePcmpgtb(x, y)
        gtw == SsePcmpgtw(x, y)
        gtd == SsePcmpgtd(x, y)
        top == Fill(1, 2^(W - 1))
        Half(z) == SsePsrad(z, 1) IN
    /\ SsePminub(x, y) = SsePsubb(x, SsePsubusb(x, y)) /\ SsePmaxub(x, y) = SsePaddb(y, SsePsubusb(x, y))
    /\ SsePmaxsw(x, y) = Select(gtw, x, y) /\ SsePminsw(x, y) = Select(gtw, y, x)
    /\ gtb = Complement(SsePcmpeqb(SsePsubusb(SsePxor(x, top), SsePxor(y, top)), zero))
    /\ SsePxor(SsePxor(gtd, SsePcmpgtd(y, x)), SsePcmpeqd(x, y)) = ones
    /\ SsePcmpgtd(Half(y), Half(x)) = SsePsrad(SsePsubd(Half(x), Half(y)), 4 * W - 1)
    /\ SsePavgw(x, y) = SsePsubw(SsePor(x, y), SsePsrlw(SsePxor(x, y), 1))
    /\ SsePavgb(x, y) = SsePsubb(SsePor(x, y), SsePand(SsePsrlw(SsePxor(x, y), 1), Fill(1, 2^(W - 1) - 1)))
    /\ LET m == SsePcmpgtb(zero, y) IN
       SsePsignb(x, y) = SsePandn(SsePcmpeqb(y, zero), SsePsubb(SsePxor(x, m), m))
    /\ LET m == SsePsraw(y, 2 * W - 1) IN
       SsePsignw(x, y) = SsePandn(SsePcmpeqw(y, zero), SsePsubw(SsePxor(x, m), m))
    /\ LET m == SsePsrad(y, 4 * W - 1) IN
       SsePsignd(x, y) = SsePandn(SsePcmpeqd(y, zero), SsePsubd(SsePxor(x, m), m))
    /\ SsePabsb(x, y) = SsePsignb(y, y) /\ SsePabsw(x, y) = SsePsignw(y, y) /\ SsePabsd(x, y) = SsePsignd(y, y)

\* Saturating instructions stop where the exact result in a wider lane leaves the range.
SaturationLaws(x, y) ==
    LET Words4(p, even, odd) == SsePackssdw(EvenW(p), OddW(p)) = SsePackssdw(even, odd)
        Bytes4(p, even, odd) == SsePacksswb(EvenB(p), OddB(p)) = SsePacksswb(even, odd)
        Within(v, low, high) == SsePmaxsw(SsePminsw(v, Fill(2, high)), Fill(2, low))
        ss == SsePacksswb(x, y)
        us == SsePackuswb(x, y)
        sx == Within(x, -2^(W - 1), 2^(W - 1) - 1)
        sy == Within(y, -2^(W - 1), 2^(W - 1) - 1)
        ux == Within(x, 0, 2^W - 1)
        uy == Within(y, 0, 2^W - 1) IN
    /\ Words4(SsePaddsw(x, y), SsePaddd(EvenW(x), EvenW(y)), SsePaddd(OddW(x), OddW(y)))
    /\ Words4(SsePsubsw(x, y), SsePsubd(EvenW(x), EvenW(y)), SsePsubd(OddW(x), OddW(y)))
    /\ Bytes4(SsePaddsb(x, y), SsePaddw(EvenB(x), EvenB(y)), SsePaddw(OddB(x), OddB(y)))
    /\ Bytes4(SsePsubsb(x, y), SsePsubw(EvenB(x), EvenB(y)), SsePsubw(OddB(x), OddB(y)))
    /\ SsePaddusw(x, y) = SsePaddw(x, SsePsubw(y, SsePsubusw(y, Complement(x))))
    /\ SsePaddusb(x, y) = SsePaddb(x, SsePsubb(y, SsePsubusb(y, Complement(x))))
    /\ EvenB(ss) = SsePackssdw(EvenW(sx), EvenW(sy)) /\ OddB(ss) = SsePackssdw(OddW(sx), OddW(sy))
    /\ EvenZ(us) = SsePackssdw(EvenW(ux), EvenW(uy)) /\ OddZ(us) = SsePackssdw(OddW(ux), OddW(uy))

\* Sums: lanes carry into wider ones, neighbours are added.
SumLaws(x, y) ==
    LET carry == Complement(SsePcmpeqw(SsePaddusw(x, y), SsePaddw(x, y)))
        top == Fill(4, 2^(4 * W - 1))
        sum == SsePaddd(x, y)
        dcarry == SsePcmpgtd(SsePxor(x, top), SsePxor(sum, top))
        Next2(z) == SsePsrld(z, 2 * W)
        Upper4(z) == SsePsllq(SsePsrlq(z, 4 * W), 4 * W)
        d == SsePor(SsePsubusb(x, y), SsePsubusb(y, x))
        pairs == SsePaddw(EvenZ(d), OddZ(d))
        zero == Fill(1, 0)
        sums == SsePhaddw(SsePhaddw(pairs, zero), zero)
        odd == SsePhaddd(Upper4(x), Upper4(y)) IN
    /\ SsePaddb(SsePsubb(x, y), y) = x /\ SsePaddw(SsePsubw(x, y), y) = x
    /\ SsePaddd(SsePsubd(x, y), y) = x /\ SsePaddq(SsePsubq(x, y), y) = x
    /\ SsePaddd(x, y) = SsePsubw(SsePaddw(x, y), SsePslld(carry, 2 * W))
    /\ SsePaddq(x, y) = SsePsubd(sum, SsePsllq(dcarry, 4 * W))
    /\ SsePhaddsw(x, y) = SsePackssdw(SsePaddd(EvenW(x), OddW(x)), SsePaddd(EvenW(y), OddW(y)))
    /\ SsePhsubsw(x, y) = SsePackssdw(SsePsubd(EvenW(x), OddW(x)), SsePsubd(EvenW(y), OddW(y)))
    /\ SsePhaddw(x, y) = SsePackssdw(EvenW(SsePaddw(x, Next2(x))), EvenW(SsePaddw(y, Next2(y))))
    /\ SsePhsubw(x, y) = SsePackssdw(EvenW(SsePsubw(x, Next2(x))), EvenW(SsePsubw(y, Next2(y))))
    /\ SsePsubd(SsePhaddd(x, y), SsePhsubd(x, y)) = SsePaddd(odd, odd)
    /\ \A i \in 0 .. 1 : ULane(8, SsePsadbw(x, y), i) = ULane(2, sums, i)

\* Products: the halves of a product, of either sign, and sums of two.
ProductLaws(x, y) ==
    LET low == Fill(4, 2^(2 * W) - 1)
        xl == SsePand(x, low)
        yl == SsePand(y, low)
        lo == SsePmullw(x, y)
        hi == SsePmulhw(x, y)
        word == Fill(8, 2^(2 * W) - 1)
        dword == Fill(8, 2^(4 * W) - 1)
        xw == SsePand(x, word)
        yw == SsePand(y, word)
        cross == SsePaddw(SsePmullw(x, SsePsrld(y, 2 * W)), SsePmullw(SsePsrld(x, 2 * W), y)) IN
    /\ SsePmaddwd(xl, y) = SsePor(SsePand(lo, low), SsePslld(hi, 2 * W))
    /\ SsePmaddwd(x, y) = SsePaddd(SsePmaddwd(xl, y), SsePmaddwd(SsePandn(low, x), y))
    /\ SsePmulhuw(x, y) =
         SsePaddw(SsePaddw(hi, SsePand(SsePsraw(x, 2 * W - 1), y)), SsePand(SsePsraw(y, 2 * W - 1), x))
    /\ SsePmulhrsw(x, y) =
         SsePaddw(SsePor(SsePsllw(hi, 1), SsePsrlw(lo, 2 * W - 1)), SsePand(SsePsrlw(lo, 2 * W - 2), Fill(2, 1)))
    /\ SsePmulld(x, y) =
         SsePaddd(SsePor(SsePmullw(xl, yl), SsePslld(SsePmulhuw(xl, yl), 2 * W)), SsePslld(cross, 2 * W))
    /\ SsePmuludq(xw, yw) = SsePor(SsePmullw(xw, yw), SsePsllq(SsePmulhuw(xw, yw), 2 * W))
    /\ SsePand(SsePmuludq(x, y), dword) = SsePand(SsePmulld(x, y), dword)
    /\ SsePmaddubsw(x, y) = SsePaddsw(SsePmullw(EvenZ(x), EvenB(y)), SsePmullw(OddZ(x), OddB(y)))

\* Shifts: by k + 1 is by k and then by 1, by 1 is doubling or halving, none from the width
\* on; the bits two opposite shifts drop make up the register; a count in another register
\* is all its 64 bits.
ShiftLaws(x, k) ==
    LET Further(osz, Op(_, _, _, _), reg) ==
            \A r \in Op(osz, reg, x, k + 1), q \in Op(osz, reg, x, k) : Op(osz, reg, q, 1) = {r}
        By(n) == Lanes(16, 8, LAMBDA i : IF i = 0 THEN n ELSE 1)
        huge == By(k + 2^(7 * W))
        one == Fill(2, 1)
        zero == Fill(1, 0) IN
    /\ \A osz \in BOOLEAN : /\ \A reg \in {2, 4, 6} : Further(osz, Op171, reg) /\ Further(osz, Op172, reg)
                            /\ \A reg \in {2, 3, 6, 7} : Further(osz, Op173, reg)
                            /\ \A reg \in 0 .. 7 : Op173(osz, reg, x, 0) \subseteq {x}
    /\ SsePsllw(x, 1) = SsePaddw(x, x) /\ SsePslld(x, 1) = SsePaddd(x, x) /\ SsePsllq(x, 1) = SsePaddq(x, x)
    /\ SsePaddw(SsePaddw(SsePsrlw(x, 1), SsePsrlw(x, 1)), SsePand(x, one)) = x
    /\ SsePaddw(SsePaddw(SsePsraw(x, 1), SsePsraw(x, 1)), SsePand(x, one)) = x
    /\ SsePcmpgtw(zero, x) = SsePsraw(x, 2 * W - 1) /\ SsePcmpgtd(zero, x) = SsePsrad(x, k + 4 * W - 1)
    /\ k <= 8 * W => SsePor(SsePsllq(SsePsrlq(x, k), k), SsePsrlq(SsePsllq(x, 8 * W - k), 8 * W - k)) = x
    /\ k <= 4 * W => SsePor(SsePslld(SsePsrld(x, k), k), SsePsrld(SsePslld(x, 4 * W - k), 4 * W - k)) = x
    /\ SsePsrlwv(x, By(k), FALSE) = SsePsrlw(x, k) /\ SsePsrawv(x, By(k), FALSE) = SsePsraw(x, k)
    /\ SsePsllwv(x, By(k), FALSE) = SsePsllw(x, k) /\ SsePsrldv(x, By(k), FALSE) = SsePsrld(x, k)
    /\ SsePsradv(x, By(k), FALSE) = SsePsrad(x, k) /\ SsePslldv(x, By(k), FALSE) = SsePslld(x, k)
    /\ SsePsrlqv(x, By(k), FALSE) = SsePsrlq(x, k) /\ SsePsllqv(x, By(k), FALSE) = SsePsllq(x, k)
    /\ SsePsrlqv(x, huge, FALSE) = zero /\ SsePsllwv(x, huge, FALSE) = zero
    /\ SsePsrawv(x, huge, FALSE) = SsePcmpgtw(zero, x)

\* The instructions that compute on lanes agree with each other: the form for 8 bytes with
\* the one for 16 (but for psadbw, where the code's two forms differ), saturated, ordered,
\* wide and shifted results with those of other lanes.
LanesAgree ==
    in.kind = "lanes" =>
        /\ FormsAgree(in.x, in.y) /\ OrderLaws(in.x, in.y) /\ SaturationLaws(in.x, in.y)
        /\ SumLaws(in.x, in.y) /\ ProductLaws(in.x, in.y) /\ ShiftLaws(in.y, in.k)

(* Moving bytes. *)

\* Unpacking interleaves the halves of the two registers, also when they are one register
\* and when its bytes are overwritten on the way; the form for 16 bytes does to each half of
\* its result what the two forms for 8 bytes do.
UnpackLaws(x, y, same) ==
    LET Zipped(h, e, base) ==
            [b \in 0 .. h - 1 |-> LET from == base + e * (b \div (2 * e)) + (b % e) IN
                                  IF (b \div e) % 2 = 0 THEN x[from] ELSE y[from]]
        Wide(Sse(_, _, _), MmxL(_, _, _), MmxH(_, _, _), Half(_)) ==
            Sse(x, y, same) = Join(MmxL(Half(x), Half(y), same), MmxH(Half(x), Half(y), same)) IN
    /\ MmxPunpcklbw(Low(x), Low(y), same) = Zipped(8, 1, 0) /\ MmxPunpckhbw(Low(x), Low(y), same) = Zipped(8, 1, 4)
    /\ MmxPunpcklwd(Low(x), Low(y), same) = Zipped(8, 2, 0) /\ MmxPunpckhwd(Low(x), Low(y), same) = Zipped(8, 2, 4)
    /\ MmxPunpckldq(Low(x), Low(y), same) = Zipped(8, 4, 0) /\ MmxPunpckhdq(Low(x), Low(y), same) = Zipped(8, 4, 4)
    /\ SsePunpcklqdq(x, y, same) = Join(Low(x), Low(y)) /\ SsePunpckhqdq(x, y, same) = Join(High(x), High(y))
    /\ Wide(SsePunpcklbw, MmxPunpcklbw, MmxPunpckhbw, Low) /\ Wide(SsePunpckhbw, MmxPunpcklbw, MmxPunpckhbw, High)
    /\ Wide(SsePunpcklwd, MmxPunpcklwd, MmxPunpckhwd, Low) /\ Wide(SsePunpckhwd, MmxPunpcklwd, MmxPunpckhwd, High)
    /\ Wide(SsePunpckldq, MmxPunpckldq, MmxPunpckhdq, Low) /\ Wide(SsePunpckhdq, MmxPunpckldq, MmxPunpckhdq, High)

\* Aligning joins two opposite shifts, and shifting is shuffling with zeros moved in.
AlignLaws(x, y, k) ==
    LET Joined(h, down, up) == [b \in 0 .. h - 1 |-> down[b] + up[b]]
        Index(h) == [b \in 0 .. h - 1 |-> IF b + k < h THEN b + k ELSE 128]
        sse == OpSsePalignr(TRUE, x, y, k)
        mmx == OpSsePalignr(FALSE, x, y, k) IN
    /\ sse = IF k <= 16 THEN Joined(16, SsePsrldq(y, k), SsePslldq(x, 16 - k)) ELSE SsePsrldq(x, k - 16)
    /\ Low(mmx) = IF k <= 8 THEN Joined(8, MmxPsrldq(Low(y), k), MmxPslldq(Low(x), 8 - k)) ELSE MmxPsrldq(Low(x), k - 8)
    /\ High(mmx) = High(x)
    /\ SsePsrldq(x, k) = SsePshufb(x, Index(16)) /\ MmxPsrldq(Low(x), k) = MmxPshufb(Low(x), Index(8))

Other(i) == [i EXCEPT !.reg = 1 - @]
Swapped(i) == [i EXCEPT !.reg = i.rm, !.rm = i.reg]
Size(i) == IF i.rep = 0 THEN 16 ELSE IF i.rep = 2 THEN 8 ELSE 4

\* What a register holds after a store of n bytes from byte at of another register and the
\* load of them: those bytes, its own at the positions kept, and zeros.
Reloaded(i, n, at, kept, s, r) ==
    LET mine == Reg(i, Machine)
        old == Reg(Other(i), Machine) IN
    /\ r = [b \in 0 .. 15 |-> IF b \in at .. at + n - 1 THEN mine[b] ELSE IF b \in kept THEN old[b] ELSE 0]
    /\ s = [Machine EXCEPT !.mem = [a \in DOMAIN @ |-> IF a - i.ea \in 0 .. n - 1 THEN mine[at + a - i.ea] ELSE @[a]]]

\* A value stored to memory and loaded by the instruction for the same operand size is the
\* value; what the load does not bring is zero for scalars and kept for halves.
StoredIsLoaded(i) ==
    LET j == Other(i)
        R(s) == Reg(j, s)
        plain == OpMovWpsVps(i, Machine)
        whole == OpMov0f7f(i, Machine)
        quad == OpMov0fD6(i, Machine)
        low == OpMov0f13(i, Machine)
        high == OpMov0f17(i, Machine)
        word == OpMov0f7e(i, Machine)
        past == OpMov0fE7(i, Machine)
        mm == ~i.osz /\ i.rep # 3 IN
    /\ Reloaded(i, Size(i), 0, {}, plain, R(OpMov0f10(j, plain)))
    /\ i.rep = 0 => OpMov0f29(i, Machine) = OpMovWpsVps([i EXCEPT !.osz = FALSE], Machine)
    /\ i.rep = 0 => OpMov0f28(j, plain) = OpMov0f10(j, plain)
    /\ Reloaded(i, IF mm THEN 8 ELSE 16, 0, IF mm THEN 8 .. 15 ELSE {}, whole, R(OpMov0f6f(j, whole)))
    /\ i.rep = 0 => /\ past = whole
                    /\ Reloaded(i, 8, 0, 8 .. 15, low, R(OpMov0f12(j, low)))
                    /\ Reloaded(i, 8, 8, 0 .. 7, high, R(OpMov0f16(j, high)))
                    /\ Reloaded(i, IF i.rexw THEN 8 ELSE 4, 0, IF i.osz THEN {} ELSE 8 .. 15, word, R(OpMov0f6e(j, word)))
                    /\ i.osz => Reloaded(i, 8, 0, {}, quad, R(OpMov0f7e([j EXCEPT !.rep = 3], quad)))

\* Between two registers the store form of an instruction is its load form with the fields
\* exchanged, and moves across halves or general registers are those through memory.
RegistersMove(i) ==
    LET M == Machine
        j == Swapped(i)
        Memory(n) == [i EXCEPT !.isreg = FALSE, !.reg = n]
        Index(from) == [b \in 0 .. 15 |-> 8 * (b \div 8) + from + (b % 4)]
        up == OpMov0f13(Memory(i.rm), M)
        down == OpMov0f17(Memory(i.rm), M)
        gpr == OpMov0f7e(i, M)
        through == OpMov0f7e(Memory(i.reg), M) IN
    /\ OpMovWpsVps(i, M) = OpMov0f10(j, M) /\ OpMov0f29(i, M) = OpMov0f28(j, M) /\ OpMov0f7f(i, M) = OpMov0f6f(j, M)
    /\ i.rep = 0 /\ i.osz => OpMov0fD6(i, M) = OpMov0f7e([j EXCEPT !.rep = 3], M)
    /\ i.rep = 0 /\ ~i.osz => /\ OpMov0f16(i, M).xmm = OpMov0f16(Memory(i.reg), up).xmm
                              /\ OpMov0f12(i, M).xmm = OpMov0f12(Memory(i.reg), down).xmm
    /\ i.rep = 2 => /\ OpMov0f12(i, M).xmm = OpMov0f12([i EXCEPT !.isreg = FALSE], OpMovWpsVps(Memory(i.rm), M)).xmm
                    /\ OpMov0fD6(i, M) = OpMov0f10(i, M)
    /\ i.rep = 3 => /\ OpMov0f12(i, M) = SetReg(i, M, SsePshufb(M.xmm[i.rm], Index(0)))
                    /\ OpMov0f16(i, M) = SetReg(i, M, SsePshufb(M.xmm[i.rm], Index(4)))
                    /\ OpMov0fD6(i, M) = OpMov0f7e(i, M)
    /\ i.rep = 0 => /\ OpMov0f6e(i, gpr).xmm = OpMov0f6e(Memory(i.reg), through).xmm
                    /\ gpr.gpr[i.rm] = Clear(Copy(M.gpr[i.rm], 0, Reg(i, M), 0, 8), IF i.rexw THEN 8 ELSE 4, 4)
    /\ OpMaskMovDiXmmRegXmmRm(i, M).mem =
         [a \in DOMAIN M.mem |-> IF a - i.ea \in OpPmovmskbGdqpNqUdq(i, M) THEN Reg(i, M)[a - i.ea] ELSE M.mem[a]]

\* Instructions that move bytes bring every byte where the instruction is for, and leave the
\* others: unpacking in place, alignment and shuffles, stores and loads, moves between
\* registers.
MovesAgree ==
    /\ in.kind = "bytes" => UnpackLaws(in.x, in.y, in.same) /\ AlignLaws(in.x, in.y, in.k)
    /\ in.kind = "move" => IF in.i.isreg THEN RegistersMove(in.i) ELSE StoredIsLoaded(in.i)
=============================================================================
