-------------------------------- MODULE Alu ---------------------------------
(***************************************************************************)
(* The integer unit of the interpreter (alu.c, flags.h, flags.c, bcd.c,    *)
(* bmi2.c, bit.c and the one-operand forms of machine.c) as functions of   *)
(* words and flags.  An operation takes the width k in bits, the flags f   *)
(* and its operands, and returns the result z with the flags it leaves.    *)
(*                                                                         *)
(* A word is a number below 2^k.  The code has each operation for 8, 16,   *)
(* 32 and 64 bits; here the 8 and 16 bit forms mask a shift count with 31  *)
(* as the code does, and every other width stands for the 32 and 64 bit    *)
(* forms, which mask it with their own width.                              *)
(***************************************************************************)
EXTENDS Integers

Bit(x, i) == (x \div 2^i) % 2
Trunc(k, x) == x % 2^k
Sign(k, x) == Bit(x, k - 1)
Signed(k, x) == IF Sign(k, x) = 1 THEN x - 2^k ELSE x
Bool(b) == IF b THEN 1 ELSE 0
Not(b) == 1 - b

ShiftLeft(k, x, n) == IF n >= k THEN 0 ELSE Trunc(k, x * 2^n)
ShiftRight(k, x, n) == IF n >= k THEN 0 ELSE x \div 2^n

\* The number with the bits b[0], b[1] ...
Number(k, b) ==
    LET upto[i \in 0 .. k] == IF i = 0 THEN 0 ELSE upto[i - 1] + b[i - 1] * 2^(i - 1) IN upto[k]
And(k, x, y) == Number(k, [i \in 0 .. k - 1 |-> Bit(x, i) * Bit(y, i)])
Or(k, x, y) == Number(k, [i \in 0 .. k - 1 |-> Bool(Bit(x, i) + Bit(y, i) > 0)])
Xor(k, x, y) == Number(k, [i \in 0 .. k - 1 |-> (Bit(x, i) + Bit(y, i)) % 2])

(* The flags word: bits by their position, and in LP the low byte of the last result, *)
(* from which the parity flag is computed when it is needed.                          *)

CF == 0
PF == 2
AF == 4
ZF == 6
SF == 7
DF == 10
OF == 11
LP == 24
FlagBits == {CF, PF, AF, ZF, SF, DF, OF}
Flags == [FlagBits -> 0 .. 1]
Word(bits, lp) == [i \in FlagBits \cup {LP} |-> IF i = LP THEN lp ELSE bits[i]]

GetParity(b) ==
    LET b1 == Xor(8, b, b \div 16)
        b2 == Xor(8, b1, b1 \div 4)
        b3 == Xor(8, b2, b2 \div 2) IN
    Not(Bit(b3, 0))

SetLazyParityByte(f, x) == [f EXCEPT ![LP] = x % 256]
GetFlag(f, b) == IF b = PF THEN GetParity(f[LP]) ELSE f[b]
SetFlag(f, b, v) == IF b = PF THEN SetLazyParityByte(f, Not(v)) ELSE [f EXCEPT ![b] = v]

\* The word pushf stores: the computed parity at its place.
ExportFlags(f) == [i \in FlagBits |-> GetFlag(f, i)]
\* Mutant of ImportFlags: the parity byte is left as it was.
ImportBits(f, w) == [i \in DOMAIN f |-> IF i = LP THEN f[LP] ELSE w[i]]
ImportFlags(f, w) == [i \in DOMAIN f |-> IF i = LP THEN Not(w[PF]) ELSE w[i]]
\* lahf and sahf move the low byte of the word only.
OpSahf(f, ah) == ImportFlags(f, [i \in FlagBits |-> IF i < 8 THEN ah[i] ELSE f[i]])

\* Conditions, from bits of the word shifted against each other.
IsParity(f) == GetFlag(f, PF)
IsBelowOrEqual(f) == Bool(f[6] = 1 \/ f[0] = 1)
IsAbove(f) == Bool(Not(f[6]) = 1 /\ Not(f[0]) = 1)
\* Mutant of IsLess: the sign alone.
IsNegative(f) == f[7]
IsLess(f) == Bool(f[7] # f[11])
IsGreaterOrEqual(f) == Not(Bool(f[7] # f[11]))
IsLessOrEqual(f) == Bool(f[7] # f[11] \/ f[6] = 1)
IsGreater(f) == Bool(~(f[7] # f[11]) /\ Not(f[6]) = 1)

AluFlags(k, f, x, af, of, cf) ==
    [z |-> x, f |-> [f EXCEPT ![SF] = Sign(k, x), ![CF] = cf, ![ZF] = Bool(x = 0), ![OF] = of, ![AF] = af,
                              ![LP] = x % 256]]

Logic(k, f, z) == AluFlags(k, f, z, 0, 0, 0)

Below(x, y) == Bool(x < y)
\* The sign bit of (a ^ b) & (c ^ d).
Overflow(k, a, b, c, d) == Bool(Sign(k, a) # Sign(k, b) /\ Sign(k, c) # Sign(k, d))

Sub(k, f, x, y) ==
    LET z == Trunc(k, x - y) IN
    AluFlags(k, f, z, Below(x % 16, z % 16), Overflow(k, x, y, z, x), Below(x, z))

Add(k, f, x, y) ==
    LET z == Trunc(k, x + y) IN
    AluFlags(k, f, z, Below(z % 16, y % 16), Overflow(k, z, x, z, y), Below(z, y))

\* Mutant of Adc: the carry of adding the carry is not looked at.
AdcOneCarry(k, f, x, y) ==
    LET t == Trunc(k, x + f[CF])
        z == Trunc(k, t + y) IN
    AluFlags(k, f, z, Bool(t % 16 < x % 16 \/ z % 16 < y % 16), Overflow(k, z, x, z, y), Below(z, y))
Adc(k, f, x, y) ==
    LET t == Trunc(k, x + f[CF])
        z == Trunc(k, t + y) IN
    AluFlags(k, f, z, Bool(t % 16 < x % 16 \/ z % 16 < y % 16), Overflow(k, z, x, z, y),
             Bool(t < x \/ z < y))

Sbb(k, f, x, y) ==
    LET t == Trunc(k, x - f[CF])
        z == Trunc(k, t - y) IN
    AluFlags(k, f, z, Bool(x % 16 < t % 16 \/ t % 16 < z % 16), Overflow(k, z, x, x, y),
             Bool(x < t \/ t < z))

Neg(k, f, x) ==
    AluFlags(k, f, Trunc(k, -x), Bool(x # 0), Bool(x = 2^(k - 1)), Bool(x # 0))

\* inc and dec keep the carry; inc is called with y = 0, so that it never sets AF.
BumpFlags(k, f, z, af, of) == AluFlags(k, f, z, af, of, f[CF])
Dec(k, f, x) ==
    LET z == Trunc(k, x - 1) IN BumpFlags(k, f, z, Below(x % 16, z % 16), Overflow(k, z, x, x, 1))
Inc(k, f, x, y) ==
    LET z == Trunc(k, x + 1) IN BumpFlags(k, f, z, Below(z % 16, y % 16), Overflow(k, z, x, z, 1))

(* Shifts and rotations. *)

Count(k, y) == IF k \in {8, 16} THEN y % 32 ELSE y % k
Unchanged(f, x) == [z |-> x, f |-> f]

Shr(k, f, x, y) ==
    LET n == Count(k, y)
        z == ShiftRight(k, x, n) IN
    IF n = 0 THEN Unchanged(f, x)
    ELSE AluFlags(k, f, z, 0, Bool(Sign(k, ShiftLeft(k, z, 1)) # Sign(k, z)), Bit(ShiftRight(k, x, n - 1), 0))

\* Mutant of Shl: the carry is the bit next to the last one shifted out.
ShlOff(k, f, x, y) ==
    LET n == Count(k, y)
        z == ShiftLeft(k, x, n)
        cf == IF n >= k THEN 0 ELSE Bit(x, k - n - 1) IN
    IF n = 0 THEN Unchanged(f, x) ELSE AluFlags(k, f, z, 0, Bool(Sign(k, z) # cf), cf)
Shl(k, f, x, y) ==
    LET n == Count(k, y)
        z == ShiftLeft(k, x, n)
        cf == IF n > k THEN 0 ELSE Bit(x, k - n) IN
    IF n = 0 THEN Unchanged(f, x) ELSE AluFlags(k, f, z, 0, Bool(Sign(k, z) # cf), cf)

Sar(k, f, x, y) ==
    LET n == Count(k, y)
        Arith(i) == IF i >= k THEN -Sign(k, x) ELSE Signed(k, x) \div 2^i IN
    IF n = 0 THEN Unchanged(f, x)
    ELSE AluFlags(k, f, Trunc(k, Arith(n)), 0, 0, Arith(n - 1) % 2)

RotateFlags(f, x, cf, of) == [z |-> x, f |-> [f EXCEPT ![CF] = cf, ![OF] = of]]

Rol(k, f, x, y) ==
    LET n == Count(k, y) % k
        z == IF n = 0 THEN x ELSE ShiftLeft(k, x, n) + ShiftRight(k, x, k - n) IN
    IF Count(k, y) = 0 THEN Unchanged(f, x)
    ELSE RotateFlags(f, z, Bit(z, 0), Bool(Sign(k, z) # Bit(z, 0)))

Ror(k, f, x, y) ==
    LET n == Count(k, y) % k
        z == IF n = 0 THEN x ELSE ShiftRight(k, x, n) + ShiftLeft(k, x, k - n) IN
    IF Count(k, y) = 0 THEN Unchanged(f, x)
    ELSE RotateFlags(f, z, Sign(k, z), Bool(Sign(k, z) # Bit(z, k - 2)))

\* The ring of a rotation through the carry has k + 1 bits.
CarryCount(k, y) == IF k \in {8, 16} THEN (y % 32) % (k + 1) ELSE y % k

\* Mutant of Rcr: the bits that come round are one place off.
RcrOff(k, f, x, y) ==
    LET n == CarryCount(k, y)
        z == ShiftRight(k, x, n) + ShiftLeft(k, f[CF], k - n) + (IF n < 2 THEN 0 ELSE ShiftLeft(k, x, k - n)) IN
    IF n = 0 THEN Unchanged(f, x)
    ELSE RotateFlags(f, Trunc(k, z), Bit(x, n - 1), Bool(Bit(z, k - 1) # Bit(z, k - 2)))
Rcr(k, f, x, y) ==
    LET n == CarryCount(k, y)
        z == ShiftRight(k, x, n) + ShiftLeft(k, f[CF], k - n) + ShiftLeft(k, x, k + 1 - n) IN
    IF n = 0 THEN Unchanged(f, x)
    ELSE RotateFlags(f, z, Bit(x, n - 1), Bool(Bit(z, k - 1) # Bit(z, k - 2)))

Rcl(k, f, x, y) ==
    LET n == CarryCount(k, y)
        ct == Bit(x, k - n)
        z == ShiftLeft(k, x, n) + ShiftLeft(k, f[CF], n - 1) + ShiftRight(k, x, k + 1 - n) IN
    IF n = 0 THEN Unchanged(f, x)
    ELSE RotateFlags(f, z, ct, Bool(ct # Sign(k, z)))

\* shld and shrd of x, filled from y.  16 bits take counts up to 31; beyond 16 the C shift
\* and the instruction are undefined, so that callers have b <= k.
\* Mutant of BsuDoubleShift: the fill of the right shift is taken from the other end.
DoubleShiftOff(k, f, x, y, b, isright) ==
    LET z == IF isright THEN ShiftRight(k, x, b) + ShiftLeft(k, y, b) ELSE ShiftLeft(k, x, b) + ShiftRight(k, y, k - b) IN
    IF b = 0 THEN Unchanged(f, x) ELSE AluFlags(k, f, Trunc(k, z), 0, 0, Bit(x, IF isright THEN b - 1 ELSE k - b))
BsuDoubleShift(k, f, x, y, b, isright) ==
    LET z == IF isright THEN ShiftRight(k, x, b) + ShiftLeft(k, y, k - b)
             ELSE ShiftLeft(k, x, b) + ShiftRight(k, y, k - b)
        cf == Bit(x, IF isright THEN b - 1 ELSE k - b) IN
    IF b = 0 THEN Unchanged(f, x)
    ELSE AluFlags(k, f, z, 0, Bool(b = 1 /\ Sign(k, z) # Sign(k, x)), cf)

(* Decimal adjustment: the machine is a record al, ah, f. *)

BcdFlags(al, ah, f, af, cf) ==
    [al |-> al, ah |-> ah,
     f |-> [f EXCEPT ![CF] = cf, ![AF] = af, ![ZF] = Bool(al = 0), ![SF] = Sign(8, al), ![LP] = al]]

LowAdjust(m) == m.al % 16 > 9 \/ m.f[AF] = 1
HighAdjust(m) == m.al > 153 \/ m.f[CF] = 1

OpDas(m) ==
    LET a1 == IF LowAdjust(m) THEN Trunc(8, m.al - 6) ELSE m.al
        c1 == Bool(LowAdjust(m) /\ (m.al < 6 \/ m.f[CF] = 1))
        a2 == IF HighAdjust(m) THEN Trunc(8, a1 - 96) ELSE a1 IN
    BcdFlags(a2, m.ah, m.f, Bool(LowAdjust(m)), IF HighAdjust(m) THEN 1 ELSE c1)

\* Mutant of OpDaa: the upper digit is judged after the lower one was adjusted.
OpDaaLate(m) ==
    LET a1 == IF LowAdjust(m) THEN Trunc(8, m.al + 6) ELSE m.al
        high == a1 > 153 \/ m.f[CF] = 1 IN
    [m EXCEPT !.al = IF high THEN Trunc(8, a1 + 96) ELSE a1, !.f = [@ EXCEPT ![CF] = Bool(high)]]
\* daa leaves ZF, SF and the parity as they were.
OpDaa(m) ==
    LET a1 == IF LowAdjust(m) THEN Trunc(8, m.al + 6) ELSE m.al
        a2 == IF HighAdjust(m) THEN Trunc(8, a1 + 96) ELSE a1 IN
    [m EXCEPT !.al = a2,
              !.f = [@ EXCEPT ![AF] = IF LowAdjust(m) THEN 1 ELSE @, ![CF] = IF HighAdjust(m) THEN 1 ELSE @]]

Ascii(m, step) ==
    LET ax == Trunc(16, m.ah * 256 + m.al + (IF LowAdjust(m) THEN step ELSE 0))
        adjusted == Bool(LowAdjust(m)) IN
    BcdFlags(ax % 16, ax \div 256, m.f, adjusted, adjusted)
OpAaa(m) == Ascii(m, 262)
OpAas(m) == Ascii(m, -262)
OpAam(m, imm) == BcdFlags(m.al % imm, m.al \div imm, m.f, 0, 0)
OpAad(m, imm) == BcdFlags((m.ah * imm + m.al) % 256, 0, m.f, 0, 0)

(* Bit fields. *)

\* Mutant of Pdep: a zero in the mask also consumes a bit of x.
PdepAll(k, x, mask) == And(k, x, mask)
Pdep(k, x, mask) ==
    LET upto[i \in 0 .. k] ==
            IF i = 0 THEN [r |-> 0, x |-> x]
            ELSE LET was == upto[i - 1] IN
                 IF Bit(mask, i - 1) = 1
                 THEN [r |-> was.r + Bit(was.x, 0) * 2^(i - 1), x |-> was.x \div 2]
                 ELSE was IN
    upto[k].r
Pext(k, x, mask) ==
    LET upto[i \in 0 .. k] ==
            IF i = 0 THEN [r |-> 0, b |-> 1]
            ELSE LET was == upto[i - 1] IN
                 IF Bit(mask, i - 1) = 1
                 THEN [r |-> was.r + Bit(x, i - 1) * was.b, b |-> was.b * 2]
                 ELSE was IN
    upto[k].r
OpBzhi(k, f, x, i) ==
    LET z == IF i < k THEN x % 2^i ELSE x IN
    [z |-> z, f |-> [f EXCEPT ![ZF] = Bool(z = 0), ![CF] = Bool(i >= k), ![SF] = Sign(k, z), ![OF] = 0]]

\* The word and the bit in it that bt, bts, btr and btc reach from a signed bit number
\* (w: bits of the word, a power of 2; & with -w rounds down, >> 3 turns bits to bytes).
BitWord(w, n) == ((n \div w) * w) \div 8
BitOf(w, n) == n % w
=============================================================================
