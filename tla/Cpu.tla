-------------------------------- MODULE Cpu ---------------------------------
(***************************************************************************)
(* Instructions against what they are for.  A behaviour picks operands, one*)
(* after the other; the properties compare short instruction sequences on  *)
(* them, as Alu, DivMul and RepString compute them, with the arithmetic,   *)
(* the comparison or the loop the sequence stands for.                     *)
(***************************************************************************)
EXTENDS DivMul, RepString, FiniteSets

CONSTANTS
    Xs, Ys,     \* bytes given as first and second operand
    MaxCx       \* bound: the count of a string instruction

ASSUME OperandBounds == Xs \subseteq 0 .. 255 /\ Ys \subseteq 0 .. 255 /\ MaxCx \in 0 .. Top + 1

VARIABLE in   \* the operands picked so far

NoFlags == [i \in FlagBits |-> 0]
Carry(c) == Word([NoFlags EXCEPT ![CF] = c], 0)

Init == in = [kind |-> "none"]

PickFirst == in.kind = "none" /\ \E x \in Xs, c \in 0 .. 1 : in' = [kind |-> "one", x |-> x, c |-> c]

PickSecond == in.kind = "one" /\ \E y \in Ys : in' = [kind |-> "words", x |-> in.x, c |-> in.c, y |-> y]

\* A count whose elements all lie in the memory.
PickString ==
    /\ in.kind = "none"
    /\ \E di, si \in Addresses, cx \in 0 .. MaxCx, df \in 0 .. 1, same \in {0, 3} :
         /\ \A r \in {di, si} : IF df = 0 THEN r + cx <= Top + 1 ELSE cx <= r + 1
         /\ in' = [kind |-> "string",
                   m |-> [di |-> di, si |-> si, cx |-> cx, df |-> df, zf |-> 0, al |-> 2,
                          mem |-> [a \in Addresses |-> IF same = 0 THEN a ELSE a \div same]]]

Next == PickFirst \/ PickSecond \/ PickString

Spec == Init /\ [][Next]_in

Words == in.kind = "words"
Strings == in.kind = "string"

(* Comparison and carry. *)

\* cmp followed by a conditional jump decides the order of the operands, as unsigned and
\* as signed numbers (Sub8 .. Sub64, then the bit tests of flags.h), jp the parity of the
\* difference.
CompareDecides ==
    Words =>
        LET x == in.x
            y == in.y
            s == Signed(8, x)
            t == Signed(8, y)
            f == Sub(8, Carry(in.c), x, y).f
            ones == {i \in 0 .. 7 : Bit(Trunc(8, x - y), i) = 1} IN
        /\ f[ZF] = Bool(x = y) /\ f[CF] = Bool(x < y)
        /\ IsBelowOrEqual(f) = Bool(x <= y) /\ IsAbove(f) = Bool(x > y)
        /\ IsLess(f) = Bool(s < t) /\ IsGreaterOrEqual(f) = Bool(s >= t)
        /\ IsLessOrEqual(f) = Bool(s <= t) /\ IsGreater(f) = Bool(s > t)
        /\ IsParity(f) = Bool(Cardinality(ones) % 2 = 0)

\* add then adc, and sub then sbb, on the two halves of a number are one addition or
\* subtraction of double width: result, carry and signed overflow; neg is the
\* subtraction from zero, and inc and dec add and subtract one without touching the carry
\* (but for AF: neg sets it for every x # 0 and inc never does).
CarryChains ==
    Words =>
        LET k == 4
            x == in.x
            y == in.y
            F == Carry(in.c)
            a0 == Add(k, F, x % 16, y % 16)
            a1 == Adc(k, a0.f, x \div 16, y \div 16)
            s0 == Sub(k, F, x % 16, y % 16)
            s1 == Sbb(k, s0.f, x \div 16, y \div 16)
            c0 == Adc(k, F, x % 16, y % 16)
            c1 == Adc(k, c0.f, x \div 16, y \div 16)
            Range == -128 .. 127
            Fits(n) == Bool(n \notin Range) IN
        /\ a1.z * 16 + a0.z = Trunc(8, x + y) /\ a1.f[CF] = Bool(x + y > 255)
        /\ a1.f[OF] = Fits(Signed(8, x) + Signed(8, y))
        /\ c1.z * 16 + c0.z = Trunc(8, x + y + in.c) /\ c1.f[CF] = Bool(x + y + in.c > 255)
        /\ c1.f[OF] = Fits(Signed(8, x) + Signed(8, y) + in.c)
        /\ s1.z * 16 + s0.z = Trunc(8, x - y) /\ s1.f[CF] = Bool(x < y)
        /\ s1.f[OF] = Fits(Signed(8, x) - Signed(8, y))
        /\ Neg(8, F, x) = [Sub(8, F, 0, x) EXCEPT !.f = [@ EXCEPT ![AF] = Bool(x # 0)]]
        /\ Dec(8, F, x) = [Sub(8, F, x, 1) EXCEPT !.f = [@ EXCEPT ![CF] = in.c]]
        /\ Inc(8, F, x, 0) = [Add(8, F, x, 1) EXCEPT !.f = [@ EXCEPT ![CF] = in.c, ![AF] = 0]]

(* Shifts and rotations. *)

\* n single steps of an operation.
Repeated(Op(_, _, _, _), k, f, x, n) ==
    LET run[i \in 0 .. n] == IF i = 0 THEN Unchanged(f, x) ELSE LET was == run[i - 1] IN Op(k, was.f, was.z, 1) IN
    run[n]

\* The flags but OF, which counts for single steps only, and AF.
Lasting(r) == [z |-> r.z, f |-> [i \in {CF, ZF, SF, LP} |-> r.f[i]]]

\* A shift by any count is that many shifts by one, the carry being the last bit out, for
\* the forms that mask the count with 31 and those that mask it with their width; one step
\* of shl is x + x, one of shr and sar is the halving whose remainder is the carry.
ShiftsRepeat ==
    (Words /\ in.y < 64) =>
        LET F == Carry(in.c)
            add == Add(8, F, in.x, in.x)
            shl == Shl(8, F, in.x, 1)
            shr == Shr(8, F, in.x, 1)
            sar == Sar(8, F, in.x, 1) IN
        /\ \A k \in {8, 4} : LET x == Trunc(k, in.x)
                                 n == Count(k, in.y) IN
            /\ Lasting(Shl(k, F, x, in.y)) = Lasting(Repeated(Shl, k, F, x, n))
            /\ Lasting(Shr(k, F, x, in.y)) = Lasting(Repeated(Shr, k, F, x, n))
            /\ Lasting(Sar(k, F, x, in.y)) = Lasting(Repeated(Sar, k, F, x, n))
        /\ Lasting(shl) = Lasting(add) /\ shl.f[OF] = add.f[OF]
        /\ in.x = 2 * shr.z + shr.f[CF] /\ shr.f[OF] = Sign(8, in.x)
        /\ Signed(8, in.x) = 2 * Signed(8, sar.z) + sar.f[CF] /\ sar.f[OF] = 0

\* A rotation by any count is that many rotations by one, the opposite rotation takes it
\* back, the carry included where it takes part, and one step of rcl is x + x + carry.
RotationsInvert ==
    (Words /\ in.y < 64) =>
        LET F == Carry(in.c)
            adc == Adc(8, F, in.x, in.x)
            rcl1 == Rcl(8, F, in.x, 1) IN
        /\ \A k \in {8, 4} : LET x == Trunc(k, in.x)
                                 n == Count(k, in.y)
                                 rol == Rol(k, F, x, in.y)
                                 rcl == Rcl(k, F, x, in.y) IN
            /\ Lasting(rol) = Lasting(Repeated(Rol, k, F, x, n))
            /\ Lasting(Ror(k, F, x, in.y)) = Lasting(Repeated(Ror, k, F, x, n))
            /\ Lasting(rcl) = Lasting(Repeated(Rcl, k, F, x, n))
            /\ Ror(k, rol.f, rol.z, in.y).z = x
            /\ Lasting(Rcr(k, rcl.f, rcl.z, in.y)) = Lasting(Unchanged(F, x))
        /\ rcl1.z = adc.z /\ rcl1.f[CF] = adc.f[CF] /\ rcl1.f[OF] = adc.f[OF]

\* shrd and shld shift the number that has x and y as halves; the carry is the last bit out.
DoubleShiftsJoin ==
    (Words /\ in.y < 64) =>
        LET F == Carry(in.c)
            x == in.x % 16
            y == in.x \div 16
            b == in.y % 4
            right == BsuDoubleShift(4, F, x, y, b, TRUE)
            left == BsuDoubleShift(4, F, x, y, b, FALSE) IN
        /\ right.z = ((y * 16 + x) \div 2^b) % 16
        /\ left.z = (((x * 16 + y) * 2^b) \div 16) % 16
        /\ b > 0 => /\ right.f[CF] = Shr(4, F, x, b).f[CF] /\ left.f[CF] = Shl(4, F, x, b).f[CF]
                    /\ b = 1 => left.f[OF] = Shl(4, F, x, 1).f[OF]

(* Flags as data, decimal numbers. *)

\* The parity flag is computed from a byte kept in unused bits: pushf then popf, and lahf
\* then sahf, restore every flag, whatever byte the last result left there.
FlagsRoundTrip ==
    Words =>
        LET f == Word([i \in FlagBits |-> IF i < 8 THEN Bit(in.y, i) ELSE Bit(in.y, i - 9)], in.x)
            g == Carry(in.c)
            w == ExportFlags(f) IN
        /\ \A i \in FlagBits : GetFlag(ImportFlags(g, w), i) = GetFlag(f, i)
        /\ \A i \in FlagBits : GetFlag(OpSahf(g, w), i) = GetFlag(IF i < 8 THEN f ELSE g, i)

Decimal(b) == 10 * (b \div 16) + (b % 16)
Packed(b) == b % 16 <= 9 /\ b \div 16 <= 9

\* adc then daa adds decimal numbers, sbb then das subtracts them; add then aaa and sub
\* then aas work on one digit with the carry in ah; aad undoes aam.  The adjustments see
\* only the result and the two carries that the binary operation left.
DecimalAdjusts ==
    Words =>
        LET F == Carry(in.c)
            x == in.x
            y == in.y
            M(r) == [al |-> r.z, ah |-> 1, f |-> r.f]
            daa == OpDaa(M(Adc(8, F, x, y)))
            das == OpDas(M(Sbb(8, F, x, y)))
            aaa == OpAaa(M(Add(8, F, x, y)))
            aas == OpAas(M(Sub(8, F, x, y)))
            plus == Decimal(x) + Decimal(y) + in.c
            minus == Decimal(x) - Decimal(y) - in.c IN
        /\ Packed(x) /\ Packed(y) =>
             /\ Packed(daa.al) /\ Decimal(daa.al) = plus % 100 /\ daa.f[CF] = Bool(plus > 99)
             /\ Packed(das.al) /\ Decimal(das.al) = minus % 100 /\ das.f[CF] = Bool(minus < 0)
        /\ x <= 9 /\ y <= 9 =>
             /\ aaa.al = (x + y) % 10 /\ aaa.ah = 1 + Bool(x + y > 9) /\ aaa.f[CF] = Bool(x + y > 9)
             /\ aas.al = (x - y) % 10 /\ aas.ah = 1 - Bool(x < y) /\ aas.f[CF] = Bool(x < y)
        /\ y > 0 => LET aam == OpAam([al |-> x, ah |-> 0, f |-> F], y) IN
                    aam.al < y /\ OpAad(aam, y).al = x

\* Depositing bits under a mask and extracting them again keeps as many as the mask has;
\* extracting and depositing keeps the bits of the mask; bzhi keeps the low ones; bt with
\* a signed bit number reaches that bit, in a word aligned to its size from the base.
FieldsInvert ==
    Words =>
        LET x == in.x
            y == in.y
            ones == Cardinality({i \in 0 .. 7 : Bit(y, i) = 1})
            i == y % 10
            bzhi == OpBzhi(8, Carry(in.c), x, i) IN
        /\ Pext(8, Pdep(8, x, y), y) = x % 2^ones
        /\ Pdep(8, Pext(8, x, y), y) = And(8, x, y)
        /\ bzhi.z = Pext(8, x, IF i > 8 THEN 255 ELSE 2^i - 1) /\ bzhi.f[CF] = Bool(i > 7)
        /\ \A w \in {16, 32, 64} : LET n == 256 * Signed(8, x) + y IN
             8 * BitWord(w, n) + BitOf(w, n) = n /\ BitOf(w, n) \in 0 .. w - 1 /\ BitWord(w, n) % (w \div 8) = 0

(* Multiplication and division. *)

\* The product of two words by halves and carries is exact, for both signs, and CF and OF
\* say whether it needs the upper word; clmul is the product of polynomials over bits.
ProductsExact ==
    Words =>
        LET x == in.x
            y == in.y
            F == Carry(in.c)
            mul == OpMulRdxRaxEvqpUnsigned64(8, F, x, y)
            imul == OpMulRdxRaxEvqpSigned64(8, F, x, y)
            exact == Signed(8, x) * Signed(8, y)
            cl == Value(4, clmul(4, x % 16, y % 16)) IN
        /\ Value(8, mul.d) = x * y /\ mul.f[CF] = Bool(x * y > 255)
        /\ Signed(16, Value(8, imul.d)) = exact /\ imul.f[OF] = Bool(exact \notin -128 .. 127)
        /\ \A j \in 0 .. 7 : Bit(cl, j) =
             Cardinality({i \in 0 .. 3 : j - i \in 0 .. 3 /\ Bit(x, i) = 1 /\ Bit(y, j - i) = 1}) % 2

\* A quotient of a double word by d and its remainder, where a word can hold them.
Quotients(X, d, low, high) ==
    {qr \in (low .. high) \X (low .. high) :
        /\ X = qr[1] * d + qr[2]
        /\ -qr[2] < (IF d < 0 THEN -d ELSE d) /\ qr[2] < (IF d < 0 THEN -d ELSE d)
        /\ qr[2] # 0 => (qr[2] < 0) = (X < 0)}

Answers(r, S, k) == IF S = {} THEN r.err ELSE ~r.err /\ \E qr \in S : r.q = Trunc(k, qr[1]) /\ r.r = Trunc(k, qr[2])

\* Shift-and-subtract division of a double word, and the narrower forms through a wider
\* type, find the quotient and the remainder exactly when they fit, and raise the divide
\* error otherwise: zero divisors, the most negative number, overflow by one.
DivisionsExact ==
    (Words /\ in.y < 16 /\ in.c = 0) =>
        LET a == Dubble(in.x % 16, in.x \div 16)
            u == IF in.y = 0 THEN {} ELSE Quotients(in.x, in.y, 0, 15)
            s == IF in.y = 0 THEN {} ELSE Quotients(Signed(8, in.x), Signed(4, in.y), -8, 7) IN
        /\ Answers(OpDivRdxRaxEvqpUnsigned64(4, a, in.y), u, 4) /\ Answers(OpDivUnsigned(4, a, in.y), u, 4)
        /\ Answers(OpDivRdxRaxEvqpSigned64(4, a, in.y), s, 4) /\ Answers(OpDivSigned(4, a, in.y), s, 4)

(* String instructions. *)

\* rep movsb and rep stosb in chunks of pages do what the loop of single elements does,
\* in both directions and when the areas overlap.  (rep movsb onto itself is left out: it
\* returns without counting.)
ChunksMatchLoop ==
    Strings =>
        /\ in.m.di # in.m.si => OpMovsb(3, in.m) = StringOp("movs", 3, in.m)
        /\ OpStosb(3, in.m) = StringOp("stos", 3, in.m)

\* repne scasb stops behind the first byte equal to al, repe cmpsb behind the first pair
\* that differs, with cx the number of bytes not looked at; with none cx is 0.
ScansStopAtFirst ==
    Strings =>
        LET m == in.m
            At(r, j) == m.mem[r + Step(m) * j]
            found == {j \in 0 .. m.cx - 1 : At(m.di, j) = m.al}
            differ == {j \in 0 .. m.cx - 1 : At(m.di, j) # At(m.si, j)}
            After(S) == IF S = {} THEN m.cx ELSE Least(S) + 1
            scas == StringOp("scas", 2, m)
            cmps == StringOp("cmps", 3, m) IN
        /\ scas.di = m.di + Step(m) * After(found) /\ scas.cx = m.cx - After(found)
        /\ cmps.si = m.si + Step(m) * After(differ) /\ cmps.cx = m.cx - After(differ)
        /\ m.cx > 0 => scas.zf = Bool(found # {}) /\ cmps.zf = Bool(differ = {})

(* The same by the hazard they are about. *)

\* Subtraction with its flags decides comparisons, and carries join words to double ones.
OrderAndCarryExact == CompareDecides /\ CarryChains

\* Shifting by a count, in one word, a ring or two joined words.
ShiftsCompose == ShiftsRepeat /\ RotationsInvert /\ DoubleShiftsJoin

\* What is kept in parts of a word survives being taken apart and put together: flags, bit
\* fields, decimal digits.
EncodingsSurvive == FlagsRoundTrip /\ FieldsInvert /\ DecimalAdjusts

\* Products and quotients of double words, without a type that holds them.
DoubleWordsExact == ProductsExact /\ DivisionsExact

\* String instructions in chunks and loops.
StringsMatch == ChunksMatchLoop /\ ScansStopAtFirst
=============================================================================
