------------------------------- MODULE DivMul -------------------------------
(***************************************************************************)
(* Multiplication and division of the interpreter (divmul.c, clmul.c).     *)
(* The build has no 128-bit integers, so that the 64-bit forms compute     *)
(* with pairs of words (struct Dubble); the narrower forms use the next    *)
(* wider C type.  k is the width of a word; a double word is a record of   *)
(* two words.  A division answers a record with err, which stands for      *)
(* RaiseDivideError, the quotient and the remainder.                       *)
(***************************************************************************)
EXTENDS Alu

Dubble(lo, hi) == [lo |-> lo, hi |-> hi]
Value(k, d) == d.hi * 2^k + d.lo

\* x.lo - 1 > x.lo exactly when x.lo is 0.
DubbleNeg(k, x) == Dubble(Trunc(k, -x.lo), Trunc(k, -1 - (x.hi - Bool(Trunc(k, x.lo - 1) > x.lo))))
DubbleShl(k, x) == Dubble(Trunc(k, x.lo * 2), Trunc(k, x.hi * 2) + Sign(k, x.lo))
DubbleShr(k, x) == Dubble(x.lo \div 2 + Bit(x.hi, 0) * 2^(k - 1), x.hi \div 2)
DubbleLte(a, b) == IF a.hi = b.hi THEN a.lo <= b.lo ELSE a.hi <= b.hi

\* Schoolbook multiplication by halves of words; every sum is a word.
DubbleMul(k, a, b) ==
    LET H == 2^(k \div 2)
        x1 == (a % H) * (b % H)
        t1 == Trunc(k, x1 \div H + (a \div H) * (b % H))
        x2 == (x1 % H) + (t1 % H) * H
        t2 == Trunc(k, x2 \div H + (b \div H) * (a % H))
        x3 == (x2 % H) + (t2 % H) * H IN
    Dubble(x3, Trunc(k, t1 \div H + t2 \div H + (a \div H) * (b \div H)))

Abs(k, a) == IF Sign(k, a) = 1 THEN Trunc(k, -a) ELSE a

DubbleImul(k, a, b) ==
    LET p == DubbleMul(k, Abs(k, a), Abs(k, b)) IN
    IF Sign(k, a) # Sign(k, b) THEN DubbleNeg(k, p) ELSE p

\* a - d by words; c is the borrow out of the upper word.
Minus(k, a, d) ==
    LET lo == Trunc(k, a.lo - d.lo)
        c == Bool(lo > a.lo)
        hi == Trunc(k, a.hi - Trunc(k, d.hi + c)) IN
    [d |-> Dubble(lo, hi), c |-> hi > a.hi]

\* One bit of a quotient: the divisor d comes down by one and is taken from a if it fits.
QuotientBit(k, was) ==
    LET d == DubbleShr(k, was.d)
        q == DubbleShl(k, was.q)
        r == Minus(k, was.a, d) IN
    IF r.c THEN [a |-> was.a, d |-> d, q |-> q]
    ELSE [a |-> r.d, d |-> d, q |-> Dubble(Trunc(k, q.lo + 1), q.hi)]

\* The divisor is shifted up until it exceeds a, or for 2k steps (the top bits fall out),
\* and down again, one bit of the quotient at a step.
DubbleDiv(k, a, b) ==
    LET up[i \in 0 .. 2 * k] == IF i = 0 THEN Dubble(b, 0) ELSE DubbleShl(k, up[i - 1])
        stops == {i \in 0 .. 2 * k - 1 : ~DubbleLte(up[i], a)} \cup {2 * k}
        n == CHOOSE i \in stops : \A j \in stops : i <= j
        down[i \in 0 .. n] ==
            IF i = 0 THEN [a |-> a, d |-> up[n], q |-> Dubble(0, 0)] ELSE QuotientBit(k, down[i - 1]) IN
    [q |-> down[n].q, r |-> down[n].a.lo]

DubbleIdiv(k, a, b) ==
    LET s == Sign(k, a.hi)
        r == DubbleDiv(k, IF s = 1 THEN DubbleNeg(k, a) ELSE a, Abs(k, b)) IN
    [q |-> IF s # Sign(k, b) THEN DubbleNeg(k, r.q) ELSE r.q, r |-> IF s = 1 THEN Trunc(k, -r.r) ELSE r.r]

DivideError == [err |-> TRUE, q |-> 0, r |-> 0]
Divided(k, q, r) == [err |-> FALSE, q |-> Trunc(k, q), r |-> Trunc(k, r)]

(* 64 bits. *)

OpDivRdxRaxEvqpUnsigned64(k, a, d) ==
    LET r == DubbleDiv(k, a, d) IN
    IF d = 0 \/ r.q.hi # 0 THEN DivideError ELSE Divided(k, r.q.lo, r.r)

\* Mutant of OpDivRdxRaxEvqpSigned64: a quotient with the sign of the upper word lost passes.
SignedNoRange(k, a, d) ==
    LET r == DubbleIdiv(k, a, d) IN
    IF d = 0 \/ (Sign(k, r.q.lo) = 0 /\ r.q.hi # 0) THEN DivideError ELSE Divided(k, r.q.lo, r.r)
OpDivRdxRaxEvqpSigned64(k, a, d) ==
    LET r == DubbleIdiv(k, a, d) IN
    IF \/ d = 0
       \/ a.lo = 0 /\ a.hi = 2^(k - 1)
       \/ Sign(k, r.q.lo) = 1 /\ r.q.hi # 2^k - 1
       \/ Sign(k, r.q.lo) = 0 /\ r.q.hi # 0
    THEN DivideError
    ELSE Divided(k, r.q.lo, r.r)

MulFlags(f, of) == [f EXCEPT ![CF] = of, ![OF] = of]

OpMulRdxRaxEvqpUnsigned64(k, f, a, x) ==
    LET p == DubbleMul(k, a, x) IN [d |-> p, f |-> MulFlags(f, Bool(p.hi # 0))]

\* Mutant of OpMulRdxRaxEvqpSigned64: overflow is a nonzero upper word.
ImulUpperWord(k, f, a, x) ==
    LET p == DubbleImul(k, a, x) IN [d |-> p, f |-> MulFlags(f, Bool(p.hi # 0))]
OpMulRdxRaxEvqpSigned64(k, f, a, x) ==
    LET p == DubbleImul(k, a, x) IN [d |-> p, f |-> MulFlags(f, Bool(Trunc(k, p.hi + Sign(k, p.lo)) # 0))]

(* 8, 16 and 32 bits: C division truncates and takes the sign of the dividend. *)

Quotient(x, y) ==
    LET mag == (IF x < 0 THEN -x ELSE x) \div (IF y < 0 THEN -y ELSE y) IN
    IF (x < 0) # (y < 0) THEN -mag ELSE mag
Remainder(x, y) == x - Quotient(x, y) * y

OpDivSigned(k, a, d) ==
    LET x == Signed(2 * k, Value(k, a))
        y == Signed(k, d)
        q == Quotient(x, y) IN
    IF y = 0 \/ x = -(2^(2 * k - 1)) \/ q # Signed(k, Trunc(k, q)) THEN DivideError
    ELSE Divided(k, q, Remainder(x, y))

OpDivUnsigned(k, a, d) ==
    LET x == Value(k, a) IN
    IF d = 0 \/ x \div d > 2^k - 1 THEN DivideError ELSE Divided(k, x \div d, x % d)

(* Carry-less multiplication: the factor with the higher top bit is the one that is shifted. *)

TopBit(k, x) == CHOOSE i \in 0 .. k - 1 : Bit(x, i) = 1 /\ x < 2^(i + 1)

\* One bit of the short factor: the long one, of upper word t, is added if it is set, and doubled.
ClmulBit(k, was, take) ==
    [x |-> IF take THEN Xor(k, was.x, was.a) ELSE was.x,
     y |-> IF take THEN Xor(k, was.y, was.t) ELSE was.y,
     t |-> Trunc(k, was.t * 2) + Sign(k, was.a), a |-> Trunc(k, was.a * 2)]

clmul(k, a, b) ==
    LET swap == a # 0 /\ b # 0 /\ TopBit(k, a) < TopBit(k, b)
        long == IF swap THEN b ELSE a
        short == IF swap THEN a ELSE b
        step[i \in 0 .. k] ==
            IF i = 0 THEN [a |-> long, t |-> 0, x |-> 0, y |-> 0]
            ELSE ClmulBit(k, step[i - 1], Bit(short, i - 1) = 1) IN
    IF a = 0 \/ b = 0 THEN Dubble(0, 0) ELSE Dubble(step[k].x, step[k].y)
=============================================================================
