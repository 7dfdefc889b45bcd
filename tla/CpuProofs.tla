------------------------------ MODULE CpuProofs ------------------------------
(***************************************************************************)
(* Proofs about the integer unit: addition, subtraction, comparison,       *)
(* multiplication and division at every width, the string instructions for *)
(* every memory, page and count, and what the runs check of them for every *)
(* choice of operands.  What the proofs use of a width k is Width(k), that *)
(* its words have a top bit and nibbles, and where two words or two halves *)
(* make one number Doubles(k), Halved(k) and Powers(k), which are laws of  *)
(* exponents that the provers do not know.  They confirm them for the      *)
(* widths up to 32 bits; they cannot write 2^64.                           *)
(***************************************************************************)
EXTENDS Cpu, FiniteSetTheorems, TLAPS

Width(k) ==
    /\ k \in Nat /\ 2^k \in Nat /\ 2^(k - 1) \in Nat
    /\ 2^k = 2 * 2^(k - 1) /\ 2^(k - 1) >= 8

WordsOf(k) == 0 .. 2^k - 1
FlagWords == [FlagBits \cup {LP} -> Nat]

LEMMA CodeWidths == \A k \in {4, 8, 16, 32} : Width(k)
<1>1. Width(4)
  BY DEF Width
<1>2. Width(8)
  BY DEF Width
<1>3. Width(16)
  BY DEF Width
<1>4. Width(32)
  BY DEF Width
<1> QED
  BY <1>1, <1>2, <1>3, <1>4

\* Division and remainder within one divisor of the range.
LEMMA NearModulo ==
  ASSUME NEW N \in Nat, N > 0, NEW x \in Int, -N <= x, x < 2 * N
  PROVE  /\ x % N = IF x < 0 THEN x + N ELSE IF x < N THEN x ELSE x - N
         /\ x \div N = IF x < 0 THEN -1 ELSE IF x < N THEN 0 ELSE 1
<1>1. CASE x < 0
  BY <1>1
<1>2. CASE x >= 0 /\ x < N
  BY <1>2
<1>3. CASE x >= N
  BY <1>3
<1> QED
  BY <1>1, <1>2, <1>3

LEMMA TruncIs ==
  ASSUME NEW k, Width(k), NEW x \in Int, -(2^k) <= x, x < 2 * 2^k
  PROVE  Trunc(k, x) = IF x < 0 THEN x + 2^k ELSE IF x < 2^k THEN x ELSE x - 2^k
<1> DEFINE M == 2^k
<1>1. M \in Nat /\ M > 0 /\ -M <= x /\ x < 2 * M
  BY DEF Width
<1> HIDE DEF M
<1>2. x % M = IF x < 0 THEN x + M ELSE IF x < M THEN x ELSE x - M
  BY <1>1, NearModulo
<1> QED
  BY <1>2 DEF M, Trunc

LEMMA SignIs ==
  ASSUME NEW k, Width(k), NEW x \in WordsOf(k)
  PROVE  Sign(k, x) = IF x < 2^(k - 1) THEN 0 ELSE 1
<1> DEFINE H == 2^(k - 1)
<1>1. H \in Nat /\ H > 0 /\ x \in Int /\ -H <= x /\ x < 2 * H /\ x >= 0
  BY DEF Width, WordsOf
<1> HIDE DEF H
<1>2. x \div H = IF x < H THEN 0 ELSE 1
  BY <1>1, NearModulo
<1> QED
  BY <1>2 DEF H, Sign, Bit

LEMMA SignedIs ==
  ASSUME NEW k, Width(k), NEW x \in WordsOf(k)
  PROVE  Signed(k, x) = IF x < 2^(k - 1) THEN x ELSE x - 2^k
<1>1. Sign(k, x) = IF x < 2^(k - 1) THEN 0 ELSE 1
  BY SignIs
<1> QED
  BY <1>1 DEF Signed

\* The flags an operation sets, and those it leaves.
LEMMA AluFlagsAre ==
  ASSUME NEW k, NEW f \in FlagWords, NEW x, NEW af, NEW of, NEW cf
  PROVE  LET r == AluFlags(k, f, x, af, of, cf) IN
         /\ r.z = x /\ DOMAIN r.f = FlagBits \cup {LP}
         /\ r.f[CF] = cf /\ r.f[OF] = of /\ r.f[AF] = af
         /\ r.f[ZF] = Bool(x = 0) /\ r.f[SF] = Sign(k, x) /\ r.f[LP] = x % 256
BY DEF AluFlags, FlagWords, FlagBits, CF, PF, AF, ZF, SF, DF, OF, LP

(* Subtraction and addition with carry. *)

LEMMA SubExact ==
  ASSUME NEW k, Width(k), NEW f \in FlagWords, NEW x \in WordsOf(k), NEW y \in WordsOf(k)
  PROVE  LET r == Sub(k, f, x, y)
             d == Signed(k, x) - Signed(k, y) IN
         /\ r.z \in WordsOf(k) /\ r.z = (IF x < y THEN x - y + 2^k ELSE x - y)
         /\ r.f[CF] = Bool(x < y) /\ r.f[ZF] = Bool(x = y)
         /\ r.f[SF] = Bool(r.z >= 2^(k - 1))
         /\ r.f[OF] = Bool(d < -(2^(k - 1)) \/ d >= 2^(k - 1))
<1> DEFINE M == 2^k
           H == 2^(k - 1)
           z == Trunc(k, x - y)
<1>1. M \in Nat /\ H \in Nat /\ H >= 8 /\ M = 2 * H /\ x \in 0 .. M - 1 /\ y \in 0 .. M - 1
  BY DEF Width, WordsOf
<1>2. z = (IF x < y THEN x - y + M ELSE x - y) /\ z \in 0 .. M - 1
  BY <1>1, TruncIs
<1>3. z \in WordsOf(k)
  BY <1>2 DEF WordsOf
<1>4. /\ Sign(k, x) = IF x < H THEN 0 ELSE 1
      /\ Sign(k, y) = IF y < H THEN 0 ELSE 1
      /\ Sign(k, z) = IF z < H THEN 0 ELSE 1
  BY <1>3, SignIs
<1>5. /\ Signed(k, x) = IF x < H THEN x ELSE x - M
      /\ Signed(k, y) = IF y < H THEN y ELSE y - M
  BY SignedIs
<1> DEFINE r == Sub(k, f, x, y)
<1>6. /\ r.z = z /\ r.f[CF] = Below(x, z) /\ r.f[ZF] = Bool(z = 0) /\ r.f[SF] = Sign(k, z)
      /\ r.f[OF] = Overflow(k, x, y, z, x)
  BY AluFlagsAre DEF Sub
<1> HIDE DEF M, H, z, r
<1>7. Below(x, z) = Bool(x < y) /\ Bool(z = 0) = Bool(x = y)
  BY <1>1, <1>2 DEF Below, Bool
<1>8. Sign(k, z) = Bool(z >= H)
  BY <1>1, <1>2, <1>4 DEF Bool
<1>9. LET d == Signed(k, x) - Signed(k, y) IN
      Overflow(k, x, y, z, x) = Bool(d < -H \/ d >= H)
  BY <1>1, <1>2, <1>4, <1>5 DEF Overflow, Bool
<1> QED
  BY <1>2, <1>3, <1>6, <1>7, <1>8, <1>9 DEF M, H, r

\* With a borrow.
LEMMA SbbExact ==
  ASSUME NEW k, Width(k), NEW f \in FlagWords, f[CF] \in 0 .. 1, NEW x \in WordsOf(k), NEW y \in WordsOf(k)
  PROVE  LET r == Sbb(k, f, x, y)
             d == Signed(k, x) - Signed(k, y) - f[CF] IN
         /\ r.z \in WordsOf(k) /\ r.z = (IF x < y + f[CF] THEN x - y - f[CF] + 2^k ELSE x - y - f[CF])
         /\ r.f[CF] = Bool(x < y + f[CF])
         /\ r.f[OF] = Bool(d < -(2^(k - 1)) \/ d >= 2^(k - 1))
<1> DEFINE M == 2^k
           H == 2^(k - 1)
           c == f[CF]
           u == Trunc(k, x - c)
           z == Trunc(k, u - y)
<1>1. /\ M \in Nat /\ H \in Nat /\ H >= 8 /\ M = 2 * H /\ x \in 0 .. M - 1 /\ y \in 0 .. M - 1
      /\ c \in 0 .. 1
  BY DEF Width, WordsOf
<1>2. u = (IF x < c THEN x - c + M ELSE x - c) /\ u \in 0 .. M - 1
  BY <1>1, TruncIs
<1>3. z = (IF u < y THEN u - y + M ELSE u - y) /\ z \in 0 .. M - 1
  <2>1. u - y \in Int /\ -M <= u - y /\ u - y < 2 * M
    BY <1>1, <1>2
  <2> QED
    BY <1>1, <1>2, <2>1, TruncIs
<1>4. z \in WordsOf(k)
  BY <1>3 DEF WordsOf
<1>5. /\ Sign(k, x) = IF x < H THEN 0 ELSE 1
      /\ Sign(k, y) = IF y < H THEN 0 ELSE 1
      /\ Sign(k, z) = IF z < H THEN 0 ELSE 1
  BY <1>4, SignIs
<1>6. /\ Signed(k, x) = IF x < H THEN x ELSE x - M
      /\ Signed(k, y) = IF y < H THEN y ELSE y - M
  BY SignedIs
<1> DEFINE r == Sbb(k, f, x, y)
<1>7. /\ r.z = z /\ r.f[CF] = Bool(x < u \/ u < z) /\ r.f[OF] = Overflow(k, z, x, x, y)
  BY AluFlagsAre DEF Sbb
<1> HIDE DEF M, H, c, u, z, r
<1>8. Bool(x < u \/ u < z) = Bool(x < y + c)
  BY <1>1, <1>2, <1>3 DEF Bool
<1>9. LET d == Signed(k, x) - Signed(k, y) - c IN
      Overflow(k, z, x, x, y) = Bool(d < -H \/ d >= H)
  BY <1>1, <1>2, <1>3, <1>5, <1>6 DEF Overflow, Bool
<1>10. z = (IF x < y + c THEN x - y - c + M ELSE x - y - c)
  BY <1>1, <1>2, <1>3
<1> QED
  BY <1>4, <1>7, <1>8, <1>9, <1>10 DEF M, H, c, r

LEMMA AdcExact ==
  ASSUME NEW k, Width(k), NEW f \in FlagWords, f[CF] \in 0 .. 1, NEW x \in WordsOf(k), NEW y \in WordsOf(k)
  PROVE  LET r == Adc(k, f, x, y)
             d == Signed(k, x) + Signed(k, y) + f[CF] IN
         /\ r.z \in WordsOf(k) /\ r.z = (IF x + y + f[CF] < 2^k THEN x + y + f[CF] ELSE x + y + f[CF] - 2^k)
         /\ r.f[CF] = Bool(x + y + f[CF] >= 2^k)
         /\ r.f[OF] = Bool(d < -(2^(k - 1)) \/ d >= 2^(k - 1))
<1> DEFINE M == 2^k
           H == 2^(k - 1)
           c == f[CF]
           u == Trunc(k, x + c)
           z == Trunc(k, u + y)
<1>1. /\ M \in Nat /\ H \in Nat /\ H >= 8 /\ M = 2 * H /\ x \in 0 .. M - 1 /\ y \in 0 .. M - 1
      /\ c \in 0 .. 1
  BY DEF Width, WordsOf
<1>2. u = (IF x + c < M THEN x + c ELSE x + c - M) /\ u \in 0 .. M - 1
  BY <1>1, TruncIs
<1>3. z = (IF u + y < M THEN u + y ELSE u + y - M) /\ z \in 0 .. M - 1
  <2>1. u + y \in Int /\ -M <= u + y /\ u + y < 2 * M
    BY <1>1, <1>2
  <2> QED
    BY <1>1, <1>2, <2>1, TruncIs
<1>4. z \in WordsOf(k)
  BY <1>3 DEF WordsOf
<1>5. /\ Sign(k, x) = IF x < H THEN 0 ELSE 1
      /\ Sign(k, y) = IF y < H THEN 0 ELSE 1
      /\ Sign(k, z) = IF z < H THEN 0 ELSE 1
  BY <1>4, SignIs
<1>6. /\ Signed(k, x) = IF x < H THEN x ELSE x - M
      /\ Signed(k, y) = IF y < H THEN y ELSE y - M
  BY SignedIs
<1> DEFINE r == Adc(k, f, x, y)
<1>7. /\ r.z = z /\ r.f[CF] = Bool(u < x \/ z < y) /\ r.f[OF] = Overflow(k, z, x, z, y)
  BY AluFlagsAre DEF Adc
<1> HIDE DEF M, H, c, u, z, r
<1>8. Bool(u < x \/ z < y) = Bool(x + y + c >= M)
  BY <1>1, <1>2, <1>3 DEF Bool
<1>9. LET d == Signed(k, x) + Signed(k, y) + c IN
      Overflow(k, z, x, z, y) = Bool(d < -H \/ d >= H)
  BY <1>1, <1>2, <1>3, <1>5, <1>6 DEF Overflow, Bool
<1>10. z = (IF x + y + c < M THEN x + y + c ELSE x + y + c - M)
  BY <1>1, <1>2, <1>3
<1> QED
  BY <1>4, <1>7, <1>8, <1>9, <1>10 DEF M, H, c, r

LEMMA AddExact ==
  ASSUME NEW k, Width(k), NEW f \in FlagWords, NEW x \in WordsOf(k), NEW y \in WordsOf(k)
  PROVE  LET r == Add(k, f, x, y)
             d == Signed(k, x) + Signed(k, y) IN
         /\ r.z \in WordsOf(k) /\ r.z = (IF x + y < 2^k THEN x + y ELSE x + y - 2^k)
         /\ r.f[CF] = Bool(x + y >= 2^k)
         /\ r.f[OF] = Bool(d < -(2^(k - 1)) \/ d >= 2^(k - 1))
<1> DEFINE M == 2^k
           H == 2^(k - 1)
           z == Trunc(k, x + y)
<1>1. M \in Nat /\ H \in Nat /\ H >= 8 /\ M = 2 * H /\ x \in 0 .. M - 1 /\ y \in 0 .. M - 1
  BY DEF Width, WordsOf
<1>2. z = (IF x + y < M THEN x + y ELSE x + y - M) /\ z \in 0 .. M - 1
  BY <1>1, TruncIs
<1>3. z \in WordsOf(k)
  BY <1>2 DEF WordsOf
<1>4. /\ Sign(k, x) = IF x < H THEN 0 ELSE 1
      /\ Sign(k, y) = IF y < H THEN 0 ELSE 1
      /\ Sign(k, z) = IF z < H THEN 0 ELSE 1
  BY <1>3, SignIs
<1>5. /\ Signed(k, x) = IF x < H THEN x ELSE x - M
      /\ Signed(k, y) = IF y < H THEN y ELSE y - M
  BY SignedIs
<1> DEFINE r == Add(k, f, x, y)
<1>6. r.z = z /\ r.f[CF] = Below(z, y) /\ r.f[OF] = Overflow(k, z, x, z, y)
  BY AluFlagsAre DEF Add
<1> HIDE DEF M, H, z, r
<1>7. Below(z, y) = Bool(x + y >= M)
  BY <1>1, <1>2 DEF Below, Bool
<1>8. LET d == Signed(k, x) + Signed(k, y) IN
      Overflow(k, z, x, z, y) = Bool(d < -H \/ d >= H)
  BY <1>1, <1>2, <1>4, <1>5 DEF Overflow, Bool
<1> QED
  BY <1>2, <1>3, <1>6, <1>7, <1>8 DEF M, H, r

Decides(k, g, x, y) ==
    LET s == Signed(k, x)
        t == Signed(k, y) IN
    /\ g[ZF] = Bool(x = y) /\ g[CF] = Bool(x < y)
    /\ IsBelowOrEqual(g) = Bool(x <= y) /\ IsAbove(g) = Bool(x > y)
    /\ IsLess(g) = Bool(s < t) /\ IsGreaterOrEqual(g) = Bool(s >= t)
    /\ IsLessOrEqual(g) = Bool(s <= t) /\ IsGreater(g) = Bool(s > t)

\* Comparison at every width: cmp (Sub8 .. Sub64 of alu.c) and the conditions of flags.h
\* decide the order of any two words, unsigned and signed.
THEOREM CompareAtEveryWidth ==
  ASSUME NEW k, Width(k), NEW f \in FlagWords, NEW x \in WordsOf(k), NEW y \in WordsOf(k)
  PROVE  Decides(k, Sub(k, f, x, y).f, x, y)
<1> DEFINE M == 2^k
           H == 2^(k - 1)
           r == Sub(k, f, x, y)
           g == r.f
           s == Signed(k, x)
           t == Signed(k, y)
<1>1. M \in Nat /\ H \in Nat /\ H >= 8 /\ M = 2 * H /\ x \in 0 .. M - 1 /\ y \in 0 .. M - 1
  BY DEF Width, WordsOf
<1>2. s = (IF x < H THEN x ELSE x - M) /\ t = (IF y < H THEN y ELSE y - M)
  BY SignedIs
<1>3. /\ r.z = (IF x < y THEN x - y + M ELSE x - y)
      /\ g[CF] = Bool(x < y) /\ g[ZF] = Bool(x = y) /\ g[SF] = Bool(r.z >= H)
      /\ g[OF] = Bool(s - t < -H \/ s - t >= H)
  BY SubExact
<1> HIDE DEF M, H, r, g, s, t
<1>4. (g[7] # g[11]) <=> s < t
  BY <1>1, <1>2, <1>3 DEF SF, OF, Bool
<1>5. (g[6] = 1 <=> x = y) /\ (g[0] = 1 <=> x < y) /\ g[6] \in 0 .. 1 /\ g[0] \in 0 .. 1
  BY <1>3 DEF CF, ZF, Bool
<1>6. (s = t <=> x = y) /\ s \in Int /\ t \in Int
  BY <1>1, <1>2
<1>7. IsBelowOrEqual(g) = Bool(x <= y) /\ IsAbove(g) = Bool(x > y)
  BY <1>1, <1>5 DEF IsBelowOrEqual, IsAbove, Bool, Not
<1>8. IsLess(g) = Bool(s < t) /\ IsGreaterOrEqual(g) = Bool(s >= t)
  BY <1>4, <1>6 DEF IsLess, IsGreaterOrEqual, Bool, Not
<1>9. IsLessOrEqual(g) = Bool(s <= t) /\ IsGreater(g) = Bool(s > t)
  BY <1>4, <1>5, <1>6 DEF IsLessOrEqual, IsGreater, Bool, Not
<1> QED
  BY <1>3, <1>7, <1>8, <1>9 DEF g, s, t, r, Decides

(* Two words as the halves of one of twice the width. *)

Doubles(k) ==
    /\ Width(k) /\ Width(2 * k)
    /\ 2^(2 * k) = 2^k * 2^k /\ 2^(2 * k - 1) = 2^k * 2^(k - 1)

LEMMA CodeDoubles == \A k \in {4, 8, 16} : Doubles(k)
<1>1. Doubles(4)
  BY CodeWidths DEF Doubles
<1>2. Doubles(8)
  BY CodeWidths DEF Doubles
<1>3. Doubles(16)
  BY CodeWidths DEF Doubles
<1> QED
  BY <1>1, <1>2, <1>3

LEMMA DivMod ==
  ASSUME NEW M \in Nat, M > 0, NEW x \in Nat
  PROVE  \E q \in Nat, r \in 0 .. M - 1 : q = x \div M /\ r = x % M /\ x = M * q + r
<1>1. x \div M \in Nat /\ x % M \in 0 .. M - 1
  OBVIOUS
<1>2. PICK q \in Nat, r \in 0 .. M - 1 : q = x \div M /\ r = x % M
  BY <1>1
<1>3. x = M * q + r
  BY <1>2
<1> QED
  BY <1>2, <1>3

LEMMA Positive ==
  ASSUME NEW a \in Nat, NEW b \in Nat, NEW c \in Nat, a < b
  PROVE  c * a + c <= c * b
<1>1. PICK d \in Nat : b = a + d + 1
  <2>1. b - a - 1 \in Nat /\ b = a + (b - a - 1) + 1
    OBVIOUS
  <2> QED
    BY <2>1
<1>2. c * b = c * a + c * d + c /\ c * d \in Nat
  BY <1>1
<1>3. c * a \in Nat
  OBVIOUS
<1> QED
  BY <1>2, <1>3

\* The halves of a word of twice the width, and its sign.
LEMMA Halves ==
  ASSUME NEW k, Doubles(k), NEW x \in WordsOf(2 * k)
  PROVE  /\ x % 2^k \in WordsOf(k) /\ x \div 2^k \in WordsOf(k)
         /\ \E h \in 0 .. 2^k - 1, l \in 0 .. 2^k - 1 :
              /\ h = x \div 2^k /\ l = x % 2^k /\ x = 2^k * h + l
              /\ Signed(2 * k, x) = 2^k * Signed(k, h) + l
<1> DEFINE M == 2^k
           H == 2^(k - 1)
           h == x \div M
           l == x % M
           N == 2^(2 * k)
           G == 2^(2 * k - 1)
<1>1. M \in Nat /\ H \in Nat /\ H >= 8 /\ M = 2 * H /\ N = M * M /\ G = M * H /\ x \in 0 .. N - 1
  BY DEF Doubles, Width, WordsOf
<1>2. h \in Nat /\ l \in 0 .. M - 1 /\ x = M * h + l
  <2>1. x \in Nat /\ M > 0
    BY <1>1
  <2>2. \E q \in Nat, r \in 0 .. M - 1 : q = h /\ r = l /\ x = M * q + r
    BY <1>1, <2>1, DivMod
  <2> HIDE DEF h, l, M
  <2> QED
    BY <2>2
<1> HIDE DEF h, l, M, H, N, G
<1>3. h < M
  <2>1. ASSUME h >= M PROVE FALSE
    <3>1. M * h >= M * M
      BY ONLY <1>1, <1>2, <2>1
    <3> QED
      BY <1>1, <1>2, <3>1
  <2> QED
    BY <1>1, <1>2, <2>1
<1>4. h \in WordsOf(k) /\ l \in WordsOf(k)
  BY <1>1, <1>2, <1>3 DEF WordsOf, M
<1>5. Signed(k, h) = IF h < H THEN h ELSE h - M
  BY <1>4, SignedIs DEF Doubles, H, M
<1>6. Signed(2 * k, x) = IF x < G THEN x ELSE x - N
  BY SignedIs DEF Doubles, G, N
<1>7. Signed(2 * k, x) = M * Signed(k, h) + l
  <2>1. CASE h < H
    <3>1. M * h + M <= M * H
      BY ONLY <1>1, <1>2, <2>1, Positive
    <3>2. x < G
      BY <1>1, <1>2, <3>1
    <3> QED
      BY <1>2, <1>5, <1>6, <2>1, <3>2
  <2>2. CASE ~(h < H)
    <3>1. M * H <= M * h
      <4>1. CASE h = H
        BY <1>1, <4>1
      <4>2. CASE h # H
        <5>1. M * H + M <= M * h
          BY ONLY <1>1, <1>2, <2>2, <4>2, Positive
        <5> QED
          BY <1>1, <1>2, <5>1
      <4> QED
        BY <4>1, <4>2
    <3>2. ~(x < G)
      BY <1>1, <1>2, <3>1
    <3>3. M * (h - M) + l = x - N
      BY ONLY <1>1, <1>2
    <3> QED
      BY <1>5, <1>6, <2>2, <3>2, <3>3
  <2> QED
    BY <2>1, <2>2
<1>8. \E i \in 0 .. M - 1, j \in 0 .. M - 1 :
        i = h /\ j = l /\ x = M * i + j /\ Signed(2 * k, x) = M * Signed(k, i) + j
  <2>1. h \in 0 .. M - 1
    BY <1>1, <1>2, <1>3
  <2> QED
    BY <1>2, <1>7, <2>1
<1> QED
  BY <1>4, <1>8 DEF h, l, M

LEMMA FlagsStay ==
  ASSUME NEW k, Width(k), NEW f \in FlagWords, NEW x \in WordsOf(k), NEW y \in WordsOf(k)
  PROVE  /\ Add(k, f, x, y).f \in FlagWords /\ Sub(k, f, x, y).f \in FlagWords
         /\ f[CF] \in 0 .. 1 => Adc(k, f, x, y).f \in FlagWords
<1>1. \A b \in BOOLEAN : Bool(b) \in Nat
  BY DEF Bool
<1>2. ASSUME NEW z \in WordsOf(k), NEW af \in Nat, NEW of \in Nat, NEW cf \in Nat
      PROVE  AluFlags(k, f, z, af, of, cf).f \in FlagWords
  <2>1. Sign(k, z) \in Nat
    BY SignIs
  <2>2. z % 256 \in Nat
    BY DEF WordsOf, Width
  <2>3. Bool(z = 0) \in Nat
    BY DEF Bool
  <2> QED
    BY <2>1, <2>2, <2>3 DEF AluFlags, FlagWords
<1>3. \A a, b : Below(a, b) \in Nat
  BY DEF Below, Bool
<1>4. \A a, b, c, d : Overflow(k, a, b, c, d) \in Nat
  BY DEF Overflow, Bool
<1>5. \A P : Bool(P) \in Nat
  BY DEF Bool
<1>6. Add(k, f, x, y).f \in FlagWords
  <2>1. Trunc(k, x + y) \in WordsOf(k)
    <3>1. x + y \in Int /\ -(2^k) <= x + y /\ x + y < 2 * 2^k /\ x + y >= 0 /\ 2^k \in Nat
      BY DEF WordsOf, Width
    <3> QED
      BY <3>1, TruncIs DEF WordsOf
  <2> QED
    BY <1>2, <1>3, <1>4, <2>1 DEF Add
<1>7. Sub(k, f, x, y).f \in FlagWords
  <2>1. Trunc(k, x - y) \in WordsOf(k)
    <3>1. x - y \in Int /\ -(2^k) <= x - y /\ x - y < 2^k /\ x - y < 2 * 2^k /\ 2^k \in Nat
      BY DEF WordsOf, Width
    <3> QED
      BY <3>1, TruncIs DEF WordsOf
  <2> QED
    BY <1>2, <1>3, <1>4, <2>1 DEF Sub
<1>8. ASSUME f[CF] \in 0 .. 1 PROVE Adc(k, f, x, y).f \in FlagWords
  <2>1. Adc(k, f, x, y).z \in WordsOf(k)
    BY <1>8, AdcExact
  <2>2. Trunc(k, Trunc(k, x + f[CF]) + y) \in WordsOf(k)
    BY <2>1 DEF Adc, AluFlags
  <2> QED
    BY <1>2, <1>4, <1>5, <2>2 DEF Adc
<1> QED
  BY <1>6, <1>7, <1>8

\* Comparing numbers by their digits.
LEMMA Digits ==
  ASSUME NEW M \in Nat, NEW l \in 0 .. M - 1, NEW h \in Int, NEW g \in Int
  PROVE  M * h + l < M * g <=> h < g
<1>1. CASE h < g
  <2>1. PICK d \in Nat : g = h + d + 1
    <3>1. g - h - 1 \in Nat /\ g = h + (g - h - 1) + 1
      BY <1>1
    <3> QED
      BY <3>1
  <2>2. M * g = M * h + M * d + M /\ M * d \in Nat /\ M * h \in Int
    BY <2>1
  <2> QED
    BY <1>1, <2>2
<1>2. CASE ~(h < g)
  <2>1. PICK d \in Nat : h = g + d
    <3>1. h - g \in Nat /\ h = g + (h - g)
      BY <1>2
    <3> QED
      BY <3>1
  <2>2. M * h = M * g + M * d /\ M * d \in Nat /\ M * g \in Int
    BY <2>1
  <2> QED
    BY <1>2, <2>2
<1> QED
  BY <1>1, <1>2

\* Sums and differences by digits, the carry of the lower going into the upper one.
LEMMA JoinSum ==
  ASSUME NEW M \in Nat, M > 0, NEW xh \in Int, NEW yh \in Int,
         NEW xl \in 0 .. M - 1, NEW yl \in 0 .. M - 1, NEW c \in 0 .. 1, NEW g \in Int
  PROVE  LET e == IF xl + yl + c < M THEN 0 ELSE 1
             z == IF xl + yl + c < M THEN xl + yl + c ELSE xl + yl + c - M IN
         /\ z \in 0 .. M - 1
         /\ M * (xh + yh + e) + z = (M * xh + xl) + (M * yh + yl) + c
         /\ xh + yh + e < g <=> (M * xh + xl) + (M * yh + yl) + c < M * g
<1> DEFINE e == IF xl + yl + c < M THEN 0 ELSE 1
           z == IF xl + yl + c < M THEN xl + yl + c ELSE xl + yl + c - M
           h == xh + yh + e
<1>1. z \in 0 .. M - 1 /\ e \in 0 .. 1 /\ h \in Int
  OBVIOUS
<1>2. z = xl + yl + c - e * M /\ e * M = M * e
  OBVIOUS
<1>3. M * h = M * xh + M * yh + M * e
  <2> HIDE DEF e
  <2> QED
    BY <1>1
<1>4. M * xh \in Int /\ M * yh \in Int /\ M * e \in Int
  <2> HIDE DEF e
  <2> QED
    BY <1>1
<1>5. M * h + z < M * g <=> h < g
  <2> HIDE DEF h, z
  <2> QED
    BY <1>1, Digits
<1>6. M * h + z = (M * xh + xl) + (M * yh + yl) + c
  <2> HIDE DEF h, z, e
  <2> QED
    BY <1>1, <1>2, <1>3, <1>4
<1> QED
  BY <1>1, <1>5, <1>6

LEMMA JoinDifference ==
  ASSUME NEW M \in Nat, M > 0, NEW xh \in Int, NEW yh \in Int,
         NEW xl \in 0 .. M - 1, NEW yl \in 0 .. M - 1, NEW c \in 0 .. 1, NEW g \in Int
  PROVE  LET e == IF xl < yl + c THEN 1 ELSE 0
             z == IF xl < yl + c THEN xl - yl - c + M ELSE xl - yl - c IN
         /\ z \in 0 .. M - 1
         /\ M * (xh - yh - e) + z = (M * xh + xl) - (M * yh + yl) - c
         /\ xh - yh - e < g <=> (M * xh + xl) - (M * yh + yl) - c < M * g
<1> DEFINE e == IF xl < yl + c THEN 1 ELSE 0
           z == IF xl < yl + c THEN xl - yl - c + M ELSE xl - yl - c
           h == xh - yh - e
<1>1. z \in 0 .. M - 1 /\ e \in 0 .. 1 /\ h \in Int
  OBVIOUS
<1>2. z = xl - yl - c + e * M /\ e * M = M * e
  OBVIOUS
<1>3. M * h = M * xh - M * yh - M * e
  <2> HIDE DEF e
  <2> QED
    BY <1>1
<1>4. M * xh \in Int /\ M * yh \in Int /\ M * e \in Int
  <2> HIDE DEF e
  <2> QED
    BY <1>1
<1>5. M * h + z < M * g <=> h < g
  <2> HIDE DEF h, z
  <2> QED
    BY <1>1, Digits
<1>6. M * h + z = (M * xh + xl) - (M * yh + yl) - c
  <2> HIDE DEF h, z, e
  <2> QED
    BY <1>1, <1>2, <1>3, <1>4
<1> QED
  BY <1>1, <1>5, <1>6

\* x with its halves; what the lower operation leaves; what both together are.
Split(k, x, h, l) ==
    /\ h \in WordsOf(k) /\ l \in WordsOf(k)
    /\ x = 2^k * h + l /\ Signed(2 * k, x) = 2^k * Signed(k, h) + l
LowSum(k, low, x, y, c) ==
    /\ low.f \in FlagWords /\ low.f[CF] = Bool(x + y + c >= 2^k)
    /\ low.z = IF x + y + c < 2^k THEN x + y + c ELSE x + y + c - 2^k
LowDifference(k, low, x, y, c) ==
    /\ low.f \in FlagWords /\ low.f[CF] = Bool(x < y + c)
    /\ low.z = IF x < y + c THEN x - y - c + 2^k ELSE x - y - c
Overflows(k, d) == Bool(d < -(2^(k - 1)) \/ d >= 2^(k - 1))
IsSum(k, low, r, x, y, c) ==
    /\ r.z * 2^k + low.z = Trunc(2 * k, x + y + c)
    /\ r.f[CF] = Bool(x + y + c >= 2^(2 * k))
    /\ r.f[OF] = Overflows(2 * k, Signed(2 * k, x) + Signed(2 * k, y) + c)
IsDifference(k, low, r, x, y, c) ==
    /\ r.z * 2^k + low.z = Trunc(2 * k, x - y - c)
    /\ r.f[CF] = Bool(x < y + c)
    /\ r.f[OF] = Overflows(2 * k, Signed(2 * k, x) - Signed(2 * k, y) - c)

LEMMA Splits ==
  ASSUME NEW k, Doubles(k), NEW x \in WordsOf(2 * k)
  PROVE  \E h, l : h = x \div 2^k /\ l = x % 2^k /\ Split(k, x, h, l)
BY Halves DEF Split

\* adc of the upper halves, after a lower sum that left z and its carry.
LEMMA AdcJoins ==
  ASSUME NEW k, Doubles(k), NEW x \in WordsOf(2 * k), NEW y \in WordsOf(2 * k), NEW c \in 0 .. 1,
         NEW xh, NEW xl, NEW yh, NEW yl, Split(k, x, xh, xl), Split(k, y, yh, yl),
         NEW low, LowSum(k, low, xl, yl, c)
  PROVE  IsSum(k, low, Adc(k, low.f, xh, yh), x, y, c)
<1> DEFINE M == 2^k
           H == 2^(k - 1)
           N == 2^(2 * k)
           G == 2^(2 * k - 1)
<1>1. M \in Nat /\ M > 0 /\ H \in Nat /\ M = 2 * H /\ N = M * M /\ G = M * H /\ Width(k) /\ Width(2 * k) /\ N \in Nat
  BY DEF Doubles, Width
<1>2. xh \in 0 .. M - 1 /\ xl \in 0 .. M - 1 /\ yh \in 0 .. M - 1 /\ yl \in 0 .. M - 1
  BY DEF WordsOf, Split
<1>4. /\ xh \in WordsOf(k) /\ xl \in WordsOf(k) /\ yh \in WordsOf(k) /\ yl \in WordsOf(k)
      /\ low.f \in FlagWords /\ low.f[CF] = Bool(xl + yl + c >= M)
  BY DEF Split, LowSum
<1> DEFINE sx == Signed(k, xh)
           sy == Signed(k, yh)
           e == low.f[CF]
           r == Adc(k, low.f, xh, yh)
<1>3. /\ x = M * xh + xl /\ Signed(2 * k, x) = M * sx + xl
      /\ y = M * yh + yl /\ Signed(2 * k, y) = M * sy + yl
  BY DEF Split
<1>6. e = (IF xl + yl + c < M THEN 0 ELSE 1) /\ e \in 0 .. 1
  BY <1>1, <1>2, <1>4 DEF Bool
<1>7. low.z = IF xl + yl + c < M THEN xl + yl + c ELSE xl + yl + c - M
  BY DEF LowSum
<1>8. sx \in Int /\ sy \in Int
  <2>1. sx = (IF xh < H THEN xh ELSE xh - M) /\ sy = (IF yh < H THEN yh ELSE yh - M)
    BY <1>1, <1>4, SignedIs
  <2> QED
    BY <1>1, <1>2, <2>1
<1>9. /\ r.z = (IF xh + yh + e < M THEN xh + yh + e ELSE xh + yh + e - M)
      /\ r.f[CF] = Bool(xh + yh + e >= M)
      /\ r.f[OF] = Bool(sx + sy + e < -H \/ sx + sy + e >= H)
  BY <1>1, <1>4, <1>6, AdcExact
<1> HIDE DEF M, H, N, G, sx, sy, e, r
<1>10. /\ low.z \in 0 .. M - 1
       /\ M * (xh + yh + e) + low.z = x + y + c
       /\ xh + yh + e < M <=> x + y + c < M * M
  BY ONLY <1>1, <1>2, <1>3, <1>6, <1>7, c \in 0 .. 1, JoinSum
<1>11. /\ sx + sy + e < H <=> (M * sx + xl) + (M * sy + yl) + c < M * H
       /\ sx + sy + e < -H <=> (M * sx + xl) + (M * sy + yl) + c < M * (-H)
  <2>1. H \in Int /\ -H \in Int
    BY <1>1
  <2> QED
    BY ONLY <1>1, <1>2, <1>6, <1>7, <1>8, <2>1, c \in 0 .. 1, JoinSum
<1>12. M * (-H) = -G /\ M * H = G /\ G \in Int /\ M * sx \in Int /\ M * sy \in Int
  BY ONLY <1>1, <1>8
<1>13. r.f[OF] = Overflows(2 * k, Signed(2 * k, x) + Signed(2 * k, y) + c)
  BY <1>1, <1>2, <1>3, <1>6, <1>8, <1>9, <1>11, <1>12 DEF Overflows, G
<1>14. r.f[CF] = Bool(x + y + c >= N)
  <2>1. xh + yh + e >= M <=> x + y + c >= N
    <3>1. x \in Int /\ y \in Int
      BY <1>1 DEF WordsOf, N
    <3> QED
      BY <1>1, <1>2, <1>6, <1>10, <3>1
  <2> QED
    BY <1>9, <2>1
<1>15. r.z * M + low.z = Trunc(2 * k, x + y + c)
  <2>1. x \in 0 .. N - 1 /\ y \in 0 .. N - 1
    BY <1>1 DEF WordsOf, N
  <2>2. Trunc(2 * k, x + y + c) = IF x + y + c < N THEN x + y + c ELSE x + y + c - N
    <3>1. PICK S \in Int : S = x + y + c
      BY <2>1
    <3>2. -N <= S /\ S < 2 * N
      BY <1>1, <2>1, <3>1
    <3>3. Trunc(2 * k, S) = IF S < 0 THEN S + N ELSE IF S < N THEN S ELSE S - N
      BY ONLY <1>1, <3>2, S \in Int, TruncIs DEF N
    <3> QED
      BY <1>1, <2>1, <3>1, <3>3
  <2> DEFINE h == xh + yh + e
  <2>3. h \in Int
    BY <1>2, <1>6
  <2>4. (h < M <=> x + y + c < N) /\ r.z = (IF h < M THEN h ELSE h - M)
    BY <1>1, <1>2, <1>6, <1>9, <1>10, <2>1
  <2>5. M * h + low.z = x + y + c
    BY <1>10
  <2> HIDE DEF h
  <2>6. M * (h - M) = M * h - N /\ M * h \in Int
    BY <1>1, <2>3
  <2>7. r.z \in Int /\ r.z * M = M * r.z
    BY <1>1, <2>3, <2>4
  <2>8. M * r.z + low.z = Trunc(2 * k, x + y + c)
    <3>1. PICK S \in Int : S = x + y + c
      BY <2>1
    <3>2. CASE h < M
      <4>1. M * r.z = M * h
        BY <2>4, <3>2
      <4> QED
        BY <1>1, <1>10, <2>2, <2>4, <2>5, <2>6, <3>1, <3>2, <4>1
    <3>3. CASE ~(h < M)
      <4>1. M * r.z = M * (h - M)
        BY <2>4, <3>3
      <4>2. Trunc(2 * k, x + y + c) = S - N
        BY <1>1, <2>1, <2>2, <2>4, <3>1, <3>3
      <4>3. M * h + low.z = S /\ low.z \in Int
        BY <1>1, <1>10, <2>5, <3>1
      <4> QED
        BY ONLY <1>1, <2>6, <4>1, <4>2, <4>3, S \in Int
    <3> QED
      BY <3>2, <3>3
  <2> QED
    BY <2>7, <2>8
<1> QED
  BY <1>13, <1>14, <1>15 DEF M, N, G, r, IsSum

\* sbb of the upper halves, after a lower difference that left z and its borrow.
LEMMA SbbJoins ==
  ASSUME NEW k, Doubles(k), NEW x \in WordsOf(2 * k), NEW y \in WordsOf(2 * k), NEW c \in 0 .. 1,
         NEW xh, NEW xl, NEW yh, NEW yl, Split(k, x, xh, xl), Split(k, y, yh, yl),
         NEW low, LowDifference(k, low, xl, yl, c)
  PROVE  IsDifference(k, low, Sbb(k, low.f, xh, yh), x, y, c)
<1> DEFINE M == 2^k
           H == 2^(k - 1)
           N == 2^(2 * k)
           G == 2^(2 * k - 1)
<1>1. M \in Nat /\ M > 0 /\ H \in Nat /\ M = 2 * H /\ N = M * M /\ G = M * H /\ Width(k) /\ Width(2 * k) /\ N \in Nat
  BY DEF Doubles, Width
<1>2. xh \in 0 .. M - 1 /\ xl \in 0 .. M - 1 /\ yh \in 0 .. M - 1 /\ yl \in 0 .. M - 1
  BY DEF WordsOf, Split
<1>4. /\ xh \in WordsOf(k) /\ xl \in WordsOf(k) /\ yh \in WordsOf(k) /\ yl \in WordsOf(k)
      /\ low.f \in FlagWords /\ low.f[CF] = Bool(xl < yl + c)
  BY DEF Split, LowDifference
<1> DEFINE sx == Signed(k, xh)
           sy == Signed(k, yh)
           e == low.f[CF]
           r == Sbb(k, low.f, xh, yh)
<1>3. /\ x = M * xh + xl /\ Signed(2 * k, x) = M * sx + xl
      /\ y = M * yh + yl /\ Signed(2 * k, y) = M * sy + yl
  BY DEF Split
<1>6. e = (IF xl < yl + c THEN 1 ELSE 0) /\ e \in 0 .. 1
  BY <1>1, <1>2, <1>4 DEF Bool
<1>7. low.z = IF xl < yl + c THEN xl - yl - c + M ELSE xl - yl - c
  BY DEF LowDifference
<1>8. sx \in Int /\ sy \in Int
  <2>1. sx = (IF xh < H THEN xh ELSE xh - M) /\ sy = (IF yh < H THEN yh ELSE yh - M)
    BY <1>1, <1>4, SignedIs
  <2> QED
    BY <1>1, <1>2, <2>1
<1>9. /\ r.z = (IF xh < yh + e THEN xh - yh - e + M ELSE xh - yh - e)
      /\ r.f[CF] = Bool(xh < yh + e)
      /\ r.f[OF] = Bool(sx - sy - e < -H \/ sx - sy - e >= H)
  BY <1>1, <1>4, <1>6, SbbExact
<1> HIDE DEF M, H, N, G, sx, sy, e, r
<1>10. /\ low.z \in 0 .. M - 1
       /\ M * (xh - yh - e) + low.z = x - y - c
       /\ xh - yh - e < 0 <=> x - y - c < M * 0
  BY ONLY <1>1, <1>2, <1>3, <1>6, <1>7, c \in 0 .. 1, JoinDifference
<1>11. /\ sx - sy - e < H <=> (M * sx + xl) - (M * sy + yl) - c < M * H
       /\ sx - sy - e < -H <=> (M * sx + xl) - (M * sy + yl) - c < M * (-H)
  <2>1. H \in Int /\ -H \in Int
    BY <1>1
  <2> QED
    BY ONLY <1>1, <1>2, <1>6, <1>7, <1>8, <2>1, c \in 0 .. 1, JoinDifference
<1>12. M * (-H) = -G /\ M * H = G /\ G \in Int /\ M * sx \in Int /\ M * sy \in Int
  BY ONLY <1>1, <1>8
<1>13. r.f[OF] = Overflows(2 * k, Signed(2 * k, x) - Signed(2 * k, y) - c)
  BY <1>1, <1>2, <1>3, <1>6, <1>8, <1>9, <1>11, <1>12 DEF Overflows, G
<1>14. r.f[CF] = Bool(x < y + c)
  <2>1. xh < yh + e <=> x < y + c
    <3>1. x \in Int /\ y \in Int
      BY <1>1 DEF WordsOf, N
    <3> QED
      BY <1>1, <1>2, <1>6, <1>10, <3>1
  <2> QED
    BY <1>9, <2>1
<1>15. r.z * M + low.z = Trunc(2 * k, x - y - c)
  <2>1. x \in 0 .. N - 1 /\ y \in 0 .. N - 1
    BY <1>1 DEF WordsOf, N
  <2>2. Trunc(2 * k, x - y - c) = IF x < y + c THEN x - y - c + N ELSE x - y - c
    <3>1. PICK S \in Int : S = x - y - c
      BY <2>1
    <3>2. -N <= S /\ S < 2 * N
      BY <1>1, <2>1, <3>1
    <3>3. Trunc(2 * k, S) = IF S < 0 THEN S + N ELSE IF S < N THEN S ELSE S - N
      BY ONLY <1>1, <3>2, S \in Int, TruncIs DEF N
    <3> QED
      BY <1>1, <2>1, <3>1, <3>3
  <2> DEFINE h == xh - yh - e
  <2>3. h \in Int
    BY <1>2, <1>6
  <2>4. (h < 0 <=> x < y + c) /\ r.z = (IF h < 0 THEN h + M ELSE h)
    BY <1>1, <1>2, <1>6, <1>9, <1>10, <2>1
  <2>5. M * h + low.z = x - y - c
    BY <1>10
  <2> HIDE DEF h
  <2>6. M * (h + M) = M * h + N /\ M * h \in Int
    BY <1>1, <2>3
  <2>7. r.z \in Int /\ r.z * M = M * r.z
    BY <1>1, <2>3, <2>4
  <2>8. M * r.z + low.z = Trunc(2 * k, x - y - c)
    <3>1. PICK S \in Int : S = x - y - c
      BY <2>1
    <3>2. CASE h < 0
      <4>1. M * r.z = M * (h + M)
        BY <2>4, <3>2
      <4> QED
        BY <1>1, <1>10, <2>2, <2>4, <2>5, <2>6, <3>1, <3>2, <4>1
    <3>3. CASE ~(h < 0)
      <4>1. M * r.z = M * h
        BY <2>4, <3>3
      <4>2. Trunc(2 * k, x - y - c) = S
        BY <1>1, <2>1, <2>2, <2>4, <3>1, <3>3
      <4>3. M * h + low.z = S /\ low.z \in Int
        BY <1>1, <1>10, <2>5, <3>1
      <4> QED
        BY ONLY <1>1, <2>6, <4>1, <4>2, <4>3, S \in Int
    <3> QED
      BY <3>2, <3>3
  <2> QED
    BY <2>7, <2>8
<1> QED
  BY <1>13, <1>14, <1>15 DEF M, N, G, r, IsDifference

\* Carries at every width: add then adc, adc then adc, and sub then sbb (alu.c) on the
\* halves of two words are one addition or subtraction of double width, flags included.
THEOREM CarriesAtEveryWidth ==
  ASSUME NEW k, Doubles(k), NEW f \in FlagWords, f[CF] \in 0 .. 1,
         NEW x \in WordsOf(2 * k), NEW y \in WordsOf(2 * k)
  PROVE  LET M == 2^k
             a0 == Add(k, f, x % M, y % M)
             c0 == Adc(k, f, x % M, y % M)
             s0 == Sub(k, f, x % M, y % M) IN
         /\ IsSum(k, a0, Adc(k, a0.f, x \div M, y \div M), x, y, 0)
         /\ IsSum(k, c0, Adc(k, c0.f, x \div M, y \div M), x, y, f[CF])
         /\ IsDifference(k, s0, Sbb(k, s0.f, x \div M, y \div M), x, y, 0)
<1>1. PICK xh, xl : xh = x \div 2^k /\ xl = x % 2^k /\ Split(k, x, xh, xl)
  BY Splits
<1>2. PICK yh, yl : yh = y \div 2^k /\ yl = y % 2^k /\ Split(k, y, yh, yl)
  BY Splits
<1>3. xl \in WordsOf(k) /\ yl \in WordsOf(k) /\ Width(k) /\ xl \in Int /\ yl \in Int /\ 2^k \in Nat
  BY <1>1, <1>2 DEF Split, WordsOf, Doubles, Width
<1>4. LowSum(k, Add(k, f, xl, yl), xl, yl, 0)
  <2> DEFINE low == Add(k, f, xl, yl)
  <2>1. low.f \in FlagWords /\ low.f[CF] = Bool(xl + yl >= 2^k)
    BY <1>3, AddExact, FlagsStay
  <2>2. low.z = (IF xl + yl < 2^k THEN xl + yl ELSE xl + yl - 2^k)
    BY <1>3, AddExact
  <2> HIDE DEF low
  <2>3. LowSum(k, low, xl, yl, 0)
    BY ONLY <1>3, <2>1, <2>2 DEF LowSum, Bool
  <2> QED
    BY <2>3 DEF low
<1>5. LowSum(k, Adc(k, f, xl, yl), xl, yl, f[CF])
  BY <1>3, AdcExact, FlagsStay DEF LowSum
<1>6. LowDifference(k, Sub(k, f, xl, yl), xl, yl, 0)
  <2> DEFINE low == Sub(k, f, xl, yl)
  <2>1. low.f \in FlagWords /\ low.f[CF] = Bool(xl < yl)
    BY <1>3, SubExact, FlagsStay
  <2>2. low.z = (IF xl < yl THEN xl - yl + 2^k ELSE xl - yl)
    BY <1>3, SubExact
  <2> HIDE DEF low
  <2>3. LowDifference(k, low, xl, yl, 0)
    BY ONLY <1>3, <2>1, <2>2 DEF LowDifference, Bool
  <2> QED
    BY <2>3 DEF low
<1>7. 0 \in 0 .. 1
  OBVIOUS
<1> QED
  BY ONLY <1>1, <1>2, <1>4, <1>5, <1>6, <1>7, AdcJoins, SbbJoins, Doubles(k),
          x \in WordsOf(2 * k), y \in WordsOf(2 * k), f[CF] \in 0 .. 1, Zenon

(* Bits, and the parity that is computed from them. *)

LEMMA NumberIs ==
  ASSUME NEW b \in [0 .. 7 -> 0 .. 1]
  PROVE  Number(8, b) = 1 * b[0] + 2 * b[1] + 4 * b[2] + 8 * b[3] + 16 * b[4] + 32 * b[5] + 64 * b[6] + 128 * b[7]
<1> DEFINE Def(g) == [i \in 0 .. 8 |-> IF i = 0 THEN 0 ELSE g[i - 1] + b[i - 1] * 2^(i - 1)]
<1>1. PICK h : h = [i \in 0 .. 8 |->
                 IF i = 0 THEN 0
                 ELSE IF i = 1 THEN b[0] * 2^0
                 ELSE IF i = 2 THEN b[0] * 2^0 + b[1] * 2^1
                 ELSE IF i = 3 THEN b[0] * 2^0 + b[1] * 2^1 + b[2] * 2^2
                 ELSE IF i = 4 THEN b[0] * 2^0 + b[1] * 2^1 + b[2] * 2^2 + b[3] * 2^3
                 ELSE IF i = 5 THEN b[0] * 2^0 + b[1] * 2^1 + b[2] * 2^2 + b[3] * 2^3 + b[4] * 2^4
                 ELSE IF i = 6 THEN b[0] * 2^0 + b[1] * 2^1 + b[2] * 2^2 + b[3] * 2^3 + b[4] * 2^4 + b[5] * 2^5
                 ELSE IF i = 7 THEN b[0] * 2^0 + b[1] * 2^1 + b[2] * 2^2 + b[3] * 2^3 + b[4] * 2^4 + b[5] * 2^5 + b[6] * 2^6
                 ELSE b[0] * 2^0 + b[1] * 2^1 + b[2] * 2^2 + b[3] * 2^3 + b[4] * 2^4 + b[5] * 2^5 + b[6] * 2^6 + b[7] * 2^7]
  OBVIOUS
<1>2. /\ h[0] = 0
      /\ h[1] = b[0] * 2^0
      /\ h[2] = b[0] * 2^0 + b[1] * 2^1
      /\ h[3] = b[0] * 2^0 + b[1] * 2^1 + b[2] * 2^2
      /\ h[4] = b[0] * 2^0 + b[1] * 2^1 + b[2] * 2^2 + b[3] * 2^3
      /\ h[5] = b[0] * 2^0 + b[1] * 2^1 + b[2] * 2^2 + b[3] * 2^3 + b[4] * 2^4
      /\ h[6] = b[0] * 2^0 + b[1] * 2^1 + b[2] * 2^2 + b[3] * 2^3 + b[4] * 2^4 + b[5] * 2^5
      /\ h[7] = b[0] * 2^0 + b[1] * 2^1 + b[2] * 2^2 + b[3] * 2^3 + b[4] * 2^4 + b[5] * 2^5 + b[6] * 2^6
      /\ h[8] = b[0] * 2^0 + b[1] * 2^1 + b[2] * 2^2 + b[3] * 2^3 + b[4] * 2^4 + b[5] * 2^5 + b[6] * 2^6 + b[7] * 2^7
  BY <1>1
<1>3. \A i \in 0 .. 7 : b[i] \in 0 .. 1
  OBVIOUS
<1>4. \A i \in 1 .. 8 : h[i] = h[i - 1] + b[i - 1] * 2^(i - 1)
  <2>1. /\ h[1] = h[0] + b[0] * 2^0
        /\ h[2] = h[1] + b[1] * 2^1
        /\ h[3] = h[2] + b[2] * 2^2
        /\ h[4] = h[3] + b[3] * 2^3
        /\ h[5] = h[4] + b[4] * 2^4
        /\ h[6] = h[5] + b[5] * 2^5
        /\ h[7] = h[6] + b[6] * 2^6
        /\ h[8] = h[7] + b[7] * 2^7
    BY <1>2, <1>3
  <2> SUFFICES ASSUME NEW i \in 1 .. 8 PROVE h[i] = h[i - 1] + b[i - 1] * 2^(i - 1)
    OBVIOUS
  <2>2. CASE i = 1
    BY <2>1, <2>2
  <2>3. CASE i = 2
    BY <2>1, <2>3
  <2>4. CASE i = 3
    BY <2>1, <2>4
  <2>5. CASE i = 4
    BY <2>1, <2>5
  <2>6. CASE i = 5
    BY <2>1, <2>6
  <2>7. CASE i = 6
    BY <2>1, <2>7
  <2>8. CASE i = 7
    BY <2>1, <2>8
  <2>9. CASE i = 8
    BY <2>1, <2>9
  <2> QED
    BY <2>2, <2>3, <2>4, <2>5, <2>6, <2>7, <2>8, <2>9
<1>5. h = Def(h)
  <2>1. \A i \in 0 .. 8 : h[i] = Def(h)[i]
    <3> SUFFICES ASSUME NEW i \in 0 .. 8 PROVE h[i] = Def(h)[i]
      OBVIOUS
    <3>1. CASE i = 0
      BY <1>2, <3>1
    <3>2. CASE i # 0
      <4>1. i \in 1 .. 8
        BY <3>2
      <4> QED
        BY <1>4, <3>2, <4>1
    <3> QED
      BY <3>1, <3>2
  <2>2. h = [i \in 0 .. 8 |-> h[i]]
    BY <1>1
  <2> QED
    BY <2>1, <2>2
<1>6. PICK g : g = CHOOSE f : f = Def(f)
  OBVIOUS
<1>7. g = Def(g)
  BY <1>5, <1>6
<1>8. g[0] = 0 /\ \A i \in 1 .. 8 : g[i] = g[i - 1] + b[i - 1] * 2^(i - 1)
  <2>1. \A i \in 0 .. 8 : g[i] = IF i = 0 THEN 0 ELSE g[i - 1] + b[i - 1] * 2^(i - 1)
    BY ONLY <1>7
  <2>2. 0 \in 0 .. 8 /\ \A i \in 1 .. 8 : i \in 0 .. 8 /\ i # 0
    OBVIOUS
  <2> QED
    BY ONLY <2>1, <2>2
<1>9. Number(8, b) = g[8]
  BY <1>6 DEF Number
<1>10. g[8] = 1 * b[0] + 2 * b[1] + 4 * b[2] + 8 * b[3] + 16 * b[4] + 32 * b[5] + 64 * b[6] + 128 * b[7]
  <2>1. /\ g[1] = g[0] + b[0] * 2^0
        /\ g[2] = g[1] + b[1] * 2^1
        /\ g[3] = g[2] + b[2] * 2^2
        /\ g[4] = g[3] + b[3] * 2^3
        /\ g[5] = g[4] + b[4] * 2^4
        /\ g[6] = g[5] + b[5] * 2^5
        /\ g[7] = g[6] + b[6] * 2^6
        /\ g[8] = g[7] + b[7] * 2^7
    BY <1>8
  <2> QED
    BY ONLY <1>3, <1>8, <2>1
<1> QED
  BY <1>9, <1>10

LEMMA BitsAre ==
  ASSUME NEW b \in 0 .. 255
  PROVE  /\ \A i \in 0 .. 7 : Bit(b, i) \in 0 .. 1
         /\ b = 1 * Bit(b, 0) + 2 * Bit(b, 1) + 4 * Bit(b, 2) + 8 * Bit(b, 3) + 16 * Bit(b, 4) + 32 * Bit(b, 5) + 64 * Bit(b, 6) + 128 * Bit(b, 7)
<1>1. /\ Bit(b, 0) = (b \div 1) % 2
      /\ Bit(b, 1) = (b \div 2) % 2
      /\ Bit(b, 2) = (b \div 4) % 2
      /\ Bit(b, 3) = (b \div 8) % 2
      /\ Bit(b, 4) = (b \div 16) % 2
      /\ Bit(b, 5) = (b \div 32) % 2
      /\ Bit(b, 6) = (b \div 64) % 2
      /\ Bit(b, 7) = (b \div 128) % 2
  BY DEF Bit
<1>2. \A i \in 0 .. 7 : Bit(b, i) \in 0 .. 1
  <2> SUFFICES ASSUME NEW i \in 0 .. 7 PROVE Bit(b, i) \in 0 .. 1
    OBVIOUS
  <2>1. i = 0 \/ i = 1 \/ i = 2 \/ i = 3 \/ i = 4 \/ i = 5 \/ i = 6 \/ i = 7
    OBVIOUS
  <2> QED
    BY <1>1, <2>1
<1>3. b \div 1 = 2 * (b \div 2) + Bit(b, 0)
  BY DEF Bit
<1>4. b \div 2 = 2 * (b \div 4) + Bit(b, 1)
  BY DEF Bit
<1>5. b \div 4 = 2 * (b \div 8) + Bit(b, 2)
  BY DEF Bit
<1>6. b \div 8 = 2 * (b \div 16) + Bit(b, 3)
  BY DEF Bit
<1>7. b \div 16 = 2 * (b \div 32) + Bit(b, 4)
  BY DEF Bit
<1>8. b \div 32 = 2 * (b \div 64) + Bit(b, 5)
  BY DEF Bit
<1>9. b \div 64 = 2 * (b \div 128) + Bit(b, 6)
  BY DEF Bit
<1>10. b \div 128 = 2 * (b \div 256) + Bit(b, 7)
  BY DEF Bit
<1>11. b \div 1 = b /\ b \div 256 = 0
  OBVIOUS
<1>12. /\ b \div 1 \in Int /\ Bit(b, 0) \in Int
       /\ b \div 2 \in Int /\ Bit(b, 1) \in Int
       /\ b \div 4 \in Int /\ Bit(b, 2) \in Int
       /\ b \div 8 \in Int /\ Bit(b, 3) \in Int
       /\ b \div 16 \in Int /\ Bit(b, 4) \in Int
       /\ b \div 32 \in Int /\ Bit(b, 5) \in Int
       /\ b \div 64 \in Int /\ Bit(b, 6) \in Int
       /\ b \div 128 \in Int /\ Bit(b, 7) \in Int
  BY <1>1
<1>13. b = 1 * Bit(b, 0) + 2 * Bit(b, 1) + 4 * Bit(b, 2) + 8 * Bit(b, 3) + 16 * Bit(b, 4) + 32 * Bit(b, 5) + 64 * Bit(b, 6) + 128 * Bit(b, 7)
  BY ONLY <1>3, <1>4, <1>5, <1>6, <1>7, <1>8, <1>9, <1>10, <1>11, <1>12
<1> QED
  BY <1>2, <1>13

\* The bits of a number made of bits.
LEMMA NumberBits ==
  ASSUME NEW b \in [0 .. 7 -> 0 .. 1]
  PROVE  Number(8, b) \in 0 .. 255 /\ \A i \in 0 .. 7 : Bit(Number(8, b), i) = b[i]
<1>1. PICK n : n = Number(8, b)
  OBVIOUS
<1>2. n = 1 * b[0] + 2 * b[1] + 4 * b[2] + 8 * b[3] + 16 * b[4] + 32 * b[5] + 64 * b[6] + 128 * b[7]
  BY <1>1, NumberIs
<1>3. /\ b[0] \in 0 .. 1
      /\ b[1] \in 0 .. 1
      /\ b[2] \in 0 .. 1
      /\ b[3] \in 0 .. 1
      /\ b[4] \in 0 .. 1
      /\ b[5] \in 0 .. 1
      /\ b[6] \in 0 .. 1
      /\ b[7] \in 0 .. 1
  OBVIOUS
<1>4. n \in 0 .. 255
  BY ONLY <1>2, <1>3
<1>5. Bit(n, 0) = b[0]
  BY ONLY <1>2, <1>3, <1>4 DEF Bit
<1>6. Bit(n, 1) = b[1]
  BY ONLY <1>2, <1>3, <1>4 DEF Bit
<1>7. Bit(n, 2) = b[2]
  BY ONLY <1>2, <1>3, <1>4 DEF Bit
<1>8. Bit(n, 3) = b[3]
  BY ONLY <1>2, <1>3, <1>4 DEF Bit
<1>9. Bit(n, 4) = b[4]
  BY ONLY <1>2, <1>3, <1>4 DEF Bit
<1>10. Bit(n, 5) = b[5]
  BY ONLY <1>2, <1>3, <1>4 DEF Bit
<1>11. Bit(n, 6) = b[6]
  BY ONLY <1>2, <1>3, <1>4 DEF Bit
<1>12. Bit(n, 7) = b[7]
  BY ONLY <1>2, <1>3, <1>4 DEF Bit
<1>13. \A i \in 0 .. 7 : Bit(n, i) = b[i]
  <2> SUFFICES ASSUME NEW i \in 0 .. 7 PROVE Bit(n, i) = b[i]
    OBVIOUS
  <2>1. i = 0 \/ i = 1 \/ i = 2 \/ i = 3 \/ i = 4 \/ i = 5 \/ i = 6 \/ i = 7
    OBVIOUS
  <2> QED
    BY ONLY <1>5, <1>6, <1>7, <1>8, <1>9, <1>10, <1>11, <1>12, <2>1
<1> QED
  BY <1>1, <1>4, <1>13

LEMMA XorBits ==
  ASSUME NEW x \in 0 .. 255, NEW y \in 0 .. 255
  PROVE  Xor(8, x, y) \in 0 .. 255 /\ \A i \in 0 .. 7 : Bit(Xor(8, x, y), i) = (Bit(x, i) + Bit(y, i)) % 2
<1> DEFINE b == [i \in 0 .. 7 |-> (Bit(x, i) + Bit(y, i)) % 2]
<1>1. b \in [0 .. 7 -> 0 .. 1]
  <2>1. \A i \in 0 .. 7 : Bit(x, i) \in 0 .. 1 /\ Bit(y, i) \in 0 .. 1
    BY BitsAre
  <2>2. \A p, q \in 0 .. 1 : (p + q) % 2 \in 0 .. 1
    OBVIOUS
  <2> QED
    BY <2>1, <2>2
<1>2. Xor(8, x, y) = Number(8, b)
  <2>1. 8 - 1 = 7
    OBVIOUS
  <2> QED
    BY <2>1 DEF Xor
<1> HIDE DEF b
<1>3. Xor(8, x, y) \in 0 .. 255 /\ \A i \in 0 .. 7 : Bit(Xor(8, x, y), i) = b[i]
  BY <1>1, <1>2, NumberBits
<1> QED
  BY <1>3 DEF b

\* The parity bit folds the byte three times.
LEMMA ParityIs ==
  ASSUME NEW b \in 0 .. 255
  PROVE  GetParity(b) = Bool((Bit(b, 0) + Bit(b, 1) + Bit(b, 2) + Bit(b, 3) + Bit(b, 4) + Bit(b, 5) + Bit(b, 6) + Bit(b, 7)) % 2 = 0)
<1>1. PICK b1 : b1 = Xor(8, b, b \div 16)
  OBVIOUS
<1>2. PICK b2 : b2 = Xor(8, b1, b1 \div 4)
  OBVIOUS
<1>3. PICK b3 : b3 = Xor(8, b2, b2 \div 2)
  OBVIOUS
<1>4. b \div 16 \in 0 .. 255 /\ b1 \in 0 .. 255 /\ b1 \div 4 \in 0 .. 255 /\ b2 \in 0 .. 255 /\ b2 \div 2 \in 0 .. 255
  <2>1. \A x \in 0 .. 255 : x \div 16 \in 0 .. 255 /\ x \div 4 \in 0 .. 255 /\ x \div 2 \in 0 .. 255
    OBVIOUS
  <2>2. b1 \in 0 .. 255
    BY <1>1, <2>1, XorBits, Zenon
  <2>3. b2 \in 0 .. 255
    BY <1>2, <2>1, <2>2, XorBits, Zenon
  <2> QED
    BY <2>1, <2>2, <2>3
<1>5. ASSUME NEW x \in 0 .. 255
      PROVE  /\ Bit(x \div 16, 0) = Bit(x, 4) /\ Bit(x \div 16, 1) = Bit(x, 5)
             /\ Bit(x \div 16, 2) = Bit(x, 6) /\ Bit(x \div 16, 3) = Bit(x, 7)
             /\ Bit(x \div 4, 0) = Bit(x, 2) /\ Bit(x \div 4, 1) = Bit(x, 3) /\ Bit(x \div 2, 0) = Bit(x, 1)
  BY DEF Bit
<1>6. /\ Bit(b1, 0) = (Bit(b, 0) + Bit(b, 4)) % 2 /\ Bit(b1, 1) = (Bit(b, 1) + Bit(b, 5)) % 2
      /\ Bit(b1, 2) = (Bit(b, 2) + Bit(b, 6)) % 2 /\ Bit(b1, 3) = (Bit(b, 3) + Bit(b, 7)) % 2
  <2>1. \A i \in 0 .. 7 : Bit(b1, i) = (Bit(b, i) + Bit(b \div 16, i)) % 2
    <3>1. \A i \in 0 .. 7 : Bit(Xor(8, b, b \div 16), i) = (Bit(b, i) + Bit(b \div 16, i)) % 2
      BY <1>4, XorBits
    <3> QED
      BY ONLY <1>1, <3>1
  <2> QED
    BY <1>5, <2>1
<1>7. Bit(b2, 0) = (Bit(b1, 0) + Bit(b1, 2)) % 2 /\ Bit(b2, 1) = (Bit(b1, 1) + Bit(b1, 3)) % 2
  <2>1. \A i \in 0 .. 7 : Bit(b2, i) = (Bit(b1, i) + Bit(b1 \div 4, i)) % 2
    <3>1. \A i \in 0 .. 7 : Bit(Xor(8, b1, b1 \div 4), i) = (Bit(b1, i) + Bit(b1 \div 4, i)) % 2
      BY <1>4, XorBits
    <3> QED
      BY ONLY <1>2, <3>1
  <2> QED
    BY <1>4, <1>5, <2>1
<1>8. Bit(b3, 0) = (Bit(b2, 0) + Bit(b2, 1)) % 2
  <2>1. \A i \in 0 .. 7 : Bit(b3, i) = (Bit(b2, i) + Bit(b2 \div 2, i)) % 2
    <3>1. \A i \in 0 .. 7 : Bit(Xor(8, b2, b2 \div 2), i) = (Bit(b2, i) + Bit(b2 \div 2, i)) % 2
      BY <1>4, XorBits
    <3> QED
      BY ONLY <1>3, <3>1
  <2> QED
    BY <1>4, <1>5, <2>1
<1>9. \A i \in 0 .. 7 : Bit(b, i) \in 0 .. 1
  BY BitsAre
<1>10. GetParity(b) = Not(Bit(b3, 0))
  BY <1>1, <1>2, <1>3 DEF GetParity
<1>11. /\ Bit(b, 0) \in 0 .. 1
       /\ Bit(b, 1) \in 0 .. 1
       /\ Bit(b, 2) \in 0 .. 1
       /\ Bit(b, 3) \in 0 .. 1
       /\ Bit(b, 4) \in 0 .. 1
       /\ Bit(b, 5) \in 0 .. 1
       /\ Bit(b, 6) \in 0 .. 1
       /\ Bit(b, 7) \in 0 .. 1
  BY <1>9
<1> QED
  BY ONLY <1>6, <1>7, <1>8, <1>10, <1>11 DEF Not, Bool

\* The number of ones in a byte.
LEMMA OnesAre ==
  ASSUME NEW b \in 0 .. 255
  PROVE  Cardinality({i \in 0 .. 7 : Bit(b, i) = 1}) = Bit(b, 0) + Bit(b, 1) + Bit(b, 2) + Bit(b, 3) + Bit(b, 4) + Bit(b, 5) + Bit(b, 6) + Bit(b, 7)
<1> DEFINE S(n) == {i \in 0 .. n - 1 : Bit(b, i) = 1}
<1>1. \A i \in 0 .. 7 : Bit(b, i) \in 0 .. 1
  BY BitsAre
<1>2. ASSUME NEW n \in 0 .. 7, IsFiniteSet(S(n))
      PROVE  IsFiniteSet(S(n + 1)) /\ Cardinality(S(n + 1)) = Cardinality(S(n)) + Bit(b, n)
  <2>1. n \notin S(n) /\ Cardinality(S(n)) \in Nat
    BY <1>2, FS_CardinalityType
  <2>2. CASE Bit(b, n) = 1
    <3>1. S(n + 1) = S(n) \cup {n}
      BY <2>2
    <3> HIDE DEF S
    <3> QED
      BY <1>2, <2>1, <2>2, <3>1, FS_AddElement
  <2>3. CASE Bit(b, n) = 0
    <3>1. S(n + 1) = S(n)
      BY <2>3
    <3> QED
      BY <1>2, <2>1, <2>3, <3>1
  <2> QED
    BY <1>1, <2>2, <2>3
<1>3. S(0) = {} /\ IsFiniteSet(S(0)) /\ Cardinality(S(0)) = 0
  BY FS_EmptySet
<1> HIDE DEF S
<1>4. IsFiniteSet(S(1)) /\ Cardinality(S(1)) = Cardinality(S(0)) + Bit(b, 0)
  BY <1>2, <1>3
<1>5. IsFiniteSet(S(2)) /\ Cardinality(S(2)) = Cardinality(S(1)) + Bit(b, 1)
  BY <1>2, <1>4
<1>6. IsFiniteSet(S(3)) /\ Cardinality(S(3)) = Cardinality(S(2)) + Bit(b, 2)
  BY <1>2, <1>5
<1>7. IsFiniteSet(S(4)) /\ Cardinality(S(4)) = Cardinality(S(3)) + Bit(b, 3)
  BY <1>2, <1>6
<1>8. IsFiniteSet(S(5)) /\ Cardinality(S(5)) = Cardinality(S(4)) + Bit(b, 4)
  BY <1>2, <1>7
<1>9. IsFiniteSet(S(6)) /\ Cardinality(S(6)) = Cardinality(S(5)) + Bit(b, 5)
  BY <1>2, <1>8
<1>10. IsFiniteSet(S(7)) /\ Cardinality(S(7)) = Cardinality(S(6)) + Bit(b, 6)
  BY <1>2, <1>9
<1>11. IsFiniteSet(S(8)) /\ Cardinality(S(8)) = Cardinality(S(7)) + Bit(b, 7)
  BY <1>2, <1>10
<1>12. S(8) = {i \in 0 .. 7 : Bit(b, i) = 1}
  BY DEF S
<1>13. /\ Bit(b, 0) \in 0 .. 1
       /\ Bit(b, 1) \in 0 .. 1
       /\ Bit(b, 2) \in 0 .. 1
       /\ Bit(b, 3) \in 0 .. 1
       /\ Bit(b, 4) \in 0 .. 1
       /\ Bit(b, 5) \in 0 .. 1
       /\ Bit(b, 6) \in 0 .. 1
       /\ Bit(b, 7) \in 0 .. 1
  BY <1>1
<1> QED
  BY ONLY <1>3, <1>4, <1>5, <1>6, <1>7, <1>8, <1>9, <1>10, <1>11, <1>12, <1>13

(* neg, inc and dec. *)

WithFlag(r, b, v) == [r EXCEPT !.f = [@ EXCEPT ![b] = v]]

LEMMA FlagUpdates ==
  ASSUME NEW k, NEW f \in FlagWords, NEW x, NEW af, NEW of, NEW cf, NEW a
  PROVE  /\ WithFlag(AluFlags(k, f, x, af, of, cf), AF, a) = AluFlags(k, f, x, a, of, cf)
         /\ WithFlag(AluFlags(k, f, x, af, of, cf), CF, a) = AluFlags(k, f, x, af, of, a)
BY DEF WithFlag, AluFlags, FlagWords, FlagBits, CF, PF, AF, ZF, SF, DF, OF, LP

LEMMA StepsAtEveryWidth ==
  ASSUME NEW k, Width(k), NEW f \in FlagWords, NEW x \in WordsOf(k)
  PROVE  /\ Neg(k, f, x) = [Sub(k, f, 0, x) EXCEPT !.f = [@ EXCEPT ![AF] = Bool(x # 0)]]
         /\ Dec(k, f, x) = [Sub(k, f, x, 1) EXCEPT !.f = [@ EXCEPT ![CF] = f[CF]]]
         /\ Inc(k, f, x, 0) = [Add(k, f, x, 1) EXCEPT !.f = [@ EXCEPT ![CF] = f[CF], ![AF] = 0]]
<1> DEFINE M == 2^k
           H == 2^(k - 1)
<1>1. M \in Nat /\ H \in Nat /\ H >= 8 /\ M = 2 * H /\ x \in 0 .. M - 1
  BY DEF Width, WordsOf
<1>2. 0 \in WordsOf(k) /\ 1 \in WordsOf(k)
  BY <1>1 DEF WordsOf
<1>3. Neg(k, f, x) = [Sub(k, f, 0, x) EXCEPT !.f = [@ EXCEPT ![AF] = Bool(x # 0)]]
  <2> DEFINE z == Trunc(k, 0 - x)
  <2>1. z = (IF x = 0 THEN 0 ELSE M - x) /\ z \in 0 .. M - 1
    <3>1. 0 - x \in Int /\ -M <= 0 - x /\ 0 - x < 2 * M
      BY <1>1
    <3> QED
      BY <1>1, <3>1, TruncIs
  <2>2. -x = 0 - x
    BY <1>1
  <2>3. z \in WordsOf(k)
    BY <2>1 DEF WordsOf
  <2>4. /\ Sign(k, x) = (IF x < H THEN 0 ELSE 1)
        /\ Sign(k, z) = (IF z < H THEN 0 ELSE 1)
        /\ Sign(k, 0) = 0
    <3>1. 0 < H
      BY <1>1
    <3> QED
      BY <1>2, <2>3, <3>1, SignIs
  <2>5. Neg(k, f, x) = AluFlags(k, f, z, Bool(x # 0), Bool(x = H), Bool(x # 0))
    BY <2>2 DEF Neg
  <2>6. Sub(k, f, 0, x) = AluFlags(k, f, z, Below(0 % 16, z % 16), Overflow(k, 0, x, z, 0), Below(0, z))
    BY DEF Sub
  <2> HIDE DEF M, H, z
  <2>7. Overflow(k, 0, x, z, 0) = Bool(x = H) /\ Below(0, z) = Bool(x # 0)
    BY <1>1, <2>1, <2>4 DEF Overflow, Below, Bool
  <2>8. Neg(k, f, x) = WithFlag(Sub(k, f, 0, x), AF, Bool(x # 0))
    BY ONLY f \in FlagWords, <2>5, <2>6, <2>7, FlagUpdates
  <2> QED
    BY ONLY <2>8 DEF WithFlag
<1>4. Dec(k, f, x) = [Sub(k, f, x, 1) EXCEPT !.f = [@ EXCEPT ![CF] = f[CF]]]
  <2> DEFINE z == Trunc(k, x - 1)
  <2>1. Dec(k, f, x) = AluFlags(k, f, z, Below(x % 16, z % 16), Overflow(k, z, x, x, 1), f[CF])
    BY DEF Dec, BumpFlags
  <2>2. Sub(k, f, x, 1) = AluFlags(k, f, z, Below(x % 16, z % 16), Overflow(k, x, 1, z, x), Below(x, z))
    BY DEF Sub
  <2>3. Overflow(k, x, 1, z, x) = Overflow(k, z, x, x, 1)
    BY DEF Overflow, Bool
  <2> HIDE DEF z
  <2>4. Dec(k, f, x) = WithFlag(Sub(k, f, x, 1), CF, f[CF])
    BY ONLY f \in FlagWords, <2>1, <2>2, <2>3, FlagUpdates
  <2> QED
    BY ONLY <2>4 DEF WithFlag
<1>5. Inc(k, f, x, 0) = [Add(k, f, x, 1) EXCEPT !.f = [@ EXCEPT ![CF] = f[CF], ![AF] = 0]]
  <2> DEFINE z == Trunc(k, x + 1)
             a == Add(k, f, x, 1)
  <2>1. z \in Nat
    <3>1. x + 1 \in Int /\ -M <= x + 1 /\ x + 1 < 2 * M /\ x + 1 >= 0
      BY <1>1
    <3> QED
      BY <1>1, <3>1, TruncIs
  <2>2. Inc(k, f, x, 0) = AluFlags(k, f, z, Below(z % 16, 0 % 16), Overflow(k, z, x, z, 1), f[CF])
    BY DEF Inc, BumpFlags
  <2>3. Below(z % 16, 0 % 16) = 0
    BY <2>1 DEF Below, Bool
  <2>4. a = AluFlags(k, f, z, Below(z % 16, 1 % 16), Overflow(k, z, x, z, 1), Below(z, 1))
    BY DEF Add
  <2>5. [a EXCEPT !.f = [@ EXCEPT ![CF] = f[CF], ![AF] = 0]]
        = WithFlag(WithFlag(a, CF, f[CF]), AF, 0)
    BY <2>4 DEF AluFlags, WithFlag
  <2> HIDE DEF z, a
  <2>6. WithFlag(a, CF, f[CF]) = AluFlags(k, f, z, Below(z % 16, 1 % 16), Overflow(k, z, x, z, 1), f[CF])
    BY <2>4, FlagUpdates
  <2>7. [a EXCEPT !.f = [@ EXCEPT ![CF] = f[CF], ![AF] = 0]] = AluFlags(k, f, z, 0, Overflow(k, z, x, z, 1), f[CF])
    BY <2>5, <2>6, FlagUpdates
  <2> QED
    BY <2>2, <2>3, <2>7 DEF a
<1> QED
  BY <1>3, <1>4, <1>5

(* The instructions on the operands of a run. *)

Operands ==
    \/ in.kind \in {"none", "string"}
    \/ in.kind = "one" /\ in.x \in Xs /\ in.c \in 0 .. 1
    \/ in.kind = "words" /\ in.x \in Xs /\ in.y \in Ys /\ in.c \in 0 .. 1

LEMMA OperandsHold == Spec => []Operands
<1>1. Init => Operands
  BY DEF Init, Operands
<1>2. Operands /\ [Next]_in => Operands'
  <2> SUFFICES ASSUME Operands, [Next]_in PROVE Operands'
    OBVIOUS
  <2>1. CASE PickFirst
    BY <2>1 DEF PickFirst, Operands
  <2>2. CASE PickSecond
    BY <2>2 DEF PickSecond, Operands
  <2>3. CASE PickString
    BY <2>3 DEF PickString, Operands
  <2>4. CASE UNCHANGED in
    BY <2>4 DEF Operands
  <2> QED
    BY <2>1, <2>2, <2>3, <2>4 DEF Next
<1> QED
  BY <1>1, <1>2, PTL DEF Spec

LEMMA CarryFlag ==
  ASSUME NEW c \in 0 .. 1
  PROVE  Carry(c) \in FlagWords /\ Carry(c)[CF] = c
BY DEF Carry, Word, NoFlags, FlagWords, FlagBits, CF, PF, AF, ZF, SF, DF, OF, LP

LEMMA ComparesRight ==
  ASSUME Operands PROVE CompareDecides
<1> SUFFICES ASSUME Words PROVE CompareDecides
  BY DEF CompareDecides
<1>1. PICK x \in 0 .. 255, y \in 0 .. 255, c \in 0 .. 1 : x = in.x /\ y = in.y /\ c = in.c
  BY OperandBounds DEF Operands, Words
<1>2. Width(8) /\ WordsOf(8) = 0 .. 255 /\ Carry(c) \in FlagWords
  BY CodeWidths, CarryFlag DEF WordsOf
<1> DEFINE r == Sub(8, Carry(c), x, y)
           f == r.f
           z == Trunc(8, x - y)
<1>3. Decides(8, f, x, y)
  BY <1>2, CompareAtEveryWidth
<1>4. z \in 0 .. 255
  BY DEF Trunc
<1>5. f[LP] = z
  <2>1. f[LP] = z % 256
    BY <1>2, AluFlagsAre DEF Sub
  <2> HIDE DEF z, f
  <2> QED
    BY <1>4, <2>1
<1>6. IsParity(f) = Bool(Cardinality({i \in 0 .. 7 : Bit(z, i) = 1}) % 2 = 0)
  <2> HIDE DEF z, f
  <2>1. IsParity(f) = GetParity(z)
    BY <1>5 DEF IsParity, GetFlag
  <2> QED
    BY ONLY <1>4, <2>1, ParityIs, OnesAre
<1> HIDE DEF r, z
<1> QED
  BY ONLY <1>1, <1>3, <1>6 DEF CompareDecides, Decides, r, z

\* The body of CarryChains, for operands x and y and carry c.
ChainsOf(x, y, c) ==
    LET k == 4
        F == Carry(c)
        a0 == Add(k, F, x % 16, y % 16)
        a1 == Adc(k, a0.f, x \div 16, y \div 16)
        s0 == Sub(k, F, x % 16, y % 16)
        s1 == Sbb(k, s0.f, x \div 16, y \div 16)
        c0 == Adc(k, F, x % 16, y % 16)
        c1 == Adc(k, c0.f, x \div 16, y \div 16)
        Fits(n) == Bool(n \notin -128 .. 127) IN
    /\ a1.z * 16 + a0.z = Trunc(8, x + y) /\ a1.f[CF] = Bool(x + y > 255)
    /\ a1.f[OF] = Fits(Signed(8, x) + Signed(8, y))
    /\ c1.z * 16 + c0.z = Trunc(8, x + y + c) /\ c1.f[CF] = Bool(x + y + c > 255)
    /\ c1.f[OF] = Fits(Signed(8, x) + Signed(8, y) + c)
    /\ s1.z * 16 + s0.z = Trunc(8, x - y) /\ s1.f[CF] = Bool(x < y)
    /\ s1.f[OF] = Fits(Signed(8, x) - Signed(8, y))
    /\ Neg(8, F, x) = [Sub(8, F, 0, x) EXCEPT !.f = [@ EXCEPT ![AF] = Bool(x # 0)]]
    /\ Dec(8, F, x) = [Sub(8, F, x, 1) EXCEPT !.f = [@ EXCEPT ![CF] = c]]
    /\ Inc(8, F, x, 0) = [Add(8, F, x, 1) EXCEPT !.f = [@ EXCEPT ![CF] = c, ![AF] = 0]]

LEMMA CarriesRight ==
  ASSUME Operands PROVE CarryChains
<1> SUFFICES ASSUME Words PROVE CarryChains
  BY DEF CarryChains
<1>1. PICK x \in 0 .. 255, y \in 0 .. 255, c \in 0 .. 1 : x = in.x /\ y = in.y /\ c = in.c
  BY OperandBounds DEF Operands, Words
<1>2. Width(8) /\ WordsOf(8) = 0 .. 255 /\ Doubles(4) /\ WordsOf(2 * 4) = 0 .. 255 /\ 2^4 = 16
  BY CodeWidths, CodeDoubles DEF WordsOf
<1>3. Carry(c) \in FlagWords /\ Carry(c)[CF] = c
  BY CarryFlag
<1> DEFINE F == Carry(c)
           a0 == Add(4, F, x % 16, y % 16)
           a1 == Adc(4, a0.f, x \div 16, y \div 16)
           c0 == Adc(4, F, x % 16, y % 16)
           c1 == Adc(4, c0.f, x \div 16, y \div 16)
           s0 == Sub(4, F, x % 16, y % 16)
           s1 == Sbb(4, s0.f, x \div 16, y \div 16)
           Fits(n) == Bool(n \notin -128 .. 127)
<1>4. IsSum(4, a0, a1, x, y, 0) /\ IsSum(4, c0, c1, x, y, c) /\ IsDifference(4, s0, s1, x, y, 0)
  BY <1>2, <1>3, CarriesAtEveryWidth
<1>5. Signed(8, x) \in Int /\ Signed(8, y) \in Int
  BY DEF Signed
<1>6. \A n \in Int : Overflows(8, n) = Fits(n)
  BY DEF Overflows, Bool
<1> HIDE DEF F, a0, a1, c0, c1, s0, s1
<1>7. 2 * 4 = 8 /\ 2^8 = 256 /\ 2^4 = 16
  OBVIOUS
<1>8. a1.z * 16 + a0.z = Trunc(8, x + y) /\ a1.f[CF] = Bool(x + y > 255) /\ a1.f[OF] = Fits(Signed(8, x) + Signed(8, y))
  <2>1. /\ a1.z * 16 + a0.z = Trunc(8, x + y + 0) /\ a1.f[CF] = Bool(x + y + 0 >= 256)
        /\ a1.f[OF] = Overflows(8, Signed(8, x) + Signed(8, y) + 0)
    BY ONLY <1>4, <1>7 DEF IsSum
  <2>2. x + y + 0 = x + y /\ Signed(8, x) + Signed(8, y) + 0 = Signed(8, x) + Signed(8, y)
        /\ Signed(8, x) + Signed(8, y) \in Int
    BY <1>5
  <2>3. Bool(x + y + 0 >= 256) = Bool(x + y > 255)
    BY DEF Bool
  <2> QED
    BY ONLY <1>6, <2>1, <2>2, <2>3
<1>9. /\ c1.z * 16 + c0.z = Trunc(8, x + y + c) /\ c1.f[CF] = Bool(x + y + c > 255)
      /\ c1.f[OF] = Fits(Signed(8, x) + Signed(8, y) + c)
  <2>1. /\ c1.z * 16 + c0.z = Trunc(8, x + y + c) /\ c1.f[CF] = Bool(x + y + c >= 256)
        /\ c1.f[OF] = Overflows(8, Signed(8, x) + Signed(8, y) + c)
    BY ONLY <1>4, <1>7 DEF IsSum
  <2>2. Signed(8, x) + Signed(8, y) + c \in Int
    BY <1>5
  <2>3. Bool(x + y + c >= 256) = Bool(x + y + c > 255)
    BY DEF Bool
  <2> QED
    BY ONLY <1>6, <2>1, <2>2, <2>3
<1>10. s1.z * 16 + s0.z = Trunc(8, x - y) /\ s1.f[CF] = Bool(x < y) /\ s1.f[OF] = Fits(Signed(8, x) - Signed(8, y))
  <2>1. /\ s1.z * 16 + s0.z = Trunc(8, x - y - 0) /\ s1.f[CF] = Bool(x < y + 0)
        /\ s1.f[OF] = Overflows(8, Signed(8, x) - Signed(8, y) - 0)
    BY ONLY <1>4, <1>7 DEF IsDifference
  <2>2. x - y - 0 = x - y /\ Signed(8, x) - Signed(8, y) - 0 = Signed(8, x) - Signed(8, y)
        /\ Signed(8, x) - Signed(8, y) \in Int /\ y + 0 = y
    BY <1>5
  <2> QED
    BY ONLY <1>6, <2>1, <2>2
<1>11. /\ Neg(8, F, x) = [Sub(8, F, 0, x) EXCEPT !.f = [@ EXCEPT ![AF] = Bool(x # 0)]]
       /\ Dec(8, F, x) = [Sub(8, F, x, 1) EXCEPT !.f = [@ EXCEPT ![CF] = c]]
       /\ Inc(8, F, x, 0) = [Add(8, F, x, 1) EXCEPT !.f = [@ EXCEPT ![CF] = c, ![AF] = 0]]
  BY <1>2, <1>3, StepsAtEveryWidth DEF F
<1> QED
  <2>1. ChainsOf(x, y, c)
    BY ONLY <1>8, <1>9, <1>10, <1>11 DEF ChainsOf, F, a0, a1, c0, c1, s0, s1
  <2>2. ChainsOf(in.x, in.y, in.c)
    BY ONLY <1>1, <2>1
  <2> QED
    BY ONLY <2>2 DEF CarryChains, ChainsOf

\* Comparison and carry are exact for every choice of operands: alu.c's kernels decide the
\* order of two words and join words to double ones.
THEOREM OrderAndCarryCorrect == Spec => []OrderAndCarryExact
<1>1. Operands => OrderAndCarryExact
  BY ComparesRight, CarriesRight DEF OrderAndCarryExact
<1> QED
  BY <1>1, OperandsHold, PTL

(* Products of two words by halves of words. *)

Halved(k) ==
    /\ Width(k) /\ 2^(k \div 2) \in Nat /\ 2^k = 2^(k \div 2) * 2^(k \div 2) /\ 2^(k \div 2) >= 4

LEMMA CodeHalves == \A k \in {4, 8, 16, 32} : Halved(k)
<1>1. 4 \div 2 = 2 /\ 8 \div 2 = 4 /\ 16 \div 2 = 8 /\ 32 \div 2 = 16
  OBVIOUS
<1>2. Halved(4)
  BY <1>1, CodeWidths DEF Halved
<1>3. Halved(8)
  BY <1>1, CodeWidths DEF Halved
<1>4. Halved(16)
  BY <1>1, CodeWidths DEF Halved
<1>5. Halved(32)
  BY <1>1, CodeWidths DEF Halved
<1> QED
  BY <1>2, <1>3, <1>4, <1>5

LEMMA TimesMonotone ==
  ASSUME NEW a \in Nat, NEW b \in Nat, NEW c \in Nat, NEW d \in Nat, a <= c, b <= d
  PROVE  a * b \in Nat /\ a * b <= c * d
<1>1. PICK e \in Nat : c = a + e
  <2>1. c - a \in Nat /\ c = a + (c - a)
    OBVIOUS
  <2> QED
    BY <2>1
<1>2. PICK g \in Nat : d = b + g
  <2>1. d - b \in Nat /\ d = b + (d - b)
    OBVIOUS
  <2> QED
    BY <2>1
<1>3. c * d = a * b + a * g + e * d
  <2>1. c * d = a * d + e * d
    BY <1>1
  <2>2. a * d = a * b + a * g
    BY <1>2
  <2>3. a * d \in Int /\ e * d \in Int /\ a * b \in Int /\ a * g \in Int
    OBVIOUS
  <2> QED
    BY <2>1, <2>2, <2>3
<1>4. a * b \in Nat /\ a * g \in Nat /\ e * d \in Nat
  OBVIOUS
<1> QED
  BY <1>3, <1>4

\* Two digits times two digits, in the order DubbleMul adds them up.
LEMMA Schoolbook ==
  ASSUME NEW H \in Nat, NEW ah \in Nat, NEW al \in Nat, NEW bh \in Nat, NEW bl \in Nat,
         NEW p1 \in Nat, NEW p0 \in Nat, NEW u1 \in Nat, NEW u0 \in Nat, NEW v1 \in Nat, NEW v0 \in Nat,
         al * bl = H * p1 + p0, p1 + ah * bl = H * u1 + u0, u0 + bh * al = H * v1 + v0
  PROVE  (u1 + v1 + ah * bh) * (H * H) + (p0 + v0 * H) = (H * ah + al) * (H * bh + bl)
<1>1. PICK p \in Nat, q \in Nat, r \in Nat, w \in Nat : p = al * bl /\ q = ah * bl /\ r = bh * al /\ w = ah * bh
  OBVIOUS
<1>2. (H * ah + al) * (H * bh + bl) = H * H * w + H * q + H * r + p
  BY <1>1
<1>3. p = H * p1 + p0 /\ q = H * u1 + u0 - p1 /\ r = H * v1 + v0 - u0
  <2>1. p1 + q = H * u1 + u0 /\ u0 + r = H * v1 + v0 /\ H * u1 \in Int /\ H * v1 \in Int
    BY <1>1
  <2> QED
    BY <1>1, <2>1
<1>4. H * q = H * H * u1 + H * u0 - H * p1 /\ H * r = H * H * v1 + H * v0 - H * u0
  BY ONLY <1>1, <1>3, H \in Nat, p1 \in Nat, u1 \in Nat, u0 \in Nat, v1 \in Nat, v0 \in Nat
<1>5. (u1 + v1 + w) * (H * H) + (p0 + v0 * H) = H * H * u1 + H * H * v1 + H * H * w + p0 + H * v0
  BY ONLY <1>1, H \in Nat, p0 \in Nat, u1 \in Nat, v1 \in Nat, v0 \in Nat
<1>6. /\ H * H * w \in Int /\ H * q \in Int /\ H * r \in Int /\ H * H * u1 \in Int /\ H * H * v1 \in Int
      /\ H * u0 \in Int /\ H * p1 \in Int /\ H * v0 \in Int
  BY ONLY <1>1, H \in Nat, p1 \in Nat, u1 \in Nat, u0 \in Nat, v1 \in Nat, v0 \in Nat
<1>7. (u1 + v1 + w) * (H * H) + (p0 + v0 * H) = H * H * w + H * q + H * r + p
  BY ONLY <1>1, <1>3, <1>4, <1>5, <1>6, p0 \in Nat
<1> QED
  BY <1>1, <1>2, <1>7

LEMMA DigitsOf ==
  ASSUME NEW H \in Nat, H > 0, NEW h \in Nat, NEW l \in 0 .. H - 1, NEW x, x = H * h + l
  PROVE  x \div H = h /\ x % H = l
<1>1. x \in Nat /\ H * h \in Nat
  <2>1. H * h \in Nat
    OBVIOUS
  <2> QED
    BY <2>1
<1>2. PICK q \in Nat, r \in 0 .. H - 1 : q = x \div H /\ r = x % H /\ x = H * q + r
  BY <1>1, DivMod
<1>3. H * (q + 1) = H * q + H /\ H * (h + 1) = H * h + H /\ H * q \in Nat
  OBVIOUS
<1>4. H * q + r < H * (h + 1) /\ H * h + l < H * (q + 1)
  BY ONLY <1>1, <1>2, <1>3, H \in Nat, h \in Nat, l \in 0 .. H - 1, x = H * h + l
<1>5. q < h + 1 /\ h < q + 1
  <2>1. q \in Int /\ h \in Int /\ q + 1 \in Int /\ h + 1 \in Int
    OBVIOUS
  <2> QED
    BY ONLY <1>2, <1>4, <2>1, H \in Nat, l \in 0 .. H - 1, Digits
<1>6. q = h
  BY <1>5
<1>7. r = l
  BY ONLY <1>1, <1>2, <1>6, H \in Nat, h \in Nat, l \in 0 .. H - 1, x = H * h + l
<1> QED
  BY <1>2, <1>6, <1>7

\* DubbleMul, divmul.c's product of two words by their halves: every partial sum is a word,
\* and no carry is lost.
LEMMA DubbleMulExact ==
  ASSUME NEW k, Halved(k), NEW a \in WordsOf(k), NEW b \in WordsOf(k)
  PROVE  LET d == DubbleMul(k, a, b) IN
         /\ d.lo \in WordsOf(k) /\ d.hi \in WordsOf(k) /\ Value(k, d) = a * b
         /\ d = Dubble(d.lo, d.hi)
<1>1. PICK H \in Nat, M \in Nat : H = 2^(k \div 2) /\ M = 2^k /\ M = H * H /\ H >= 4
  BY DEF Halved, Width
<1>2. a \in Nat /\ b \in Nat /\ a < M /\ b < M /\ Width(k) /\ M > 0 /\ H > 0
  <2>1. a \in 0 .. M - 1 /\ b \in 0 .. M - 1 /\ Width(k)
    BY <1>1 DEF WordsOf, Halved
  <2> QED
    BY <1>1, <2>1
<1>3. PICK ah \in Nat, al \in 0 .. H - 1 : ah = a \div H /\ al = a % H /\ a = H * ah + al
  BY ONLY <1>2, DivMod, H \in Nat, Zenon
<1>4. PICK bh \in Nat, bl \in 0 .. H - 1 : bh = b \div H /\ bl = b % H /\ b = H * bh + bl
  BY ONLY <1>2, DivMod, H \in Nat, Zenon
<1>5. ah <= H - 1 /\ bh <= H - 1 /\ al \in Nat /\ bl \in Nat /\ al <= H - 1 /\ bl <= H - 1 /\ H - 1 \in Nat
  <2>1. H * ah + al < H * H /\ H * bh + bl < H * H
    BY <1>1, <1>2, <1>3, <1>4
  <2>2. ah < H /\ bh < H
    <3>1. ah \in Int /\ bh \in Int /\ H \in Int
      OBVIOUS
    <3> QED
      BY ONLY <2>1, <3>1, H \in Nat, al \in 0 .. H - 1, bl \in 0 .. H - 1, Digits
  <2> QED
    BY <1>1, <2>2
<1>6. PICK g \in Nat : g = (H - 1) * (H - 1) /\ g = M - 2 * H + 1
  <2>1. (H - 1) * (H - 1) = H * H - 2 * H + 1
    OBVIOUS
  <2>2. (H - 1) * (H - 1) \in Nat
    BY <1>5
  <2> QED
    BY <1>1, <2>1, <2>2
<1>7. /\ al * bl \in Nat /\ al * bl <= g /\ ah * bl \in Nat /\ ah * bl <= g
      /\ bh * al \in Nat /\ bh * al <= g /\ ah * bh \in Nat
  BY ONLY <1>5, <1>6, ah \in Nat, bh \in Nat, TimesMonotone
<1>8. PICK p \in Nat, q \in Nat, r \in Nat, w \in Nat : p = al * bl /\ q = ah * bl /\ r = bh * al /\ w = ah * bh
  BY <1>7
<1>9. PICK p1 \in Nat, p0 \in 0 .. H - 1 : p1 = p \div H /\ p0 = p % H /\ p = H * p1 + p0
  BY ONLY <1>2, p \in Nat, DivMod, H \in Nat, Zenon
<1>10. p1 <= H - 2
  <2>1. H * (H - 1) = M - H
    BY <1>1
  <2>2. H * p1 + p0 < H * (H - 1)
    BY ONLY <1>1, <1>6, <1>7, <1>8, <1>9, <2>1
  <2>3. p1 < H - 1
    <3>1. p1 \in Int /\ H - 1 \in Int
      OBVIOUS
    <3> QED
      BY ONLY <2>2, <3>1, H \in Nat, p0 \in 0 .. H - 1, Digits
  <2> QED
    BY <2>3
<1>11. Trunc(k, p1 + q) = p1 + q /\ p1 + q \in Nat
  <2>1. PICK t \in Nat : t = p1 + q
    OBVIOUS
  <2>2. t < M
    BY ONLY <1>1, <1>6, <1>7, <1>8, <1>10, <2>1, p1 \in Nat
  <2>3. -(2^k) <= t /\ t < 2 * 2^k /\ t < 2^k /\ ~(t < 0) /\ t \in Int
    BY ONLY <1>1, <2>2, t \in Nat
  <2> QED
    BY ONLY <1>2, <2>1, <2>3, t \in Nat, TruncIs
<1>12. PICK u1 \in Nat, u0 \in 0 .. H - 1 : u1 = (p1 + q) \div H /\ u0 = (p1 + q) % H /\ p1 + q = H * u1 + u0
  <2>1. PICK t \in Nat : t = p1 + q
    BY <1>11
  <2>2. \E i \in Nat, j \in 0 .. H - 1 : i = t \div H /\ j = t % H /\ t = H * i + j
    BY ONLY <1>2, DivMod, H \in Nat, t \in Nat, Zenon
  <2> QED
    BY ONLY <2>1, <2>2
<1>13. PICK x2 \in Nat : x2 = p0 + u0 * H /\ x2 \div H = u0 /\ x2 % H = p0
  <2>1. p0 + u0 * H \in Nat /\ p0 + u0 * H = H * u0 + p0 /\ u0 \in Nat
    OBVIOUS
  <2> QED
    BY ONLY <1>1, <2>1, p0 \in 0 .. H - 1, DigitsOf
<1>14. Trunc(k, u0 + r) = u0 + r /\ u0 + r \in Nat
  <2>1. PICK t \in Nat : t = u0 + r
    OBVIOUS
  <2>2. t < M
    BY ONLY <1>1, <1>6, <1>7, <1>8, <2>1, u0 \in 0 .. H - 1
  <2>3. -(2^k) <= t /\ t < 2 * 2^k /\ t < 2^k /\ ~(t < 0) /\ t \in Int
    BY ONLY <1>1, <2>2, t \in Nat
  <2> QED
    BY ONLY <1>2, <2>1, <2>3, t \in Nat, TruncIs
<1>15. PICK v1 \in Nat, v0 \in 0 .. H - 1 : v1 = (u0 + r) \div H /\ v0 = (u0 + r) % H /\ u0 + r = H * v1 + v0
  <2>1. PICK t \in Nat : t = u0 + r
    BY <1>14
  <2>2. \E i \in Nat, j \in 0 .. H - 1 : i = t \div H /\ j = t % H /\ t = H * i + j
    BY ONLY <1>2, DivMod, H \in Nat, t \in Nat, Zenon
  <2> QED
    BY ONLY <2>1, <2>2
<1>16. PICK hi \in Nat, lo \in Nat : hi = u1 + v1 + w /\ lo = p0 + v0 * H /\ lo < M /\ M * hi + lo = a * b
  <2>1. (u1 + v1 + ah * bh) * (H * H) + (p0 + v0 * H) = (H * ah + al) * (H * bh + bl)
    <3>1. p0 \in Nat /\ u0 \in Nat /\ v0 \in Nat
      OBVIOUS
    <3>2. al * bl = H * p1 + p0 /\ p1 + ah * bl = H * u1 + u0 /\ u0 + bh * al = H * v1 + v0
      BY ONLY <1>8, <1>9, <1>12, <1>15
    <3> QED
      BY ONLY <1>5, <3>1, <3>2, H \in Nat, ah \in Nat, bh \in Nat, p1 \in Nat, u1 \in Nat, v1 \in Nat, Schoolbook
  <2>2. PICK hi \in Nat, lo \in Nat : hi = u1 + v1 + w /\ lo = p0 + v0 * H
    <3>1. p0 + v0 * H \in Nat
      OBVIOUS
    <3> QED
      BY <3>1
  <2>3. lo < M
    <3>1. H * v0 + p0 < H * H
      <4>1. v0 \in Int /\ H \in Int /\ v0 < H
        OBVIOUS
      <4> QED
        BY ONLY <4>1, H \in Nat, p0 \in 0 .. H - 1, Digits
    <3>2. v0 * H = H * v0 /\ H * v0 \in Int /\ H * v0 + p0 = p0 + H * v0
      OBVIOUS
    <3> QED
      BY ONLY <1>1, <2>2, <3>1, <3>2
  <2>4. hi * M + lo = a * b
    BY ONLY <1>1, <1>3, <1>4, <1>8, <2>1, <2>2
  <2>5. hi * M = M * hi
    OBVIOUS
  <2> QED
    BY ONLY <2>2, <2>3, <2>4, <2>5, hi \in Nat, lo \in Nat
<1>17. hi < M
  <2>1. a * b < M * M
    <3>1. M - 1 \in Nat /\ a <= M - 1 /\ b <= M - 1
      BY <1>2
    <3>2. a * b <= (M - 1) * (M - 1) /\ a * b \in Nat
      BY ONLY <1>2, <3>1, TimesMonotone
    <3>3. (M - 1) * (M - 1) = M * M - 2 * M + 1 /\ M * M \in Int
      OBVIOUS
    <3> QED
      BY ONLY <1>2, <3>2, <3>3, M \in Nat
  <2>2. M * hi + lo < M * M
    BY ONLY <1>16, <2>1
  <2>3. hi \in Int /\ M \in Int /\ lo \in 0 .. M - 1
    BY <1>16
  <2> QED
    BY ONLY <2>2, <2>3, M \in Nat, Digits
<1>18. Trunc(k, hi) = hi
  <2>1. -(2^k) <= hi /\ hi < 2 * 2^k /\ hi < 2^k /\ ~(hi < 0) /\ hi \in Int
    BY ONLY <1>1, <1>17, hi \in Nat
  <2> QED
    BY ONLY <1>2, <2>1, TruncIs
<1>19. DubbleMul(k, a, b) = Dubble(lo, hi)
  <2>1. DubbleMul(k, a, b) =
          LET x1 == al * bl
              t1 == Trunc(k, x1 \div H + ah * bl)
              y2 == (x1 % H) + (t1 % H) * H
              t2 == Trunc(k, y2 \div H + bh * al)
              x3 == (y2 % H) + (t2 % H) * H IN
          Dubble(x3, Trunc(k, t1 \div H + t2 \div H + ah * bh))
    BY ONLY <1>1, <1>3, <1>4 DEF DubbleMul
  <2>2. DubbleMul(k, a, b) = Dubble(p0 + v0 * H, Trunc(k, u1 + v1 + w))
    BY ONLY <2>1, <1>8, <1>9, <1>11, <1>12, <1>13, <1>14, <1>15, Zenon
  <2> QED
    BY ONLY <1>16, <1>18, <2>2
<1>20. Value(k, Dubble(lo, hi)) = a * b
  <2>1. hi * M = M * hi
    OBVIOUS
  <2> QED
    BY ONLY <1>1, <1>16, <2>1 DEF Value, Dubble
<1>21. lo \in WordsOf(k) /\ hi \in WordsOf(k)
  BY <1>1, <1>16, <1>17 DEF WordsOf
<1>22. Dubble(lo, hi).lo = lo /\ Dubble(lo, hi).hi = hi
  BY DEF Dubble
<1> QED
  BY ONLY <1>19, <1>20, <1>21, <1>22

\* The negative of a double word.
LEMMA DubbleNegIs ==
  ASSUME NEW k, Doubles(k), NEW lo \in WordsOf(k), NEW hi \in WordsOf(k)
  PROVE  LET d == DubbleNeg(k, Dubble(lo, hi))
             v == Value(k, Dubble(lo, hi)) IN
         /\ d.lo \in WordsOf(k) /\ d.hi \in WordsOf(k) /\ d = Dubble(d.lo, d.hi)
         /\ Value(k, d) = IF v = 0 THEN 0 ELSE 2^(2 * k) - v
<1>1. PICK M \in Nat : M = 2^k /\ M * M = 2^(2 * k) /\ M >= 16 /\ Width(k)
  BY DEF Doubles, Width
<1>2. lo \in 0 .. M - 1 /\ hi \in 0 .. M - 1
  BY <1>1 DEF WordsOf
<1>3. \A x \in Int : -M <= x /\ x < 2 * M => Trunc(k, x) = IF x < 0 THEN x + M ELSE IF x < M THEN x ELSE x - M
  BY <1>1, TruncIs
<1> DEFINE c == Bool(Trunc(k, lo - 1) > lo)
           l == Trunc(k, -lo)
           h == Trunc(k, -1 - (hi - c))
<1>4. DubbleNeg(k, Dubble(lo, hi)) = Dubble(l, h)
  BY DEF DubbleNeg, Dubble
<1>5. Trunc(k, lo - 1) = IF lo = 0 THEN M - 1 ELSE lo - 1
  <2>1. lo - 1 \in Int /\ -M <= lo - 1 /\ lo - 1 < 2 * M
    BY <1>1, <1>2
  <2> QED
    BY <1>1, <1>2, <1>3, <2>1
<1>6. c = IF lo = 0 THEN 1 ELSE 0
  BY <1>1, <1>2, <1>5 DEF Bool
<1>7. l = IF lo = 0 THEN 0 ELSE M - lo
  <2>1. -lo \in Int /\ -M <= -lo /\ -lo < 2 * M
    BY <1>1, <1>2
  <2> QED
    BY <1>1, <1>2, <1>3, <2>1
<1>8. h = IF lo = 0 THEN (IF hi = 0 THEN 0 ELSE M - hi) ELSE M - 1 - hi
  <2>1. PICK e \in Int : e = -1 - (hi - c)
    BY <1>2, <1>6
  <2>2. e = (IF lo = 0 THEN -hi ELSE -1 - hi)
    BY <1>2, <1>6, <2>1
  <2>3. -M <= e /\ e < 2 * M
    BY <1>1, <1>2, <2>2
  <2>4. Trunc(k, e) = IF e < 0 THEN e + M ELSE IF e < M THEN e ELSE e - M
    BY <1>3, <2>3
  <2> QED
    BY <1>1, <1>2, <2>1, <2>2, <2>4
<1> HIDE DEF c, l, h
<1>9. l \in WordsOf(k) /\ h \in WordsOf(k)
  BY <1>1, <1>2, <1>7, <1>8 DEF WordsOf
<1>10. hi * M \in Nat /\ h * M \in Nat
  <2>1. h \in Nat /\ hi \in Nat
    BY <1>1, <1>2, <1>8
  <2> QED
    BY <2>1
<1>11. h * M + l = IF hi * M + lo = 0 THEN 0 ELSE M * M - (hi * M + lo)
  <2>1. CASE lo = 0 /\ hi = 0
    <3>1. l = 0 /\ h = 0 /\ 0 * M = 0
      BY <1>7, <1>8, <2>1
    <3> QED
      BY <2>1, <3>1
  <2>2. CASE lo = 0 /\ hi # 0
    <3>1. l = 0 /\ h = M - hi
      BY <1>7, <1>8, <2>2
    <3>2. (M - hi) * M = M * M - hi * M
      BY <1>2
    <3>3. hi * M # 0
      BY <1>1, <1>2, <2>2
    <3>4. M * M \in Int
      OBVIOUS
    <3> QED
      BY ONLY <1>10, <2>2, <3>1, <3>2, <3>3, <3>4
  <2>3. CASE lo # 0
    <3>1. l = M - lo /\ h = M - 1 - hi
      BY <1>7, <1>8, <2>3
    <3>2. (M - 1 - hi) * M = M * M - M - hi * M
      BY <1>2
    <3>3. hi * M + lo # 0
      BY <1>2, <1>10, <2>3
    <3>4. M * M \in Int /\ lo \in Int
      BY <1>2
    <3> QED
      BY ONLY <1>10, <3>1, <3>2, <3>3, <3>4, M \in Nat
  <2> QED
    BY <2>1, <2>2, <2>3
<1>12. Dubble(l, h).lo = l /\ Dubble(l, h).hi = h /\ Dubble(lo, hi).lo = lo /\ Dubble(lo, hi).hi = hi
  BY DEF Dubble
<1> QED
  BY ONLY <1>1, <1>4, <1>9, <1>11, <1>12 DEF Value

Magnitude(s) == IF s < 0 THEN -s ELSE s

\* The absolute value of a word, the most negative one included.
LEMMA AbsIs ==
  ASSUME NEW k, Width(k), NEW a \in WordsOf(k)
  PROVE  Abs(k, a) \in WordsOf(k) /\ Abs(k, a) = Magnitude(Signed(k, a)) /\ Abs(k, a) <= 2^(k - 1)
         /\ Signed(k, a) \in -(2^(k - 1)) .. 2^(k - 1) - 1 /\ (Sign(k, a) = 1 <=> Signed(k, a) < 0)
         /\ Sign(k, a) \in 0 .. 1
<1>1. PICK M \in Nat, H \in Nat : M = 2^k /\ H = 2^(k - 1) /\ M = 2 * H /\ H >= 8 /\ a \in 0 .. M - 1
  BY DEF Width, WordsOf
<1>2. Sign(k, a) = (IF a < H THEN 0 ELSE 1) /\ Signed(k, a) = (IF a < H THEN a ELSE a - M)
  BY <1>1, SignIs, SignedIs
<1>3. Trunc(k, -a) = IF a = 0 THEN 0 ELSE M - a
  <2>1. -a \in Int /\ -(2^k) <= -a /\ -a < 2 * 2^k
    BY <1>1
  <2> QED
    BY <1>1, <2>1, TruncIs
<1>4. Abs(k, a) = IF a < H THEN a ELSE M - a
  BY <1>1, <1>2, <1>3 DEF Abs
<1> QED
  BY ONLY <1>1, <1>2, <1>4 DEF Magnitude, WordsOf

\* DubbleImul: the signed product of two words is exact.
LEMMA DubbleImulExact ==
  ASSUME NEW k, Halved(k), Doubles(k), NEW a \in WordsOf(k), NEW b \in WordsOf(k)
  PROVE  LET d == DubbleImul(k, a, b) IN
         /\ d.lo \in WordsOf(k) /\ d.hi \in WordsOf(k) /\ d = Dubble(d.lo, d.hi)
         /\ Signed(2 * k, Value(k, d)) = Signed(k, a) * Signed(k, b)
<1>1. PICK M \in Nat, H \in Nat : /\ M = 2^k /\ H = 2^(k - 1) /\ M = 2 * H /\ H >= 8
                               /\ 2^(2 * k) = M * M /\ 2^(2 * k - 1) = M * H
  BY DEF Doubles, Width
<1>2. Width(k) /\ Width(2 * k)
  BY DEF Doubles
<1>3. PICK s \in Int, t \in Int : s = Signed(k, a) /\ t = Signed(k, b)
  BY <1>2, AbsIs
<1>4. /\ Abs(k, a) \in WordsOf(k) /\ Abs(k, a) = Magnitude(s) /\ Abs(k, a) <= H /\ (Sign(k, a) = 1 <=> s < 0)
      /\ Abs(k, b) \in WordsOf(k) /\ Abs(k, b) = Magnitude(t) /\ Abs(k, b) <= H /\ (Sign(k, b) = 1 <=> t < 0)
      /\ Sign(k, a) \in 0 .. 1 /\ Sign(k, b) \in 0 .. 1
  BY <1>1, <1>2, <1>3, AbsIs
<1>5. PICK p : p = DubbleMul(k, Abs(k, a), Abs(k, b))
  OBVIOUS
<1>6. p.lo \in WordsOf(k) /\ p.hi \in WordsOf(k) /\ Value(k, p) = Abs(k, a) * Abs(k, b) /\ p = Dubble(p.lo, p.hi)
  BY ONLY <1>4, <1>5, Halved(k), DubbleMulExact
<1>7. PICK v \in Nat : v = Value(k, p) /\ v = Magnitude(s) * Magnitude(t) /\ v <= H * H
  <2>1. Magnitude(s) \in Nat /\ Magnitude(t) \in Nat
    BY DEF Magnitude
  <2>2. Magnitude(s) * Magnitude(t) \in Nat /\ Magnitude(s) * Magnitude(t) <= H * H
    BY ONLY <1>4, <2>1, H \in Nat, TimesMonotone
  <2> QED
    BY ONLY <1>4, <1>6, <2>2
<1>8. PICK N \in Nat, G \in Nat : N = 2^(2 * k) /\ G = 2^(2 * k - 1) /\ N = 2 * G /\ v < G /\ G > 0
  <2>1. M * H = 2 * (H * H) /\ M * M = 2 * (M * H) /\ H * H > 0 /\ M * H \in Nat /\ M * M \in Nat
    BY ONLY <1>1
  <2> QED
    BY ONLY <1>1, <1>7, <2>1
<1>9. \A x \in 0 .. N - 1 : Signed(2 * k, x) = IF x < G THEN x ELSE x - N
  BY ONLY <1>2, <1>8, SignedIs DEF WordsOf
<1>10. CASE Sign(k, a) = Sign(k, b)
  <2>1. DubbleImul(k, a, b) = p
    BY ONLY <1>5, <1>10 DEF DubbleImul
  <2>2. s < 0 <=> t < 0
    BY ONLY <1>4, <1>10
  <2>3. v = s * t
    <3>1. (-s) * (-t) = s * t
      OBVIOUS
    <3> QED
      BY ONLY <1>7, <2>2, <3>1 DEF Magnitude
  <2>4. Signed(2 * k, v) = v
    BY ONLY <1>8, <1>9, v \in Nat
  <2> QED
    BY ONLY <1>3, <1>6, <1>7, <2>1, <2>3, <2>4
<1>11. CASE Sign(k, a) # Sign(k, b)
  <2>1. DubbleImul(k, a, b) = DubbleNeg(k, p)
    BY ONLY <1>5, <1>11 DEF DubbleImul
  <2>2. ~(s < 0 <=> t < 0)
    BY ONLY <1>4, <1>11
  <2>3. -v = s * t
    <3>1. (-s) * t = -(s * t) /\ s * (-t) = -(s * t) /\ s * t \in Int
      OBVIOUS
    <3>2. CASE s < 0
      <4>1. v = (-s) * t
        BY ONLY <1>7, <2>2, <3>2 DEF Magnitude
      <4> QED
        BY ONLY <3>1, <4>1
    <3>3. CASE ~(s < 0)
      <4>1. v = s * (-t)
        BY ONLY <1>7, <2>2, <3>3 DEF Magnitude
      <4> QED
        BY ONLY <3>1, <4>1
    <3> QED
      BY <3>2, <3>3
  <2>4. PICK d : d = DubbleNeg(k, p)
    OBVIOUS
  <2>5. /\ d.lo \in WordsOf(k) /\ d.hi \in WordsOf(k) /\ d = Dubble(d.lo, d.hi)
        /\ Value(k, d) = IF v = 0 THEN 0 ELSE N - v
    <3>1. PICK lo \in WordsOf(k), hi \in WordsOf(k) : p = Dubble(lo, hi)
      BY ONLY <1>6
    <3>2. LET e == DubbleNeg(k, Dubble(lo, hi))
              u == Value(k, Dubble(lo, hi)) IN
          /\ e.lo \in WordsOf(k) /\ e.hi \in WordsOf(k) /\ e = Dubble(e.lo, e.hi)
          /\ Value(k, e) = IF u = 0 THEN 0 ELSE 2^(2 * k) - u
      BY DubbleNegIs
    <3> QED
      BY ONLY <1>7, <1>8, <2>4, <3>1, <3>2
  <2>6. Signed(2 * k, IF v = 0 THEN 0 ELSE N - v) = -v
    <3>1. PICK x \in 0 .. N - 1 : x = IF v = 0 THEN 0 ELSE N - v
      BY ONLY <1>8, v \in Nat
    <3>2. Signed(2 * k, x) = IF x < G THEN x ELSE x - N
      BY <1>9
    <3>3. (IF x < G THEN x ELSE x - N) = -v
      BY ONLY <1>8, <3>1, v \in Nat
    <3> QED
      BY ONLY <3>1, <3>2, <3>3
  <2> QED
    BY ONLY <1>3, <2>1, <2>3, <2>4, <2>5, <2>6
<1> QED
  BY <1>10, <1>11

(* Division by shifting and subtracting. *)

\* Induction up to n, over a set instead of a predicate.
LEMMA Climb ==
  ASSUME NEW n \in Nat, NEW S \in SUBSET (0 .. n), 0 \in S, \A i \in S : i < n => i + 1 \in S
  PROVE  \A i \in 0 .. n : i \in S
<1> SUFFICES ASSUME NEW k \in 0 .. n, k \notin S PROVE FALSE
  OBVIOUS
<1> DEFINE T == S \cap (0 .. k)
           f == [i \in T |-> i + 1]
<1>1. 0 \in T /\ \A i \in T : i < k /\ i + 1 \in T \ {0}
  OBVIOUS
<1>2. IsFiniteSet(T)
  <2>1. IsFiniteSet(0 .. k) /\ T \in SUBSET (0 .. k)
    BY FS_Interval
  <2> QED
    BY <2>1, FS_Subset
<1>3. IsFiniteSet(T \ {0}) /\ Cardinality(T \ {0}) = Cardinality(T) - 1 /\ Cardinality(T) \in Nat
  BY <1>1, <1>2, FS_RemoveElement, FS_CardinalityType
<1>4. f \in [T -> T \ {0}]
  BY <1>1
<1>5. Cardinality(T \ {0}) < Cardinality(T)
  BY <1>3
<1>6. \E x, y \in T : x # y /\ f[x] = f[y]
  <2> HIDE DEF T, f
  <2> QED
    BY <1>2, <1>3, <1>4, <1>5, FS_PigeonHole
<1> QED
  BY <1>6

\* The loops of DubbleDiv and of string.c.  One element of a string instruction with a prefix.
Element(op, w) == [Once(op, w) EXCEPT !.cx = @ - 1]
Repeat(op, rep, w) ==
    IF w.stop \/ w.m.cx = 0 THEN w
    ELSE [m |-> Element(op, w.m), stop |-> Stops(op, rep, Once(op, w.m))]
\* One byte of CopyChunk, and one chunk.
Sense(df) == IF df = 0 THEN 1 ELSE -1
CopyByte(k, i, mem) == [mem EXCEPT ![k.di + Sense(k.df) * (i - 1)] = mem[k.si + Sense(k.df) * (i - 1)]]
MovChunk(w) == Least({w.cx, Remain(w.di, w.df), Remain(w.si, w.df)})
MovStep(w) ==
    IF w.cx = 0 THEN w
    ELSE LET n == MovChunk(w)
             by == IF w.df = 0 THEN n ELSE -n IN
         [w EXCEPT !.mem = CopyChunk(@, w.di, w.si, n, w.df), !.di = @ + by, !.si = @ + by, !.cx = @ - n]
StosChunk(w) == Least({w.cx, Remain(w.di, 0)})
StosStep(w) ==
    IF w.cx = 0 THEN w
    ELSE LET n == StosChunk(w) IN
         [w EXCEPT !.mem = [a \in DOMAIN @ |-> IF a \in w.di .. w.di + n - 1 THEN w.al ELSE @[a]],
                   !.di = @ + n, !.cx = @ - n]

\* Turn i of the loop of that name, where k is what the loop does not change.
LoopStep(way, k, i, acc) ==
    CASE way = "up"     -> DubbleShl(k, acc)
      [] way = "down"   -> QuotientBit(k, acc)
      [] way = "string" -> Repeat(k.op, k.rep, acc)
      [] way = "copy"   -> CopyByte(k, i, acc)
      [] way = "movs"   -> MovStep(acc)
      [] way = "stos"   -> StosStep(acc)
Runs(f, way, k, base, n) ==
    /\ DOMAIN f = 0 .. n /\ f[0] = base
    /\ \A i \in 1 .. n : f[i] = LoopStep(way, k, i, f[i - 1])

IsLoop(f, way, k, base, n) == Runs(f, way, k, base, n) /\ f = [i \in 0 .. n |-> f[i]]

LEMMA LoopRuns ==
  ASSUME NEW way, NEW k, NEW base, NEW n \in Nat
  PROVE  \E f : IsLoop(f, way, k, base, n)
<1> DEFINE S == {j \in 0 .. n : \E f : Runs(f, way, k, base, j)}
<1>1. 0 \in S
  <2>1. Runs([i \in 0 .. 0 |-> base], way, k, base, 0)
    BY DEF Runs
  <2> QED
    BY <2>1
<1>2. ASSUME NEW j \in S, j < n PROVE j + 1 \in S
  <2>1. PICK f : Runs(f, way, k, base, j)
    BY <1>2
  <2> DEFINE g == [i \in 0 .. j + 1 |-> IF i <= j THEN f[i] ELSE LoopStep(way, k, i, f[j])]
  <2>2. DOMAIN g = 0 .. j + 1 /\ g[0] = base
    BY <2>1 DEF Runs
  <2>3. ASSUME NEW i \in 1 .. j + 1 PROVE g[i] = LoopStep(way, k, i, g[i - 1])
    <3>1. CASE i <= j
      <4>1. i \in 0 .. j + 1 /\ i - 1 \in 0 .. j + 1 /\ i - 1 <= j /\ i \in 1 .. j
        BY <3>1
      <4>2. g[i] = f[i] /\ g[i - 1] = f[i - 1]
        BY <3>1, <4>1
      <4> QED
        BY <2>1, <4>1, <4>2 DEF Runs
    <3>2. CASE i = j + 1
      <4>1. g[i] = LoopStep(way, k, i, f[j]) /\ g[j] = f[j] /\ i - 1 = j
        BY <3>2
      <4> QED
        BY <4>1
    <3> QED
      BY <3>1, <3>2
  <2>4. Runs(g, way, k, base, j + 1)
    <3> HIDE DEF g
    <3> QED
      BY <2>2, <2>3 DEF Runs
  <2> QED
    BY <2>4, <1>2
<1>3. n \in S
  <2>1. S \in SUBSET (0 .. n)
    OBVIOUS
  <2> HIDE DEF S
  <2> QED
    BY <1>1, <1>2, <2>1, Climb
<1>4. PICK h : Runs(h, way, k, base, n)
  BY <1>3
<1>5. \E g : g = [i \in 0 .. n |-> h[i]] /\ Runs(g, way, k, base, n)
  <2>1. PICK g : g = [i \in 0 .. n |-> h[i]]
    OBVIOUS
  <2>2. \A i \in 0 .. n : g[i] = h[i]
    BY <2>1
  <2>3. ASSUME NEW i \in 1 .. n PROVE g[i] = LoopStep(way, k, i, g[i - 1])
    <3>1. i \in 0 .. n /\ i - 1 \in 0 .. n
      OBVIOUS
    <3> QED
      BY <1>4, <2>2, <3>1 DEF Runs
  <2>4. g[0] = base
    BY <1>4, <2>2 DEF Runs
  <2> QED
    BY <2>1, <2>3, <2>4 DEF Runs
<1>6. PICK g : g = [i \in 0 .. n |-> h[i]] /\ Runs(g, way, k, base, n)
  BY <1>5
<1>7. g = [i \in 0 .. n |-> g[i]]
  BY <1>6
<1>8. IsLoop(g, way, k, base, n)
  BY <1>6, <1>7 DEF IsLoop
<1> QED
  BY <1>8

Exceeds(k, up, a) == {i \in 0 .. 2 * k - 1 : ~DubbleLte(up[i], a)} \cup {2 * k}
FirstOf(S) == CHOOSE i \in S : \A j \in S : i <= j
Base(a, d) == [a |-> a, d |-> d, q |-> Dubble(0, 0)]

Fixed(g, way, k, base, n) == g = [i \in 0 .. n |-> IF i = 0 THEN base ELSE LoopStep(way, k, i, g[i - 1])]

\* DubbleDiv is two loops, each the run of its step.
DivRuns(k, a, b, up, n, down) ==
    /\ Runs(up, "up", k, Dubble(b, 0), 2 * k)
    /\ n = FirstOf(Exceeds(k, up, a))
    /\ Runs(down, "down", k, Base(a, up[n]), n)
    /\ DubbleDiv(k, a, b) = [q |-> down[n].q, r |-> down[n].a.lo]

LEMMA LoopFixed ==
  ASSUME NEW way, NEW k, NEW base, NEW n \in Nat
  PROVE  \E g : Fixed(g, way, k, base, n)
<1>1. PICK h : IsLoop(h, way, k, base, n)
  BY LoopRuns
<1>2. Runs(h, way, k, base, n) /\ h = [i \in 0 .. n |-> h[i]]
  BY <1>1 DEF IsLoop
<1>3. ASSUME NEW i \in 0 .. n PROVE h[i] = IF i = 0 THEN base ELSE LoopStep(way, k, i, h[i - 1])
  <2>1. i = 0 \/ i \in 1 .. n
    OBVIOUS
  <2> QED
    BY <1>2, <2>1 DEF Runs
<1>4. Fixed(h, way, k, base, n)
  BY <1>2, <1>3 DEF Fixed
<1> QED
  BY <1>4

LEMMA FixedRuns ==
  ASSUME NEW way, NEW k, NEW base, NEW n \in Nat, NEW g, Fixed(g, way, k, base, n)
  PROVE  Runs(g, way, k, base, n)
<1>1. DOMAIN g = 0 .. n /\ \A i \in 0 .. n : g[i] = IF i = 0 THEN base ELSE LoopStep(way, k, i, g[i - 1])
  BY ONLY Fixed(g, way, k, base, n) DEF Fixed
<1>2. 0 \in 0 .. n /\ \A i \in 1 .. n : i \in 0 .. n /\ i # 0
  OBVIOUS
<1> QED
  BY ONLY <1>1, <1>2 DEF Runs

LEMMA DubbleDivRuns ==
  ASSUME NEW k \in Nat, NEW a, NEW b,
         \A up : Runs(up, "up", k, Dubble(b, 0), 2 * k) => FirstOf(Exceeds(k, up, a)) \in Nat
  PROVE  \E up, n, down : DivRuns(k, a, b, up, n, down)
<1> DEFINE U[i \in 0 .. 2 * k] == IF i = 0 THEN Dubble(b, 0) ELSE DubbleShl(k, U[i - 1])
           E == {i \in 0 .. 2 * k - 1 : ~DubbleLte(U[i], a)} \cup {2 * k}
           t == CHOOSE i \in E : \A j \in E : i <= j
           D[i \in 0 .. t] ==
            IF i = 0 THEN [a |-> a, d |-> U[t], q |-> Dubble(0, 0)] ELSE QuotientBit(k, D[i - 1])
<1>1. DubbleDiv(k, a, b) = [q |-> D[t].q, r |-> D[t].a.lo]
  BY DEF DubbleDiv
<1> HIDE DEF U, E, t, D
<1>2. U = [i \in 0 .. 2 * k |-> IF i = 0 THEN Dubble(b, 0) ELSE DubbleShl(k, U[i - 1])]
  <2>0. 2 * k \in Nat
    OBVIOUS
  <2>1. PICK g : Fixed(g, "up", k, Dubble(b, 0), 2 * k)
    BY <2>0, LoopFixed
  <2>2. \E h : h = [i \in 0 .. 2 * k |-> IF i = 0 THEN Dubble(b, 0) ELSE DubbleShl(k, h[i - 1])]
    <3>1. g = [i \in 0 .. 2 * k |-> IF i = 0 THEN Dubble(b, 0) ELSE DubbleShl(k, g[i - 1])]
      BY ONLY <2>1 DEF Fixed, LoopStep
    <3> QED
      BY ONLY <3>1
  <2> QED
    BY ONLY <2>2 DEF U
<1>3. Runs(U, "up", k, Dubble(b, 0), 2 * k)
  <2>0. 2 * k \in Nat
    OBVIOUS
  <2>1. Fixed(U, "up", k, Dubble(b, 0), 2 * k)
    BY ONLY <1>2 DEF Fixed, LoopStep
  <2> QED
    BY ONLY <2>0, <2>1, FixedRuns
<1>4. t = FirstOf(Exceeds(k, U, a))
  BY DEF FirstOf, Exceeds, t, E
<1>5. t \in Nat
  BY <1>3, <1>4
<1>6. D = [i \in 0 .. t |-> IF i = 0 THEN Base(a, U[t]) ELSE QuotientBit(k, D[i - 1])]
  <2>1. PICK g : Fixed(g, "down", k, Base(a, U[t]), t)
    BY <1>5, LoopFixed
  <2>2. g = [i \in 0 .. t |-> IF i = 0 THEN Base(a, U[t]) ELSE QuotientBit(k, g[i - 1])]
    BY ONLY <2>1 DEF Fixed, LoopStep
  <2>3. \E h : h = [i \in 0 .. t |->
                       IF i = 0 THEN [a |-> a, d |-> U[t], q |-> Dubble(0, 0)] ELSE QuotientBit(k, h[i - 1])]
    <3>1. g = [i \in 0 .. t |->
                 IF i = 0 THEN [a |-> a, d |-> U[t], q |-> Dubble(0, 0)] ELSE QuotientBit(k, g[i - 1])]
      BY ONLY <2>2 DEF Base
    <3> QED
      BY ONLY <3>1
  <2>4. D = [i \in 0 .. t |->
               IF i = 0 THEN [a |-> a, d |-> U[t], q |-> Dubble(0, 0)] ELSE QuotientBit(k, D[i - 1])]
    BY ONLY <2>3 DEF D
  <2> QED
    BY ONLY <2>4 DEF Base
<1>7. Runs(D, "down", k, Base(a, U[t]), t)
  <2>1. Fixed(D, "down", k, Base(a, U[t]), t)
    BY ONLY <1>6 DEF Fixed, LoopStep
  <2> QED
    BY ONLY <1>5, <2>1, FixedRuns
<1>8. DivRuns(k, a, b, U, t, D)
  BY ONLY <1>1, <1>3, <1>4, <1>7 DEF DivRuns
<1> QED
  BY ONLY <1>8

\* Double words.
Pair(k, d) == d.lo \in WordsOf(k) /\ d.hi \in WordsOf(k) /\ d = Dubble(d.lo, d.hi)

\* What Doubles says of a width, in numbers.
LEMMA WidthNumbers ==
  ASSUME NEW k, Doubles(k)
  PROVE  \E M \in Nat, H \in Nat :
           /\ M = 2^k /\ H = 2^(k - 1) /\ M = 2 * H /\ H >= 8 /\ WordsOf(k) = 0 .. M - 1
           /\ 2^(2 * k) = M * M /\ 2^(2 * k - 1) = M * H /\ Width(k)
BY DEF Doubles, Width, WordsOf

LEMMA PairValue ==
  ASSUME NEW k, Doubles(k), NEW d, Pair(k, d)
  PROVE  /\ Value(k, d) \in Nat /\ Value(k, d) < 2^(2 * k)
         /\ \A g \in Int : Value(k, d) < 2^k * g <=> d.hi < g
<1>1. PICK M \in Nat, H \in Nat :
           /\ M = 2^k /\ H = 2^(k - 1) /\ M = 2 * H /\ H >= 8 /\ WordsOf(k) = 0 .. M - 1
           /\ 2^(2 * k) = M * M /\ 2^(2 * k - 1) = M * H /\ Width(k)
  BY WidthNumbers
<1>h. M = 2 * H /\ H >= 8 /\ M \in Nat /\ H \in Nat
  BY <1>1
<1>2. PICK l \in 0 .. M - 1, h \in 0 .. M - 1 : l = d.lo /\ h = d.hi
  BY <1>1 DEF Pair
<1>3. \A g \in Int : M * h + l < M * g <=> h < g
  <2>1. h \in Int
    BY <1>2
  <2> QED
    BY ONLY <2>1, M \in Nat, l \in 0 .. M - 1, Digits
<1>4. Value(k, d) = h * M + l
  BY ONLY <1>1, <1>2 DEF Value
<1>5. h * M = M * h /\ h * M \in Nat
  BY ONLY h \in 0 .. M - 1, M \in Nat
<1>6. M * h + l < M * M
  BY ONLY <1>3, M \in Nat, h \in 0 .. M - 1
<1>7. Value(k, d) = M * h + l /\ Value(k, d) \in Nat
  BY ONLY <1>4, <1>5, l \in 0 .. M - 1, M \in Nat
<1> QED
  BY ONLY <1>1, <1>2, <1>3, <1>6, <1>7

\* DubbleShl doubles; what does not fit is lost.
LEMMA ShlIs ==
  ASSUME NEW k, Doubles(k), NEW x, Pair(k, x)
  PROVE  /\ Pair(k, DubbleShl(k, x))
         /\ Value(k, DubbleShl(k, x)) =
              IF 2 * Value(k, x) < 2^(2 * k) THEN 2 * Value(k, x) ELSE 2 * Value(k, x) - 2^(2 * k)
<1>1. PICK M \in Nat, H \in Nat :
           /\ M = 2^k /\ H = 2^(k - 1) /\ M = 2 * H /\ H >= 8 /\ WordsOf(k) = 0 .. M - 1
           /\ 2^(2 * k) = M * M /\ 2^(2 * k - 1) = M * H /\ Width(k)
  BY WidthNumbers
<1>h. M = 2 * H /\ H >= 8 /\ M \in Nat /\ H \in Nat
  BY <1>1
<1>2. PICK l \in 0 .. M - 1, h \in 0 .. M - 1 : l = x.lo /\ h = x.hi
  BY <1>1 DEF Pair
<1>3. \A e \in 0 .. M - 1 : Trunc(k, e * 2) = (IF e < H THEN 2 * e ELSE 2 * e - M)
  <2> SUFFICES ASSUME NEW e \in 0 .. M - 1 PROVE Trunc(k, e * 2) = (IF e < H THEN 2 * e ELSE 2 * e - M)
    OBVIOUS
  <2>1. e * 2 \in Int /\ -(2^k) <= e * 2 /\ e * 2 < 2 * 2^k /\ e * 2 >= 0 /\ e * 2 = 2 * e
    <3>1. M = 2^k
      BY <1>1
    <3>2. e * 2 \in Int /\ -M <= e * 2 /\ e * 2 < 2 * M /\ e * 2 >= 0 /\ e * 2 = 2 * e
      BY ONLY <1>h, e \in 0 .. M - 1
    <3> QED
      BY ONLY <3>1, <3>2
  <2>2. Trunc(k, e * 2) = IF e * 2 < 0 THEN e * 2 + 2^k ELSE IF e * 2 < 2^k THEN e * 2 ELSE e * 2 - 2^k
    BY <1>1, <2>1, TruncIs
  <2>3. M = 2^k
    BY <1>1
  <2> QED
    BY ONLY <1>h, <2>1, <2>2, <2>3, e \in 0 .. M - 1
<1>4. Sign(k, l) = IF l < H THEN 0 ELSE 1
  BY <1>1, SignIs
<1>5. PICK lo \in 0 .. M - 1, hi \in 0 .. M - 1 :
         /\ DubbleShl(k, x) = Dubble(lo, hi)
         /\ lo = (IF l < H THEN 2 * l ELSE 2 * l - M)
         /\ hi = (IF h < H THEN 2 * h ELSE 2 * h - M) + (IF l < H THEN 0 ELSE 1)
  <2> DEFINE lo == IF l < H THEN 2 * l ELSE 2 * l - M
             hi == (IF h < H THEN 2 * h ELSE 2 * h - M) + (IF l < H THEN 0 ELSE 1)
  <2>1. lo \in 0 .. M - 1 /\ hi \in 0 .. M - 1
    BY ONLY <1>h, l \in 0 .. M - 1, h \in 0 .. M - 1
  <2>2. DubbleShl(k, x) = Dubble(lo, hi)
    <3>1. Trunc(k, l * 2) = lo /\ Trunc(k, h * 2) + Sign(k, l) = hi
      BY <1>3, <1>4
    <3> HIDE DEF lo, hi
    <3> QED
      BY ONLY <1>2, <3>1 DEF DubbleShl
  <2> QED
    BY ONLY <2>1, <2>2
<1>6. DubbleShl(k, x).lo = lo /\ DubbleShl(k, x).hi = hi
  BY ONLY <1>5 DEF Dubble
<1>7. Pair(k, DubbleShl(k, x))
  BY ONLY <1>1, <1>5, <1>6 DEF Pair
<1>8. Value(k, x) = h * M + l /\ Value(k, DubbleShl(k, x)) = hi * M + lo
  BY ONLY <1>1, <1>2, <1>6 DEF Value
<1>9. PICK p \in Nat : p = h * M
  BY ONLY h \in 0 .. M - 1, M \in Nat
<1>10. 2 * (p + l) < M * M <=> h < H
  <2>1. M * h + l < M * H <=> h < H
    <3>1. h \in Int /\ H \in Int
      OBVIOUS
    <3> QED
      BY ONLY <3>1, M \in Nat, l \in 0 .. M - 1, Digits
  <2>2. M * M = 2 * (M * H) /\ M * H \in Nat /\ M * h = p
    BY ONLY <1>h, <1>9, h \in 0 .. M - 1
  <2> QED
    BY ONLY <2>1, <2>2, M \in Nat, p \in Nat, l \in 0 .. M - 1
<1>11. hi * M + lo = IF h < H THEN 2 * (p + l) ELSE 2 * (p + l) - M * M
  <2>1. M * M \in Nat
    OBVIOUS
  <2>2. CASE h < H /\ l < H
    <3>1. hi = 2 * h /\ lo = 2 * l /\ (2 * h) * M = 2 * p
      BY <1>5, <1>9, <2>2
    <3> QED
      BY ONLY <2>2, <3>1, p \in Nat, l \in 0 .. M - 1
  <2>3. CASE h < H /\ ~(l < H)
    <3>1. hi = 2 * h + 1 /\ lo = 2 * l - M /\ (2 * h + 1) * M = 2 * p + M
      BY <1>5, <1>9, <2>3
    <3> QED
      BY ONLY <2>3, <3>1, p \in Nat, l \in 0 .. M - 1, M \in Nat
  <2>4. CASE ~(h < H) /\ l < H
    <3>1. hi = 2 * h - M /\ lo = 2 * l /\ (2 * h - M) * M = 2 * p - M * M
      BY <1>5, <1>9, <2>4
    <3> QED
      BY ONLY <2>1, <2>4, <3>1, p \in Nat, l \in 0 .. M - 1, M \in Nat
  <2>5. CASE ~(h < H) /\ ~(l < H)
    <3>1. hi = 2 * h - M + 1 /\ lo = 2 * l - M /\ (2 * h - M + 1) * M = 2 * p - M * M + M
      BY <1>5, <1>9, <2>5
    <3> QED
      BY ONLY <2>1, <2>5, <3>1, p \in Nat, l \in 0 .. M - 1, M \in Nat
  <2> QED
    BY <2>2, <2>3, <2>4, <2>5
<1> QED
  BY ONLY <1>1, <1>7, <1>8, <1>9, <1>10, <1>11

\* DubbleShr halves.
LEMMA ShrIs ==
  ASSUME NEW k, Doubles(k), NEW x, Pair(k, x)
  PROVE  /\ Pair(k, DubbleShr(k, x)) /\ DubbleShr(k, x).hi < 2^(k - 1)
         /\ \E c \in 0 .. 1 : Value(k, x) = 2 * Value(k, DubbleShr(k, x)) + c
<1>1. PICK M \in Nat, H \in Nat :
           /\ M = 2^k /\ H = 2^(k - 1) /\ M = 2 * H /\ H >= 8 /\ WordsOf(k) = 0 .. M - 1
           /\ 2^(2 * k) = M * M /\ 2^(2 * k - 1) = M * H /\ Width(k)
  BY WidthNumbers
<1>h. M = 2 * H /\ H >= 8 /\ M \in Nat /\ H \in Nat
  BY <1>1
<1>2. PICK l \in 0 .. M - 1, h \in 0 .. M - 1 : l = x.lo /\ h = x.hi
  BY <1>1 DEF Pair
<1>3. PICK l2 \in Nat, c \in 0 .. 1 : l2 = l \div 2 /\ l = 2 * l2 + c
  <2>1. l \in Nat /\ 2 \in Nat /\ 2 > 0 /\ 2 - 1 = 1
    OBVIOUS
  <2> QED
    BY ONLY <2>1, DivMod
<1>4. PICK h2 \in Nat, e \in 0 .. 1 : h2 = h \div 2 /\ e = h % 2 /\ h = 2 * h2 + e
  <2>1. h \in Nat /\ 2 \in Nat /\ 2 > 0 /\ 2 - 1 = 1
    OBVIOUS
  <2> QED
    BY ONLY <2>1, DivMod
<1>5. Bit(h, 0) = e
  <2>1. 2^0 = 1 /\ h \div 1 = h
    OBVIOUS
  <2> QED
    BY ONLY <1>4, <2>1 DEF Bit
<1>6. PICK lo \in 0 .. M - 1 : lo = l2 + e * H
  <2>1. CASE e = 0
    <3>1. l2 + 0 * H = l2 /\ l2 \in 0 .. M - 1
      BY <1>3
    <3> QED
      BY <2>1, <3>1
  <2>2. CASE e = 1
    <3>1. l2 + 1 * H = l2 + H /\ l2 < H
      BY ONLY <1>h, <1>3, l2 \in Nat, c \in 0 .. 1, l \in 0 .. M - 1, M \in Nat, H \in Nat
    <3>2. l2 + H \in 0 .. M - 1
      BY ONLY <1>h, <3>1, l2 \in Nat
    <3> QED
      BY <2>2, <3>1, <3>2
  <2> QED
    BY <2>1, <2>2
<1>7. h2 \in 0 .. M - 1 /\ h2 < H
  BY ONLY <1>h, <1>4, h2 \in Nat, e \in 0 .. 1, h \in 0 .. M - 1, M \in Nat, H \in Nat
<1>8. DubbleShr(k, x) = Dubble(lo, h2)
  BY ONLY <1>1, <1>2, <1>3, <1>4, <1>5, <1>6 DEF DubbleShr
<1>9. DubbleShr(k, x).lo = lo /\ DubbleShr(k, x).hi = h2
  BY ONLY <1>8 DEF Dubble
<1>10. Value(k, x) = h * M + l /\ Value(k, DubbleShr(k, x)) = h2 * M + lo
  BY ONLY <1>1, <1>2, <1>9 DEF Value
<1>11. h * M + l = 2 * (h2 * M + lo) + c
  <2>1. PICK p \in Nat : p = h2 * M
    BY ONLY h2 \in Nat, M \in Nat
  <2>2. CASE e = 0
    <3>1. h = 2 * h2 /\ (2 * h2) * M = 2 * p /\ lo = l2
      BY <1>4, <1>6, <2>1, <2>2
    <3> QED
      BY ONLY <1>3, <2>1, <3>1, p \in Nat, l2 \in Nat, c \in 0 .. 1
  <2>3. CASE e = 1
    <3>1. h = 2 * h2 + 1 /\ (2 * h2 + 1) * M = 2 * p + M /\ lo = l2 + H
      BY <1>4, <1>6, <2>1, <2>3
    <3> QED
      BY ONLY <1>h, <1>3, <2>1, <3>1, p \in Nat, l2 \in Nat, c \in 0 .. 1
  <2> QED
    BY <2>2, <2>3
<1>12. Pair(k, DubbleShr(k, x))
  BY ONLY <1>1, <1>7, <1>8, <1>9, lo \in 0 .. M - 1 DEF Pair
<1> QED
  BY ONLY <1>1, <1>7, <1>9, <1>10, <1>11, <1>12, c \in 0 .. 1

\* DubbleLte is the order of the numbers.
LEMMA LteIs ==
  ASSUME NEW k, Doubles(k), NEW x, Pair(k, x), NEW y, Pair(k, y)
  PROVE  DubbleLte(x, y) <=> Value(k, x) <= Value(k, y)
<1>1. PICK M \in Nat, H \in Nat :
           /\ M = 2^k /\ H = 2^(k - 1) /\ M = 2 * H /\ H >= 8 /\ WordsOf(k) = 0 .. M - 1
           /\ 2^(2 * k) = M * M /\ 2^(2 * k - 1) = M * H /\ Width(k)
  BY WidthNumbers
<1>h. M = 2 * H /\ H >= 8 /\ M \in Nat /\ H \in Nat
  BY <1>1
<1>2. PICK l \in 0 .. M - 1, h \in 0 .. M - 1 : l = x.lo /\ h = x.hi
  BY <1>1 DEF Pair
<1>3. PICK m \in 0 .. M - 1, g \in 0 .. M - 1 : m = y.lo /\ g = y.hi
  BY <1>1 DEF Pair
<1>4. Value(k, x) = h * M + l /\ Value(k, y) = g * M + m
  BY ONLY <1>1, <1>2, <1>3 DEF Value
<1>5. M * h + l < M * g <=> h < g
  <2>1. h \in Int /\ g \in Int
    OBVIOUS
  <2> QED
    BY ONLY <2>1, M \in Nat, l \in 0 .. M - 1, Digits
<1>6. M * g + m < M * h <=> g < h
  <2>1. h \in Int /\ g \in Int
    OBVIOUS
  <2> QED
    BY ONLY <2>1, M \in Nat, m \in 0 .. M - 1, Digits
<1>7. PICK p \in Nat, q \in Nat : p = M * h /\ p = h * M /\ q = M * g /\ q = g * M /\ (h = g => p = q)
  BY ONLY M \in Nat, h \in 0 .. M - 1, g \in 0 .. M - 1
<1>8. DubbleLte(x, y) <=> (IF h = g THEN l <= m ELSE h <= g)
  BY ONLY <1>2, <1>3 DEF DubbleLte
<1> QED
  BY ONLY <1>4, <1>5, <1>6, <1>7, <1>8, l \in 0 .. M - 1, m \in 0 .. M - 1, h \in 0 .. M - 1, g \in 0 .. M - 1, M \in Nat,
          p \in Nat, q \in Nat

\* The subtraction by words of DubbleDiv, for a divisor whose upper word is not all ones.
LEMMA MinusIs ==
  ASSUME NEW k, Doubles(k), NEW x, Pair(k, x), NEW y, Pair(k, y), y.hi < 2^(k - 1)
  PROVE  LET r == Minus(k, x, y) IN
         /\ r.c <=> Value(k, x) < Value(k, y)
         /\ Value(k, y) <= Value(k, x) => Pair(k, r.d) /\ Value(k, r.d) = Value(k, x) - Value(k, y)
<1>1. PICK M \in Nat, H \in Nat :
           /\ M = 2^k /\ H = 2^(k - 1) /\ M = 2 * H /\ H >= 8 /\ WordsOf(k) = 0 .. M - 1
           /\ 2^(2 * k) = M * M /\ 2^(2 * k - 1) = M * H /\ Width(k)
  BY WidthNumbers
<1>h. M = 2 * H /\ H >= 8 /\ M \in Nat /\ H \in Nat /\ y.hi < H
  BY <1>1
<1>2. PICK l \in 0 .. M - 1, h \in 0 .. M - 1 : l = x.lo /\ h = x.hi
  BY <1>1 DEF Pair
<1>3. PICK m \in 0 .. M - 1, g \in 0 .. M - 1 : m = y.lo /\ g = y.hi /\ g < H
  BY <1>1, <1>h DEF Pair
<1>4. Value(k, x) = h * M + l /\ Value(k, y) = g * M + m
  BY ONLY <1>1, <1>2, <1>3 DEF Value
<1>5. ASSUME NEW e \in Int, -M <= e, e < 2 * M
      PROVE  Trunc(k, e) = IF e < 0 THEN e + M ELSE IF e < M THEN e ELSE e - M
  BY <1>1, <1>5, TruncIs
<1>6. PICK lo \in 0 .. M - 1, c \in 0 .. 1 :
         /\ lo = Trunc(k, l - m) /\ c = Bool(lo > l)
         /\ IF l < m THEN lo = l - m + M /\ c = 1 ELSE lo = l - m /\ c = 0
  <2> DEFINE z == IF l < m THEN l - m + M ELSE l - m
  <2>1. l - m \in Int /\ -M <= l - m /\ l - m < 2 * M /\ z \in 0 .. M - 1 /\ (z > l <=> l < m)
    BY ONLY <1>h, l \in 0 .. M - 1, m \in 0 .. M - 1
  <2>2. Trunc(k, l - m) = IF l - m < 0 THEN l - m + M ELSE IF l - m < M THEN l - m ELSE l - m - M
    BY ONLY <1>5, <2>1
  <2>3. Trunc(k, l - m) = z
    BY ONLY <1>h, <2>1, <2>2, l \in 0 .. M - 1, m \in 0 .. M - 1
  <2>4. Bool(z > l) = IF l < m THEN 1 ELSE 0
    BY ONLY <2>1 DEF Bool
  <2>5. PICK lo \in 0 .. M - 1 : lo = z
    BY <2>1
  <2>6. lo = Trunc(k, l - m) /\ Bool(lo > l) = (IF l < m THEN 1 ELSE 0)
    BY ONLY <2>3, <2>4, <2>5
  <2> QED
    BY <2>5, <2>6
<1>7. PICK hi \in 0 .. M - 1 :
         /\ hi = Trunc(k, h - Trunc(k, g + c))
         /\ hi = IF h < g + c THEN h - (g + c) + M ELSE h - (g + c)
  <2>1. g + c \in Int /\ -M <= g + c /\ g + c < 2 * M /\ g + c < M /\ g + c >= 0
    BY ONLY <1>h, <1>3, g \in 0 .. M - 1, c \in 0 .. 1
  <2>2. Trunc(k, g + c) = IF g + c < 0 THEN g + c + M ELSE IF g + c < M THEN g + c ELSE g + c - M
    BY ONLY <1>5, <2>1
  <2>3. Trunc(k, g + c) = g + c
    BY ONLY <2>1, <2>2
  <2>4. PICK e \in Int : e = h - (g + c) /\ -M <= e /\ e < 2 * M /\ e < M
    BY ONLY <2>1, h \in 0 .. M - 1, <1>h
  <2>5. Trunc(k, e) = IF e < 0 THEN e + M ELSE IF e < M THEN e ELSE e - M
    BY ONLY <1>5, <2>4
  <2>6. PICK hi \in 0 .. M - 1 : hi = IF e < 0 THEN e + M ELSE e
    <3>1. (IF e < 0 THEN e + M ELSE e) \in 0 .. M - 1
      BY ONLY <2>4, <1>h
    <3> QED
      BY ONLY <3>1
  <2>7. hi = Trunc(k, h - Trunc(k, g + c))
    BY ONLY <2>3, <2>4, <2>5, <2>6
  <2>8. hi = IF h < g + c THEN h - (g + c) + M ELSE h - (g + c)
    BY ONLY <2>4, <2>6, <2>1, h \in 0 .. M - 1, <1>h
  <2> QED
    BY <2>7, <2>8
<1>8. Minus(k, x, y) = [d |-> Dubble(lo, hi), c |-> hi > h]
  BY ONLY <1>2, <1>3, <1>6, <1>7 DEF Minus
<1>9. (hi > h) <=> h < g + c
  BY ONLY <1>h, <1>3, <1>7, h \in 0 .. M - 1, g \in 0 .. M - 1, c \in 0 .. 1
<1>10. PICK p \in Nat, q \in Nat : p = h * M /\ q = g * M /\ p = M * h /\ q = M * g
  BY ONLY M \in Nat, h \in 0 .. M - 1, g \in 0 .. M - 1
<1>11. h < g + c <=> p + l < q + m
  <2>1. M * h + l < M * g <=> h < g
    <3>1. h \in Int /\ g \in Int
      OBVIOUS
    <3> QED
      BY ONLY <3>1, M \in Nat, l \in 0 .. M - 1, Digits
  <2>2. M * g + m < M * h <=> g < h
    <3>1. h \in Int /\ g \in Int
      OBVIOUS
    <3> QED
      BY ONLY <3>1, M \in Nat, m \in 0 .. M - 1, Digits
  <2>3. h = g => p = q
    BY ONLY <1>10
  <2> QED
    BY ONLY <1>6, <1>10, <2>1, <2>2, <2>3, h \in 0 .. M - 1, g \in 0 .. M - 1, l \in 0 .. M - 1, m \in 0 .. M - 1, M \in Nat,
            p \in Nat, q \in Nat
<1>12. ~(h < g + c) => hi * M + lo = (p + l) - (q + m)
  <2> SUFFICES ASSUME ~(h < g + c) PROVE hi * M + lo = (p + l) - (q + m)
    OBVIOUS
  <2>1. hi = h - (g + c)
    BY ONLY <1>7, ~(h < g + c)
  <2>2. CASE c = 0
    <3>1. hi = h - g /\ (h - g) * M = p - q
      BY <1>10, <2>1, <2>2
    <3> QED
      BY ONLY <1>6, <2>2, <3>1, p \in Nat, q \in Nat, l \in 0 .. M - 1, m \in 0 .. M - 1, M \in Nat
  <2>3. CASE c = 1
    <3>1. hi = h - g - 1 /\ (h - g - 1) * M = p - q - M
      BY <1>10, <2>1, <2>3
    <3> QED
      BY ONLY <1>6, <2>3, <3>1, p \in Nat, q \in Nat, l \in 0 .. M - 1, m \in 0 .. M - 1, M \in Nat
  <2> QED
    BY <2>2, <2>3
<1>13. Pair(k, Dubble(lo, hi)) /\ Value(k, Dubble(lo, hi)) = hi * M + lo
  BY ONLY <1>1, lo \in 0 .. M - 1, hi \in 0 .. M - 1 DEF Pair, Dubble, Value
<1>14. (p + l < q + m) <=> ~(q + m <= p + l)
  BY ONLY p \in Nat, q \in Nat, l \in 0 .. M - 1, m \in 0 .. M - 1, M \in Nat
<1>15. Minus(k, x, y).d = Dubble(lo, hi) /\ Minus(k, x, y).c = (hi > h)
  BY ONLY <1>8
<1> QED
  BY ONLY <1>4, <1>9, <1>10, <1>11, <1>12, <1>13, <1>14, <1>15

\* What one step of the second loop does: it halves the divisor and takes it away if it fits.
BitOfQuotient(k, was, is, D) ==
    /\ Pair(k, is.a) /\ Pair(k, is.d) /\ Pair(k, is.q)
    /\ Value(k, is.d) = D
    /\ IF Value(k, was.a) < D
       THEN Value(k, is.a) = Value(k, was.a) /\ Value(k, is.q) = 2 * Value(k, was.q)
       ELSE Value(k, is.a) = Value(k, was.a) - D /\ Value(k, is.q) = 2 * Value(k, was.q) + 1

LEMMA QuotientBitIs ==
  ASSUME NEW k, Doubles(k), NEW was, Pair(k, was.a), Pair(k, was.d), Pair(k, was.q),
         2 * Value(k, was.q) < 2^(2 * k)
  PROVE  \E D \in Nat, c \in 0 .. 1 :
           Value(k, was.d) = 2 * D + c /\ BitOfQuotient(k, was, QuotientBit(k, was), D)
<1>1. PICK M \in Nat, H \in Nat :
           /\ M = 2^k /\ H = 2^(k - 1) /\ M = 2 * H /\ H >= 8 /\ WordsOf(k) = 0 .. M - 1
           /\ 2^(2 * k) = M * M /\ 2^(2 * k - 1) = M * H /\ Width(k)
  BY WidthNumbers
<1>h. M = 2 * H /\ H >= 8 /\ M \in Nat /\ H \in Nat
  BY <1>1
<1>2. PICK d, q, r : d = DubbleShr(k, was.d) /\ q = DubbleShl(k, was.q) /\ r = Minus(k, was.a, d)
  OBVIOUS
<1>3. Pair(k, d) /\ d.hi < 2^(k - 1) /\ \E c \in 0 .. 1 : Value(k, was.d) = 2 * Value(k, d) + c
  BY <1>2, ShrIs
<1>4. Pair(k, q) /\ Value(k, q) = 2 * Value(k, was.q)
  BY <1>2, ShlIs
<1>5. /\ r.c <=> Value(k, was.a) < Value(k, d)
      /\ Value(k, d) <= Value(k, was.a) => Pair(k, r.d) /\ Value(k, r.d) = Value(k, was.a) - Value(k, d)
  BY <1>2, <1>3, MinusIs
<1>6. PICK D \in Nat, A \in Nat, Q \in Nat : D = Value(k, d) /\ A = Value(k, was.a) /\ Q = Value(k, was.q)
  BY <1>3, PairValue
<1>7. PICK l \in 0 .. M - 1, h \in 0 .. M - 1 : l = q.lo /\ h = q.hi
  BY <1>1, <1>4 DEF Pair
<1>8. l < M - 1
  <2>1. h * M + l = 2 * Q
    BY ONLY <1>1, <1>4, <1>6, <1>7 DEF Value
  <2>2. PICK p \in Nat : p = h * H /\ h * M = 2 * p
    BY ONLY <1>h, h \in 0 .. M - 1
  <2> QED
    BY ONLY <1>h, <2>1, <2>2, p \in Nat, Q \in Nat, l \in 0 .. M - 1
<1>9. Trunc(k, l + 1) = l + 1
  <2>1. l + 1 \in Int /\ -M <= l + 1 /\ l + 1 < 2 * M /\ l + 1 >= 0 /\ l + 1 < M
    BY ONLY <1>8, <1>h, l \in 0 .. M - 1
  <2>2. ASSUME NEW e \in Int, -M <= e, e < 2 * M
        PROVE  Trunc(k, e) = IF e < 0 THEN e + M ELSE IF e < M THEN e ELSE e - M
    BY <1>1, <2>2, TruncIs
  <2>3. Trunc(k, l + 1) = IF l + 1 < 0 THEN l + 1 + M ELSE IF l + 1 < M THEN l + 1 ELSE l + 1 - M
    BY ONLY <2>1, <2>2
  <2> QED
    BY ONLY <2>1, <2>3
<1>10. /\ Pair(k, Dubble(Trunc(k, q.lo + 1), q.hi))
       /\ Value(k, Dubble(Trunc(k, q.lo + 1), q.hi)) = 2 * Q + 1
  <2>1. l + 1 \in 0 .. M - 1
    BY ONLY <1>8, <1>h, l \in 0 .. M - 1
  <2>2. Dubble(Trunc(k, q.lo + 1), q.hi) = Dubble(l + 1, h)
    BY ONLY <1>7, <1>9
  <2>3. Value(k, q) = h * M + l /\ Value(k, Dubble(l + 1, h)) = h * M + (l + 1)
    BY ONLY <1>1, <1>7 DEF Value, Dubble
  <2>4. h * M \in Nat
    BY ONLY h \in 0 .. M - 1, M \in Nat
  <2>5. Value(k, Dubble(l + 1, h)) = 2 * Q + 1
    BY ONLY <1>4, <1>6, <2>3, <2>4, l \in 0 .. M - 1, M \in Nat, Q \in Nat
  <2>6. Pair(k, Dubble(l + 1, h))
    BY ONLY <1>1, <2>1, h \in 0 .. M - 1 DEF Pair, Dubble
  <2> QED
    BY ONLY <2>2, <2>5, <2>6
<1>11. BitOfQuotient(k, was, QuotientBit(k, was), D)
  <2>1. CASE r.c
    <3>1. QuotientBit(k, was) = [a |-> was.a, d |-> d, q |-> q]
      BY ONLY <1>2, <2>1 DEF QuotientBit
    <3>2. A < D
      BY <1>5, <1>6, <2>1
    <3> QED
      BY ONLY <1>3, <1>4, <1>6, <3>1, <3>2, Pair(k, was.a) DEF BitOfQuotient
  <2>2. CASE ~r.c
    <3>1. QuotientBit(k, was) = [a |-> r.d, d |-> d, q |-> Dubble(Trunc(k, q.lo + 1), q.hi)]
      BY ONLY <1>2, <2>2 DEF QuotientBit
    <3>2. ~(A < D) /\ D <= A
      BY <1>5, <1>6, <2>2
    <3> QED
      BY ONLY <1>3, <1>5, <1>6, <1>10, <3>1, <3>2 DEF BitOfQuotient
  <2> QED
    BY ONLY <2>1, <2>2
<1> QED
  BY ONLY <1>3, <1>6, <1>11

\* The powers of two that the loops of a division go through.
Powers(k) ==
    /\ k \in Nat /\ 2^0 = 1
    /\ \A i \in 0 .. 2 * k : 2^i \in Nat
    /\ \A i \in 0 .. 2 * k - 1 : 2^(i + 1) = 2 * 2^i

\* The powers of two as a function, so that no exponent is left.
PowersAre(k, P) ==
    /\ P[0] = 1 /\ \A i \in 0 .. 2 * k : P[i] \in Nat
    /\ \A i \in 0 .. 2 * k - 1 : P[i + 1] = 2 * P[i]
    /\ P[k] = 2^k /\ P[2 * k] = 2^(2 * k) /\ P[2 * k - 1] = 2^(2 * k - 1)

LEMMA PowersOf ==
  ASSUME NEW k, Powers(k), Doubles(k)
  PROVE  \E P : PowersAre(k, P)
<1> DEFINE P == [i \in 0 .. 2 * k |-> 2^i]
<1>1. k \in Nat /\ k >= 1
  <2>1. k \in Nat /\ 2^0 = 1 /\ 2^k >= 16
    <3>1. 2^k = 2 * 2^(k - 1) /\ 2^(k - 1) >= 8 /\ 2^(k - 1) \in Nat
      BY DEF Doubles, Width
    <3>2. 2^k >= 16
      BY ONLY <3>1
    <3> QED
      BY <3>2 DEF Powers
  <2>2. k # 0
    <3> SUFFICES ASSUME k = 0 PROVE FALSE
      OBVIOUS
    <3>1. 2^k = 2^0
      BY Zenon
    <3>2. PICK e \in Int : e = 2^k /\ e = 1 /\ e >= 16
      <4>1. 2^k \in Int
        BY <2>1 DEF Powers
      <4> QED
        BY <2>1, <3>1, <4>1
    <3> QED
      BY ONLY <3>2
  <2> QED
    BY ONLY <2>1, <2>2
<1>2. 0 \in 0 .. 2 * k /\ k \in 0 .. 2 * k /\ 2 * k \in 0 .. 2 * k /\ 2 * k - 1 \in 0 .. 2 * k
  BY ONLY <1>1
<1>3. \A i \in 0 .. 2 * k : P[i] = 2^i
  OBVIOUS
<1>4. \A i \in 0 .. 2 * k - 1 : i \in 0 .. 2 * k /\ i + 1 \in 0 .. 2 * k
  BY ONLY <1>1
<1> HIDE DEF P
<1>5. P[0] = 1 /\ \A i \in 0 .. 2 * k : P[i] \in Nat
  BY <1>2, <1>3 DEF Powers
<1>6. \A i \in 0 .. 2 * k - 1 : P[i + 1] = 2 * P[i]
  <2> SUFFICES ASSUME NEW i \in 0 .. 2 * k - 1 PROVE P[i + 1] = 2 * P[i]
    OBVIOUS
  <2>1. P[i] = 2^i /\ P[i + 1] = 2^(i + 1) /\ 2^(i + 1) = 2 * 2^i
    BY <1>3, <1>4 DEF Powers
  <2> QED
    BY ONLY <2>1
<1>7. P[k] = 2^k /\ P[2 * k] = 2^(2 * k) /\ P[2 * k - 1] = 2^(2 * k - 1)
  BY <1>2, <1>3
<1>8. PowersAre(k, P)
  BY ONLY <1>5, <1>6, <1>7 DEF PowersAre
<1> QED
  BY <1>8

LEMMA PowersGrow ==
  ASSUME NEW k \in Nat, NEW P, PowersAre(k, P), NEW i \in 0 .. 2 * k, NEW j \in 0 .. 2 * k, i <= j
  PROVE  P[i] <= P[j] /\ P[i] >= 1
<1>1. \A l \in 0 .. 2 * k : P[l] >= 1
  <2> DEFINE S == {l \in 0 .. 2 * k : P[l] >= 1}
  <2>1. 0 \in S
    BY DEF PowersAre
  <2>2. ASSUME NEW l \in S, l < 2 * k PROVE l + 1 \in S
    <3>1. l \in 0 .. 2 * k - 1 /\ l + 1 \in 0 .. 2 * k /\ P[l] >= 1 /\ l \in 0 .. 2 * k
      BY <2>2
    <3>2. P[l + 1] = 2 * P[l] /\ P[l] \in Nat
      BY <3>1 DEF PowersAre
    <3> QED
      BY <3>1, <3>2
  <2>3. S \in SUBSET (0 .. 2 * k) /\ 2 * k \in Nat
    OBVIOUS
  <2>4. \A l \in 0 .. 2 * k : l \in S
    <3> HIDE DEF S
    <3> QED
      BY <2>1, <2>2, <2>3, Climb
  <2> QED
    BY <2>4
<1>2. \A l \in 0 .. 2 * k : i <= l => P[i] <= P[l]
  <2> DEFINE S == {l \in 0 .. 2 * k : i <= l => P[i] <= P[l]}
  <2>1. 0 \in S
    <3>1. i <= 0 => i = 0
      OBVIOUS
    <3> QED
      BY <3>1 DEF PowersAre
  <2>2. ASSUME NEW l \in S, l < 2 * k PROVE l + 1 \in S
    <3>1. l \in 0 .. 2 * k - 1 /\ l + 1 \in 0 .. 2 * k /\ (i <= l => P[i] <= P[l]) /\ l \in 0 .. 2 * k
      BY <2>2
    <3>2. P[l + 1] = 2 * P[l] /\ P[l] \in Nat /\ P[i] \in Nat
      BY <3>1 DEF PowersAre
    <3>3. i <= l + 1 => P[i] <= P[l + 1]
      <4>1. CASE i <= l
        BY ONLY <3>1, <3>2, <4>1
      <4>2. CASE i = l + 1
        BY ONLY <3>1, <3>2, <4>2
      <4> QED
        BY <4>1, <4>2, <3>1
    <3> QED
      BY <3>1, <3>3
  <2>3. S \in SUBSET (0 .. 2 * k) /\ 2 * k \in Nat
    OBVIOUS
  <2>4. \A l \in 0 .. 2 * k : l \in S
    <3> HIDE DEF S
    <3> QED
      BY <2>1, <2>2, <2>3, Climb
  <2> QED
    BY <2>4
<1> QED
  BY <1>1, <1>2

\* A set of numbers up to m that has m has a least one.
LEMMA FirstIs ==
  ASSUME NEW m \in Nat, NEW S \in SUBSET (0 .. m), m \in S
  PROVE  FirstOf(S) \in S /\ \A j \in S : FirstOf(S) <= j
<1>1. SUFFICES \E i \in S : \A j \in S : i <= j
  BY DEF FirstOf
<1>2. SUFFICES ASSUME \A i \in S : \E j \in S : ~(i <= j) PROVE FALSE
  OBVIOUS
<1> DEFINE T == {i \in 0 .. m : \A j \in S : j > i}
<1>3. 0 \in T
  <2>1. 0 \notin S
    <3> SUFFICES ASSUME 0 \in S PROVE FALSE
      OBVIOUS
    <3>1. PICK j \in S : ~(0 <= j)
      BY <1>2
    <3> QED
      BY <3>1
  <2>2. \A j \in S : j \in 0 .. m /\ j # 0
    BY <2>1
  <2> QED
    BY <2>2
<1>4. ASSUME NEW i \in T, i < m PROVE i + 1 \in T
  <2>1. i \in 0 .. m /\ \A j \in S : j > i
    OBVIOUS
  <2>2. i + 1 \notin S
    <3> SUFFICES ASSUME i + 1 \in S PROVE FALSE
      OBVIOUS
    <3>1. PICK j \in S : ~(i + 1 <= j)
      BY <1>2
    <3>2. j > i /\ j \in 0 .. m
      BY <2>1
    <3> QED
      BY <2>1, <3>1, <3>2
  <2>3. \A j \in S : j > i + 1
    BY <2>1, <2>2
  <2> QED
    BY <1>4, <2>1, <2>3
<1>5. T \in SUBSET (0 .. m)
  OBVIOUS
<1>6. m \in T
  <2> HIDE DEF T
  <2> QED
    BY <1>3, <1>4, <1>5, Climb
<1> QED
  BY <1>6

LEMMA UpRuns ==
  ASSUME NEW k, k \in Nat, Doubles(k), NEW b \in WordsOf(k), NEW up, Runs(up, "up", k, Dubble(b, 0), 2 * k)
  PROVE  /\ \A i \in 0 .. 2 * k : Pair(k, up[i])
         /\ Value(k, up[0]) = b
         /\ \A i \in 0 .. 2 * k - 1 :
              Value(k, up[i + 1]) = IF 2 * Value(k, up[i]) < 2^(2 * k) THEN 2 * Value(k, up[i])
                                    ELSE 2 * Value(k, up[i]) - 2^(2 * k)
<1>1. PICK M \in Nat, H \in Nat :
           /\ M = 2^k /\ H = 2^(k - 1) /\ M = 2 * H /\ H >= 8 /\ WordsOf(k) = 0 .. M - 1
           /\ 2^(2 * k) = M * M /\ 2^(2 * k - 1) = M * H /\ Width(k)
  BY WidthNumbers
<1>h. M = 2 * H /\ H >= 8 /\ M \in Nat /\ H \in Nat
  BY <1>1
<1>2. up[0] = Dubble(b, 0) /\ \A i \in 1 .. 2 * k : up[i] = DubbleShl(k, up[i - 1])
  BY DEF Runs, LoopStep
<1>3. \A i \in 0 .. 2 * k - 1 : up[i + 1] = DubbleShl(k, up[i])
  <2> SUFFICES ASSUME NEW i \in 0 .. 2 * k - 1 PROVE up[i + 1] = DubbleShl(k, up[i])
    OBVIOUS
  <2>1. i + 1 \in 1 .. 2 * k /\ i + 1 - 1 = i
    OBVIOUS
  <2>2. up[i + 1] = DubbleShl(k, up[i + 1 - 1])
    BY ONLY <1>2, <2>1
  <2> QED
    BY ONLY <2>1, <2>2
<1>4. Pair(k, up[0]) /\ Value(k, up[0]) = b
  <2>1. 0 \in 0 .. M - 1 /\ b \in 0 .. M - 1
    BY ONLY <1>1, <1>h, b \in WordsOf(k)
  <2>2. Dubble(b, 0).lo = b /\ Dubble(b, 0).hi = 0
    BY DEF Dubble
  <2>3. 0 * M + b = b
    BY ONLY <2>1, <1>h
  <2>4. Pair(k, Dubble(b, 0))
    BY ONLY <1>1, <2>1, <2>2 DEF Pair
  <2>5. Value(k, Dubble(b, 0)) = 0 * M + b
    BY ONLY <1>1, <2>2 DEF Value
  <2> QED
    BY ONLY <1>2, <2>3, <2>4, <2>5
<1>5. \A i \in 0 .. 2 * k : Pair(k, up[i])
  <2> DEFINE S == {i \in 0 .. 2 * k : Pair(k, up[i])}
  <2>1. 0 \in S
    BY <1>4
  <2>2. ASSUME NEW i \in S, i < 2 * k PROVE i + 1 \in S
    <3>1. i \in 0 .. 2 * k - 1 /\ i + 1 \in 0 .. 2 * k /\ Pair(k, up[i])
      BY <2>2
    <3>2. Pair(k, DubbleShl(k, up[i]))
      BY <3>1, ShlIs
    <3>3. Pair(k, up[i + 1])
      BY ONLY <1>3, <3>1, <3>2
    <3> QED
      BY <3>1, <3>3
  <2>3. S \in SUBSET (0 .. 2 * k) /\ 2 * k \in Nat
    OBVIOUS
  <2>4. \A i \in 0 .. 2 * k : i \in S
    <3> HIDE DEF S
    <3> QED
      BY <2>1, <2>2, <2>3, Climb
  <2> QED
    BY <2>4
<1>6. ASSUME NEW i \in 0 .. 2 * k - 1
      PROVE  Value(k, up[i + 1]) = IF 2 * Value(k, up[i]) < 2^(2 * k) THEN 2 * Value(k, up[i])
                                   ELSE 2 * Value(k, up[i]) - 2^(2 * k)
  <2>1. Pair(k, up[i])
    BY <1>5
  <2>2. up[i + 1] = DubbleShl(k, up[i])
    BY <1>3
  <2> QED
    BY <2>1, <2>2, ShlIs
<1> QED
  BY ONLY <1>4, <1>5, <1>6

LEMMA UpStops ==
  ASSUME NEW k, k \in Nat, Doubles(k), NEW up, \A i \in 0 .. 2 * k : Pair(k, up[i]), NEW a, Pair(k, a)
  PROVE  \E n \in 0 .. 2 * k :
           /\ n = FirstOf(Exceeds(k, up, a))
           /\ \A j \in 0 .. 2 * k : j < n => Value(k, up[j]) <= Value(k, a)
           /\ n < 2 * k => Value(k, a) < Value(k, up[n])
<1> DEFINE S == Exceeds(k, up, a)
<1>1. S \in SUBSET (0 .. 2 * k) /\ 2 * k \in S /\ 2 * k \in Nat
  BY DEF Exceeds
<1>2. FirstOf(S) \in S /\ \A j \in S : FirstOf(S) <= j
  <2> HIDE DEF S
  <2> QED
    BY <1>1, FirstIs
<1>3. PICK n \in 0 .. 2 * k : n = FirstOf(S) /\ n \in S /\ \A j \in S : n <= j
  BY <1>1, <1>2
<1>4. \A i \in 0 .. 2 * k : (DubbleLte(up[i], a) <=> Value(k, up[i]) <= Value(k, a)) /\ Value(k, up[i]) \in Nat /\ Value(k, a) \in Nat
  BY LteIs, PairValue
<1>5. ASSUME NEW j \in 0 .. 2 * k, j < n PROVE Value(k, up[j]) <= Value(k, a)
  <2>1. j \notin S
    BY <1>3, <1>5
  <2>2. j \in 0 .. 2 * k - 1
    BY <1>5
  <2>3. DubbleLte(up[j], a)
    BY <2>1, <2>2 DEF Exceeds
  <2> QED
    BY <1>4, <2>3
<1>6. ASSUME n < 2 * k PROVE Value(k, a) < Value(k, up[n])
  <2>1. ~DubbleLte(up[n], a)
    BY <1>3, <1>6 DEF Exceeds
  <2>2. ~(Value(k, up[n]) <= Value(k, a)) /\ Value(k, up[n]) \in Nat /\ Value(k, a) \in Nat
    BY <1>4, <2>1
  <2> QED
    BY ONLY <2>2
<1> QED
  BY <1>3, <1>5, <1>6

UpFacts(k, N, a, b, n, u) ==
    /\ \A i \in 0 .. 2 * k : u[i] \in Nat /\ u[i] < N
    /\ u[0] = b
    /\ \A i \in 0 .. 2 * k - 1 : u[i + 1] = IF 2 * u[i] < N THEN 2 * u[i] ELSE 2 * u[i] - N
    /\ \A j \in 0 .. 2 * k : j < n => u[j] <= a
    /\ n < 2 * k => a < u[n]

\* The first loop in numbers: it stops at the first multiple b * 2^n above a; or bits fell
\* out, and then b * 2^k is below a.
LEMMA UpNumbers ==
  ASSUME NEW k \in Nat, NEW P, PowersAre(k, P), NEW M \in Nat, NEW N \in Nat, M = P[k], N = P[2 * k], N = M * M,
         NEW a \in Nat, a < N, NEW b \in Nat, b >= 1, b < M, NEW n \in 0 .. 2 * k, NEW u, UpFacts(k, N, a, b, n, u)
  PROVE  \/ u[n] = b * P[n] /\ a < u[n]
         \/ n >= k + 1 /\ b * M <= a /\ 2 * a >= N /\ u[n] <= 2 * a
<1>u. /\ \A i \in 0 .. 2 * k : u[i] \in Nat /\ u[i] < N
      /\ u[0] = b
      /\ \A i \in 0 .. 2 * k - 1 : u[i + 1] = IF 2 * u[i] < N THEN 2 * u[i] ELSE 2 * u[i] - N
      /\ \A j \in 0 .. 2 * k : j < n => u[j] <= a
      /\ n < 2 * k => a < u[n]
  BY DEF UpFacts
<1> USE <1>u
<1> DEFINE Over(i) == i >= k + 1 /\ b * M <= a /\ 2 * a >= N
           S == {i \in 0 .. n : u[i] = b * P[i] \/ Over(i)}
<1>1. 0 \in S
  BY DEF PowersAre
<1>2. ASSUME NEW i \in S, i < n PROVE i + 1 \in S
  <2>0. i \in 0 .. 2 * k - 1 /\ i \in 0 .. 2 * k /\ i + 1 \in 0 .. n /\ i \in Nat
    BY <1>2
  <2>1. CASE Over(i)
    <3>1. Over(i + 1)
      BY ONLY <2>0, <2>1, k \in Nat
    <3> QED
      BY <2>0, <3>1
  <2>2. CASE u[i] = b * P[i] /\ 2 * u[i] < N
    <3>1. u[i + 1] = 2 * u[i] /\ P[i + 1] = 2 * P[i] /\ P[i] \in Nat
      BY <2>0, <2>2 DEF PowersAre
    <3>2. u[i + 1] = b * P[i + 1]
      BY ONLY <2>2, <3>1, b \in Nat
    <3> QED
      BY <2>0, <3>2
  <2>3. CASE u[i] = b * P[i] /\ ~(2 * u[i] < N)
    <3>1. PICK p \in Nat : p = P[i] /\ u[i] = b * p /\ P[i + 1] = 2 * p /\ b * p <= a /\ 2 * (b * p) >= N
      <4>1. P[i] \in Nat /\ P[i + 1] = 2 * P[i] /\ u[i] \in Nat /\ u[i] <= a
        BY <1>2, <2>0 DEF PowersAre
      <4> QED
        BY ONLY <2>3, <4>1, N \in Nat
    <3>2. i >= k
      <4> SUFFICES ASSUME i < k PROVE FALSE
        BY <2>0
      <4>1. i + 1 \in 0 .. 2 * k /\ k \in 0 .. 2 * k /\ i + 1 <= k
        BY ONLY <2>0, i < k, k \in Nat
      <4>2. 2 * p <= M
        <5>1. P[i + 1] <= P[k]
          BY <4>1, PowersGrow
        <5> QED
          BY ONLY <3>1, <5>1, M = P[k]
      <4>3. b * (2 * p) = 2 * (b * p) /\ 2 * p \in Nat /\ b * p \in Nat
        BY ONLY b \in Nat, p \in Nat
      <4>4. b + 1 <= M /\ b + 1 \in Nat
        BY ONLY b \in Nat, M \in Nat, b < M
      <4>5. (b + 1) * (2 * p) <= M * M
        BY ONLY <4>2, <4>3, <4>4, M \in Nat, TimesMonotone
      <4>6. (b + 1) * (2 * p) = 2 * (b * p) + 2 * p
        BY ONLY b \in Nat, p \in Nat
      <4>7. p >= 1
        <5>1. i <= i
          BY <2>0
        <5> QED
          BY <2>0, <3>1, <5>1, PowersGrow
      <4> QED
        BY ONLY <3>1, <4>3, <4>5, <4>6, <4>7, N \in Nat, N = M * M, p \in Nat
    <3>3. M <= p
      <4>1. k \in 0 .. 2 * k
        OBVIOUS
      <4> QED
        BY <2>0, <3>1, <3>2, <4>1, PowersGrow
    <3>4. b * M <= b * p
      <4>1. b <= b
        OBVIOUS
      <4> QED
        BY ONLY <3>3, <4>1, b \in Nat, M \in Nat, p \in Nat, TimesMonotone
    <3>5. b * M \in Nat /\ b * p \in Nat
      BY ONLY b \in Nat, M \in Nat, p \in Nat
    <3>6. Over(i + 1)
      BY ONLY <2>0, <3>1, <3>2, <3>4, <3>5, k \in Nat, a \in Nat, N \in Nat
    <3> QED
      BY <2>0, <3>6
  <2> QED
    BY <2>1, <2>2, <2>3
<1>3. S \in SUBSET (0 .. n) /\ n \in Nat
  OBVIOUS
<1>4. n \in S
  <2> HIDE DEF S
  <2> QED
    BY ONLY <1>1, <1>2, <1>3, Climb
<1>5. CASE u[n] = b * P[n]
  <2>1. n # 2 * k
    <3> SUFFICES ASSUME n = 2 * k PROVE FALSE
      OBVIOUS
    <3>1. u[n] = b * N /\ u[n] < N
      BY <1>5
    <3>2. 1 * N <= b * N /\ 1 * N = N /\ b * N \in Nat
      <4>1. N <= N /\ 1 <= b /\ 1 \in Nat
        OBVIOUS
      <4> QED
        BY ONLY <4>1, b \in Nat, N \in Nat, TimesMonotone
    <3> QED
      BY ONLY <3>1, <3>2, N \in Nat
  <2> QED
    BY <1>5, <2>1
<1>6. CASE Over(n)
  <2>1. n - 1 \in 0 .. 2 * k - 1 /\ n - 1 \in 0 .. 2 * k /\ n - 1 < n /\ n - 1 + 1 = n
    BY <1>6
  <2>2. u[n - 1] <= a /\ u[n - 1] \in Nat
    BY <2>1
  <2>3. u[n] = IF 2 * u[n - 1] < N THEN 2 * u[n - 1] ELSE 2 * u[n - 1] - N
    BY <2>1
  <2>4. u[n] <= 2 * a
    BY ONLY <2>2, <2>3, N \in Nat, a \in Nat
  <2> QED
    BY <1>6, <2>4
<1> QED
  BY <1>4, <1>5, <1>6

StepsDown(k, down, i) ==
    \E D \in Nat, c \in 0 .. 1 :
        /\ Value(k, down[i].d) = 2 * D + c
        /\ BitOfQuotient(k, down[i], down[i + 1], D)

LEMMA DownRuns ==
  ASSUME NEW k, k \in Nat, Doubles(k), NEW P, PowersAre(k, P), NEW a, Pair(k, a), NEW d, Pair(k, d),
         NEW n \in 0 .. 2 * k, NEW down, Runs(down, "down", k, Base(a, d), n)
  PROVE  /\ \A i \in 0 .. n : Pair(k, down[i].a) /\ Pair(k, down[i].d) /\ Pair(k, down[i].q) /\ Value(k, down[i].q) < P[i]
         /\ \A i \in 0 .. n : i < n => StepsDown(k, down, i)
         /\ down[0].a = a /\ down[0].d = d /\ Value(k, down[0].q) = 0
<1> DEFINE Good(i) == Pair(k, down[i].a) /\ Pair(k, down[i].d) /\ Pair(k, down[i].q) /\ Value(k, down[i].q) < P[i]
           S == {i \in 0 .. n : Good(i)}
<1>1. down[0] = Base(a, d) /\ \A i \in 1 .. n : down[i] = QuotientBit(k, down[i - 1])
  BY DEF Runs, LoopStep
<1>2. Pair(k, Dubble(0, 0)) /\ Value(k, Dubble(0, 0)) = 0
  <2>1. PICK M \in Nat : M = 2^k /\ M >= 1 /\ WordsOf(k) = 0 .. M - 1
    BY WidthNumbers
  <2>2. 0 \in 0 .. M - 1 /\ 0 * M + 0 = 0
    BY ONLY <2>1
  <2>3. Dubble(0, 0).lo = 0 /\ Dubble(0, 0).hi = 0
    BY DEF Dubble
  <2> QED
    BY ONLY <2>1, <2>2, <2>3 DEF Pair, Value
<1>3. down[0].a = a /\ down[0].d = d /\ down[0].q = Dubble(0, 0)
  BY ONLY <1>1 DEF Base
<1>4. Good(0)
  BY <1>2, <1>3 DEF PowersAre
<1>5. ASSUME NEW i \in 0 .. n, i < n, Good(i) PROVE StepsDown(k, down, i) /\ Good(i + 1)
  <2>1. i \in 0 .. 2 * k /\ i + 1 \in 1 .. n /\ i + 1 - 1 = i /\ i \in 0 .. 2 * k - 1 /\ i + 1 \in 0 .. 2 * k
    BY <1>5
  <2>2. down[i + 1] = QuotientBit(k, down[i])
    <3>1. down[i + 1] = QuotientBit(k, down[i + 1 - 1])
      BY ONLY <1>1, <2>1
    <3> QED
      BY ONLY <2>1, <3>1
  <2>3. PICK q \in Nat : q = Value(k, down[i].q)
    BY <1>5, PairValue
  <2>4. PICK p \in Nat : p = P[i] /\ P[i + 1] = 2 * p /\ q < p /\ 2 * p <= 2^(2 * k)
    <3>1. P[i] \in Nat /\ P[i + 1] = 2 * P[i] /\ P[2 * k] = 2^(2 * k)
      BY <2>1 DEF PowersAre
    <3>2. P[i + 1] <= P[2 * k]
      <4>1. 2 * k \in 0 .. 2 * k /\ i + 1 <= 2 * k
        BY <2>1
      <4> QED
        BY <2>1, <4>1, PowersGrow
    <3>3. q < P[i]
      BY <1>5, <2>3
    <3> QED
      BY ONLY <3>1, <3>2, <3>3
  <2>5. 2 * Value(k, down[i].q) < 2^(2 * k)
    <3>1. PICK N \in Nat : N = 2^(2 * k)
      BY WidthNumbers
    <3>2. 2 * q < N
      BY ONLY <2>4, <3>1, q \in Nat, p \in Nat
    <3> QED
      BY ONLY <2>3, <3>1, <3>2
  <2>6. PICK D \in Nat, c \in 0 .. 1 :
          Value(k, down[i].d) = 2 * D + c /\ BitOfQuotient(k, down[i], down[i + 1], D)
    BY <1>5, <2>2, <2>5, QuotientBitIs
  <2>7. StepsDown(k, down, i)
    BY ONLY <2>6 DEF StepsDown
  <2>8. /\ Pair(k, down[i + 1].a) /\ Pair(k, down[i + 1].d) /\ Pair(k, down[i + 1].q)
        /\ Value(k, down[i + 1].q) = 2 * q \/ Value(k, down[i + 1].q) = 2 * q + 1
    BY ONLY <2>3, <2>6 DEF BitOfQuotient
  <2>9. Value(k, down[i + 1].q) < P[i + 1]
    BY ONLY <2>4, <2>8, q \in Nat, p \in Nat
  <2> QED
    BY <2>7, <2>8, <2>9
<1>6. 0 \in S /\ S \in SUBSET (0 .. n) /\ n \in Nat /\ \A i \in S : i < n => i + 1 \in S
  <2>1. ASSUME NEW i \in S, i < n PROVE i + 1 \in S
    <3>1. i \in 0 .. n /\ Good(i)
      OBVIOUS
    <3>2. Good(i + 1)
      <4> HIDE DEF Good, S
      <4> QED
        BY <1>5, <2>1, <3>1
    <3>3. i + 1 \in 0 .. n
      BY <2>1
    <3> QED
      BY <3>2, <3>3
  <2> QED
    BY <1>4, <2>1
<1>7. \A i \in 0 .. n : i \in S
  <2> HIDE DEF S
  <2> QED
    BY ONLY <1>6, Climb
<1>8. \A i \in 0 .. n : Good(i)
  BY <1>7
<1>9. \A i \in 0 .. n : i < n => StepsDown(k, down, i)
  <2> HIDE DEF Good
  <2> QED
    BY <1>5, <1>8
<1> QED
  BY <1>2, <1>3, <1>8, <1>9

\* The second loop in numbers: what was taken away and what is left make up the dividend.
LEMMA DownExact ==
  ASSUME NEW k, k \in Nat, Doubles(k), NEW P, PowersAre(k, P), NEW a, NEW n \in 0 .. 2 * k, NEW down, NEW b \in Nat, b >= 1,
         \A i \in 0 .. n : Pair(k, down[i].a) /\ Pair(k, down[i].d) /\ Pair(k, down[i].q),
         \A i \in 0 .. n : i < n => StepsDown(k, down, i),
         down[0].a = a, Value(k, down[0].d) = b * P[n], Value(k, down[0].q) = 0, Value(k, a) < b * P[n]
  PROVE  /\ Value(k, a) = Value(k, down[n].q) * b + Value(k, down[n].a)
         /\ Value(k, down[n].a) < b
<1> DEFINE Good(i) == /\ Value(k, down[i].d) = b * P[n - i] /\ Value(k, down[i].a) < Value(k, down[i].d)
                      /\ Value(k, a) = Value(k, down[i].q) * Value(k, down[i].d) + Value(k, down[i].a)
           S == {i \in 0 .. n : Good(i)}
<1>0. \A i \in 0 .. n : Value(k, down[i].a) \in Nat /\ Value(k, down[i].d) \in Nat /\ Value(k, down[i].q) \in Nat
  BY PairValue
<1>1. Good(0)
  <2>1. n - 0 = n /\ 0 \in 0 .. n
    OBVIOUS
  <2>2. Value(k, down[0].q) * Value(k, down[0].d) = 0
    BY <1>0, <2>1
  <2>3. Value(k, a) \in Nat
    BY <1>0, <2>1
  <2> QED
    BY <2>1, <2>2, <2>3
<1>2. ASSUME NEW i \in 0 .. n, i < n, Good(i) PROVE Good(i + 1)
  <2>1. /\ n - i \in 0 .. 2 * k /\ n - (i + 1) \in 0 .. 2 * k - 1 /\ n - (i + 1) \in 0 .. 2 * k
        /\ n - (i + 1) + 1 = n - i /\ i + 1 \in 0 .. n
    BY <1>2
  <2>2. PICK p \in Nat : p = P[n - (i + 1)] /\ P[n - i] = 2 * p
    <3>1. P[n - (i + 1) + 1] = 2 * P[n - (i + 1)] /\ P[n - (i + 1)] \in Nat
      BY <2>1 DEF PowersAre
    <3> QED
      BY ONLY <2>1, <3>1
  <2>3. PICK D \in Nat, c \in 0 .. 1 :
          Value(k, down[i].d) = 2 * D + c /\ BitOfQuotient(k, down[i], down[i + 1], D)
    BY <1>2 DEF StepsDown
  <2>4. PICK A \in Nat, Q \in Nat : A = Value(k, down[i].a) /\ Q = Value(k, down[i].q)
    BY <1>0
  <2>5. D = b * p /\ c = 0
    <3>1. PICK e \in Nat : e = b * p /\ b * (2 * p) = 2 * e
      BY ONLY b \in Nat, p \in Nat
    <3>2. 2 * D + c = b * (2 * p)
      BY ONLY <1>2, <2>2, <2>3
    <3> QED
      BY ONLY <3>1, <3>2, D \in Nat, c \in 0 .. 1, e \in Nat
  <2>6. A < 2 * D /\ Value(k, a) = Q * (2 * D) + A
    <3>1. Value(k, down[i].d) = 2 * D
      BY ONLY <2>3, <2>5, D \in Nat
    <3> QED
      BY ONLY <1>2, <2>4, <3>1
  <2>7. /\ Value(k, down[i + 1].d) = D
        /\ IF A < D THEN Value(k, down[i + 1].a) = A /\ Value(k, down[i + 1].q) = 2 * Q
           ELSE Value(k, down[i + 1].a) = A - D /\ Value(k, down[i + 1].q) = 2 * Q + 1
    BY ONLY <2>3, <2>4 DEF BitOfQuotient
  <2>8. CASE A < D
    <3>1. (2 * Q) * D = Q * (2 * D)
      BY ONLY D \in Nat, Q \in Nat
    <3> QED
      BY ONLY <2>2, <2>5, <2>6, <2>7, <2>8, <3>1
  <2>9. CASE ~(A < D)
    <3>1. (2 * Q + 1) * D = Q * (2 * D) + D /\ Q * (2 * D) \in Nat
      BY ONLY D \in Nat, Q \in Nat
    <3>2. A - D < D /\ Q * (2 * D) + A = (Q * (2 * D) + D) + (A - D)
      BY ONLY <2>6, <2>9, <3>1, A \in Nat, D \in Nat
    <3> QED
      BY ONLY <2>2, <2>5, <2>6, <2>7, <2>9, <3>1, <3>2
  <2> QED
    BY ONLY <2>8, <2>9
<1>3. 0 \in S /\ S \in SUBSET (0 .. n) /\ n \in Nat /\ \A i \in S : i < n => i + 1 \in S
  <2>1. ASSUME NEW i \in S, i < n PROVE i + 1 \in S
    <3>1. i \in 0 .. n /\ Good(i)
      OBVIOUS
    <3>2. Good(i + 1)
      <4> HIDE DEF Good, S
      <4> QED
        BY ONLY <1>2, <2>1, <3>1
    <3>3. i + 1 \in 0 .. n
      BY <2>1
    <3> QED
      BY ONLY <3>2, <3>3
  <2>2. S \in SUBSET (0 .. n) /\ n \in Nat
    OBVIOUS
  <2>3. 0 \in S
    <3>1. 0 \in 0 .. n
      OBVIOUS
    <3> HIDE DEF Good
    <3> QED
      BY ONLY <1>1, <3>1
  <2> HIDE DEF S
  <2> QED
    BY ONLY <2>1, <2>2, <2>3
<1>4. n \in S
  <2>1. n \in 0 .. n
    OBVIOUS
  <2> HIDE DEF S
  <2> QED
    BY ONLY <1>3, <2>1, Climb
<1>5. Good(n)
  BY <1>4
<1>6. n - n = 0 /\ P[0] = 1 /\ b * 1 = b
  BY DEF PowersAre
<1> QED
  BY ONLY <1>5, <1>6

\* When the first bit of the quotient is set, the quotient has n bits.
LEMMA DownLong ==
  ASSUME NEW k, k \in Nat, Doubles(k), NEW P, PowersAre(k, P), NEW a, NEW n \in 0 .. 2 * k, n >= k + 1, NEW down,
         \A i \in 0 .. n : Pair(k, down[i].a) /\ Pair(k, down[i].d) /\ Pair(k, down[i].q),
         \A i \in 0 .. n : i < n => StepsDown(k, down, i),
         down[0].a = a, Value(k, down[0].q) = 0, Value(k, down[0].d) <= 2 * Value(k, a)
  PROVE  down[n].q.hi # 0
<1> DEFINE S == {i \in 0 .. n : i >= 1 => Value(k, down[i].q) >= P[i - 1]}
<1>0. \A i \in 0 .. n : Value(k, down[i].a) \in Nat /\ Value(k, down[i].d) \in Nat /\ Value(k, down[i].q) \in Nat
  BY PairValue
<1>1. 0 \in S
  OBVIOUS
<1>2. ASSUME NEW i \in 0 .. n, i < n, i \in S PROVE i + 1 \in S
  <2>1. PICK D \in Nat, c \in 0 .. 1 :
          Value(k, down[i].d) = 2 * D + c /\ BitOfQuotient(k, down[i], down[i + 1], D)
    BY <1>2 DEF StepsDown
  <2>2. PICK A \in Nat, Q \in Nat : A = Value(k, down[i].a) /\ Q = Value(k, down[i].q)
    BY <1>0
  <2>3. IF A < D THEN Value(k, down[i + 1].q) = 2 * Q ELSE Value(k, down[i + 1].q) = 2 * Q + 1
    BY ONLY <2>1, <2>2 DEF BitOfQuotient
  <2>4. i + 1 \in 0 .. n /\ i + 1 - 1 = i
    BY <1>2
  <2>5. CASE i = 0
    <3>1. Q = 0 /\ ~(A < D)
      <4>1. 2 * D + c <= 2 * A /\ Q = 0
        BY <2>1, <2>2, <2>5
      <4> QED
        BY ONLY <4>1, A \in Nat, D \in Nat, c \in 0 .. 1
    <3>2. Value(k, down[i + 1].q) = 1 /\ P[i] = 1
      BY <2>3, <2>5, <3>1 DEF PowersAre
    <3> QED
      BY <2>4, <3>2
  <2>6. CASE i >= 1
    <3>1. Q >= P[i - 1]
      BY <1>2, <2>2, <2>6
    <3>2. i - 1 \in 0 .. 2 * k - 1 /\ i - 1 \in 0 .. 2 * k /\ i - 1 + 1 = i
      BY <2>6, <2>4
    <3>3. P[i - 1 + 1] = 2 * P[i - 1] /\ P[i - 1] \in Nat
      BY <3>2 DEF PowersAre
    <3>4. P[i] = 2 * P[i - 1]
      BY ONLY <3>2, <3>3
    <3>5. Value(k, down[i + 1].q) >= P[i]
      BY ONLY <2>3, <3>1, <3>3, <3>4, Q \in Nat
    <3> QED
      BY <2>4, <3>5
  <2> QED
    BY <2>5, <2>6
<1>3. S \in SUBSET (0 .. n) /\ n \in Nat /\ n \in 0 .. n
  OBVIOUS
<1>4. n \in S
  <2>1. \A i \in S : i < n => i + 1 \in S
    <3>1. \A i \in S : i \in 0 .. n
      OBVIOUS
    <3> HIDE DEF S
    <3> QED
      BY <1>2, <3>1
  <2> HIDE DEF S
  <2> QED
    BY ONLY <1>1, <1>3, <2>1, Climb
<1>5. Value(k, down[n].q) >= P[n - 1] /\ n - 1 \in 0 .. 2 * k /\ k \in 0 .. 2 * k /\ k <= n - 1
  BY <1>4
<1>6. P[k] <= P[n - 1] /\ P[k] = 2^k /\ P[k] \in Nat /\ P[n - 1] \in Nat
  <2>1. P[k] <= P[n - 1]
    BY <1>5, PowersGrow
  <2> QED
    BY <1>5, <2>1 DEF PowersAre
<1>7. PICK q \in Nat, M \in Nat : q = Value(k, down[n].q) /\ M = 2^k /\ q >= M
  <2>1. Value(k, down[n].q) \in Nat
    BY <1>0, <1>3
  <2> QED
    BY ONLY <1>5, <1>6, <2>1
<1>8. Value(k, down[n].q) < 2^k * 1 <=> down[n].q.hi < 1
  <2>1. Pair(k, down[n].q) /\ 1 \in Int
    BY <1>3
  <2> QED
    BY <2>1, PairValue
<1>9. M * 1 = M
  OBVIOUS
<1>10. ~(down[n].q.hi < 1)
  BY ONLY <1>7, <1>8, <1>9, q \in Nat, M \in Nat
<1> QED
  BY ONLY <1>10

\* DubbleDiv: quotient and remainder are exact, or bits of the divisor fell out, and then
\* the quotient does not fit a word and the dividend has its top bit set.
LEMMA DubbleDivExact ==
  ASSUME NEW k, Doubles(k), Powers(k), NEW a, Pair(k, a), NEW b \in WordsOf(k), b # 0
  PROVE  LET d == DubbleDiv(k, a, b) IN
         /\ Pair(k, d.q) /\ d.r \in WordsOf(k)
         /\ \/ d.r < b /\ Value(k, a) = Value(k, d.q) * b + d.r
            \/ d.q.hi # 0 /\ b * 2^k <= Value(k, a) /\ 2 * Value(k, a) >= 2^(2 * k)
<1>1. PICK M \in Nat : M = 2^k /\ WordsOf(k) = 0 .. M - 1 /\ 2^(2 * k) = M * M /\ M >= 16
  BY WidthNumbers
<1>2. k \in Nat /\ b \in Nat /\ b >= 1 /\ b < M
  BY <1>1 DEF Powers
<1>3. PICK P : PowersAre(k, P)
  BY PowersOf
<1>4. PICK N \in Nat : N = 2^(2 * k) /\ N = M * M /\ N = P[2 * k] /\ M = P[k]
  <2>1. M * M \in Nat
    OBVIOUS
  <2> QED
    BY <1>1, <1>3, <2>1 DEF PowersAre
<1>5. ASSUME NEW up, Runs(up, "up", k, Dubble(b, 0), 2 * k)
      PROVE  \E n \in 0 .. 2 * k :
               /\ n = FirstOf(Exceeds(k, up, a)) /\ Pair(k, up[n])
               /\ \/ Value(k, up[n]) = b * P[n] /\ Value(k, a) < Value(k, up[n])
                  \/ n >= k + 1 /\ b * M <= Value(k, a) /\ 2 * Value(k, a) >= N /\ Value(k, up[n]) <= 2 * Value(k, a)
  <2>1. /\ \A i \in 0 .. 2 * k : Pair(k, up[i])
        /\ Value(k, up[0]) = b
        /\ \A i \in 0 .. 2 * k - 1 :
             Value(k, up[i + 1]) = IF 2 * Value(k, up[i]) < 2^(2 * k) THEN 2 * Value(k, up[i])
                                   ELSE 2 * Value(k, up[i]) - 2^(2 * k)
    BY <1>2, <1>5, UpRuns
  <2>2. PICK n \in 0 .. 2 * k :
          /\ n = FirstOf(Exceeds(k, up, a))
          /\ \A j \in 0 .. 2 * k : j < n => Value(k, up[j]) <= Value(k, a)
          /\ n < 2 * k => Value(k, a) < Value(k, up[n])
    BY <1>2, <2>1, UpStops
  <2> DEFINE u == [i \in 0 .. 2 * k |-> Value(k, up[i])]
  <2>3. PICK v \in Nat : v = Value(k, a) /\ v < N
    BY <1>4, PairValue
  <2>4. \A i \in 0 .. 2 * k : u[i] = Value(k, up[i]) /\ u[i] \in Nat /\ u[i] < N
    BY <1>4, <2>1, PairValue
  <2>5. 0 \in 0 .. 2 * k /\ \A i \in 0 .. 2 * k - 1 : i \in 0 .. 2 * k /\ i + 1 \in 0 .. 2 * k
    BY <1>2
  <2> HIDE DEF u
  <2>6. u[0] = b
    BY ONLY <2>1, <2>4, <2>5
  <2>7. ASSUME NEW i \in 0 .. 2 * k - 1 PROVE u[i + 1] = IF 2 * u[i] < N THEN 2 * u[i] ELSE 2 * u[i] - N
    <3>1. u[i] = Value(k, up[i]) /\ u[i + 1] = Value(k, up[i + 1])
      BY <2>4, <2>5
    <3> QED
      BY ONLY <1>4, <2>1, <3>1
  <2>8. \A j \in 0 .. 2 * k : j < n => u[j] <= v
    BY ONLY <2>2, <2>3, <2>4
  <2>9. n < 2 * k => v < u[n]
    BY ONLY <2>2, <2>3, <2>4
  <2>10. UpFacts(k, N, v, b, n, u)
    BY ONLY <2>4, <2>6, <2>7, <2>8, <2>9 DEF UpFacts
  <2>11. \/ u[n] = b * P[n] /\ v < u[n]
         \/ n >= k + 1 /\ b * M <= v /\ 2 * v >= N /\ u[n] <= 2 * v
    BY <1>2, <1>3, <1>4, <2>3, <2>10, UpNumbers
  <2> QED
    BY ONLY <2>1, <2>2, <2>3, <2>4, <2>11
<1>6. PICK up, n, down : DivRuns(k, a, b, up, n, down)
  <2>1. \A up : Runs(up, "up", k, Dubble(b, 0), 2 * k) => FirstOf(Exceeds(k, up, a)) \in Nat
    <3> SUFFICES ASSUME NEW up, Runs(up, "up", k, Dubble(b, 0), 2 * k) PROVE FirstOf(Exceeds(k, up, a)) \in Nat
      OBVIOUS
    <3>1. PICK n \in 0 .. 2 * k : n = FirstOf(Exceeds(k, up, a))
      BY <1>5
    <3> QED
      BY <3>1
  <2> QED
    BY <1>2, <2>1, DubbleDivRuns
<1>7. /\ Runs(up, "up", k, Dubble(b, 0), 2 * k) /\ Runs(down, "down", k, Base(a, up[n]), n)
      /\ n = FirstOf(Exceeds(k, up, a)) /\ DubbleDiv(k, a, b) = [q |-> down[n].q, r |-> down[n].a.lo]
  BY ONLY <1>6 DEF DivRuns
<1>8. /\ n \in 0 .. 2 * k /\ Pair(k, up[n])
      /\ \/ Value(k, up[n]) = b * P[n] /\ Value(k, a) < Value(k, up[n])
         \/ n >= k + 1 /\ b * M <= Value(k, a) /\ 2 * Value(k, a) >= N /\ Value(k, up[n]) <= 2 * Value(k, a)
  BY ONLY <1>5, <1>7
<1>9. /\ \A i \in 0 .. n : Pair(k, down[i].a) /\ Pair(k, down[i].d) /\ Pair(k, down[i].q) /\ Value(k, down[i].q) < P[i]
      /\ \A i \in 0 .. n : i < n => StepsDown(k, down, i)
      /\ down[0].a = a /\ down[0].d = up[n] /\ Value(k, down[0].q) = 0
  BY <1>2, <1>3, <1>7, <1>8, DownRuns
<1>10. n \in 0 .. n /\ Pair(k, down[n].q) /\ Pair(k, down[n].a) /\ down[n].a.lo \in WordsOf(k)
  <2>1. n \in 0 .. n
    BY <1>8
  <2> QED
    BY ONLY <1>9, <2>1 DEF Pair
<1>11. CASE Value(k, up[n]) = b * P[n] /\ Value(k, a) < Value(k, up[n])
  <2>1. Value(k, a) = Value(k, down[n].q) * b + Value(k, down[n].a) /\ Value(k, down[n].a) < b
    BY <1>2, <1>3, <1>8, <1>9, <1>11, DownExact
  <2>2. Value(k, down[n].a) = down[n].a.lo
    <3>1. PICK l \in 0 .. M - 1, h \in 0 .. M - 1 : l = down[n].a.lo /\ h = down[n].a.hi
      BY ONLY <1>1, <1>10 DEF Pair
    <3>2. Value(k, down[n].a) = h * M + l
      BY ONLY <1>1, <3>1 DEF Value
    <3>3. Value(k, down[n].a) < 2^k * 1 <=> h < 1
      <4>1. 1 \in Int
        OBVIOUS
      <4> QED
        BY <1>10, <3>1, <4>1, PairValue
    <3>4. M * 1 = M /\ 0 * M = 0
      OBVIOUS
    <3>5. Value(k, down[n].a) \in Nat
      BY <1>10, PairValue
    <3>6. h < 1
      BY ONLY <1>1, <1>2, <2>1, <3>3, <3>4, <3>5
    <3>7. h = 0
      BY ONLY <3>6, h \in 0 .. M - 1, M \in Nat
    <3> QED
      BY ONLY <3>1, <3>2, <3>4, <3>7, l \in 0 .. M - 1, M \in Nat
  <2> QED
    BY ONLY <1>7, <1>10, <2>1, <2>2
<1>12. CASE n >= k + 1 /\ b * M <= Value(k, a) /\ 2 * Value(k, a) >= N /\ Value(k, up[n]) <= 2 * Value(k, a)
  <2>1. down[n].q.hi # 0
    BY <1>2, <1>3, <1>8, <1>9, <1>12, DownLong
  <2> QED
    BY ONLY <1>1, <1>4, <1>7, <1>10, <1>12, <2>1
<1> QED
  BY ONLY <1>8, <1>11, <1>12

\* q and r are the quotient of X by y, rounded towards zero, and its remainder.
Divides(X, y, q, r) ==
    /\ X = q * y + r /\ Magnitude(r) < Magnitude(y)
    /\ r # 0 => ((r < 0) = (X < 0))

LEMMA OneQuotient ==
  ASSUME NEW X \in Int, NEW y \in Int, NEW q \in Int, NEW r \in Int, NEW p \in Int, NEW s \in Int,
         Divides(X, y, q, r), Divides(X, y, p, s)
  PROVE  p = q /\ s = r
<1>1. /\ X = q * y + r /\ Magnitude(r) < Magnitude(y) /\ (r # 0 => (r < 0 <=> X < 0))
      /\ X = p * y + s /\ Magnitude(s) < Magnitude(y) /\ (s # 0 => (s < 0 <=> X < 0))
  BY DEF Divides
<1>2. Magnitude(s - r) < Magnitude(y)
  BY <1>1 DEF Magnitude
<1>3. PICK e \in Int : e = q - p
  OBVIOUS
<1>4. e * y = s - r
  <2>1. PICK a \in Int, b \in Int : a = q * y /\ b = p * y /\ e * y = a - b
    BY <1>3
  <2> QED
    BY ONLY <1>1, <2>1, r \in Int, s \in Int
<1>5. e = 0
  <2> SUFFICES ASSUME e # 0 PROVE FALSE
    OBVIOUS
  <2>1. Magnitude(e * y) >= Magnitude(y)
    <3>1. CASE e > 0
      <4>1. PICK d \in Nat : e = d + 1
        <5>1. e - 1 \in Nat /\ e = e - 1 + 1
          BY <3>1
        <5> QED
          BY <5>1
      <4>2. e * y = d * y + y /\ (y >= 0 => d * y >= 0) /\ (y < 0 => d * y <= 0) /\ d * y \in Int
        BY <4>1
      <4> QED
        BY ONLY <4>2, y \in Int DEF Magnitude
    <3>2. CASE e < 0
      <4>1. PICK d \in Nat : e = -d - 1
        <5>1. -e - 1 \in Nat /\ e = -(-e - 1) - 1
          BY <3>2
        <5> QED
          BY <5>1
      <4>2. PICK f \in Int : f = d * y /\ e * y = -f - y /\ (y >= 0 => f >= 0) /\ (y < 0 => f <= 0)
        BY <4>1
      <4> QED
        BY ONLY <4>2, y \in Int DEF Magnitude
    <3> QED
      BY <1>3, <3>1, <3>2
  <2>2. Magnitude(y) \in Int /\ Magnitude(s - r) \in Int
    BY DEF Magnitude
  <2> QED
    BY ONLY <1>2, <1>4, <2>1, <2>2
<1>6. 0 * y = 0
  OBVIOUS
<1> QED
  BY ONLY <1>3, <1>4, <1>5, <1>6, p \in Int, q \in Int, r \in Int, s \in Int

\* An answer is right if it gives the quotient and the remainder, and those fit.
LEMMA AnswerFits ==
  ASSUME NEW k, NEW X \in Int, NEW y \in Int, NEW low \in Int, NEW high \in Int,
         NEW q \in low .. high, NEW s \in low .. high, Divides(X, y, q, s),
         NEW r, ~r.err, r.q = Trunc(k, q), r.r = Trunc(k, s)
  PROVE  Answers(r, Quotients(X, y, low, high), k)
<1>1. <<q, s>> \in (low .. high) \X (low .. high) /\ <<q, s>>[1] = q /\ <<q, s>>[2] = s
  OBVIOUS
<1>2. /\ X = q * y + s
      /\ -s < (IF y < 0 THEN -y ELSE y) /\ s < (IF y < 0 THEN -y ELSE y)
      /\ s # 0 => ((s < 0) = (X < 0))
  BY DEF Divides, Magnitude
<1>3. <<q, s>> \in Quotients(X, y, low, high)
  BY ONLY <1>1, <1>2 DEF Quotients
<1>4. \E qr \in Quotients(X, y, low, high) : r.q = Trunc(k, qr[1]) /\ r.r = Trunc(k, qr[2])
  BY ONLY <1>1, <1>3, r.q = Trunc(k, q), r.r = Trunc(k, s)
<1> QED
  BY ONLY <1>3, <1>4, ~r.err DEF Answers

LEMMA AnswerError ==
  ASSUME NEW k, NEW X \in Int, NEW y \in Int, NEW low \in Int, NEW high \in Int,
         NEW q \in Int, NEW s \in Int, Divides(X, y, q, s), q \notin low .. high, NEW r, r.err
  PROVE  Answers(r, Quotients(X, y, low, high), k)
<1>1. Quotients(X, y, low, high) = {}
  <2> SUFFICES ASSUME NEW qr \in Quotients(X, y, low, high) PROVE FALSE
    OBVIOUS
  <2>1. PICK p \in low .. high, t \in low .. high : qr = <<p, t>>
    BY DEF Quotients
  <2>2. /\ X = qr[1] * y + qr[2]
        /\ -qr[2] < (IF y < 0 THEN -y ELSE y) /\ qr[2] < (IF y < 0 THEN -y ELSE y)
        /\ qr[2] # 0 => ((qr[2] < 0) = (X < 0))
    BY DEF Quotients
  <2>3. Divides(X, y, p, t)
    <3>1. qr[1] = p /\ qr[2] = t
      BY <2>1
    <3>2. /\ X = p * y + t
          /\ -t < (IF y < 0 THEN -y ELSE y) /\ t < (IF y < 0 THEN -y ELSE y)
          /\ t # 0 => ((t < 0) = (X < 0))
      BY ONLY <2>2, <3>1
    <3>3. Magnitude(t) < Magnitude(y)
      BY <3>2 DEF Magnitude
    <3> QED
      BY ONLY <3>2, <3>3 DEF Divides
  <2>4. p \in Int /\ t \in Int
    OBVIOUS
  <2>5. p = q
    BY <2>3, <2>4, OneQuotient
  <2> QED
    BY <2>5
<1> QED
  BY ONLY <1>1, r.err DEF Answers

\* The quotient of two numbers by their magnitudes.
LEMMA BySigns ==
  ASSUME NEW X \in Int, NEW y \in Int, NEW Q \in Nat, NEW R \in Nat, Magnitude(X) = Q * Magnitude(y) + R, R < Magnitude(y)
  PROVE  Divides(X, y, IF (X < 0) # (y < 0) THEN -Q ELSE Q, IF X < 0 THEN -R ELSE R)
<1>1. CASE X < 0 /\ y < 0
  <2>1. PICK p \in Int : p = Q * (-y) /\ Q * y = -p
    OBVIOUS
  <2>2. X = Q * y + (-R)
    BY <1>1, <2>1 DEF Magnitude
  <2>3. Magnitude(-R) < Magnitude(y) /\ (-R # 0 => ((-R < 0) = (X < 0)))
    BY <1>1 DEF Magnitude
  <2> QED
    BY <1>1, <2>2, <2>3 DEF Divides
<1>2. CASE X < 0 /\ ~(y < 0)
  <2>1. PICK p \in Int : p = Q * y /\ (-Q) * y = -p
    OBVIOUS
  <2>2. X = (-Q) * y + (-R)
    BY <1>2, <2>1 DEF Magnitude
  <2>3. Magnitude(-R) < Magnitude(y) /\ (-R # 0 => ((-R < 0) = (X < 0)))
    BY <1>2 DEF Magnitude
  <2> QED
    BY <1>2, <2>2, <2>3 DEF Divides
<1>3. CASE ~(X < 0) /\ y < 0
  <2>1. PICK p \in Int : p = Q * (-y) /\ (-Q) * y = p
    OBVIOUS
  <2>2. X = (-Q) * y + R
    BY <1>3, <2>1 DEF Magnitude
  <2>3. Magnitude(R) < Magnitude(y) /\ (R # 0 => ((R < 0) = (X < 0)))
    BY <1>3 DEF Magnitude
  <2> QED
    BY <1>3, <2>2, <2>3 DEF Divides
<1>4. CASE ~(X < 0) /\ ~(y < 0)
  <2>1. X = Q * y + R
    BY <1>4 DEF Magnitude
  <2>2. Magnitude(R) < Magnitude(y) /\ (R # 0 => ((R < 0) = (X < 0)))
    BY <1>4 DEF Magnitude
  <2> QED
    BY <1>4, <2>1, <2>2 DEF Divides
<1> QED
  BY <1>1, <1>2, <1>3, <1>4

\* A double word holds a signed word when its upper word is the sign of the lower one.
LEMMA FitsWord ==
  ASSUME NEW k, Doubles(k), NEW d, Pair(k, d)
  PROVE  LET v == Signed(2 * k, Value(k, d))
             H == 2^(k - 1)
             fits == IF Sign(k, d.lo) = 1 THEN d.hi = 2^k - 1 ELSE d.hi = 0 IN
         /\ fits <=> v \in -H .. H - 1
         /\ fits => Signed(k, d.lo) = v
         /\ Sign(k, d.lo) \in 0 .. 1
<1>1. PICK M \in Nat, H \in Nat :
           /\ M = 2^k /\ H = 2^(k - 1) /\ M = 2 * H /\ H >= 8 /\ WordsOf(k) = 0 .. M - 1
           /\ 2^(2 * k) = M * M /\ 2^(2 * k - 1) = M * H /\ Width(k)
  BY WidthNumbers
<1>h. M = 2 * H /\ H >= 8 /\ M \in Nat /\ H \in Nat
  BY <1>1
<1>2. PICK l \in 0 .. M - 1, h \in 0 .. M - 1 : l = d.lo /\ h = d.hi
  BY <1>1 DEF Pair
<1>3. PICK x \in WordsOf(2 * k) : x = Value(k, d)
  <2>1. Value(k, d) \in Nat /\ Value(k, d) < 2^(2 * k)
    BY PairValue
  <2>2. PICK N \in Nat : N = 2^(2 * k)
    BY <1>1
  <2>3. Value(k, d) \in 0 .. N - 1
    BY ONLY <2>1, <2>2
  <2> QED
    BY ONLY <2>2, <2>3 DEF WordsOf
<1>4. PICK g \in 0 .. M - 1, m \in 0 .. M - 1 :
         x = M * g + m /\ Signed(2 * k, x) = M * Signed(k, g) + m /\ g = x \div M /\ m = x % M
  BY <1>1, Halves
<1>5. g = h /\ m = l
  <2>1. x = M * h + l
    <3>1. x = h * M + l
      BY ONLY <1>1, <1>2, <1>3 DEF Value
    <3>2. h * M = M * h
      OBVIOUS
    <3> QED
      BY ONLY <3>1, <3>2
  <2>2. x \div M = h /\ x % M = l
    <3>1. M > 0 /\ h \in Nat
      BY ONLY <1>h, h \in 0 .. M - 1
    <3> QED
      BY ONLY <2>1, <3>1, M \in Nat, l \in 0 .. M - 1, DigitsOf
  <2> QED
    BY ONLY <1>4, <2>2
<1>6. Sign(k, l) = (IF l < H THEN 0 ELSE 1) /\ Signed(k, l) = (IF l < H THEN l ELSE l - M) /\ Signed(k, h) = (IF h < H THEN h ELSE h - M)
  BY <1>1, SignIs, SignedIs
<1>7. PICK s \in Int, v \in Int : s = (IF h < H THEN h ELSE h - M) /\ v = M * s + l /\ v = Signed(2 * k, Value(k, d))
  <2>1. PICK s \in Int : s = IF h < H THEN h ELSE h - M
    BY ONLY <1>h, h \in 0 .. M - 1
  <2>2. PICK v \in Int : v = M * s + l
    BY ONLY M \in Nat, s \in Int, l \in 0 .. M - 1
  <2>3. Signed(2 * k, x) = M * s + l
    BY ONLY <1>4, <1>5, <1>6, <2>1
  <2> QED
    BY ONLY <1>3, <2>1, <2>2, <2>3
<1>8. s = 0 <=> h = 0
  BY ONLY <1>7, <1>h, h \in 0 .. M - 1
<1>9. s = -1 <=> h = M - 1
  BY ONLY <1>7, <1>h, h \in 0 .. M - 1
<1>10. (s < 0 <=> v < 0) /\ (s < 1 <=> v < M) /\ (s < -1 <=> v < -M)
  <2>1. ASSUME NEW j \in Int PROVE M * s + l < M * j <=> s < j
    BY ONLY M \in Nat, l \in 0 .. M - 1, s \in Int, j \in Int, Digits
  <2>2. M * 0 = 0 /\ M * 1 = M /\ M * (-1) = -M /\ -1 \in Int
    OBVIOUS
  <2> QED
    BY ONLY <1>7, <2>1, <2>2
<1>11. (s = 0 => v = l) /\ (s = -1 => v = l - M)
  BY ONLY <1>7, M \in Nat, l \in 0 .. M - 1
<1>12. (IF Sign(k, l) = 1 THEN h = M - 1 ELSE h = 0) <=> v \in -H .. H - 1
  BY ONLY <1>6, <1>8, <1>9, <1>10, <1>11, <1>h, l \in 0 .. M - 1, s \in Int, v \in Int
<1>13. (IF Sign(k, l) = 1 THEN h = M - 1 ELSE h = 0) => Signed(k, l) = v
  BY ONLY <1>6, <1>8, <1>9, <1>11, <1>h, l \in 0 .. M - 1, s \in Int, v \in Int
<1>14. Sign(k, l) \in 0 .. 1
  BY <1>6
<1> QED
  BY ONLY <1>1, <1>2, <1>7, <1>12, <1>13, <1>14

\* The quotients an unsigned and a signed division may give.
UnsignedQuotients(k, a, d) == IF d = 0 THEN {} ELSE Quotients(Value(k, a), d, 0, 2^k - 1)
SignedQuotients(k, a, d) ==
    IF d = 0 THEN {} ELSE Quotients(Signed(2 * k, Value(k, a)), Signed(k, d), -(2^(k - 1)), 2^(k - 1) - 1)

LEMMA ErrorAnswers ==
  ASSUME NEW k, NEW r, r.err
  PROVE  Answers(r, {}, k)
BY DEF Answers

\* A quotient as large as the word's range leaves none that fits.
LEMMA TooLarge ==
  ASSUME NEW M \in Nat, NEW v \in Nat, NEW d \in Nat, d >= 1, d * M <= v
  PROVE  \E q \in Nat, s \in Nat : Divides(v, d, q, s) /\ q >= M
<1>1. PICK q \in Nat, s \in 0 .. d - 1 : v = d * q + s
  <2>1. d > 0
    OBVIOUS
  <2> QED
    BY ONLY <2>1, d \in Nat, v \in Nat, DivMod
<1>2. d * q + s < d * M <=> q < M
  <2>1. q \in Int /\ M \in Int
    OBVIOUS
  <2> QED
    BY ONLY <2>1, d \in Nat, s \in 0 .. d - 1, Digits
<1>3. PICK e \in Nat : e = d * M
  OBVIOUS
<1>4. q >= M
  BY ONLY <1>1, <1>2, <1>3, d * M <= v, M \in Nat, q \in Nat, v \in Nat
<1>5. d * q = q * d /\ Magnitude(s) = s /\ Magnitude(d) = d /\ ~(s < 0) /\ ~(v < 0)
  BY DEF Magnitude
<1>6. Divides(v, d, q, s)
  BY ONLY <1>1, <1>5, s \in 0 .. d - 1, d \in Nat DEF Divides
<1> QED
  BY <1>4, <1>6

LEMMA DivUnsigned64Right ==
  ASSUME NEW k, Doubles(k), Powers(k), NEW a, Pair(k, a), NEW d \in WordsOf(k)
  PROVE  Answers(OpDivRdxRaxEvqpUnsigned64(k, a, d), UnsignedQuotients(k, a, d), k)
<1> DEFINE o == OpDivRdxRaxEvqpUnsigned64(k, a, d)
<1>1. CASE d = 0
  <2>1. o.err
    BY <1>1 DEF OpDivRdxRaxEvqpUnsigned64, DivideError
  <2> HIDE DEF o
  <2>2. Answers(o, {}, k)
    BY <2>1, ErrorAnswers
  <2> QED
    BY <1>1, <2>2 DEF UnsignedQuotients, o
<1>2. CASE d # 0
  <2>1. PICK M \in Nat : M = 2^k /\ WordsOf(k) = 0 .. M - 1 /\ M >= 16
    BY WidthNumbers
  <2>2. d \in Nat /\ d >= 1 /\ d < M
    BY ONLY <2>1, <1>2, d \in WordsOf(k)
  <2>3. PICK r : r = DubbleDiv(k, a, d)
    OBVIOUS
  <2>4. /\ Pair(k, r.q) /\ r.r \in WordsOf(k)
        /\ \/ r.r < d /\ Value(k, a) = Value(k, r.q) * d + r.r
           \/ r.q.hi # 0 /\ d * 2^k <= Value(k, a) /\ 2 * Value(k, a) >= 2^(2 * k)
    BY <1>2, <2>3, DubbleDivExact
  <2>5. PICK v \in Nat, Q \in Nat : v = Value(k, a) /\ Q = Value(k, r.q)
    BY <2>4, PairValue
  <2>6. PICK l \in 0 .. M - 1, h \in 0 .. M - 1, R \in 0 .. M - 1 : l = r.q.lo /\ h = r.q.hi /\ R = r.r
    BY ONLY <2>1, <2>4 DEF Pair
  <2>7. o = IF h # 0 THEN DivideError ELSE Divided(k, l, R)
    BY ONLY <1>2, <2>3, <2>6 DEF OpDivRdxRaxEvqpUnsigned64
  <2>8. Q < M <=> h = 0
    <3>1. Value(k, r.q) < 2^k * 1 <=> r.q.hi < 1
      <4>1. 1 \in Int
        OBVIOUS
      <4> QED
        BY <2>4, <4>1, PairValue
    <3>2. M * 1 = M
      OBVIOUS
    <3>3. Q < M <=> h < 1
      BY ONLY <2>1, <2>5, <2>6, <3>1, <3>2
    <3> QED
      BY ONLY <3>3, h \in 0 .. M - 1, M \in Nat
  <2>9. h = 0 => Q = l
    <3>1. Q = h * M + l
      BY ONLY <2>1, <2>5, <2>6 DEF Value
    <3>2. 0 * M + l = l
      BY ONLY M \in Nat, l \in 0 .. M - 1
    <3> QED
      BY ONLY <3>1, <3>2
  <2>10. UnsignedQuotients(k, a, d) = Quotients(v, d, 0, M - 1)
    BY ONLY <1>2, <2>1, <2>5 DEF UnsignedQuotients
  <2>11. v \in Int /\ d \in Int /\ 0 \in Int /\ M - 1 \in Int /\ Q \in Int /\ R \in Int
    BY ONLY <2>2, v \in Nat, M \in Nat, Q \in Nat, R \in 0 .. M - 1
  <2>12. CASE R < d /\ v = Q * d + R
    <3>1. Divides(v, d, Q, R)
      <4>1. Magnitude(R) = R /\ Magnitude(d) = d /\ ~(R < 0) /\ ~(v < 0)
        BY ONLY <2>2, v \in Nat, R \in 0 .. M - 1 DEF Magnitude
      <4> QED
        BY ONLY <2>12, <4>1 DEF Divides
    <3>2. CASE h = 0
      <4>1. o = Divided(k, l, R) /\ Q = l
        BY ONLY <2>7, <2>9, <3>2
      <4>2. ~o.err /\ o.q = Trunc(k, Q) /\ o.r = Trunc(k, R)
        BY ONLY <4>1 DEF Divided
      <4>3. Q \in 0 .. M - 1 /\ R \in 0 .. M - 1
        BY ONLY <4>1, l \in 0 .. M - 1, R \in 0 .. M - 1
      <4> HIDE DEF o
      <4>4. Answers(o, Quotients(v, d, 0, M - 1), k)
        BY ONLY <2>11, <3>1, <4>2, <4>3, AnswerFits
      <4> QED
        BY ONLY <2>10, <4>4 DEF o
    <3>3. CASE h # 0
      <4>1. o.err
        BY ONLY <2>7, <3>3 DEF DivideError
      <4>2. Q \notin 0 .. M - 1
        BY ONLY <2>8, <3>3, Q \in Nat, M \in Nat
      <4> HIDE DEF o
      <4>3. Answers(o, Quotients(v, d, 0, M - 1), k)
        BY ONLY <2>11, <3>1, <4>1, <4>2, AnswerError
      <4> QED
        BY ONLY <2>10, <4>3 DEF o
    <3> QED
      BY ONLY <3>2, <3>3
  <2>13. CASE h # 0 /\ d * M <= v
    <3>1. PICK q \in Nat, s \in Nat : Divides(v, d, q, s) /\ q >= M
      BY <2>2, <2>13, TooLarge
    <3>2. o.err
      BY ONLY <2>7, <2>13 DEF DivideError
    <3>3. q \notin 0 .. M - 1 /\ q \in Int /\ s \in Int
      BY ONLY <3>1, q \in Nat, s \in Nat, M \in Nat
    <3> HIDE DEF o
    <3>4. Answers(o, Quotients(v, d, 0, M - 1), k)
      BY ONLY <2>11, <3>1, <3>2, <3>3, AnswerError
    <3> QED
      BY ONLY <2>10, <3>4 DEF o
  <2> QED
    BY ONLY <2>1, <2>4, <2>5, <2>6, <2>12, <2>13
<1> QED
  BY <1>1, <1>2

\* div in the narrower forms: the quotient of a wider type, if it fits.
LEMMA DivUnsignedRight ==
  ASSUME NEW k, Doubles(k), NEW a, Pair(k, a), NEW d \in WordsOf(k)
  PROVE  Answers(OpDivUnsigned(k, a, d), UnsignedQuotients(k, a, d), k)
<1> DEFINE o == OpDivUnsigned(k, a, d)
<1>1. CASE d = 0
  <2>1. o.err
    BY <1>1 DEF OpDivUnsigned, DivideError
  <2> HIDE DEF o
  <2>2. Answers(o, {}, k)
    BY <2>1, ErrorAnswers
  <2> QED
    BY <1>1, <2>2 DEF UnsignedQuotients, o
<1>2. CASE d # 0
  <2>1. PICK M \in Nat : M = 2^k /\ WordsOf(k) = 0 .. M - 1 /\ M >= 16
    BY WidthNumbers
  <2>2. d \in Nat /\ d >= 1 /\ d < M
    BY ONLY <2>1, <1>2, d \in WordsOf(k)
  <2>3. PICK v \in Nat : v = Value(k, a)
    BY PairValue
  <2>4. PICK q \in Nat, s \in 0 .. d - 1 : q = v \div d /\ s = v % d /\ v = d * q + s
    BY ONLY <2>2, v \in Nat, DivMod
  <2>5. o = IF q > M - 1 THEN DivideError ELSE Divided(k, q, s)
    BY ONLY <1>2, <2>1, <2>3, <2>4 DEF OpDivUnsigned
  <2>6. Divides(v, d, q, s)
    <3>1. Magnitude(s) = s /\ Magnitude(d) = d /\ ~(s < 0) /\ ~(v < 0) /\ s < d
      BY ONLY <2>2, v \in Nat, s \in 0 .. d - 1 DEF Magnitude
    <3>2. d * q = q * d
      BY ONLY <2>2, q \in Nat
    <3> QED
      BY ONLY <2>4, <3>1, <3>2 DEF Divides
  <2>7. UnsignedQuotients(k, a, d) = Quotients(v, d, 0, M - 1)
    BY ONLY <1>2, <2>1, <2>3 DEF UnsignedQuotients
  <2>8. v \in Int /\ d \in Int /\ 0 \in Int /\ M - 1 \in Int /\ q \in Int /\ s \in Int
    BY ONLY <2>2, v \in Nat, M \in Nat, q \in Nat, s \in 0 .. d - 1
  <2>9. CASE q > M - 1
    <3>1. o.err
      BY ONLY <2>5, <2>9 DEF DivideError
    <3>2. q \notin 0 .. M - 1
      BY ONLY <2>9, q \in Nat, M \in Nat
    <3> HIDE DEF o
    <3>3. Answers(o, Quotients(v, d, 0, M - 1), k)
      BY ONLY <2>6, <2>8, <3>1, <3>2, AnswerError
    <3> QED
      BY ONLY <2>7, <3>3 DEF o
  <2>10. CASE ~(q > M - 1)
    <3>1. ~o.err /\ o.q = Trunc(k, q) /\ o.r = Trunc(k, s)
      BY ONLY <2>5, <2>10 DEF Divided
    <3>2. q \in 0 .. M - 1 /\ s \in 0 .. M - 1
      BY ONLY <2>2, <2>10, q \in Nat, M \in Nat, s \in 0 .. d - 1
    <3> HIDE DEF o
    <3>3. Answers(o, Quotients(v, d, 0, M - 1), k)
      BY ONLY <2>6, <2>8, <3>1, <3>2, AnswerFits
    <3> QED
      BY ONLY <2>7, <3>3 DEF o
  <2> QED
    BY ONLY <2>9, <2>10
<1> QED
  BY <1>1, <1>2

\* A signed double word and its magnitude, which is what DubbleIdiv divides.
LEMMA SignedPair ==
  ASSUME NEW k, Doubles(k), NEW a, Pair(k, a)
  PROVE  LET X == Signed(2 * k, Value(k, a))
             G == 2^(2 * k - 1)
             w == IF Sign(k, a.hi) = 1 THEN DubbleNeg(k, a) ELSE a IN
         /\ X \in -G .. G - 1 /\ (Sign(k, a.hi) = 1 <=> X < 0)
         /\ Pair(k, w) /\ Value(k, w) = Magnitude(X)
         /\ X = -G <=> a.lo = 0 /\ a.hi = 2^(k - 1)
<1>1. PICK M \in Nat, H \in Nat :
           /\ M = 2^k /\ H = 2^(k - 1) /\ M = 2 * H /\ H >= 8 /\ WordsOf(k) = 0 .. M - 1
           /\ 2^(2 * k) = M * M /\ 2^(2 * k - 1) = M * H /\ Width(k)
  BY WidthNumbers
<1>h. M = 2 * H /\ H >= 8 /\ M \in Nat /\ H \in Nat
  BY <1>1
<1>2. PICK l \in 0 .. M - 1, h \in 0 .. M - 1 : l = a.lo /\ h = a.hi
  BY <1>1 DEF Pair
<1>3. PICK N \in Nat, G \in Nat : N = 2^(2 * k) /\ G = 2^(2 * k - 1) /\ N = 2 * G /\ G = M * H /\ G >= 1
  <2>1. Width(2 * k)
    BY DEF Doubles
  <2>2. PICK N \in Nat, G \in Nat : N = 2^(2 * k) /\ G = 2^(2 * k - 1) /\ N = 2 * G /\ G >= 8
    BY ONLY <2>1 DEF Width
  <2>3. G = M * H
    BY ONLY <1>1, <2>2
  <2>4. N = 2 * G /\ G >= 1 /\ N = 2^(2 * k) /\ G = 2^(2 * k - 1)
    BY ONLY <2>2, G \in Nat
  <2> QED
    BY ONLY <2>3, <2>4, N \in Nat, G \in Nat
<1>4. PICK v \in Nat : v = Value(k, a) /\ v < N /\ v = h * M + l /\ (v < M * H <=> h < H)
  <2>1. H \in Int
    OBVIOUS
  <2>2. Value(k, a) \in Nat /\ Value(k, a) < 2^(2 * k) /\ (Value(k, a) < 2^k * H <=> a.hi < H)
    BY <2>1, PairValue
  <2>3. Value(k, a) = h * M + l
    BY ONLY <1>1, <1>2 DEF Value
  <2> QED
    BY ONLY <1>1, <1>2, <1>3, <2>2, <2>3
<1>5. PICK X \in Int : X = Signed(2 * k, Value(k, a)) /\ X = (IF v < G THEN v ELSE v - N)
  <2>1. Width(2 * k) /\ v \in WordsOf(2 * k)
    <3>1. v \in 0 .. N - 1
      BY ONLY <1>4, v \in Nat, N \in Nat
    <3> QED
      BY <1>3, <3>1 DEF Doubles, WordsOf
  <2>2. Signed(2 * k, v) = IF v < 2^(2 * k - 1) THEN v ELSE v - 2^(2 * k)
    BY <2>1, SignedIs
  <2>3. PICK X \in Int : X = (IF v < G THEN v ELSE v - N)
    BY ONLY v \in Nat, N \in Nat
  <2> QED
    BY ONLY <1>3, <1>4, <2>2, <2>3
<1>6. Sign(k, h) = IF h < H THEN 0 ELSE 1
  BY <1>1, SignIs
<1>7. X \in -G .. G - 1 /\ (X < 0 <=> ~(v < G)) /\ (X = -G <=> v = G)
  <2>1. N = 2 * G /\ G >= 1 /\ v < N /\ X = (IF v < G THEN v ELSE v - N)
    BY ONLY <1>3, <1>4, <1>5
  <2> QED
    BY ONLY <2>1, v \in Nat, N \in Nat, G \in Nat
<1>8. Sign(k, h) = 1 <=> X < 0
  BY ONLY <1>3, <1>4, <1>6, <1>7
<1>9. a = Dubble(l, h) /\ l \in WordsOf(k) /\ h \in WordsOf(k)
  BY ONLY <1>2, Pair(k, a) DEF Pair
<1>10. ASSUME Sign(k, h) = 1
       PROVE  Pair(k, DubbleNeg(k, a)) /\ Value(k, DubbleNeg(k, a)) = Magnitude(X)
  <2>1. LET d == DubbleNeg(k, Dubble(l, h))
            u == Value(k, Dubble(l, h)) IN
        /\ d.lo \in WordsOf(k) /\ d.hi \in WordsOf(k) /\ d = Dubble(d.lo, d.hi)
        /\ Value(k, d) = IF u = 0 THEN 0 ELSE 2^(2 * k) - u
    BY <1>9, DubbleNegIs
  <2>2. Pair(k, DubbleNeg(k, a))
    BY ONLY <1>9, <2>1 DEF Pair
  <2>3. Value(k, DubbleNeg(k, a)) = IF v = 0 THEN 0 ELSE N - v
    BY ONLY <1>3, <1>4, <1>9, <2>1
  <2>4. X < 0
    BY <1>8, <1>10
  <2>5. N - v = -X /\ v # 0
    BY ONLY <1>3, <1>5, <1>7, <2>4, v \in Nat, N \in Nat, G \in Nat
  <2> QED
    BY ONLY <2>2, <2>3, <2>4, <2>5 DEF Magnitude
<1>11. ASSUME Sign(k, h) # 1 PROVE Value(k, a) = Magnitude(X)
  <2>1. ~(X < 0)
    BY <1>8, <1>11
  <2> QED
    BY ONLY <1>4, <1>5, <1>7, <2>1 DEF Magnitude
<1>12. v = G <=> l = 0 /\ h = H
  <2>1. H * M = G
    BY ONLY <1>3, M \in Nat, H \in Nat
  <2>2. ASSUME v = G PROVE l = 0 /\ h = H
    <3>1. ~(h < H)
      BY ONLY <1>3, <1>4, <2>2, G \in Nat
    <3>2. PICK e \in Nat : h = H + e
      <4>1. h - H \in Nat /\ h = H + (h - H)
        BY ONLY <3>1, H \in Nat, h \in 0 .. M - 1, M \in Nat
      <4> QED
        BY ONLY <4>1
    <3>3. PICK f \in Nat : f = e * M /\ h * M = G + f
      BY ONLY <2>1, <3>2, M \in Nat, H \in Nat, e \in Nat, G \in Nat
    <3>4. f = 0 /\ l = 0
      BY ONLY <1>4, <2>2, <3>3, f \in Nat, l \in 0 .. M - 1, M \in Nat, G \in Nat
    <3>5. e = 0
      BY ONLY <3>3, <3>4, <1>h, e \in Nat
    <3> QED
      BY ONLY <3>2, <3>4, <3>5, H \in Nat
  <2>3. ASSUME l = 0, h = H PROVE v = G
    BY ONLY <1>4, <2>1, <2>3, v \in Nat
  <2> QED
    BY ONLY <2>2, <2>3
<1> QED
  BY ONLY <1>1, <1>2, <1>3, <1>5, <1>7, <1>8, <1>10, <1>11, <1>12, Pair(k, a)

\* Quotient and remainder from the magnitudes, for a dividend other than the most negative one.
LEMMA DubbleIdivIs ==
  ASSUME NEW k, Doubles(k), Powers(k), NEW a, Pair(k, a), NEW d \in WordsOf(k), d # 0,
         Signed(2 * k, Value(k, a)) # -(2^(2 * k - 1))
  PROVE  LET r == DubbleIdiv(k, a, d)
             H == 2^(k - 1) IN
         /\ Pair(k, r.q)
         /\ \E s \in -H .. H - 1 :
              /\ Divides(Signed(2 * k, Value(k, a)), Signed(k, d), Signed(2 * k, Value(k, r.q)), s)
              /\ Trunc(k, r.r) = Trunc(k, s)
<1>1. PICK M \in Nat, H \in Nat :
           /\ M = 2^k /\ H = 2^(k - 1) /\ M = 2 * H /\ H >= 8 /\ WordsOf(k) = 0 .. M - 1
           /\ 2^(2 * k) = M * M /\ 2^(2 * k - 1) = M * H /\ Width(k)
  BY WidthNumbers
<1>h. M = 2 * H /\ H >= 8 /\ M \in Nat /\ H \in Nat
  BY <1>1
<1>2. PICK N \in Nat, G \in Nat : N = 2^(2 * k) /\ G = 2^(2 * k - 1) /\ N = 2 * G /\ Width(2 * k)
  BY DEF Doubles, Width
<1>x. LET X == Signed(2 * k, Value(k, a))
          w == IF Sign(k, a.hi) = 1 THEN DubbleNeg(k, a) ELSE a IN
      /\ X \in -G .. G - 1 /\ (Sign(k, a.hi) = 1 <=> X < 0)
      /\ Pair(k, w) /\ Value(k, w) = Magnitude(X) /\ X # -G
  <2>1. LET X == Signed(2 * k, Value(k, a))
            w == IF Sign(k, a.hi) = 1 THEN DubbleNeg(k, a) ELSE a IN
        /\ X \in -G .. G - 1 /\ (Sign(k, a.hi) = 1 <=> X < 0)
        /\ Pair(k, w) /\ Value(k, w) = Magnitude(X)
    BY <1>2, SignedPair
  <2>2. Signed(2 * k, Value(k, a)) # -G
    BY <1>2
  <2> QED
    BY ONLY <2>1, <2>2
<1>X. PICK X \in Int : X = Signed(2 * k, Value(k, a))
  BY ONLY <1>x, G \in Nat
<1>w. PICK w : w = IF Sign(k, a.hi) = 1 THEN DubbleNeg(k, a) ELSE a
  OBVIOUS
<1>3. /\ X = Signed(2 * k, Value(k, a)) /\ X \in -G .. G - 1 /\ (Sign(k, a.hi) = 1 <=> X < 0)
      /\ w = (IF Sign(k, a.hi) = 1 THEN DubbleNeg(k, a) ELSE a)
      /\ Pair(k, w) /\ Value(k, w) = Magnitude(X) /\ X # -G
  BY ONLY <1>x, <1>X, <1>w
<1>4. PICK b \in Nat, y \in Int :
         /\ b = Abs(k, d) /\ y = Signed(k, d) /\ b = Magnitude(y) /\ b <= H /\ (Sign(k, d) = 1 <=> y < 0)
         /\ Sign(k, d) \in 0 .. 1 /\ b \in WordsOf(k) /\ y \in -H .. H - 1
  <2>1. /\ Abs(k, d) \in WordsOf(k) /\ Abs(k, d) = Magnitude(Signed(k, d)) /\ Abs(k, d) <= H
        /\ Signed(k, d) \in -H .. H - 1 /\ (Sign(k, d) = 1 <=> Signed(k, d) < 0) /\ Sign(k, d) \in 0 .. 1
    BY <1>1, AbsIs
  <2>2. Abs(k, d) \in Nat /\ Signed(k, d) \in Int
    BY ONLY <1>1, <2>1
  <2> QED
    BY ONLY <2>1, <2>2
<1>5. b >= 1 /\ y # 0
  <2>1. y = IF d < H THEN d ELSE d - M
    BY <1>1, <1>4, SignedIs
  <2>2. d \in 0 .. M - 1
    BY <1>1
  <2>3. y # 0
    BY ONLY <1>h, <2>1, <2>2, d # 0
  <2> QED
    BY ONLY <1>4, <2>3, y \in Int, b \in Nat DEF Magnitude
<1>6. PICK o : o = DubbleDiv(k, w, b)
  OBVIOUS
<1>7. /\ Pair(k, o.q) /\ o.r \in WordsOf(k) /\ o.r < b /\ Value(k, w) = Value(k, o.q) * b + o.r
  <2>1. /\ Pair(k, o.q) /\ o.r \in WordsOf(k)
        /\ \/ o.r < b /\ Value(k, w) = Value(k, o.q) * b + o.r
           \/ o.q.hi # 0 /\ b * 2^k <= Value(k, w) /\ 2 * Value(k, w) >= 2^(2 * k)
    <3>1. b # 0
      BY ONLY <1>5
    <3> QED
      BY <1>3, <1>4, <1>6, <3>1, DubbleDivExact
  <2>2. ~(2 * Magnitude(X) >= N)
    BY ONLY <1>2, <1>3, X \in Int, N \in Nat, G \in Nat DEF Magnitude
  <2> QED
    BY ONLY <1>2, <1>3, <2>1, <2>2
<1>8. PICK Q \in Nat, R \in 0 .. H - 1 : Q = Value(k, o.q) /\ R = o.r /\ R < b /\ Magnitude(X) = Q * b + R /\ Q < G
  <2>1. PICK Q \in Nat : Q = Value(k, o.q)
    BY <1>7, PairValue
  <2>2. PICK R \in 0 .. H - 1 : R = o.r
    <3>1. o.r \in 0 .. M - 1
      BY ONLY <1>1, <1>7
    <3> QED
      BY ONLY <3>1, <1>4, <1>7, <1>h, b \in Nat
  <2>3. Magnitude(X) = Q * b + R
    BY ONLY <1>3, <1>7, <2>1, <2>2
  <2>4. Magnitude(X) < G
    BY ONLY <1>3, X \in Int, G \in Nat DEF Magnitude
  <2>5. Q * 1 \in Nat /\ Q * 1 <= Q * b /\ Q * 1 = Q /\ Q * b \in Nat
    <3>1. Q <= Q /\ 1 \in Nat
      OBVIOUS
    <3>2. Q * 1 \in Nat /\ Q * 1 <= Q * b
      BY ONLY <3>1, <1>5, Q \in Nat, b \in Nat, TimesMonotone
    <3> QED
      BY ONLY <3>2, Q \in Nat, b \in Nat
  <2>6. Q < G
    BY ONLY <2>3, <2>4, <2>5, Q \in Nat, R \in 0 .. H - 1, H \in Nat, G \in Nat
  <2> QED
    BY ONLY <1>7, <2>1, <2>2, <2>3, <2>6
<1>9. PICK q \in Int, s \in Int :
         /\ q = (IF (X < 0) # (y < 0) THEN -Q ELSE Q) /\ s = (IF X < 0 THEN -R ELSE R)
         /\ Divides(X, y, q, s)
  <2>1. Magnitude(X) = Q * Magnitude(y) + R /\ R < Magnitude(y)
    BY ONLY <1>4, <1>8
  <2>2. R \in Nat
    BY ONLY H \in Nat, R \in 0 .. H - 1
  <2>3. Divides(X, y, IF (X < 0) # (y < 0) THEN -Q ELSE Q, IF X < 0 THEN -R ELSE R)
    BY ONLY <2>1, <2>2, X \in Int, y \in Int, Q \in Nat, BySigns
  <2>4. (IF (X < 0) # (y < 0) THEN -Q ELSE Q) \in Int /\ (IF X < 0 THEN -R ELSE R) \in Int
    BY ONLY Q \in Nat, <2>2
  <2> QED
    BY ONLY <2>3, <2>4
<1>10. PICK p : /\ p = (IF Sign(k, a.hi) # Sign(k, d) THEN DubbleNeg(k, o.q) ELSE o.q)
                /\ DubbleIdiv(k, a, d).q = p
                /\ DubbleIdiv(k, a, d).r = (IF Sign(k, a.hi) = 1 THEN Trunc(k, -o.r) ELSE o.r)
  BY ONLY <1>3, <1>4, <1>6 DEF DubbleIdiv
<1>11. (Sign(k, a.hi) # Sign(k, d)) <=> ((X < 0) # (y < 0))
  <2>1. Sign(k, a.hi) \in 0 .. 1
    <3>1. a.hi \in WordsOf(k)
      BY DEF Pair
    <3>2. Sign(k, a.hi) = IF a.hi < 2^(k - 1) THEN 0 ELSE 1
      BY <1>1, <3>1, SignIs
    <3> QED
      BY ONLY <3>2
  <2> QED
    BY ONLY <1>3, <1>4, <2>1
<1>12. Pair(k, p) /\ Value(k, p) = (IF q < 0 THEN q + N ELSE q)
  <2>1. CASE (X < 0) # (y < 0)
    <3>1. PICK l, h : o.q = Dubble(l, h) /\ l \in WordsOf(k) /\ h \in WordsOf(k)
      BY <1>7 DEF Pair
    <3>2. LET e == DubbleNeg(k, Dubble(l, h))
              u == Value(k, Dubble(l, h)) IN
          /\ e.lo \in WordsOf(k) /\ e.hi \in WordsOf(k) /\ e = Dubble(e.lo, e.hi)
          /\ Value(k, e) = IF u = 0 THEN 0 ELSE 2^(2 * k) - u
      BY <3>1, DubbleNegIs
    <3>3. p = DubbleNeg(k, Dubble(l, h))
      BY ONLY <1>10, <1>11, <2>1, <3>1
    <3>4. Pair(k, p)
      BY ONLY <3>2, <3>3 DEF Pair
    <3>5. Value(k, p) = IF Q = 0 THEN 0 ELSE N - Q
      BY ONLY <1>2, <1>8, <3>1, <3>2, <3>3
    <3>6. q = -Q
      BY ONLY <1>9, <2>1
    <3> QED
      BY ONLY <3>4, <3>5, <3>6, Q \in Nat, N \in Nat
  <2>2. CASE ~((X < 0) # (y < 0))
    <3>1. p = o.q
      BY ONLY <1>10, <1>11, <2>2
    <3>2. q = Q
      BY ONLY <1>9, <2>2
    <3> QED
      BY ONLY <1>7, <1>8, <3>1, <3>2, Q \in Nat
  <2> QED
    BY ONLY <2>1, <2>2
<1>13. Signed(2 * k, Value(k, p)) = q
  <2>1. PICK u \in 0 .. N - 1 : u = Value(k, p)
    <3>1. (IF q < 0 THEN q + N ELSE q) \in 0 .. N - 1
      BY ONLY <1>2, <1>8, <1>9, Q \in Nat, N \in Nat, G \in Nat, q \in Int
    <3> QED
      BY ONLY <1>12, <3>1
  <2>2. u \in WordsOf(2 * k)
    BY ONLY <1>2, u \in 0 .. N - 1 DEF WordsOf
  <2>3. Signed(2 * k, u) = IF u < 2^(2 * k - 1) THEN u ELSE u - 2^(2 * k)
    BY <1>2, <2>2, SignedIs
  <2>4. Signed(2 * k, u) = IF u < G THEN u ELSE u - N
    BY ONLY <1>2, <2>3
  <2>5. (IF u < G THEN u ELSE u - N) = q
    BY ONLY <1>2, <1>8, <1>9, <1>12, <2>1, Q \in Nat, N \in Nat, G \in Nat, q \in Int
  <2> QED
    BY ONLY <2>1, <2>4, <2>5
<1>14. s \in -H .. H - 1 /\ Trunc(k, DubbleIdiv(k, a, d).r) = Trunc(k, s)
  <2>1. s \in -H .. H - 1 /\ R = o.r
    BY ONLY <1>8, <1>9, <1>h, R \in 0 .. H - 1
  <2>2. ASSUME NEW e \in Int, -M <= e, e < 2 * M
        PROVE  Trunc(k, e) = IF e < 0 THEN e + M ELSE IF e < M THEN e ELSE e - M
    BY <1>1, <2>2, TruncIs
  <2>3. CASE X < 0
    <3>1. DubbleIdiv(k, a, d).r = Trunc(k, -R) /\ s = -R
      BY ONLY <1>3, <1>9, <1>10, <2>1, <2>3
    <3>2. PICK e \in Int : e = -R /\ -M <= e /\ e < 2 * M /\ e <= 0
      BY ONLY <1>h, R \in 0 .. H - 1
    <3>3. Trunc(k, e) = IF e < 0 THEN e + M ELSE e
      <4>1. Trunc(k, e) = IF e < 0 THEN e + M ELSE IF e < M THEN e ELSE e - M
        BY ONLY <2>2, <3>2
      <4> QED
        BY ONLY <3>2, <4>1, <1>h
    <3>4. PICK f \in Int : f = Trunc(k, e) /\ f >= 0 /\ f < M
      BY ONLY <3>2, <3>3, <1>h
    <3>5. Trunc(k, f) = f
      <4>1. Trunc(k, f) = IF f < 0 THEN f + M ELSE IF f < M THEN f ELSE f - M
        <5>1. -M <= f /\ f < 2 * M
          BY ONLY <3>4, <1>h
        <5> QED
          BY ONLY <2>2, <5>1, f \in Int
      <4> QED
        BY ONLY <3>4, <4>1
    <3> QED
      BY ONLY <2>1, <3>1, <3>2, <3>4, <3>5
  <2>4. CASE ~(X < 0)
    <3>1. DubbleIdiv(k, a, d).r = R /\ s = R
      BY ONLY <1>3, <1>9, <1>10, <2>1, <2>4
    <3> QED
      BY ONLY <2>1, <3>1
  <2> QED
    BY ONLY <2>3, <2>4
<1> QED
  BY ONLY <1>1, <1>3, <1>4, <1>9, <1>10, <1>12, <1>13, <1>14

LEMMA TruncSigned ==
  ASSUME NEW k, Width(k), NEW l \in WordsOf(k)
  PROVE  Trunc(k, Signed(k, l)) = l /\ Trunc(k, l) = l
<1>1. PICK M \in Nat, H \in Nat : M = 2^k /\ H = 2^(k - 1) /\ M = 2 * H /\ H >= 8 /\ l \in 0 .. M - 1
  BY DEF Width, WordsOf
<1>2. ASSUME NEW e \in Int, -M <= e, e < 2 * M
      PROVE  Trunc(k, e) = IF e < 0 THEN e + M ELSE IF e < M THEN e ELSE e - M
  BY <1>1, <1>2, TruncIs
<1>3. PICK e \in Int : e = Signed(k, l) /\ e = IF l < H THEN l ELSE l - M
  <2>1. Signed(k, l) = IF l < H THEN l ELSE l - M
    BY <1>1, SignedIs
  <2>2. (IF l < H THEN l ELSE l - M) \in Int
    BY ONLY <1>1
  <2> QED
    BY ONLY <2>1, <2>2
<1>4. -M <= e /\ e < 2 * M /\ -M <= l /\ l < 2 * M /\ l \in Int
  BY ONLY <1>1, <1>3
<1>5. Trunc(k, e) = (IF e < 0 THEN e + M ELSE IF e < M THEN e ELSE e - M) /\ Trunc(k, l) = (IF l < 0 THEN l + M ELSE IF l < M THEN l ELSE l - M)
  BY ONLY <1>2, <1>4, e \in Int
<1> QED
  BY ONLY <1>1, <1>3, <1>5

\* Only the numbers of its range are their word read as a signed one.
LEMMA SignedFits ==
  ASSUME NEW k, Width(k), NEW q \in Int
  PROVE  q = Signed(k, Trunc(k, q)) <=> q \in -(2^(k - 1)) .. 2^(k - 1) - 1
<1>1. PICK M \in Nat, H \in Nat : M = 2^k /\ H = 2^(k - 1) /\ M = 2 * H /\ H >= 8 /\ WordsOf(k) = 0 .. M - 1
  BY DEF Width, WordsOf
<1>2. PICK t \in 0 .. M - 1 : t = Trunc(k, q)
  <2>1. q % M \in 0 .. M - 1
    BY ONLY <1>1, M \in Nat, q \in Int
  <2> QED
    BY ONLY <1>1, <2>1 DEF Trunc
<1>3. Signed(k, t) = IF t < H THEN t ELSE t - M
  BY <1>1, SignedIs
<1>4. ASSUME q \in -H .. H - 1 PROVE t = IF q < 0 THEN q + M ELSE q
  <2>1. -M <= q /\ q < 2 * M /\ q < M
    BY ONLY <1>1, <1>4, M \in Nat, H \in Nat
  <2>2. Trunc(k, q) = IF q < 0 THEN q + M ELSE IF q < M THEN q ELSE q - M
    BY <1>1, <2>1, TruncIs
  <2> QED
    BY ONLY <1>2, <2>1, <2>2
<1>5. M = 2 * H /\ H >= 8
  BY <1>1
<1>6. (IF t < H THEN t ELSE t - M) \in -H .. H - 1
  BY ONLY <1>5, t \in 0 .. M - 1, M \in Nat, H \in Nat
<1>7. q = (IF t < H THEN t ELSE t - M) <=> q \in -H .. H - 1
  BY ONLY <1>4, <1>5, <1>6, t \in 0 .. M - 1, M \in Nat, H \in Nat, q \in Int
<1> QED
  BY ONLY <1>1, <1>2, <1>3, <1>7

\* The quotient of the most negative double word is too large for a word, whatever the divisor.
LEMMA MostNegative ==
  ASSUME NEW k, Doubles(k), NEW y \in -(2^(k - 1)) .. 2^(k - 1) - 1, y # 0
  PROVE  \E q \in Int, s \in Int : Divides(-(2^(2 * k - 1)), y, q, s) /\ q \notin -(2^(k - 1)) .. 2^(k - 1) - 1
<1>1. PICK M \in Nat, H \in Nat :
           /\ M = 2^k /\ H = 2^(k - 1) /\ M = 2 * H /\ H >= 8 /\ WordsOf(k) = 0 .. M - 1
           /\ 2^(2 * k) = M * M /\ 2^(2 * k - 1) = M * H /\ Width(k)
  BY WidthNumbers
<1>h. M = 2 * H /\ H >= 8 /\ M \in Nat /\ H \in Nat
  BY <1>1
<1>2. PICK G \in Nat : G = 2^(2 * k - 1) /\ G = M * H /\ G >= 1
  <2>1. M * H \in Nat /\ M * H >= 1
    <3>1. M >= 1 /\ H >= 1 /\ 1 \in Nat /\ 1 * 1 = 1
      BY ONLY <1>h
    <3>2. 1 * 1 <= M * H
      BY ONLY <3>1, M \in Nat, H \in Nat, TimesMonotone
    <3> QED
      BY ONLY <3>1, <3>2, M \in Nat, H \in Nat
  <2> QED
    BY ONLY <1>1, <2>1
<1>3. y \in Int /\ -H <= y /\ y <= H - 1
  BY ONLY <1>1, y \in -(2^(k - 1)) .. 2^(k - 1) - 1, H \in Nat
<1>4. PICK b \in Nat : b = Magnitude(y) /\ b >= 1 /\ b <= H
  BY ONLY <1>3, y # 0, H \in Nat DEF Magnitude
<1>5. PICK Q \in Nat, R \in 0 .. b - 1 : G = b * Q + R
  <2>1. b > 0
    BY ONLY <1>4, b \in Nat
  <2> QED
    BY ONLY <2>1, b \in Nat, G \in Nat, DivMod
<1>6. Q > H
  <2> SUFFICES ASSUME Q <= H PROVE FALSE
    OBVIOUS
  <2>1. b * Q \in Nat /\ b * Q <= H * H
    BY ONLY <1>4, Q <= H, b \in Nat, Q \in Nat, H \in Nat, TimesMonotone
  <2>2. G = 2 * (H * H) /\ H * H \in Nat
    BY ONLY <1>2, <1>h, G \in Nat
  <2>3. 8 * H <= H * H
    <3>1. 8 <= H /\ H <= H /\ 8 \in Nat
      BY ONLY <1>h
    <3> QED
      BY ONLY <3>1, H \in Nat, TimesMonotone
  <2>4. R < H
    BY ONLY <1>4, b \in Nat, R \in 0 .. b - 1, H \in Nat
  <2> QED
    BY ONLY <1>5, <2>1, <2>2, <2>3, <2>4, <1>h, R \in 0 .. b - 1, b \in Nat
<1>7. Magnitude(-G) = G /\ -G < 0 /\ -G \in Int
  BY ONLY <1>2, G \in Nat DEF Magnitude
<1>8. PICK q \in Int, s \in Int : Divides(-G, y, q, s) /\ (q = Q \/ q = -Q)
  <2>1. b * Q = Q * b /\ R \in Nat /\ R < b
    BY ONLY b \in Nat, Q \in Nat, R \in 0 .. b - 1
  <2>2. Magnitude(-G) = Q * Magnitude(y) + R /\ R < Magnitude(y)
    BY ONLY <1>4, <1>5, <1>7, <2>1
  <2>3. Divides(-G, y, IF (-G < 0) # (y < 0) THEN -Q ELSE Q, IF -G < 0 THEN -R ELSE R)
    BY ONLY <1>3, <1>7, <2>1, <2>2, Q \in Nat, BySigns
  <2>4. -Q \in Int /\ -R \in Int /\ Q \in Int /\ R \in Int
    BY ONLY Q \in Nat, <2>1
  <2> QED
    BY ONLY <2>3, <2>4
<1>9. q \notin -H .. H - 1
  BY ONLY <1>6, <1>8, Q \in Nat, H \in Nat, q \in Int
<1> QED
  BY ONLY <1>1, <1>2, <1>8, <1>9

LEMMA DivSigned64Right ==
  ASSUME NEW k, Doubles(k), Powers(k), NEW a, Pair(k, a), NEW d \in WordsOf(k)
  PROVE  Answers(OpDivRdxRaxEvqpSigned64(k, a, d), SignedQuotients(k, a, d), k)
<1> DEFINE o == OpDivRdxRaxEvqpSigned64(k, a, d)
<1>1. CASE d = 0
  <2>1. o.err
    BY <1>1 DEF OpDivRdxRaxEvqpSigned64, DivideError
  <2> HIDE DEF o
  <2>2. Answers(o, {}, k)
    BY <2>1, ErrorAnswers
  <2> QED
    BY <1>1, <2>2 DEF SignedQuotients, o
<1>2. CASE d # 0
  <2>1. PICK M \in Nat, H \in Nat :
           /\ M = 2^k /\ H = 2^(k - 1) /\ M = 2 * H /\ H >= 8 /\ WordsOf(k) = 0 .. M - 1
           /\ 2^(2 * k) = M * M /\ 2^(2 * k - 1) = M * H /\ Width(k)
    BY WidthNumbers
  <2>h. M = 2 * H /\ H >= 8 /\ M \in Nat /\ H \in Nat
    BY <2>1
  <2>2. PICK G \in Nat : G = 2^(2 * k - 1)
    BY ONLY <2>1, <2>h
  <2>3. LET X == Signed(2 * k, Value(k, a)) IN
        X \in -G .. G - 1 /\ (X = -G <=> a.lo = 0 /\ a.hi = 2^(k - 1))
    BY <2>2, SignedPair
  <2>4. PICK X \in Int : X = Signed(2 * k, Value(k, a)) /\ (X = -G <=> a.lo = 0 /\ a.hi = 2^(k - 1))
    BY ONLY <2>3, G \in Nat
  <2>5. PICK y \in Int : y = Signed(k, d) /\ y \in -H .. H - 1 /\ y # 0
    <3>1. Signed(k, d) = IF d < H THEN d ELSE d - M
      BY <2>1, SignedIs
    <3>2. d \in 0 .. M - 1
      BY <2>1
    <3>3. (IF d < H THEN d ELSE d - M) \in -H .. H - 1 /\ (IF d < H THEN d ELSE d - M) # 0
      BY ONLY <2>h, <3>2, <1>2
    <3> QED
      BY ONLY <3>1, <3>3, <2>h
  <2>6. SignedQuotients(k, a, d) = Quotients(X, y, -H, H - 1)
    BY ONLY <1>2, <2>1, <2>4, <2>5 DEF SignedQuotients
  <2>7. -H \in Int /\ H - 1 \in Int
    BY ONLY <2>h
  <2>8. CASE X = -G
    <3>1. o.err
      BY ONLY <2>4, <2>8 DEF OpDivRdxRaxEvqpSigned64, DivideError
    <3>2. PICK q \in Int, s \in Int : Divides(X, y, q, s) /\ q \notin -H .. H - 1
      BY <2>1, <2>2, <2>5, <2>8, MostNegative
    <3> HIDE DEF o
    <3>3. Answers(o, Quotients(X, y, -H, H - 1), k)
      BY ONLY <2>7, <3>1, <3>2, X \in Int, y \in Int, AnswerError
    <3> QED
      BY ONLY <2>6, <3>3 DEF o
  <2>9. CASE X # -G
    <3>1. PICK r : r = DubbleIdiv(k, a, d)
      OBVIOUS
    <3>2. Pair(k, r.q) /\ \E s \in -H .. H - 1 : Divides(X, y, Signed(2 * k, Value(k, r.q)), s) /\ Trunc(k, r.r) = Trunc(k, s)
      <4>1. LET e == DubbleIdiv(k, a, d)
                J == 2^(k - 1) IN
            /\ Pair(k, e.q)
            /\ \E s \in -J .. J - 1 :
                 /\ Divides(Signed(2 * k, Value(k, a)), Signed(k, d), Signed(2 * k, Value(k, e.q)), s)
                 /\ Trunc(k, e.r) = Trunc(k, s)
        BY <1>2, <2>2, <2>4, <2>9, DubbleIdivIs
      <4> QED
        BY ONLY <2>1, <2>4, <2>5, <3>1, <4>1
    <3>3. PICK s \in -H .. H - 1 : Divides(X, y, Signed(2 * k, Value(k, r.q)), s) /\ Trunc(k, r.r) = Trunc(k, s)
      BY ONLY <3>2
    <3>4. LET v == Signed(2 * k, Value(k, r.q))
              J == 2^(k - 1)
              fits == IF Sign(k, r.q.lo) = 1 THEN r.q.hi = 2^k - 1 ELSE r.q.hi = 0 IN
          /\ fits <=> v \in -J .. J - 1
          /\ fits => Signed(k, r.q.lo) = v
          /\ Sign(k, r.q.lo) \in 0 .. 1
      BY <3>2, FitsWord
    <3>5. r.q.lo \in WordsOf(k)
      BY ONLY <3>2 DEF Pair
    <3>6. Signed(2 * k, Value(k, r.q)) \in Int
      <4>1. LET x == Signed(2 * k, Value(k, r.q)) IN x \in -G .. G - 1
        BY <2>2, <3>2, SignedPair
      <4> QED
        BY ONLY <4>1, G \in Nat
    <3>7. PICK q \in Int : q = Signed(2 * k, Value(k, r.q))
      BY ONLY <3>6
    <3> DEFINE fits == IF Sign(k, r.q.lo) = 1 THEN r.q.hi = 2^k - 1 ELSE r.q.hi = 0
    <3>8. (fits <=> q \in -H .. H - 1) /\ (fits => Signed(k, r.q.lo) = q) /\ Sign(k, r.q.lo) \in 0 .. 1
      BY ONLY <2>1, <3>4, <3>7
    <3>9. ~(a.lo = 0 /\ a.hi = 2^(k - 1))
      BY ONLY <2>4, <2>9
    <3>10. o = IF fits THEN Divided(k, r.q.lo, r.r) ELSE DivideError
      <4>1. fits <=> ~(\/ Sign(k, r.q.lo) = 1 /\ r.q.hi # 2^k - 1
                       \/ Sign(k, r.q.lo) = 0 /\ r.q.hi # 0)
        BY ONLY <3>8
      <4> HIDE DEF fits
      <4> QED
        BY ONLY <1>2, <3>1, <3>9, <4>1 DEF OpDivRdxRaxEvqpSigned64
    <3> HIDE DEF fits
    <3>11. s \in Int
      BY ONLY <2>h, s \in -H .. H - 1
    <3>12. CASE fits
      <4>1. o = Divided(k, r.q.lo, r.r) /\ q \in -H .. H - 1 /\ Signed(k, r.q.lo) = q
        BY ONLY <3>8, <3>10, <3>12
      <4>2. Trunc(k, r.q.lo) = Trunc(k, q)
        <5>1. Trunc(k, Signed(k, r.q.lo)) = r.q.lo /\ Trunc(k, r.q.lo) = r.q.lo
          BY <2>1, <3>5, TruncSigned
        <5> QED
          BY ONLY <4>1, <5>1
      <4>3. ~o.err /\ o.q = Trunc(k, q) /\ o.r = Trunc(k, s)
        BY ONLY <3>3, <4>1, <4>2 DEF Divided
      <4>4. q \in -H .. H - 1 /\ Divides(X, y, q, s)
        BY ONLY <3>3, <3>7, <4>1
      <4> HIDE DEF o
      <4>5. Answers(o, Quotients(X, y, -H, H - 1), k)
        BY ONLY <2>7, <4>3, <4>4, s \in -H .. H - 1, X \in Int, y \in Int, AnswerFits
      <4> QED
        BY ONLY <2>6, <4>5 DEF o
    <3>13. CASE ~fits
      <4>1. o.err
        BY ONLY <3>10, <3>13 DEF DivideError
      <4>2. q \notin -H .. H - 1 /\ Divides(X, y, q, s)
        BY ONLY <3>3, <3>7, <3>8, <3>13
      <4> HIDE DEF o
      <4>3. Answers(o, Quotients(X, y, -H, H - 1), k)
        BY ONLY <2>7, <3>11, <4>1, <4>2, X \in Int, y \in Int, q \in Int, AnswerError
      <4> QED
        BY ONLY <2>6, <4>3 DEF o
    <3> QED
      BY ONLY <3>12, <3>13
  <2> QED
    BY ONLY <2>8, <2>9
<1> QED
  BY <1>1, <1>2

\* idiv in the narrower forms: C's division, if the quotient fits.
LEMMA DivSignedRight ==
  ASSUME NEW k, Doubles(k), NEW a, Pair(k, a), NEW d \in WordsOf(k)
  PROVE  Answers(OpDivSigned(k, a, d), SignedQuotients(k, a, d), k)
<1> DEFINE o == OpDivSigned(k, a, d)
<1>1. PICK M \in Nat, H \in Nat :
           /\ M = 2^k /\ H = 2^(k - 1) /\ M = 2 * H /\ H >= 8 /\ WordsOf(k) = 0 .. M - 1
           /\ 2^(2 * k) = M * M /\ 2^(2 * k - 1) = M * H /\ Width(k)
  BY WidthNumbers
<1>h. M = 2 * H /\ H >= 8 /\ M \in Nat /\ H \in Nat
  BY <1>1
<1>2. PICK y \in Int : y = Signed(k, d) /\ y \in -H .. H - 1 /\ (y = 0 <=> d = 0)
  <2>1. Signed(k, d) = IF d < H THEN d ELSE d - M
    BY <1>1, SignedIs
  <2>2. d \in 0 .. M - 1
    BY <1>1
  <2>3. (IF d < H THEN d ELSE d - M) \in -H .. H - 1 /\ ((IF d < H THEN d ELSE d - M) = 0 <=> d = 0)
    BY ONLY <1>h, <2>2
  <2> QED
    BY ONLY <2>1, <2>3, <1>h
<1>3. PICK G \in Nat, X \in Int : G = 2^(2 * k - 1) /\ X = Signed(2 * k, Value(k, a)) /\ X \in -G .. G - 1
  <2>1. PICK G \in Nat : G = 2^(2 * k - 1)
    BY ONLY <1>1, <1>h
  <2>2. LET X == Signed(2 * k, Value(k, a)) IN X \in -G .. G - 1
    BY <2>1, SignedPair
  <2> QED
    BY ONLY <2>1, <2>2
<1>4. CASE d = 0
  <2>1. o.err
    BY ONLY <1>2, <1>4 DEF OpDivSigned, DivideError
  <2> HIDE DEF o
  <2>2. Answers(o, {}, k)
    BY <2>1, ErrorAnswers
  <2> QED
    BY ONLY <1>4, <2>2 DEF SignedQuotients, o
<1>5. CASE d # 0
  <2>1. y # 0
    BY ONLY <1>2, <1>5
  <2>2. SignedQuotients(k, a, d) = Quotients(X, y, -H, H - 1)
    BY ONLY <1>1, <1>2, <1>3, <1>5 DEF SignedQuotients
  <2>3. -H \in Int /\ H - 1 \in Int
    BY ONLY <1>h
  <2>4. CASE X = -G
    <3>1. o.err
      BY ONLY <1>3, <2>4 DEF OpDivSigned, DivideError
    <3>2. PICK q \in Int, s \in Int : Divides(X, y, q, s) /\ q \notin -H .. H - 1
      BY <1>1, <1>2, <1>3, <2>1, <2>4, MostNegative
    <3> HIDE DEF o
    <3>3. Answers(o, Quotients(X, y, -H, H - 1), k)
      BY ONLY <2>3, <3>1, <3>2, X \in Int, y \in Int, AnswerError
    <3> QED
      BY ONLY <2>2, <3>3 DEF o
  <2>5. CASE X # -G
    <3>1. PICK m \in Nat, b \in Nat : m = Magnitude(X) /\ b = Magnitude(y) /\ b >= 1 /\ b <= H
      <4>1. Magnitude(X) \in Nat
        BY ONLY X \in Int DEF Magnitude
      <4>2. -H <= y /\ y <= H - 1 /\ y # 0
        BY ONLY <1>2, <2>1, H \in Nat
      <4>3. Magnitude(y) \in Nat /\ Magnitude(y) >= 1 /\ Magnitude(y) <= H
        BY ONLY <4>2, y \in Int, H \in Nat DEF Magnitude
      <4> QED
        BY ONLY <4>1, <4>3
    <3>2. PICK Q \in Nat, R \in 0 .. b - 1 : Q = m \div b /\ m = b * Q + R
      <4>1. b > 0
        BY ONLY <3>1, b \in Nat
      <4> QED
        BY ONLY <4>1, b \in Nat, m \in Nat, DivMod
    <3>3. Quotient(X, y) = IF (X < 0) # (y < 0) THEN -Q ELSE Q
      BY ONLY <3>1, <3>2 DEF Quotient, Magnitude
    <3>4. PICK q \in Int : q = Quotient(X, y)
      BY ONLY <3>3, Q \in Nat
    <3>5. PICK s \in Int : s = IF X < 0 THEN -R ELSE R
      BY ONLY b \in Nat, R \in 0 .. b - 1
    <3>6. Divides(X, y, q, s)
      <4>1. b * Q = Q * b /\ R \in Nat /\ R < b
        BY ONLY b \in Nat, Q \in Nat, R \in 0 .. b - 1
      <4>2. Magnitude(X) = Q * Magnitude(y) + R /\ R < Magnitude(y)
        BY ONLY <3>1, <3>2, <4>1
      <4>3. Divides(X, y, IF (X < 0) # (y < 0) THEN -Q ELSE Q, IF X < 0 THEN -R ELSE R)
        BY ONLY <4>1, <4>2, X \in Int, y \in Int, Q \in Nat, BySigns
      <4> QED
        BY ONLY <3>3, <3>4, <3>5, <4>3
    <3>7. Remainder(X, y) = s
      <4>1. X = q * y + s
        BY ONLY <3>6 DEF Divides
      <4>2. q * y \in Int
        BY ONLY q \in Int, y \in Int
      <4>3. X - q * y = s
        BY ONLY <4>1, <4>2, s \in Int
      <4> QED
        BY ONLY <3>4, <4>3 DEF Remainder
    <3>8. s \in -H .. H - 1
      BY ONLY <3>1, <3>5, b \in Nat, R \in 0 .. b - 1, H \in Nat
    <3>9. q = Signed(k, Trunc(k, q)) <=> q \in -H .. H - 1
      BY <1>1, SignedFits
    <3>10. o = IF q \in -H .. H - 1 THEN Divided(k, q, s) ELSE DivideError
      BY ONLY <1>2, <1>3, <2>1, <2>5, <3>4, <3>7, <3>9 DEF OpDivSigned
    <3>11. CASE q \in -H .. H - 1
      <4>1. ~o.err /\ o.q = Trunc(k, q) /\ o.r = Trunc(k, s)
        BY ONLY <3>10, <3>11 DEF Divided
      <4> HIDE DEF o
      <4>2. Answers(o, Quotients(X, y, -H, H - 1), k)
        BY ONLY <2>3, <3>6, <3>8, <3>11, <4>1, X \in Int, y \in Int, AnswerFits
      <4> QED
        BY ONLY <2>2, <4>2 DEF o
    <3>12. CASE q \notin -H .. H - 1
      <4>1. o.err
        BY ONLY <3>10, <3>12 DEF DivideError
      <4> HIDE DEF o
      <4>2. Answers(o, Quotients(X, y, -H, H - 1), k)
        BY ONLY <2>3, <3>6, <3>12, <4>1, X \in Int, y \in Int, q \in Int, s \in Int, AnswerError
      <4> QED
        BY ONLY <2>2, <4>2 DEF o
    <3> QED
      BY ONLY <3>11, <3>12
  <2> QED
    BY ONLY <2>4, <2>5
<1> QED
  BY ONLY <1>4, <1>5

\* The powers of two as far as the provers are asked for them.
LEMMA PowersDouble ==
  ASSUME NEW i \in 0 .. 32
  PROVE  2^i \in Nat /\ 2^(i + 1) = 2 * 2^i
<1>1. CASE i = 0
  BY <1>1
<1>2. CASE i = 1
  BY <1>2
<1>3. CASE i = 2
  BY <1>3
<1>4. CASE i = 3
  BY <1>4
<1>5. CASE i = 4
  BY <1>5
<1>6. CASE i = 5
  BY <1>6
<1>7. CASE i = 6
  BY <1>7
<1>8. CASE i = 7
  BY <1>8
<1>9. CASE i = 8
  BY <1>9
<1>10. CASE i = 9
  BY <1>10
<1>11. CASE i = 10
  BY <1>11
<1>12. CASE i = 11
  BY <1>12
<1>13. CASE i = 12
  BY <1>13
<1>14. CASE i = 13
  BY <1>14
<1>15. CASE i = 14
  BY <1>15
<1>16. CASE i = 15
  BY <1>16
<1>17. CASE i = 16
  BY <1>17
<1>18. CASE i = 17
  BY <1>18
<1>19. CASE i = 18
  BY <1>19
<1>20. CASE i = 19
  BY <1>20
<1>21. CASE i = 20
  BY <1>21
<1>22. CASE i = 21
  BY <1>22
<1>23. CASE i = 22
  BY <1>23
<1>24. CASE i = 23
  BY <1>24
<1>25. CASE i = 24
  BY <1>25
<1>26. CASE i = 25
  BY <1>26
<1>27. CASE i = 26
  BY <1>27
<1>28. CASE i = 27
  BY <1>28
<1>29. CASE i = 28
  BY <1>29
<1>30. CASE i = 29
  BY <1>30
<1>31. CASE i = 30
  BY <1>31
<1>32. CASE i = 31
  BY <1>32
<1>33. CASE i = 32
  BY <1>33
<1> QED
  BY <1>1, <1>2, <1>3, <1>4, <1>5, <1>6, <1>7, <1>8, <1>9, <1>10, <1>11, <1>12, <1>13, <1>14, <1>15, <1>16, <1>17, <1>18, <1>19, <1>20, <1>21, <1>22, <1>23, <1>24, <1>25, <1>26, <1>27, <1>28, <1>29, <1>30, <1>31, <1>32, <1>33

LEMMA CodePowers == \A k \in {4, 8, 16} : Powers(k)
<1> SUFFICES ASSUME NEW k \in {4, 8, 16} PROVE Powers(k)
  OBVIOUS
<1>1. k \in Nat /\ 2^0 = 1 /\ \A i \in 0 .. 2 * k : i \in 0 .. 32
  OBVIOUS
<1>2. \A i \in 0 .. 2 * k - 1 : i \in 0 .. 32
  OBVIOUS
<1>3. (\A i \in 0 .. 2 * k : 2^i \in Nat) /\ \A i \in 0 .. 2 * k - 1 : 2^(i + 1) = 2 * 2^i
  BY <1>1, <1>2, PowersDouble
<1> QED
  BY ONLY <1>1, <1>3 DEF Powers

\* Division at every width: div and idiv of a double word, in the 64-bit form that shifts
\* and subtracts (divmul.c's DubbleDiv and DubbleIdiv) and in the narrower forms, give the
\* quotient and the remainder when they fit, and the divide error otherwise.
THEOREM DivideAtEveryWidth ==
  ASSUME NEW k, Doubles(k), Powers(k), NEW a, Pair(k, a), NEW d \in WordsOf(k)
  PROVE  /\ Answers(OpDivRdxRaxEvqpUnsigned64(k, a, d), UnsignedQuotients(k, a, d), k)
         /\ Answers(OpDivUnsigned(k, a, d), UnsignedQuotients(k, a, d), k)
         /\ Answers(OpDivRdxRaxEvqpSigned64(k, a, d), SignedQuotients(k, a, d), k)
         /\ Answers(OpDivSigned(k, a, d), SignedQuotients(k, a, d), k)
BY DivUnsigned64Right, DivUnsignedRight, DivSigned64Right, DivSignedRight

LEMMA DivisionsRight ==
  ASSUME Operands PROVE DivisionsExact
<1> SUFFICES ASSUME Words, in.y < 16 PROVE DivisionsExact
  BY DEF DivisionsExact
<1>1. PICK x \in 0 .. 255, y \in 0 .. 15 : x = in.x /\ y = in.y
  <2>1. in.x \in 0 .. 255 /\ in.y \in 0 .. 255
    BY OperandBounds DEF Operands, Words
  <2>2. in.y \in 0 .. 15
    BY <2>1
  <2> QED
    BY ONLY <2>1, <2>2
<1>2. Doubles(4) /\ Powers(4) /\ WordsOf(4) = 0 .. 15 /\ 2^4 = 16 /\ 2^(4 - 1) = 8 /\ 2 * 4 = 8 /\ 16 - 1 = 15 /\ 8 - 1 = 7
  BY CodeDoubles, CodePowers DEF WordsOf
<1> DEFINE a == Dubble(x % 16, x \div 16)
<1>3. a.lo = x % 16 /\ a.hi = x \div 16 /\ Pair(4, a)
  <2>1. a.lo = x % 16 /\ a.hi = x \div 16
    BY DEF Dubble
  <2>2. x % 16 \in 0 .. 15 /\ x \div 16 \in 0 .. 15
    OBVIOUS
  <2> QED
    BY <1>2, <2>1, <2>2 DEF Pair
<1>4. Value(4, a) = x
  <2>1. x = (x \div 16) * 16 + (x % 16)
    OBVIOUS
  <2> HIDE DEF a
  <2> QED
    BY ONLY <1>2, <1>3, <2>1 DEF Value
<1> HIDE DEF a
<1>5. /\ Answers(OpDivRdxRaxEvqpUnsigned64(4, a, y), UnsignedQuotients(4, a, y), 4)
      /\ Answers(OpDivUnsigned(4, a, y), UnsignedQuotients(4, a, y), 4)
      /\ Answers(OpDivRdxRaxEvqpSigned64(4, a, y), SignedQuotients(4, a, y), 4)
      /\ Answers(OpDivSigned(4, a, y), SignedQuotients(4, a, y), 4)
  BY <1>2, <1>3, DivideAtEveryWidth
<1>6. UnsignedQuotients(4, a, y) = IF y = 0 THEN {} ELSE Quotients(x, y, 0, 15)
  BY ONLY <1>2, <1>4 DEF UnsignedQuotients
<1>7. SignedQuotients(4, a, y) = IF y = 0 THEN {} ELSE Quotients(Signed(8, x), Signed(4, y), -8, 7)
  BY ONLY <1>2, <1>4 DEF SignedQuotients
<1> QED
  BY ONLY <1>1, <1>5, <1>6, <1>7 DEF DivisionsExact, a

(* Multiplication with its flags. *)

\* Multiplication at every width: the double word of mul and imul (divmul.c's DubbleMul and
\* DubbleImul) is the product, and CF and OF say whether it needs the upper word.
THEOREM MultiplyAtEveryWidth ==
  ASSUME NEW k, Doubles(k), Halved(k), NEW f \in FlagWords, NEW x \in WordsOf(k), NEW y \in WordsOf(k)
  PROVE  LET mul == OpMulRdxRaxEvqpUnsigned64(k, f, x, y)
             imul == OpMulRdxRaxEvqpSigned64(k, f, x, y)
             exact == Signed(k, x) * Signed(k, y) IN
         /\ Pair(k, mul.d) /\ Value(k, mul.d) = x * y
         /\ mul.f[CF] = Bool(x * y >= 2^k) /\ mul.f[OF] = mul.f[CF]
         /\ Pair(k, imul.d) /\ Signed(2 * k, Value(k, imul.d)) = exact
         /\ imul.f[OF] = Bool(exact \notin -(2^(k - 1)) .. 2^(k - 1) - 1) /\ imul.f[CF] = imul.f[OF]
<1>1. PICK M \in Nat, H \in Nat :
           /\ M = 2^k /\ H = 2^(k - 1) /\ M = 2 * H /\ H >= 8 /\ WordsOf(k) = 0 .. M - 1
           /\ 2^(2 * k) = M * M /\ 2^(2 * k - 1) = M * H /\ Width(k)
  BY WidthNumbers
<1>h. M = 2 * H /\ H >= 8 /\ M \in Nat /\ H \in Nat
  BY <1>1
<1>2. \A of : MulFlags(f, of)[CF] = of /\ MulFlags(f, of)[OF] = of
  BY DEF MulFlags, FlagWords, FlagBits, CF, PF, AF, ZF, SF, DF, OF, LP
<1>3. PICK p : p = DubbleMul(k, x, y)
  OBVIOUS
<1>4. Pair(k, p) /\ Value(k, p) = x * y
  BY ONLY <1>3, Halved(k), x \in WordsOf(k), y \in WordsOf(k), DubbleMulExact DEF Pair
<1>5. x * y \in Int /\ (x * y < M <=> p.hi < 1)
  <2>1. Value(k, p) \in Nat /\ \A g \in Int : Value(k, p) < 2^k * g <=> p.hi < g
    BY <1>4, PairValue
  <2>2. 1 \in Int /\ M * 1 = M
    OBVIOUS
  <2>3. PICK e \in Nat, w \in Int : e = Value(k, p) /\ w = p.hi
    <3>1. p.hi \in 0 .. M - 1
      BY ONLY <1>1, <1>4 DEF Pair
    <3> QED
      BY ONLY <2>1, <3>1, M \in Nat
  <2>4. e < M <=> w < 1
    BY ONLY <1>1, <2>1, <2>2, <2>3
  <2> QED
    BY ONLY <1>4, <2>3, <2>4
<1>6. Bool(p.hi # 0) = Bool(x * y >= M)
  <2>1. p.hi \in 0 .. M - 1
    BY ONLY <1>1, <1>4 DEF Pair
  <2> QED
    BY ONLY <1>5, <2>1, M \in Nat DEF Bool
<1>7. LET mul == OpMulRdxRaxEvqpUnsigned64(k, f, x, y) IN
      mul.d = p /\ mul.f[CF] = Bool(x * y >= M) /\ mul.f[OF] = mul.f[CF]
  BY ONLY <1>2, <1>3, <1>6 DEF OpMulRdxRaxEvqpUnsigned64
<1>8. PICK q : q = DubbleImul(k, x, y)
  OBVIOUS
<1>9. Pair(k, q) /\ Signed(2 * k, Value(k, q)) = Signed(k, x) * Signed(k, y)
  BY ONLY <1>8, Halved(k), Doubles(k), x \in WordsOf(k), y \in WordsOf(k), DubbleImulExact DEF Pair
<1>10. PICK v : v = Signed(k, x) * Signed(k, y)
  OBVIOUS
<1>11. PICK s \in 0 .. 1, h \in 0 .. M - 1 : s = Sign(k, q.lo) /\ h = q.hi
  <2>1. Sign(k, q.lo) \in 0 .. 1
    BY <1>9, FitsWord
  <2>2. q.hi \in 0 .. M - 1
    BY ONLY <1>1, <1>9 DEF Pair
  <2> QED
    BY ONLY <2>1, <2>2
<1>12. (IF s = 1 THEN h = M - 1 ELSE h = 0) <=> v \in -H .. H - 1
  <2>1. (IF Sign(k, q.lo) = 1 THEN q.hi = 2^k - 1 ELSE q.hi = 0)
          <=> Signed(2 * k, Value(k, q)) \in -(2^(k - 1)) .. 2^(k - 1) - 1
    BY <1>9, FitsWord
  <2> QED
    BY ONLY <1>1, <1>9, <1>10, <1>11, <2>1
<1>13. Trunc(k, h + s) = IF h + s < M THEN h + s ELSE h + s - M
  <2>1. h + s \in Int /\ -M <= h + s /\ h + s < 2 * M /\ ~(h + s < 0)
    BY ONLY <1>h, s \in 0 .. 1, h \in 0 .. M - 1
  <2>2. ASSUME NEW e \in Int, -M <= e, e < 2 * M
        PROVE  Trunc(k, e) = IF e < 0 THEN e + M ELSE IF e < M THEN e ELSE e - M
    BY <1>1, <2>2, TruncIs
  <2> QED
    BY ONLY <2>1, <2>2
<1>14. Trunc(k, h + s) = 0 <=> (IF s = 1 THEN h = M - 1 ELSE h = 0)
  BY ONLY <1>h, <1>13, s \in 0 .. 1, h \in 0 .. M - 1
<1>15. Bool(Trunc(k, h + s) # 0) = Bool(v \notin -H .. H - 1)
  BY ONLY <1>12, <1>14 DEF Bool
<1>16. LET imul == OpMulRdxRaxEvqpSigned64(k, f, x, y) IN
       imul.d = q /\ imul.f[OF] = Bool(v \notin -H .. H - 1) /\ imul.f[CF] = imul.f[OF]
  BY ONLY <1>2, <1>8, <1>11, <1>15 DEF OpMulRdxRaxEvqpSigned64
<1> QED
  BY ONLY <1>1, <1>4, <1>7, <1>9, <1>10, <1>16

(* Carry-less multiplication. *)

LEMMA NumberOfFour ==
  ASSUME NEW b \in [0 .. 3 -> 0 .. 1]
  PROVE  Number(4, b) = 1 * b[0] + 2 * b[1] + 4 * b[2] + 8 * b[3]
<1> DEFINE Def(g) == [i \in 0 .. 4 |-> IF i = 0 THEN 0 ELSE g[i - 1] + b[i - 1] * 2^(i - 1)]
<1>1. PICK h : h = [i \in 0 .. 4 |->
                 IF i = 0 THEN 0
                 ELSE IF i = 1 THEN b[0] * 2^0
                 ELSE IF i = 2 THEN b[0] * 2^0 + b[1] * 2^1
                 ELSE IF i = 3 THEN b[0] * 2^0 + b[1] * 2^1 + b[2] * 2^2
                 ELSE b[0] * 2^0 + b[1] * 2^1 + b[2] * 2^2 + b[3] * 2^3]
  OBVIOUS
<1>2. /\ h[0] = 0 /\ h[1] = b[0] * 2^0 /\ h[2] = b[0] * 2^0 + b[1] * 2^1
      /\ h[3] = b[0] * 2^0 + b[1] * 2^1 + b[2] * 2^2
      /\ h[4] = b[0] * 2^0 + b[1] * 2^1 + b[2] * 2^2 + b[3] * 2^3
  BY <1>1
<1>3. \A i \in 0 .. 3 : b[i] \in 0 .. 1
  OBVIOUS
<1>4. \A i \in 1 .. 4 : h[i] = h[i - 1] + b[i - 1] * 2^(i - 1)
  <2>1. /\ h[1] = h[0] + b[0] * 2^0 /\ h[2] = h[1] + b[1] * 2^1
        /\ h[3] = h[2] + b[2] * 2^2 /\ h[4] = h[3] + b[3] * 2^3
    BY <1>2, <1>3
  <2> SUFFICES ASSUME NEW i \in 1 .. 4 PROVE h[i] = h[i - 1] + b[i - 1] * 2^(i - 1)
    OBVIOUS
  <2>2. CASE i = 1
    BY <2>1, <2>2
  <2>3. CASE i = 2
    BY <2>1, <2>3
  <2>4. CASE i = 3
    BY <2>1, <2>4
  <2>5. CASE i = 4
    BY <2>1, <2>5
  <2> QED
    BY <2>2, <2>3, <2>4, <2>5
<1>5. h = Def(h)
  <2>1. \A i \in 0 .. 4 : h[i] = Def(h)[i]
    <3> SUFFICES ASSUME NEW i \in 0 .. 4 PROVE h[i] = Def(h)[i]
      OBVIOUS
    <3>1. CASE i = 0
      BY <1>2, <3>1
    <3>2. CASE i # 0
      <4>1. i \in 1 .. 4
        BY <3>2
      <4> QED
        BY <1>4, <3>2, <4>1
    <3> QED
      BY <3>1, <3>2
  <2>2. h = [i \in 0 .. 4 |-> h[i]]
    BY <1>1
  <2> QED
    BY <2>1, <2>2
<1>6. PICK g : g = CHOOSE f : f = Def(f)
  OBVIOUS
<1>7. g = Def(g)
  BY <1>5, <1>6
<1>8. g[0] = 0 /\ \A i \in 1 .. 4 : g[i] = g[i - 1] + b[i - 1] * 2^(i - 1)
  <2>1. \A i \in 0 .. 4 : g[i] = IF i = 0 THEN 0 ELSE g[i - 1] + b[i - 1] * 2^(i - 1)
    BY ONLY <1>7
  <2>2. 0 \in 0 .. 4 /\ \A i \in 1 .. 4 : i \in 0 .. 4 /\ i # 0
    OBVIOUS
  <2> QED
    BY ONLY <2>1, <2>2
<1>9. Number(4, b) = g[4]
  BY <1>6 DEF Number
<1>10. g[4] = 1 * b[0] + 2 * b[1] + 4 * b[2] + 8 * b[3]
  <2>1. /\ g[1] = g[0] + b[0] * 2^0 /\ g[2] = g[1] + b[1] * 2^1
        /\ g[3] = g[2] + b[2] * 2^2 /\ g[4] = g[3] + b[3] * 2^3
    BY <1>8
  <2> QED
    BY ONLY <1>3, <1>8, <2>1
<1> QED
  BY <1>9, <1>10

\* The bits of a word of four.
LEMMA FourBits ==
  ASSUME NEW x \in 0 .. 15
  PROVE  /\ Bit(x, 0) \in 0 .. 1 /\ Bit(x, 1) \in 0 .. 1 /\ Bit(x, 2) \in 0 .. 1 /\ Bit(x, 3) \in 0 .. 1
         /\ \A i \in 0 .. 3 : Bit(x, i) \in 0 .. 1
<1>1. Bit(x, 0) \in 0 .. 1 /\ Bit(x, 1) \in 0 .. 1 /\ Bit(x, 2) \in 0 .. 1 /\ Bit(x, 3) \in 0 .. 1
  BY DEF Bit
<1> QED
  BY <1>1

LEMMA XorOfFour ==
  ASSUME NEW x \in 0 .. 15, NEW y \in 0 .. 15
  PROVE  Xor(4, x, y) \in 0 .. 15 /\ \A i \in 0 .. 3 : Bit(Xor(4, x, y), i) = (Bit(x, i) + Bit(y, i)) % 2
<1> DEFINE b == [i \in 0 .. 3 |-> (Bit(x, i) + Bit(y, i)) % 2]
<1>1. b \in [0 .. 3 -> 0 .. 1]
  <2>1. \A i \in 0 .. 3 : Bit(x, i) \in 0 .. 1 /\ Bit(y, i) \in 0 .. 1
    BY FourBits
  <2>2. \A p, q \in 0 .. 1 : (p + q) % 2 \in 0 .. 1
    OBVIOUS
  <2> QED
    BY <2>1, <2>2
<1>2. PICK n : n = Xor(4, x, y) /\ n = Number(4, b)
  <2>1. 4 - 1 = 3
    OBVIOUS
  <2> QED
    BY <2>1 DEF Xor
<1> HIDE DEF b
<1>3. n = 1 * b[0] + 2 * b[1] + 4 * b[2] + 8 * b[3]
  BY <1>1, <1>2, NumberOfFour
<1>4. PICK c0 \in 0 .. 1, c1 \in 0 .. 1, c2 \in 0 .. 1, c3 \in 0 .. 1 :
         c0 = b[0] /\ c1 = b[1] /\ c2 = b[2] /\ c3 = b[3]
  BY <1>1
<1>5. n \in 0 .. 15 /\ n = c0 + 2 * c1 + 4 * c2 + 8 * c3
  <2>1. n = 1 * c0 + 2 * c1 + 4 * c2 + 8 * c3
    BY ONLY <1>3, <1>4, Zenon
  <2> QED
    BY ONLY <2>1, c0 \in 0 .. 1, c1 \in 0 .. 1, c2 \in 0 .. 1, c3 \in 0 .. 1
<1>6. Bit(n, 0) = c0
  BY ONLY <1>5, c0 \in 0 .. 1, c1 \in 0 .. 1, c2 \in 0 .. 1, c3 \in 0 .. 1 DEF Bit
<1>7. Bit(n, 1) = c1
  BY ONLY <1>5, c0 \in 0 .. 1, c1 \in 0 .. 1, c2 \in 0 .. 1, c3 \in 0 .. 1 DEF Bit
<1>8. Bit(n, 2) = c2
  BY ONLY <1>5, c0 \in 0 .. 1, c1 \in 0 .. 1, c2 \in 0 .. 1, c3 \in 0 .. 1 DEF Bit
<1>9. Bit(n, 3) = c3
  BY ONLY <1>5, c0 \in 0 .. 1, c1 \in 0 .. 1, c2 \in 0 .. 1, c3 \in 0 .. 1 DEF Bit
<1>10. \A i \in 0 .. 3 : Bit(n, i) = b[i]
  BY ONLY <1>4, <1>6, <1>7, <1>8, <1>9
<1> QED
  BY ONLY <1>2, <1>5, <1>10 DEF b

\* What one bit of the short factor does to the bits of the words.
BitDone(w, r, take) ==
    /\ r.a \in 0 .. 15 /\ r.t \in 0 .. 15 /\ r.x \in 0 .. 15 /\ r.y \in 0 .. 15
    /\ Bit(r.a, 0) = 0 /\ Bit(r.a, 1) = Bit(w.a, 0) /\ Bit(r.a, 2) = Bit(w.a, 1) /\ Bit(r.a, 3) = Bit(w.a, 2)
    /\ Bit(r.t, 0) = Bit(w.a, 3) /\ Bit(r.t, 1) = Bit(w.t, 0) /\ Bit(r.t, 2) = Bit(w.t, 1) /\ Bit(r.t, 3) = Bit(w.t, 2)
    /\ \A i \in 0 .. 3 : /\ Bit(r.x, i) = IF take THEN (Bit(w.x, i) + Bit(w.a, i)) % 2 ELSE Bit(w.x, i)
                         /\ Bit(r.y, i) = IF take THEN (Bit(w.y, i) + Bit(w.t, i)) % 2 ELSE Bit(w.y, i)

LEMMA ClmulBitIs ==
  ASSUME NEW w, w.a \in 0 .. 15, w.t \in 0 .. 15, w.x \in 0 .. 15, w.y \in 0 .. 15, NEW take \in BOOLEAN
  PROVE  BitDone(w, ClmulBit(4, w, take), take)
<1>1. PICK a \in 0 .. 15, t \in 0 .. 15, x \in 0 .. 15, y \in 0 .. 15 : a = w.a /\ t = w.t /\ x = w.x /\ y = w.y
  OBVIOUS
<1>2. PICK p \in 0 .. 15 : p = Trunc(4, a * 2) /\ p = (IF a < 8 THEN 2 * a ELSE 2 * a - 16)
  BY DEF Trunc
<1>3. Sign(4, a) = Bit(a, 3) /\ Bit(a, 3) \in 0 .. 1
  <2>1. 4 - 1 = 3
    OBVIOUS
  <2> QED
    BY ONLY <2>1, a \in 0 .. 15, FourBits DEF Sign
<1>4. PICK q \in 0 .. 15 : q = Trunc(4, t * 2) + Sign(4, a) /\ q = (IF t < 8 THEN 2 * t ELSE 2 * t - 16) + Bit(a, 3)
  <2>1. Trunc(4, t * 2) = IF t < 8 THEN 2 * t ELSE 2 * t - 16
    BY DEF Trunc
  <2>2. PICK e \in 0 .. 1 : e = Bit(a, 3)
    BY <1>3
  <2>3. (IF t < 8 THEN 2 * t ELSE 2 * t - 16) + e \in 0 .. 15
    OBVIOUS
  <2> QED
    BY ONLY <1>3, <2>1, <2>2, <2>3
<1>5. PICK u \in 0 .. 15 : /\ u = IF take THEN Xor(4, x, a) ELSE x
                           /\ \A i \in 0 .. 3 : Bit(u, i) = IF take THEN (Bit(x, i) + Bit(a, i)) % 2 ELSE Bit(x, i)
  BY XorOfFour
<1>6. PICK v \in 0 .. 15 : /\ v = IF take THEN Xor(4, y, t) ELSE y
                           /\ \A i \in 0 .. 3 : Bit(v, i) = IF take THEN (Bit(y, i) + Bit(t, i)) % 2 ELSE Bit(y, i)
  BY XorOfFour
<1>7. ClmulBit(4, w, take) = [x |-> u, y |-> v, t |-> q, a |-> p]
  BY ONLY <1>1, <1>2, <1>4, <1>5, <1>6 DEF ClmulBit
<1>8. PICK r : r = ClmulBit(4, w, take) /\ r.x = u /\ r.y = v /\ r.t = q /\ r.a = p
  BY ONLY <1>7
<1>9. Bit(p, 0) = 0 /\ Bit(p, 1) = Bit(a, 0) /\ Bit(p, 2) = Bit(a, 1) /\ Bit(p, 3) = Bit(a, 2)
  <2>1. p = IF a < 8 THEN 2 * a ELSE 2 * a - 16
    BY ONLY <1>2
  <2>2. Bit(p, 0) = 0
    BY ONLY <2>1, a \in 0 .. 15, p \in 0 .. 15 DEF Bit
  <2>3. Bit(p, 1) = Bit(a, 0)
    BY ONLY <2>1, a \in 0 .. 15, p \in 0 .. 15 DEF Bit
  <2>4. Bit(p, 2) = Bit(a, 1)
    BY ONLY <2>1, a \in 0 .. 15, p \in 0 .. 15 DEF Bit
  <2>5. Bit(p, 3) = Bit(a, 2)
    BY ONLY <2>1, a \in 0 .. 15, p \in 0 .. 15 DEF Bit
  <2> QED
    BY ONLY <2>2, <2>3, <2>4, <2>5
<1>10. Bit(q, 0) = Bit(a, 3) /\ Bit(q, 1) = Bit(t, 0) /\ Bit(q, 2) = Bit(t, 1) /\ Bit(q, 3) = Bit(t, 2)
  <2>1. PICK e \in 0 .. 1 : e = Bit(a, 3)
    BY <1>3
  <2>2. Bit(q, 0) = e /\ Bit(q, 1) = Bit(t, 0) /\ Bit(q, 2) = Bit(t, 1) /\ Bit(q, 3) = Bit(t, 2)
    <3>1. q = (IF t < 8 THEN 2 * t ELSE 2 * t - 16) + e
      BY ONLY <1>4, <2>1
    <3> QED
      BY ONLY <3>1, e \in 0 .. 1, t \in 0 .. 15, q \in 0 .. 15 DEF Bit
  <2> QED
    BY ONLY <2>1, <2>2
<1> QED
  BY ONLY <1>1, <1>5, <1>6, <1>8, <1>9, <1>10, p \in 0 .. 15, q \in 0 .. 15, u \in 0 .. 15, v \in 0 .. 15 DEF BitDone

\* The loop of clmul for factors long and short, taken apart.
ClmulLoop(long, short, w0, w1, w2, w3, w4) ==
    /\ w0 = [a |-> long, t |-> 0, x |-> 0, y |-> 0]
    /\ w1 = ClmulBit(4, w0, Bit(short, 0) = 1) /\ w2 = ClmulBit(4, w1, Bit(short, 1) = 1)
    /\ w3 = ClmulBit(4, w2, Bit(short, 2) = 1) /\ w4 = ClmulBit(4, w3, Bit(short, 3) = 1)

LEMMA ClmulRuns ==
  ASSUME NEW a, NEW b, a # 0, b # 0
  PROVE  \E long, short, w0, w1, w2, w3, w4 :
           /\ (long = a /\ short = b) \/ (long = b /\ short = a)
           /\ ClmulLoop(long, short, w0, w1, w2, w3, w4) /\ clmul(4, a, b) = Dubble(w4.x, w4.y)
<1> DEFINE swap == a # 0 /\ b # 0 /\ TopBit(4, a) < TopBit(4, b)
           long == IF swap THEN b ELSE a
           short == IF swap THEN a ELSE b
           base == [a |-> long, t |-> 0, x |-> 0, y |-> 0]
           F[i \in 0 .. 4] == IF i = 0 THEN base ELSE ClmulBit(4, F[i - 1], Bit(short, i - 1) = 1)
<1>1. clmul(4, a, b) = Dubble(F[4].x, F[4].y)
  BY a # 0, b # 0 DEF clmul
<1>2. (long = a /\ short = b) \/ (long = b /\ short = a)
  OBVIOUS
<1> HIDE DEF swap, long, short, base, F
<1>3. PICK h : h = [i \in 0 .. 4 |->
                 IF i = 0 THEN base
                 ELSE IF i = 1 THEN ClmulBit(4, base, Bit(short, 0) = 1)
                 ELSE IF i = 2 THEN ClmulBit(4, ClmulBit(4, base, Bit(short, 0) = 1), Bit(short, 1) = 1)
                 ELSE IF i = 3 THEN ClmulBit(4, ClmulBit(4, ClmulBit(4, base, Bit(short, 0) = 1), Bit(short, 1) = 1),
                                                Bit(short, 2) = 1)
                 ELSE ClmulBit(4, ClmulBit(4, ClmulBit(4, ClmulBit(4, base, Bit(short, 0) = 1), Bit(short, 1) = 1),
                                              Bit(short, 2) = 1), Bit(short, 3) = 1)]
  OBVIOUS
<1>4. /\ h[0] = base /\ h[1] = ClmulBit(4, h[0], Bit(short, 0) = 1) /\ h[2] = ClmulBit(4, h[1], Bit(short, 1) = 1)
      /\ h[3] = ClmulBit(4, h[2], Bit(short, 2) = 1) /\ h[4] = ClmulBit(4, h[3], Bit(short, 3) = 1)
  BY <1>3
<1>5. h = [i \in 0 .. 4 |-> IF i = 0 THEN base ELSE ClmulBit(4, h[i - 1], Bit(short, i - 1) = 1)]
  <2>1. ASSUME NEW i \in 0 .. 4 PROVE h[i] = IF i = 0 THEN base ELSE ClmulBit(4, h[i - 1], Bit(short, i - 1) = 1)
    <3>1. CASE i = 0
      BY <1>4, <3>1
    <3>2. CASE i = 1
      BY <1>4, <3>2
    <3>3. CASE i = 2
      BY <1>4, <3>3
    <3>4. CASE i = 3
      BY <1>4, <3>4
    <3>5. CASE i = 4
      BY <1>4, <3>5
    <3> QED
      BY <3>1, <3>2, <3>3, <3>4, <3>5
  <2>2. h = [i \in 0 .. 4 |-> h[i]]
    BY <1>3
  <2> QED
    BY ONLY <2>1, <2>2
<1>6. F = [i \in 0 .. 4 |-> IF i = 0 THEN base ELSE ClmulBit(4, F[i - 1], Bit(short, i - 1) = 1)]
  <2>1. \E g : g = [i \in 0 .. 4 |-> IF i = 0 THEN base ELSE ClmulBit(4, g[i - 1], Bit(short, i - 1) = 1)]
    BY ONLY <1>5
  <2> QED
    BY ONLY <2>1 DEF F
<1>7. \A i \in 0 .. 4 : F[i] = IF i = 0 THEN base ELSE ClmulBit(4, F[i - 1], Bit(short, i - 1) = 1)
  BY ONLY <1>6
<1>8. /\ F[0] = base /\ F[1] = ClmulBit(4, F[0], Bit(short, 0) = 1) /\ F[2] = ClmulBit(4, F[1], Bit(short, 1) = 1)
      /\ F[3] = ClmulBit(4, F[2], Bit(short, 2) = 1) /\ F[4] = ClmulBit(4, F[3], Bit(short, 3) = 1)
  BY ONLY <1>7
<1>9. ClmulLoop(long, short, F[0], F[1], F[2], F[3], F[4])
  BY ONLY <1>8 DEF ClmulLoop, base
<1> QED
  BY ONLY <1>1, <1>2, <1>9

Both(u, i, v, j) == Bool(Bit(u, i) = 1 /\ Bit(v, j) = 1)

\* The bits of a product of polynomials over bits.
PolynomialProduct(x, y, u, v) ==
    /\ u \in 0 .. 15 /\ v \in 0 .. 15
    /\ Bit(u, 0) = Both(x, 0, y, 0) % 2
    /\ Bit(u, 1) = (Both(x, 1, y, 0) + Both(x, 0, y, 1)) % 2
    /\ Bit(u, 2) = (Both(x, 2, y, 0) + Both(x, 1, y, 1) + Both(x, 0, y, 2)) % 2
    /\ Bit(u, 3) = (Both(x, 3, y, 0) + Both(x, 2, y, 1) + Both(x, 1, y, 2) + Both(x, 0, y, 3)) % 2
    /\ Bit(v, 0) = (Both(x, 3, y, 1) + Both(x, 2, y, 2) + Both(x, 1, y, 3)) % 2
    /\ Bit(v, 1) = (Both(x, 3, y, 2) + Both(x, 2, y, 3)) % 2
    /\ Bit(v, 2) = Both(x, 3, y, 3) % 2
    /\ Bit(v, 3) = 0

LEMMA ClmulLoopIs ==
  ASSUME NEW long \in 0 .. 15, NEW short \in 0 .. 15, NEW w0, NEW w1, NEW w2, NEW w3, NEW w4,
         ClmulLoop(long, short, w0, w1, w2, w3, w4)
  PROVE  PolynomialProduct(long, short, w4.x, w4.y)
<1>1. PICK s0 \in BOOLEAN, s1 \in BOOLEAN, s2 \in BOOLEAN, s3 \in BOOLEAN :
         /\ s0 = (Bit(short, 0) = 1) /\ s1 = (Bit(short, 1) = 1)
         /\ s2 = (Bit(short, 2) = 1) /\ s3 = (Bit(short, 3) = 1)
  BY Zenon
<1>2. w0.a = long /\ w0.t = 0 /\ w0.x = 0 /\ w0.y = 0
  BY DEF ClmulLoop
<1>3. w0.a \in 0 .. 15 /\ w0.t \in 0 .. 15 /\ w0.x \in 0 .. 15 /\ w0.y \in 0 .. 15
  BY <1>2
<1>4. BitDone(w0, w1, s0)
  <2>1. w1 = ClmulBit(4, w0, s0)
    BY <1>1 DEF ClmulLoop
  <2> QED
    BY ONLY <1>3, <2>1, s0 \in BOOLEAN, ClmulBitIs
<1>5. w1.a \in 0 .. 15 /\ w1.t \in 0 .. 15 /\ w1.x \in 0 .. 15 /\ w1.y \in 0 .. 15
  BY ONLY <1>4 DEF BitDone
<1>6. BitDone(w1, w2, s1)
  <2>1. w2 = ClmulBit(4, w1, s1)
    BY <1>1 DEF ClmulLoop
  <2> QED
    BY ONLY <1>5, <2>1, s1 \in BOOLEAN, ClmulBitIs
<1>7. w2.a \in 0 .. 15 /\ w2.t \in 0 .. 15 /\ w2.x \in 0 .. 15 /\ w2.y \in 0 .. 15
  BY ONLY <1>6 DEF BitDone
<1>8. BitDone(w2, w3, s2)
  <2>1. w3 = ClmulBit(4, w2, s2)
    BY <1>1 DEF ClmulLoop
  <2> QED
    BY ONLY <1>7, <2>1, s2 \in BOOLEAN, ClmulBitIs
<1>9. w3.a \in 0 .. 15 /\ w3.t \in 0 .. 15 /\ w3.x \in 0 .. 15 /\ w3.y \in 0 .. 15
  BY ONLY <1>8 DEF BitDone
<1>10. BitDone(w3, w4, s3)
  <2>1. w4 = ClmulBit(4, w3, s3)
    BY <1>1 DEF ClmulLoop
  <2> QED
    BY ONLY <1>9, <2>1, s3 \in BOOLEAN, ClmulBitIs
<1>11. \A i \in 0 .. 3 : Bit(0, i) = 0
  <2>1. Bit(0, 0) = 0 /\ Bit(0, 1) = 0 /\ Bit(0, 2) = 0 /\ Bit(0, 3) = 0
    BY DEF Bit
  <2> QED
    BY <2>1
<1>12. PICK l0 \in 0 .. 1, l1 \in 0 .. 1, l2 \in 0 .. 1, l3 \in 0 .. 1 :
          l0 = Bit(long, 0) /\ l1 = Bit(long, 1) /\ l2 = Bit(long, 2) /\ l3 = Bit(long, 3)
  BY FourBits
<1>13. Bit(w1.a, 0) = 0 /\ Bit(w1.a, 1) = l0 /\ Bit(w1.a, 2) = l1 /\ Bit(w1.a, 3) = l2
       /\ Bit(w1.t, 0) = l3 /\ Bit(w1.t, 1) = 0 /\ Bit(w1.t, 2) = 0 /\ Bit(w1.t, 3) = 0
  BY ONLY <1>2, <1>11, <1>12, <1>4 DEF BitDone
<1>14. Bit(w2.a, 0) = 0 /\ Bit(w2.a, 1) = 0 /\ Bit(w2.a, 2) = l0 /\ Bit(w2.a, 3) = l1
       /\ Bit(w2.t, 0) = l2 /\ Bit(w2.t, 1) = l3 /\ Bit(w2.t, 2) = 0 /\ Bit(w2.t, 3) = 0
  BY ONLY <1>13, <1>6 DEF BitDone
<1>15. Bit(w3.a, 0) = 0 /\ Bit(w3.a, 1) = 0 /\ Bit(w3.a, 2) = 0 /\ Bit(w3.a, 3) = l0
       /\ Bit(w3.t, 0) = l1 /\ Bit(w3.t, 1) = l2 /\ Bit(w3.t, 2) = l3 /\ Bit(w3.t, 3) = 0
  BY ONLY <1>14, <1>8 DEF BitDone
<1>16. Bit(w4.x, 0) = ((IF s0 THEN l0 ELSE 0)) % 2
  <2>1. Bit(w0.x, 0) = 0
    BY ONLY <1>2, <1>11
  <2>2. Bit(w0.a, 0) = l0
    BY ONLY <1>2, <1>11, <1>12
  <2>3. Bit(w1.x, 0) = IF s0 THEN (Bit(w0.x, 0) + Bit(w0.a, 0)) % 2 ELSE Bit(w0.x, 0)
    BY ONLY <1>4 DEF BitDone
  <2>4. Bit(w2.x, 0) = IF s1 THEN (Bit(w1.x, 0) + Bit(w1.a, 0)) % 2 ELSE Bit(w1.x, 0)
    BY ONLY <1>6 DEF BitDone
  <2>5. Bit(w3.x, 0) = IF s2 THEN (Bit(w2.x, 0) + Bit(w2.a, 0)) % 2 ELSE Bit(w2.x, 0)
    BY ONLY <1>8 DEF BitDone
  <2>6. Bit(w4.x, 0) = IF s3 THEN (Bit(w3.x, 0) + Bit(w3.a, 0)) % 2 ELSE Bit(w3.x, 0)
    BY ONLY <1>10 DEF BitDone
  <2> QED
    BY ONLY <1>13, <1>14, <1>15, <2>1, <2>2, <2>3, <2>4, <2>5, <2>6, l0 \in 0 .. 1, l1 \in 0 .. 1, l2 \in 0 .. 1, l3 \in 0 .. 1,
            s0 \in BOOLEAN, s1 \in BOOLEAN, s2 \in BOOLEAN, s3 \in BOOLEAN
<1>17. Bit(w4.y, 0) = ((IF s1 THEN l3 ELSE 0) + (IF s2 THEN l2 ELSE 0) + (IF s3 THEN l1 ELSE 0)) % 2
  <2>1. Bit(w0.y, 0) = 0
    BY ONLY <1>2, <1>11
  <2>2. Bit(w0.t, 0) = 0
    BY ONLY <1>2, <1>11, <1>12
  <2>3. Bit(w1.y, 0) = IF s0 THEN (Bit(w0.y, 0) + Bit(w0.t, 0)) % 2 ELSE Bit(w0.y, 0)
    BY ONLY <1>4 DEF BitDone
  <2>4. Bit(w2.y, 0) = IF s1 THEN (Bit(w1.y, 0) + Bit(w1.t, 0)) % 2 ELSE Bit(w1.y, 0)
    BY ONLY <1>6 DEF BitDone
  <2>5. Bit(w3.y, 0) = IF s2 THEN (Bit(w2.y, 0) + Bit(w2.t, 0)) % 2 ELSE Bit(w2.y, 0)
    BY ONLY <1>8 DEF BitDone
  <2>6. Bit(w4.y, 0) = IF s3 THEN (Bit(w3.y, 0) + Bit(w3.t, 0)) % 2 ELSE Bit(w3.y, 0)
    BY ONLY <1>10 DEF BitDone
  <2> QED
    BY ONLY <1>13, <1>14, <1>15, <2>1, <2>2, <2>3, <2>4, <2>5, <2>6, l0 \in 0 .. 1, l1 \in 0 .. 1, l2 \in 0 .. 1, l3 \in 0 .. 1,
            s0 \in BOOLEAN, s1 \in BOOLEAN, s2 \in BOOLEAN, s3 \in BOOLEAN
<1>18. Bit(w4.x, 1) = ((IF s0 THEN l1 ELSE 0) + (IF s1 THEN l0 ELSE 0)) % 2
  <2>1. Bit(w0.x, 1) = 0
    BY ONLY <1>2, <1>11
  <2>2. Bit(w0.a, 1) = l1
    BY ONLY <1>2, <1>11, <1>12
  <2>3. Bit(w1.x, 1) = IF s0 THEN (Bit(w0.x, 1) + Bit(w0.a, 1)) % 2 ELSE Bit(w0.x, 1)
    BY ONLY <1>4 DEF BitDone
  <2>4. Bit(w2.x, 1) = IF s1 THEN (Bit(w1.x, 1) + Bit(w1.a, 1)) % 2 ELSE Bit(w1.x, 1)
    BY ONLY <1>6 DEF BitDone
  <2>5. Bit(w3.x, 1) = IF s2 THEN (Bit(w2.x, 1) + Bit(w2.a, 1)) % 2 ELSE Bit(w2.x, 1)
    BY ONLY <1>8 DEF BitDone
  <2>6. Bit(w4.x, 1) = IF s3 THEN (Bit(w3.x, 1) + Bit(w3.a, 1)) % 2 ELSE Bit(w3.x, 1)
    BY ONLY <1>10 DEF BitDone
  <2> QED
    BY ONLY <1>13, <1>14, <1>15, <2>1, <2>2, <2>3, <2>4, <2>5, <2>6, l0 \in 0 .. 1, l1 \in 0 .. 1, l2 \in 0 .. 1, l3 \in 0 .. 1,
            s0 \in BOOLEAN, s1 \in BOOLEAN, s2 \in BOOLEAN, s3 \in BOOLEAN
<1>19. Bit(w4.y, 1) = ((IF s2 THEN l3 ELSE 0) + (IF s3 THEN l2 ELSE 0)) % 2
  <2>1. Bit(w0.y, 1) = 0
    BY ONLY <1>2, <1>11
  <2>2. Bit(w0.t, 1) = 0
    BY ONLY <1>2, <1>11, <1>12
  <2>3. Bit(w1.y, 1) = IF s0 THEN (Bit(w0.y, 1) + Bit(w0.t, 1)) % 2 ELSE Bit(w0.y, 1)
    BY ONLY <1>4 DEF BitDone
  <2>4. Bit(w2.y, 1) = IF s1 THEN (Bit(w1.y, 1) + Bit(w1.t, 1)) % 2 ELSE Bit(w1.y, 1)
    BY ONLY <1>6 DEF BitDone
  <2>5. Bit(w3.y, 1) = IF s2 THEN (Bit(w2.y, 1) + Bit(w2.t, 1)) % 2 ELSE Bit(w2.y, 1)
    BY ONLY <1>8 DEF BitDone
  <2>6. Bit(w4.y, 1) = IF s3 THEN (Bit(w3.y, 1) + Bit(w3.t, 1)) % 2 ELSE Bit(w3.y, 1)
    BY ONLY <1>10 DEF BitDone
  <2> QED
    BY ONLY <1>13, <1>14, <1>15, <2>1, <2>2, <2>3, <2>4, <2>5, <2>6, l0 \in 0 .. 1, l1 \in 0 .. 1, l2 \in 0 .. 1, l3 \in 0 .. 1,
            s0 \in BOOLEAN, s1 \in BOOLEAN, s2 \in BOOLEAN, s3 \in BOOLEAN
<1>20. Bit(w4.x, 2) = ((IF s0 THEN l2 ELSE 0) + (IF s1 THEN l1 ELSE 0) + (IF s2 THEN l0 ELSE 0)) % 2
  <2>1. Bit(w0.x, 2) = 0
    BY ONLY <1>2, <1>11
  <2>2. Bit(w0.a, 2) = l2
    BY ONLY <1>2, <1>11, <1>12
  <2>3. Bit(w1.x, 2) = IF s0 THEN (Bit(w0.x, 2) + Bit(w0.a, 2)) % 2 ELSE Bit(w0.x, 2)
    BY ONLY <1>4 DEF BitDone
  <2>4. Bit(w2.x, 2) = IF s1 THEN (Bit(w1.x, 2) + Bit(w1.a, 2)) % 2 ELSE Bit(w1.x, 2)
    BY ONLY <1>6 DEF BitDone
  <2>5. Bit(w3.x, 2) = IF s2 THEN (Bit(w2.x, 2) + Bit(w2.a, 2)) % 2 ELSE Bit(w2.x, 2)
    BY ONLY <1>8 DEF BitDone
  <2>6. Bit(w4.x, 2) = IF s3 THEN (Bit(w3.x, 2) + Bit(w3.a, 2)) % 2 ELSE Bit(w3.x, 2)
    BY ONLY <1>10 DEF BitDone
  <2> QED
    BY ONLY <1>13, <1>14, <1>15, <2>1, <2>2, <2>3, <2>4, <2>5, <2>6, l0 \in 0 .. 1, l1 \in 0 .. 1, l2 \in 0 .. 1, l3 \in 0 .. 1,
            s0 \in BOOLEAN, s1 \in BOOLEAN, s2 \in BOOLEAN, s3 \in BOOLEAN
<1>21. Bit(w4.y, 2) = ((IF s3 THEN l3 ELSE 0)) % 2
  <2>1. Bit(w0.y, 2) = 0
    BY ONLY <1>2, <1>11
  <2>2. Bit(w0.t, 2) = 0
    BY ONLY <1>2, <1>11, <1>12
  <2>3. Bit(w1.y, 2) = IF s0 THEN (Bit(w0.y, 2) + Bit(w0.t, 2)) % 2 ELSE Bit(w0.y, 2)
    BY ONLY <1>4 DEF BitDone
  <2>4. Bit(w2.y, 2) = IF s1 THEN (Bit(w1.y, 2) + Bit(w1.t, 2)) % 2 ELSE Bit(w1.y, 2)
    BY ONLY <1>6 DEF BitDone
  <2>5. Bit(w3.y, 2) = IF s2 THEN (Bit(w2.y, 2) + Bit(w2.t, 2)) % 2 ELSE Bit(w2.y, 2)
    BY ONLY <1>8 DEF BitDone
  <2>6. Bit(w4.y, 2) = IF s3 THEN (Bit(w3.y, 2) + Bit(w3.t, 2)) % 2 ELSE Bit(w3.y, 2)
    BY ONLY <1>10 DEF BitDone
  <2> QED
    BY ONLY <1>13, <1>14, <1>15, <2>1, <2>2, <2>3, <2>4, <2>5, <2>6, l0 \in 0 .. 1, l1 \in 0 .. 1, l2 \in 0 .. 1, l3 \in 0 .. 1,
            s0 \in BOOLEAN, s1 \in BOOLEAN, s2 \in BOOLEAN, s3 \in BOOLEAN
<1>22. Bit(w4.x, 3) = ((IF s0 THEN l3 ELSE 0) + (IF s1 THEN l2 ELSE 0) + (IF s2 THEN l1 ELSE 0) + (IF s3 THEN l0 ELSE 0)) % 2
  <2>1. Bit(w0.x, 3) = 0
    BY ONLY <1>2, <1>11
  <2>2. Bit(w0.a, 3) = l3
    BY ONLY <1>2, <1>11, <1>12
  <2>3. Bit(w1.x, 3) = IF s0 THEN (Bit(w0.x, 3) + Bit(w0.a, 3)) % 2 ELSE Bit(w0.x, 3)
    BY ONLY <1>4 DEF BitDone
  <2>4. Bit(w2.x, 3) = IF s1 THEN (Bit(w1.x, 3) + Bit(w1.a, 3)) % 2 ELSE Bit(w1.x, 3)
    BY ONLY <1>6 DEF BitDone
  <2>5. Bit(w3.x, 3) = IF s2 THEN (Bit(w2.x, 3) + Bit(w2.a, 3)) % 2 ELSE Bit(w2.x, 3)
    BY ONLY <1>8 DEF BitDone
  <2>6. Bit(w4.x, 3) = IF s3 THEN (Bit(w3.x, 3) + Bit(w3.a, 3)) % 2 ELSE Bit(w3.x, 3)
    BY ONLY <1>10 DEF BitDone
  <2> QED
    BY ONLY <1>13, <1>14, <1>15, <2>1, <2>2, <2>3, <2>4, <2>5, <2>6, l0 \in 0 .. 1, l1 \in 0 .. 1, l2 \in 0 .. 1, l3 \in 0 .. 1,
            s0 \in BOOLEAN, s1 \in BOOLEAN, s2 \in BOOLEAN, s3 \in BOOLEAN
<1>23. Bit(w4.y, 3) = 0
  <2>1. Bit(w0.y, 3) = 0
    BY ONLY <1>2, <1>11
  <2>2. Bit(w0.t, 3) = 0
    BY ONLY <1>2, <1>11, <1>12
  <2>3. Bit(w1.y, 3) = IF s0 THEN (Bit(w0.y, 3) + Bit(w0.t, 3)) % 2 ELSE Bit(w0.y, 3)
    BY ONLY <1>4 DEF BitDone
  <2>4. Bit(w2.y, 3) = IF s1 THEN (Bit(w1.y, 3) + Bit(w1.t, 3)) % 2 ELSE Bit(w1.y, 3)
    BY ONLY <1>6 DEF BitDone
  <2>5. Bit(w3.y, 3) = IF s2 THEN (Bit(w2.y, 3) + Bit(w2.t, 3)) % 2 ELSE Bit(w2.y, 3)
    BY ONLY <1>8 DEF BitDone
  <2>6. Bit(w4.y, 3) = IF s3 THEN (Bit(w3.y, 3) + Bit(w3.t, 3)) % 2 ELSE Bit(w3.y, 3)
    BY ONLY <1>10 DEF BitDone
  <2> QED
    BY ONLY <1>13, <1>14, <1>15, <2>1, <2>2, <2>3, <2>4, <2>5, <2>6, l0 \in 0 .. 1, l1 \in 0 .. 1, l2 \in 0 .. 1, l3 \in 0 .. 1,
            s0 \in BOOLEAN, s1 \in BOOLEAN, s2 \in BOOLEAN, s3 \in BOOLEAN
<1>24. \A u \in 0 .. 3, v \in 0 .. 3 : Both(long, u, short, v) = IF Bit(short, v) = 1 THEN Bit(long, u) ELSE 0
  <2>1. \A u \in 0 .. 3 : Bit(long, u) \in 0 .. 1
    BY FourBits
  <2> QED
    BY ONLY <2>1 DEF Both, Bool
<1>25. /\ Both(long, 0, short, 0) = (IF s0 THEN l0 ELSE 0) /\ Both(long, 0, short, 1) = (IF s1 THEN l0 ELSE 0) /\ Both(long, 0, short, 2) = (IF s2 THEN l0 ELSE 0) /\ Both(long, 0, short, 3) = (IF s3 THEN l0 ELSE 0)
       /\ Both(long, 1, short, 0) = (IF s0 THEN l1 ELSE 0) /\ Both(long, 1, short, 1) = (IF s1 THEN l1 ELSE 0) /\ Both(long, 1, short, 2) = (IF s2 THEN l1 ELSE 0) /\ Both(long, 1, short, 3) = (IF s3 THEN l1 ELSE 0)
       /\ Both(long, 2, short, 0) = (IF s0 THEN l2 ELSE 0) /\ Both(long, 2, short, 1) = (IF s1 THEN l2 ELSE 0) /\ Both(long, 2, short, 2) = (IF s2 THEN l2 ELSE 0) /\ Both(long, 2, short, 3) = (IF s3 THEN l2 ELSE 0)
       /\ Both(long, 3, short, 0) = (IF s0 THEN l3 ELSE 0) /\ Both(long, 3, short, 1) = (IF s1 THEN l3 ELSE 0) /\ Both(long, 3, short, 2) = (IF s2 THEN l3 ELSE 0) /\ Both(long, 3, short, 3) = (IF s3 THEN l3 ELSE 0)
  <2>1. 0 \in 0 .. 3 /\ 1 \in 0 .. 3 /\ 2 \in 0 .. 3 /\ 3 \in 0 .. 3
    OBVIOUS
  <2> QED
    BY ONLY <1>1, <1>12, <1>24, <2>1
<1>26. w4.x \in 0 .. 15 /\ w4.y \in 0 .. 15
  BY ONLY <1>10 DEF BitDone
<1> QED
  BY ONLY <1>16, <1>17, <1>18, <1>19, <1>20, <1>21, <1>22, <1>23, <1>25, <1>26 DEF PolynomialProduct

LEMMA ProductCommutes ==
  ASSUME NEW x \in 0 .. 15, NEW y \in 0 .. 15, NEW u, NEW v, PolynomialProduct(y, x, u, v)
  PROVE  PolynomialProduct(x, y, u, v)
<1>1. \A i, j \in 0 .. 3 : Both(y, i, x, j) = Both(x, j, y, i) /\ Both(x, j, y, i) \in 0 .. 1
  BY DEF Both, Bool
<1>2. /\ Both(y, 0, x, 0) = Both(x, 0, y, 0) /\ Both(x, 0, y, 0) \in 0 .. 1 /\ Both(y, 0, x, 1) = Both(x, 1, y, 0) /\ Both(x, 1, y, 0) \in 0 .. 1
      /\ Both(y, 0, x, 2) = Both(x, 2, y, 0) /\ Both(x, 2, y, 0) \in 0 .. 1 /\ Both(y, 0, x, 3) = Both(x, 3, y, 0) /\ Both(x, 3, y, 0) \in 0 .. 1
      /\ Both(y, 1, x, 0) = Both(x, 0, y, 1) /\ Both(x, 0, y, 1) \in 0 .. 1 /\ Both(y, 1, x, 1) = Both(x, 1, y, 1) /\ Both(x, 1, y, 1) \in 0 .. 1
      /\ Both(y, 1, x, 2) = Both(x, 2, y, 1) /\ Both(x, 2, y, 1) \in 0 .. 1 /\ Both(y, 1, x, 3) = Both(x, 3, y, 1) /\ Both(x, 3, y, 1) \in 0 .. 1
      /\ Both(y, 2, x, 0) = Both(x, 0, y, 2) /\ Both(x, 0, y, 2) \in 0 .. 1 /\ Both(y, 2, x, 1) = Both(x, 1, y, 2) /\ Both(x, 1, y, 2) \in 0 .. 1
      /\ Both(y, 2, x, 2) = Both(x, 2, y, 2) /\ Both(x, 2, y, 2) \in 0 .. 1 /\ Both(y, 2, x, 3) = Both(x, 3, y, 2) /\ Both(x, 3, y, 2) \in 0 .. 1
      /\ Both(y, 3, x, 0) = Both(x, 0, y, 3) /\ Both(x, 0, y, 3) \in 0 .. 1 /\ Both(y, 3, x, 1) = Both(x, 1, y, 3) /\ Both(x, 1, y, 3) \in 0 .. 1
      /\ Both(y, 3, x, 2) = Both(x, 2, y, 3) /\ Both(x, 2, y, 3) \in 0 .. 1 /\ Both(y, 3, x, 3) = Both(x, 3, y, 3) /\ Both(x, 3, y, 3) \in 0 .. 1
  <2>1. 0 \in 0 .. 3 /\ 1 \in 0 .. 3 /\ 2 \in 0 .. 3 /\ 3 \in 0 .. 3
    OBVIOUS
  <2> QED
    BY ONLY <1>1, <2>1
<1> QED
  BY ONLY <1>2, PolynomialProduct(y, x, u, v) DEF PolynomialProduct

LEMMA ProductWithZero ==
  ASSUME NEW x \in 0 .. 15, NEW y \in 0 .. 15, x = 0 \/ y = 0
  PROVE  PolynomialProduct(x, y, 0, 0)
<1>1. \A i \in 0 .. 3 : Bit(0, i) = 0
  <2>1. Bit(0, 0) = 0 /\ Bit(0, 1) = 0 /\ Bit(0, 2) = 0 /\ Bit(0, 3) = 0
    BY DEF Bit
  <2> QED
    BY <2>1
<1>2. \A i, j \in 0 .. 3 : Both(x, i, y, j) = 0
  BY <1>1 DEF Both, Bool
<1>3. /\ Both(x, 0, y, 0) = 0 /\ Both(x, 0, y, 1) = 0 /\ Both(x, 0, y, 2) = 0 /\ Both(x, 0, y, 3) = 0
      /\ Both(x, 1, y, 0) = 0 /\ Both(x, 1, y, 1) = 0 /\ Both(x, 1, y, 2) = 0 /\ Both(x, 1, y, 3) = 0
      /\ Both(x, 2, y, 0) = 0 /\ Both(x, 2, y, 1) = 0 /\ Both(x, 2, y, 2) = 0 /\ Both(x, 2, y, 3) = 0
      /\ Both(x, 3, y, 0) = 0 /\ Both(x, 3, y, 1) = 0 /\ Both(x, 3, y, 2) = 0 /\ Both(x, 3, y, 3) = 0
  <2>1. 0 \in 0 .. 3 /\ 1 \in 0 .. 3 /\ 2 \in 0 .. 3 /\ 3 \in 0 .. 3
    OBVIOUS
  <2> QED
    BY ONLY <1>2, <2>1
<1>4. 0 \in 0 .. 15 /\ Bit(0, 0) = 0 /\ Bit(0, 1) = 0 /\ Bit(0, 2) = 0 /\ Bit(0, 3) = 0
  BY <1>1
<1> QED
  BY ONLY <1>3, <1>4 DEF PolynomialProduct

\* clmul multiplies polynomials over bits, whichever factor it shifts.
LEMMA ClmulIs ==
  ASSUME NEW a \in 0 .. 15, NEW b \in 0 .. 15
  PROVE  LET r == clmul(4, a, b) IN r = Dubble(r.lo, r.hi) /\ PolynomialProduct(a, b, r.lo, r.hi)
<1>1. CASE a = 0 \/ b = 0
  <2>1. clmul(4, a, b) = Dubble(0, 0)
    BY <1>1 DEF clmul
  <2>2. PICK r : r = clmul(4, a, b) /\ r.lo = 0 /\ r.hi = 0 /\ r = Dubble(0, 0)
    BY ONLY <2>1 DEF Dubble
  <2>3. PolynomialProduct(a, b, 0, 0)
    BY <1>1, ProductWithZero
  <2> QED
    BY ONLY <2>2, <2>3
<1>2. CASE ~(a = 0 \/ b = 0)
  <2>1. a # 0 /\ b # 0
    BY <1>2
  <2>2. PICK long, short, w0, w1, w2, w3, w4 :
           /\ (long = a /\ short = b) \/ (long = b /\ short = a)
           /\ ClmulLoop(long, short, w0, w1, w2, w3, w4) /\ clmul(4, a, b) = Dubble(w4.x, w4.y)
    BY ONLY <2>1, ClmulRuns
  <2>3. PICK r : r = clmul(4, a, b) /\ r.lo = w4.x /\ r.hi = w4.y /\ r = Dubble(w4.x, w4.y)
    BY ONLY <2>2 DEF Dubble
  <2>4. long \in 0 .. 15 /\ short \in 0 .. 15
    BY ONLY <2>2, a \in 0 .. 15, b \in 0 .. 15
  <2>5. PolynomialProduct(long, short, w4.x, w4.y)
    BY ONLY <2>2, <2>4, ClmulLoopIs
  <2>6. PolynomialProduct(a, b, w4.x, w4.y)
    <3>1. CASE long = a /\ short = b
      BY ONLY <2>5, <3>1
    <3>2. CASE long = b /\ short = a
      <4>1. PolynomialProduct(b, a, w4.x, w4.y)
        BY ONLY <2>5, <3>2
      <4> QED
        BY ONLY <4>1, a \in 0 .. 15, b \in 0 .. 15, ProductCommutes
    <3> QED
      BY ONLY <2>2, <3>1, <3>2
  <2> QED
    BY ONLY <2>3, <2>6
<1> QED
  BY <1>1, <1>2

\* The size of a set of at most four numbers.
LEMMA CountOfFour ==
  ASSUME NEW S \in SUBSET (0 .. 3)
  PROVE  Cardinality(S) = Bool(0 \in S) + Bool(1 \in S) + Bool(2 \in S) + Bool(3 \in S)
<1> DEFINE T(n) == S \cap (0 .. n - 1)
<1>1. ASSUME NEW n \in 0 .. 3, IsFiniteSet(T(n))
      PROVE  IsFiniteSet(T(n + 1)) /\ Cardinality(T(n + 1)) = Cardinality(T(n)) + Bool(n \in S)
  <2>1. n \notin T(n) /\ Cardinality(T(n)) \in Nat
    BY <1>1, FS_CardinalityType
  <2>2. CASE n \in S
    <3>1. T(n + 1) = T(n) \cup {n}
      BY <2>2
    <3> HIDE DEF T
    <3>2. IsFiniteSet(T(n + 1)) /\ Cardinality(T(n + 1)) = Cardinality(T(n)) + 1
      BY <1>1, <2>1, <3>1, FS_AddElement
    <3> QED
      BY <2>2, <3>2 DEF Bool
  <2>3. CASE n \notin S
    <3>1. T(n + 1) = T(n)
      BY <2>3
    <3> HIDE DEF T
    <3> QED
      BY <1>1, <2>1, <2>3, <3>1 DEF Bool
  <2> QED
    BY <2>2, <2>3
<1>2. T(0) = {} /\ IsFiniteSet(T(0)) /\ Cardinality(T(0)) = 0
  BY FS_EmptySet
<1>3. T(4) = S
  <2>1. S \cap (0 .. 3) = S
    BY Zenon
  <2>2. 4 - 1 = 3
    OBVIOUS
  <2> QED
    BY ONLY <2>1, <2>2 DEF T
<1> HIDE DEF T
<1>4. IsFiniteSet(T(1)) /\ Cardinality(T(1)) = Cardinality(T(0)) + Bool(0 \in S)
  BY <1>1, <1>2
<1>5. IsFiniteSet(T(2)) /\ Cardinality(T(2)) = Cardinality(T(1)) + Bool(1 \in S)
  BY <1>1, <1>4
<1>6. IsFiniteSet(T(3)) /\ Cardinality(T(3)) = Cardinality(T(2)) + Bool(2 \in S)
  BY <1>1, <1>5
<1>7. IsFiniteSet(T(4)) /\ Cardinality(T(4)) = Cardinality(T(3)) + Bool(3 \in S)
  BY <1>1, <1>6
<1>8. Bool(0 \in S) \in Int /\ Bool(1 \in S) \in Int /\ Bool(2 \in S) \in Int /\ Bool(3 \in S) \in Int
  BY DEF Bool
<1> QED
  BY ONLY <1>2, <1>3, <1>4, <1>5, <1>6, <1>7, <1>8

\* The ways to make up the place j of a product from a place of each factor.
Places(x, y, j) == {i \in 0 .. 3 : j - i \in 0 .. 3 /\ Bit(x, i) = 1 /\ Bit(y, j - i) = 1}

LEMMA PlacesAre ==
  ASSUME NEW x, NEW y
  PROVE  /\ Cardinality(Places(x, y, 0)) = Both(x, 0, y, 0)
         /\ Cardinality(Places(x, y, 1)) = Both(x, 1, y, 0) + Both(x, 0, y, 1)
         /\ Cardinality(Places(x, y, 2)) = Both(x, 2, y, 0) + Both(x, 1, y, 1) + Both(x, 0, y, 2)
         /\ Cardinality(Places(x, y, 3)) = Both(x, 3, y, 0) + Both(x, 2, y, 1) + Both(x, 1, y, 2) + Both(x, 0, y, 3)
         /\ Cardinality(Places(x, y, 4)) = Both(x, 3, y, 1) + Both(x, 2, y, 2) + Both(x, 1, y, 3)
         /\ Cardinality(Places(x, y, 5)) = Both(x, 3, y, 2) + Both(x, 2, y, 3)
         /\ Cardinality(Places(x, y, 6)) = Both(x, 3, y, 3)
         /\ Cardinality(Places(x, y, 7)) = 0
<1>1. ASSUME NEW j \in 0 .. 7
      PROVE  Cardinality(Places(x, y, j)) = Bool(0 \in Places(x, y, j)) + Bool(1 \in Places(x, y, j))
                                             + Bool(2 \in Places(x, y, j)) + Bool(3 \in Places(x, y, j))
  <2>1. Places(x, y, j) \in SUBSET (0 .. 3)
    BY DEF Places
  <2> QED
    BY ONLY <2>1, CountOfFour
<1>2. \A j \in 0 .. 7, i \in 0 .. 3 :
         Bool(i \in Places(x, y, j)) = IF j - i \in 0 .. 3 THEN Both(x, i, y, j - i) ELSE 0
  BY DEF Places, Both, Bool
<1>3. \A i, j \in 0 .. 3 : Both(x, i, y, j) \in 0 .. 1
  BY DEF Both, Bool
<1>4. Cardinality(Places(x, y, 0)) = Both(x, 0, y, 0)
  <2>1. 0 \in 0 .. 7
    OBVIOUS
  <2>2. Bool(0 \in Places(x, y, 0)) = Both(x, 0, y, 0) /\ Both(x, 0, y, 0) \in 0 .. 1
    <3>1. 0 \in 0 .. 3 /\ 0 - 0 = 0 /\ 0 \in 0 .. 3
      OBVIOUS
    <3> QED
      BY ONLY <1>2, <1>3, <2>1, <3>1
  <2>3. Bool(1 \in Places(x, y, 0)) = 0
    <3>1. 1 \in 0 .. 3 /\ 0 - 1 = -1 /\ -1 \notin 0 .. 3
      OBVIOUS
    <3> QED
      BY ONLY <1>2, <1>3, <2>1, <3>1
  <2>4. Bool(2 \in Places(x, y, 0)) = 0
    <3>1. 2 \in 0 .. 3 /\ 0 - 2 = -2 /\ -2 \notin 0 .. 3
      OBVIOUS
    <3> QED
      BY ONLY <1>2, <1>3, <2>1, <3>1
  <2>5. Bool(3 \in Places(x, y, 0)) = 0
    <3>1. 3 \in 0 .. 3 /\ 0 - 3 = -3 /\ -3 \notin 0 .. 3
      OBVIOUS
    <3> QED
      BY ONLY <1>2, <1>3, <2>1, <3>1
  <2> QED
    BY ONLY <1>1, <2>1, <2>2, <2>3, <2>4, <2>5
<1>5. Cardinality(Places(x, y, 1)) = Both(x, 1, y, 0) + Both(x, 0, y, 1)
  <2>1. 1 \in 0 .. 7
    OBVIOUS
  <2>2. Bool(0 \in Places(x, y, 1)) = Both(x, 0, y, 1) /\ Both(x, 0, y, 1) \in 0 .. 1
    <3>1. 0 \in 0 .. 3 /\ 1 - 0 = 1 /\ 1 \in 0 .. 3
      OBVIOUS
    <3> QED
      BY ONLY <1>2, <1>3, <2>1, <3>1
  <2>3. Bool(1 \in Places(x, y, 1)) = Both(x, 1, y, 0) /\ Both(x, 1, y, 0) \in 0 .. 1
    <3>1. 1 \in 0 .. 3 /\ 1 - 1 = 0 /\ 0 \in 0 .. 3
      OBVIOUS
    <3> QED
      BY ONLY <1>2, <1>3, <2>1, <3>1
  <2>4. Bool(2 \in Places(x, y, 1)) = 0
    <3>1. 2 \in 0 .. 3 /\ 1 - 2 = -1 /\ -1 \notin 0 .. 3
      OBVIOUS
    <3> QED
      BY ONLY <1>2, <1>3, <2>1, <3>1
  <2>5. Bool(3 \in Places(x, y, 1)) = 0
    <3>1. 3 \in 0 .. 3 /\ 1 - 3 = -2 /\ -2 \notin 0 .. 3
      OBVIOUS
    <3> QED
      BY ONLY <1>2, <1>3, <2>1, <3>1
  <2> QED
    BY ONLY <1>1, <2>1, <2>2, <2>3, <2>4, <2>5
<1>6. Cardinality(Places(x, y, 2)) = Both(x, 2, y, 0) + Both(x, 1, y, 1) + Both(x, 0, y, 2)
  <2>1. 2 \in 0 .. 7
    OBVIOUS
  <2>2. Bool(0 \in Places(x, y, 2)) = Both(x, 0, y, 2) /\ Both(x, 0, y, 2) \in 0 .. 1
    <3>1. 0 \in 0 .. 3 /\ 2 - 0 = 2 /\ 2 \in 0 .. 3
      OBVIOUS
    <3> QED
      BY ONLY <1>2, <1>3, <2>1, <3>1
  <2>3. Bool(1 \in Places(x, y, 2)) = Both(x, 1, y, 1) /\ Both(x, 1, y, 1) \in 0 .. 1
    <3>1. 1 \in 0 .. 3 /\ 2 - 1 = 1 /\ 1 \in 0 .. 3
      OBVIOUS
    <3> QED
      BY ONLY <1>2, <1>3, <2>1, <3>1
  <2>4. Bool(2 \in Places(x, y, 2)) = Both(x, 2, y, 0) /\ Both(x, 2, y, 0) \in 0 .. 1
    <3>1. 2 \in 0 .. 3 /\ 2 - 2 = 0 /\ 0 \in 0 .. 3
      OBVIOUS
    <3> QED
      BY ONLY <1>2, <1>3, <2>1, <3>1
  <2>5. Bool(3 \in Places(x, y, 2)) = 0
    <3>1. 3 \in 0 .. 3 /\ 2 - 3 = -1 /\ -1 \notin 0 .. 3
      OBVIOUS
    <3> QED
      BY ONLY <1>2, <1>3, <2>1, <3>1
  <2> QED
    BY ONLY <1>1, <2>1, <2>2, <2>3, <2>4, <2>5
<1>7. Cardinality(Places(x, y, 3)) = Both(x, 3, y, 0) + Both(x, 2, y, 1) + Both(x, 1, y, 2) + Both(x, 0, y, 3)
  <2>1. 3 \in 0 .. 7
    OBVIOUS
  <2>2. Bool(0 \in Places(x, y, 3)) = Both(x, 0, y, 3) /\ Both(x, 0, y, 3) \in 0 .. 1
    <3>1. 0 \in 0 .. 3 /\ 3 - 0 = 3 /\ 3 \in 0 .. 3
      OBVIOUS
    <3> QED
      BY ONLY <1>2, <1>3, <2>1, <3>1
  <2>3. Bool(1 \in Places(x, y, 3)) = Both(x, 1, y, 2) /\ Both(x, 1, y, 2) \in 0 .. 1
    <3>1. 1 \in 0 .. 3 /\ 3 - 1 = 2 /\ 2 \in 0 .. 3
      OBVIOUS
    <3> QED
      BY ONLY <1>2, <1>3, <2>1, <3>1
  <2>4. Bool(2 \in Places(x, y, 3)) = Both(x, 2, y, 1) /\ Both(x, 2, y, 1) \in 0 .. 1
    <3>1. 2 \in 0 .. 3 /\ 3 - 2 = 1 /\ 1 \in 0 .. 3
      OBVIOUS
    <3> QED
      BY ONLY <1>2, <1>3, <2>1, <3>1
  <2>5. Bool(3 \in Places(x, y, 3)) = Both(x, 3, y, 0) /\ Both(x, 3, y, 0) \in 0 .. 1
    <3>1. 3 \in 0 .. 3 /\ 3 - 3 = 0 /\ 0 \in 0 .. 3
      OBVIOUS
    <3> QED
      BY ONLY <1>2, <1>3, <2>1, <3>1
  <2> QED
    BY ONLY <1>1, <2>1, <2>2, <2>3, <2>4, <2>5
<1>8. Cardinality(Places(x, y, 4)) = Both(x, 3, y, 1) + Both(x, 2, y, 2) + Both(x, 1, y, 3)
  <2>1. 4 \in 0 .. 7
    OBVIOUS
  <2>2. Bool(0 \in Places(x, y, 4)) = 0
    <3>1. 0 \in 0 .. 3 /\ 4 - 0 = 4 /\ 4 \notin 0 .. 3
      OBVIOUS
    <3> QED
      BY ONLY <1>2, <1>3, <2>1, <3>1
  <2>3. Bool(1 \in Places(x, y, 4)) = Both(x, 1, y, 3) /\ Both(x, 1, y, 3) \in 0 .. 1
    <3>1. 1 \in 0 .. 3 /\ 4 - 1 = 3 /\ 3 \in 0 .. 3
      OBVIOUS
    <3> QED
      BY ONLY <1>2, <1>3, <2>1, <3>1
  <2>4. Bool(2 \in Places(x, y, 4)) = Both(x, 2, y, 2) /\ Both(x, 2, y, 2) \in 0 .. 1
    <3>1. 2 \in 0 .. 3 /\ 4 - 2 = 2 /\ 2 \in 0 .. 3
      OBVIOUS
    <3> QED
      BY ONLY <1>2, <1>3, <2>1, <3>1
  <2>5. Bool(3 \in Places(x, y, 4)) = Both(x, 3, y, 1) /\ Both(x, 3, y, 1) \in 0 .. 1
    <3>1. 3 \in 0 .. 3 /\ 4 - 3 = 1 /\ 1 \in 0 .. 3
      OBVIOUS
    <3> QED
      BY ONLY <1>2, <1>3, <2>1, <3>1
  <2> QED
    BY ONLY <1>1, <2>1, <2>2, <2>3, <2>4, <2>5
<1>9. Cardinality(Places(x, y, 5)) = Both(x, 3, y, 2) + Both(x, 2, y, 3)
  <2>1. 5 \in 0 .. 7
    OBVIOUS
  <2>2. Bool(0 \in Places(x, y, 5)) = 0
    <3>1. 0 \in 0 .. 3 /\ 5 - 0 = 5 /\ 5 \notin 0 .. 3
      OBVIOUS
    <3> QED
      BY ONLY <1>2, <1>3, <2>1, <3>1
  <2>3. Bool(1 \in Places(x, y, 5)) = 0
    <3>1. 1 \in 0 .. 3 /\ 5 - 1 = 4 /\ 4 \notin 0 .. 3
      OBVIOUS
    <3> QED
      BY ONLY <1>2, <1>3, <2>1, <3>1
  <2>4. Bool(2 \in Places(x, y, 5)) = Both(x, 2, y, 3) /\ Both(x, 2, y, 3) \in 0 .. 1
    <3>1. 2 \in 0 .. 3 /\ 5 - 2 = 3 /\ 3 \in 0 .. 3
      OBVIOUS
    <3> QED
      BY ONLY <1>2, <1>3, <2>1, <3>1
  <2>5. Bool(3 \in Places(x, y, 5)) = Both(x, 3, y, 2) /\ Both(x, 3, y, 2) \in 0 .. 1
    <3>1. 3 \in 0 .. 3 /\ 5 - 3 = 2 /\ 2 \in 0 .. 3
      OBVIOUS
    <3> QED
      BY ONLY <1>2, <1>3, <2>1, <3>1
  <2> QED
    BY ONLY <1>1, <2>1, <2>2, <2>3, <2>4, <2>5
<1>10. Cardinality(Places(x, y, 6)) = Both(x, 3, y, 3)
  <2>1. 6 \in 0 .. 7
    OBVIOUS
  <2>2. Bool(0 \in Places(x, y, 6)) = 0
    <3>1. 0 \in 0 .. 3 /\ 6 - 0 = 6 /\ 6 \notin 0 .. 3
      OBVIOUS
    <3> QED
      BY ONLY <1>2, <1>3, <2>1, <3>1
  <2>3. Bool(1 \in Places(x, y, 6)) = 0
    <3>1. 1 \in 0 .. 3 /\ 6 - 1 = 5 /\ 5 \notin 0 .. 3
      OBVIOUS
    <3> QED
      BY ONLY <1>2, <1>3, <2>1, <3>1
  <2>4. Bool(2 \in Places(x, y, 6)) = 0
    <3>1. 2 \in 0 .. 3 /\ 6 - 2 = 4 /\ 4 \notin 0 .. 3
      OBVIOUS
    <3> QED
      BY ONLY <1>2, <1>3, <2>1, <3>1
  <2>5. Bool(3 \in Places(x, y, 6)) = Both(x, 3, y, 3) /\ Both(x, 3, y, 3) \in 0 .. 1
    <3>1. 3 \in 0 .. 3 /\ 6 - 3 = 3 /\ 3 \in 0 .. 3
      OBVIOUS
    <3> QED
      BY ONLY <1>2, <1>3, <2>1, <3>1
  <2> QED
    BY ONLY <1>1, <2>1, <2>2, <2>3, <2>4, <2>5
<1>11. Cardinality(Places(x, y, 7)) = 0
  <2>1. 7 \in 0 .. 7
    OBVIOUS
  <2>2. Bool(0 \in Places(x, y, 7)) = 0
    <3>1. 0 \in 0 .. 3 /\ 7 - 0 = 7 /\ 7 \notin 0 .. 3
      OBVIOUS
    <3> QED
      BY ONLY <1>2, <1>3, <2>1, <3>1
  <2>3. Bool(1 \in Places(x, y, 7)) = 0
    <3>1. 1 \in 0 .. 3 /\ 7 - 1 = 6 /\ 6 \notin 0 .. 3
      OBVIOUS
    <3> QED
      BY ONLY <1>2, <1>3, <2>1, <3>1
  <2>4. Bool(2 \in Places(x, y, 7)) = 0
    <3>1. 2 \in 0 .. 3 /\ 7 - 2 = 5 /\ 5 \notin 0 .. 3
      OBVIOUS
    <3> QED
      BY ONLY <1>2, <1>3, <2>1, <3>1
  <2>5. Bool(3 \in Places(x, y, 7)) = 0
    <3>1. 3 \in 0 .. 3 /\ 7 - 3 = 4 /\ 4 \notin 0 .. 3
      OBVIOUS
    <3> QED
      BY ONLY <1>2, <1>3, <2>1, <3>1
  <2> QED
    BY ONLY <1>1, <2>1, <2>2, <2>3, <2>4, <2>5
<1> QED
  BY ONLY <1>4, <1>5, <1>6, <1>7, <1>8, <1>9, <1>10, <1>11

\* The low half of a byte has its low bits.
LEMMA LowBits ==
  ASSUME NEW x \in 0 .. 255
  PROVE  x % 16 \in 0 .. 15 /\ \A i \in 0 .. 3 : Bit(x % 16, i) = Bit(x, i)
<1>1. PICK h \in 0 .. 15, l \in 0 .. 15 : l = x % 16 /\ x = 16 * h + l
  OBVIOUS
<1>2. Bit(l, 0) = Bit(x, 0)
  BY ONLY <1>1, h \in 0 .. 15, l \in 0 .. 15 DEF Bit
<1>3. Bit(l, 1) = Bit(x, 1)
  BY ONLY <1>1, h \in 0 .. 15, l \in 0 .. 15 DEF Bit
<1>4. Bit(l, 2) = Bit(x, 2)
  BY ONLY <1>1, h \in 0 .. 15, l \in 0 .. 15 DEF Bit
<1>5. Bit(l, 3) = Bit(x, 3)
  BY ONLY <1>1, h \in 0 .. 15, l \in 0 .. 15 DEF Bit
<1>6. \A i \in 0 .. 3 : Bit(l, i) = Bit(x, i)
  BY ONLY <1>2, <1>3, <1>4, <1>5
<1> QED
  BY ONLY <1>1, <1>6, l \in 0 .. 15

\* The bits of a double word of two words of four.
LEMMA HighBits ==
  ASSUME NEW l \in 0 .. 15, NEW h \in 0 .. 15, NEW x, x = h * 16 + l
  PROVE  /\ Bit(x, 0) = Bit(l, 0) /\ Bit(x, 1) = Bit(l, 1) /\ Bit(x, 2) = Bit(l, 2) /\ Bit(x, 3) = Bit(l, 3)
         /\ Bit(x, 4) = Bit(h, 0) /\ Bit(x, 5) = Bit(h, 1) /\ Bit(x, 6) = Bit(h, 2) /\ Bit(x, 7) = Bit(h, 3)
<1>1. x \in 0 .. 255
  OBVIOUS
<1>2. x % 16 = l /\ x \div 16 = h
  OBVIOUS
<1>3. Bit(x, 0) = Bit(l, 0) /\ Bit(x, 1) = Bit(l, 1) /\ Bit(x, 2) = Bit(l, 2) /\ Bit(x, 3) = Bit(l, 3)
  BY ONLY <1>1, <1>2, LowBits
<1>4. Bit(x, 4) = Bit(h, 0)
  BY ONLY h \in 0 .. 15, l \in 0 .. 15, x = h * 16 + l DEF Bit
<1>5. Bit(x, 5) = Bit(h, 1)
  BY ONLY h \in 0 .. 15, l \in 0 .. 15, x = h * 16 + l DEF Bit
<1>6. Bit(x, 6) = Bit(h, 2)
  BY ONLY h \in 0 .. 15, l \in 0 .. 15, x = h * 16 + l DEF Bit
<1>7. Bit(x, 7) = Bit(h, 3)
  BY ONLY h \in 0 .. 15, l \in 0 .. 15, x = h * 16 + l DEF Bit
<1> QED
  BY ONLY <1>3, <1>4, <1>5, <1>6, <1>7

\* Every bit of the carry-less product of the low halves of two bytes is the parity of its places.
LEMMA ClmulRight ==
  ASSUME NEW x \in 0 .. 255, NEW y \in 0 .. 255
  PROVE  \A j \in 0 .. 7 : Bit(Value(4, clmul(4, x % 16, y % 16)), j) = Cardinality(Places(x, y, j)) % 2
<1>1. PICK a \in 0 .. 15, b \in 0 .. 15 : a = x % 16 /\ b = y % 16
  BY LowBits
<1>2. PICK r : r = clmul(4, a, b) /\ PolynomialProduct(a, b, r.lo, r.hi)
  BY ClmulIs
<1>3. PICK u \in 0 .. 15, v \in 0 .. 15 : u = r.lo /\ v = r.hi /\ PolynomialProduct(a, b, u, v)
  <2>1. r.lo \in 0 .. 15 /\ r.hi \in 0 .. 15
    BY ONLY <1>2 DEF PolynomialProduct
  <2> QED
    BY ONLY <1>2, <2>1
<1>4. PICK w : w = Value(4, r) /\ w = v * 16 + u
  <2>1. 2^4 = 16
    OBVIOUS
  <2> QED
    BY ONLY <1>3, <2>1 DEF Value
<1>5. /\ Bit(w, 0) = Bit(u, 0) /\ Bit(w, 1) = Bit(u, 1) /\ Bit(w, 2) = Bit(u, 2) /\ Bit(w, 3) = Bit(u, 3)
      /\ Bit(w, 4) = Bit(v, 0) /\ Bit(w, 5) = Bit(v, 1) /\ Bit(w, 6) = Bit(v, 2) /\ Bit(w, 7) = Bit(v, 3)
  BY ONLY <1>4, u \in 0 .. 15, v \in 0 .. 15, HighBits
<1>6. \A i, j \in 0 .. 3 : Both(a, i, b, j) = Both(x, i, y, j)
  <2>1. \A i \in 0 .. 3 : Bit(a, i) = Bit(x, i) /\ Bit(b, i) = Bit(y, i)
    BY <1>1, LowBits
  <2> QED
    BY ONLY <2>1 DEF Both
<1>7. /\ Both(a, 0, b, 0) = Both(x, 0, y, 0) /\ Both(a, 0, b, 1) = Both(x, 0, y, 1) /\ Both(a, 0, b, 2) = Both(x, 0, y, 2) /\ Both(a, 0, b, 3) = Both(x, 0, y, 3)
      /\ Both(a, 1, b, 0) = Both(x, 1, y, 0) /\ Both(a, 1, b, 1) = Both(x, 1, y, 1) /\ Both(a, 1, b, 2) = Both(x, 1, y, 2) /\ Both(a, 1, b, 3) = Both(x, 1, y, 3)
      /\ Both(a, 2, b, 0) = Both(x, 2, y, 0) /\ Both(a, 2, b, 1) = Both(x, 2, y, 1) /\ Both(a, 2, b, 2) = Both(x, 2, y, 2) /\ Both(a, 2, b, 3) = Both(x, 2, y, 3)
      /\ Both(a, 3, b, 0) = Both(x, 3, y, 0) /\ Both(a, 3, b, 1) = Both(x, 3, y, 1) /\ Both(a, 3, b, 2) = Both(x, 3, y, 2) /\ Both(a, 3, b, 3) = Both(x, 3, y, 3)
  <2>1. 0 \in 0 .. 3 /\ 1 \in 0 .. 3 /\ 2 \in 0 .. 3 /\ 3 \in 0 .. 3
    OBVIOUS
  <2> QED
    BY ONLY <1>6, <2>1
<1>8. PolynomialProduct(x, y, u, v)
  BY ONLY <1>3, <1>7 DEF PolynomialProduct
<1>9. Bit(w, 0) = Cardinality(Places(x, y, 0)) % 2
  <2>1. Cardinality(Places(x, y, 0)) = Both(x, 0, y, 0)
    BY PlacesAre
  <2> QED
    BY ONLY <1>5, <1>8, <2>1 DEF PolynomialProduct
<1>10. Bit(w, 1) = Cardinality(Places(x, y, 1)) % 2
  <2>1. Cardinality(Places(x, y, 1)) = Both(x, 1, y, 0) + Both(x, 0, y, 1)
    BY PlacesAre
  <2> QED
    BY ONLY <1>5, <1>8, <2>1 DEF PolynomialProduct
<1>11. Bit(w, 2) = Cardinality(Places(x, y, 2)) % 2
  <2>1. Cardinality(Places(x, y, 2)) = Both(x, 2, y, 0) + Both(x, 1, y, 1) + Both(x, 0, y, 2)
    BY PlacesAre
  <2> QED
    BY ONLY <1>5, <1>8, <2>1 DEF PolynomialProduct
<1>12. Bit(w, 3) = Cardinality(Places(x, y, 3)) % 2
  <2>1. Cardinality(Places(x, y, 3)) = Both(x, 3, y, 0) + Both(x, 2, y, 1) + Both(x, 1, y, 2) + Both(x, 0, y, 3)
    BY PlacesAre
  <2> QED
    BY ONLY <1>5, <1>8, <2>1 DEF PolynomialProduct
<1>13. Bit(w, 4) = Cardinality(Places(x, y, 4)) % 2
  <2>1. Cardinality(Places(x, y, 4)) = Both(x, 3, y, 1) + Both(x, 2, y, 2) + Both(x, 1, y, 3)
    BY PlacesAre
  <2> QED
    BY ONLY <1>5, <1>8, <2>1 DEF PolynomialProduct
<1>14. Bit(w, 5) = Cardinality(Places(x, y, 5)) % 2
  <2>1. Cardinality(Places(x, y, 5)) = Both(x, 3, y, 2) + Both(x, 2, y, 3)
    BY PlacesAre
  <2> QED
    BY ONLY <1>5, <1>8, <2>1 DEF PolynomialProduct
<1>15. Bit(w, 6) = Cardinality(Places(x, y, 6)) % 2
  <2>1. Cardinality(Places(x, y, 6)) = Both(x, 3, y, 3)
    BY PlacesAre
  <2> QED
    BY ONLY <1>5, <1>8, <2>1 DEF PolynomialProduct
<1>16. Bit(w, 7) = Cardinality(Places(x, y, 7)) % 2
  <2>1. Cardinality(Places(x, y, 7)) = 0
    BY PlacesAre
  <2> QED
    BY ONLY <1>5, <1>8, <2>1 DEF PolynomialProduct
<1>17. ASSUME NEW j \in 0 .. 7 PROVE Bit(w, j) = Cardinality(Places(x, y, j)) % 2
  <2>1. j = 0 \/ j = 1 \/ j = 2 \/ j = 3 \/ j = 4 \/ j = 5 \/ j = 6 \/ j = 7
    OBVIOUS
  <2> QED
    BY ONLY <2>1, <1>9, <1>10, <1>11, <1>12, <1>13, <1>14, <1>15, <1>16
<1> QED
  BY ONLY <1>1, <1>2, <1>4, <1>17

\* The body of ProductsExact, for operands x and y and flags F.
ProductsOf(F, x, y) ==
    LET mul == OpMulRdxRaxEvqpUnsigned64(8, F, x, y)
        imul == OpMulRdxRaxEvqpSigned64(8, F, x, y)
        exact == Signed(8, x) * Signed(8, y)
        cl == Value(4, clmul(4, x % 16, y % 16)) IN
    /\ Value(8, mul.d) = x * y /\ mul.f[CF] = Bool(x * y > 255)
    /\ Signed(16, Value(8, imul.d)) = exact /\ imul.f[OF] = Bool(exact \notin -128 .. 127)
    /\ \A j \in 0 .. 7 : Bit(cl, j) =
         Cardinality({i \in 0 .. 3 : j - i \in 0 .. 3 /\ Bit(x, i) = 1 /\ Bit(y, j - i) = 1}) % 2

LEMMA ProductsRight ==
  ASSUME Operands PROVE ProductsExact
<1> SUFFICES ASSUME Words PROVE ProductsExact
  BY DEF ProductsExact
<1>1. PICK x \in 0 .. 255, y \in 0 .. 255, c \in 0 .. 1 : x = in.x /\ y = in.y /\ c = in.c
  BY OperandBounds DEF Operands, Words
<1>2. Doubles(8) /\ Halved(8) /\ WordsOf(8) = 0 .. 255
  BY CodeDoubles, CodeHalves DEF WordsOf
<1>3. PICK F \in FlagWords : F = Carry(c)
  BY CarryFlag
<1>4. 2 * 8 = 16 /\ 2^8 = 256 /\ 2^(8 - 1) = 128 /\ 128 - 1 = 127
  OBVIOUS
<1>5. LET mul == OpMulRdxRaxEvqpUnsigned64(8, F, x, y)
          imul == OpMulRdxRaxEvqpSigned64(8, F, x, y)
          exact == Signed(8, x) * Signed(8, y) IN
      /\ Pair(8, mul.d) /\ Value(8, mul.d) = x * y
      /\ mul.f[CF] = Bool(x * y >= 2^8) /\ mul.f[OF] = mul.f[CF]
      /\ Pair(8, imul.d) /\ Signed(2 * 8, Value(8, imul.d)) = exact
      /\ imul.f[OF] = Bool(exact \notin -(2^(8 - 1)) .. 2^(8 - 1) - 1) /\ imul.f[CF] = imul.f[OF]
  <2>1. x \in WordsOf(8) /\ y \in WordsOf(8)
    BY ONLY <1>2, x \in 0 .. 255, y \in 0 .. 255
  <2> QED
    BY ONLY <1>2, <2>1, F \in FlagWords, MultiplyAtEveryWidth
<1>6. Bool(x * y >= 256) = Bool(x * y > 255)
  <2>1. PICK p \in Nat : p = x * y
    OBVIOUS
  <2>2. p >= 256 <=> p > 255
    OBVIOUS
  <2> QED
    BY ONLY <2>1, <2>2 DEF Bool
<1>7. \A j \in 0 .. 7 : Bit(Value(4, clmul(4, x % 16, y % 16)), j) =
         Cardinality({i \in 0 .. 3 : j - i \in 0 .. 3 /\ Bit(x, i) = 1 /\ Bit(y, j - i) = 1}) % 2
  BY ONLY x \in 0 .. 255, y \in 0 .. 255, ClmulRight DEF Places
<1>8. ProductsOf(F, x, y)
  BY ONLY <1>4, <1>5, <1>6, <1>7 DEF ProductsOf
<1>9. ProductsOf(Carry(in.c), in.x, in.y)
  BY ONLY <1>1, <1>3, <1>8
<1> QED
  BY ONLY <1>9 DEF ProductsExact, ProductsOf

\* Products and quotients of double words are exact for every choice of operands: divmul.c's
\* multiplication by halves, its shift-and-subtract division and clmul.c's polynomials.
THEOREM DoubleWordsCorrect == Spec => []DoubleWordsExact
<1>1. Operands => DoubleWordsExact
  BY ProductsRight, DivisionsRight DEF DoubleWordsExact
<1> QED
  BY <1>1, OperandsHold, PTL

(* String instructions. *)

\* The loops of string.c, as the runs of their steps.
LEMMA StringOpRuns ==
  ASSUME NEW op, NEW rep, rep # 0, NEW m
  PROVE  \E run : /\ Runs(run, "string", [op |-> op, rep |-> rep], [m |-> m, stop |-> FALSE], Top + 1)
                  /\ StringOp(op, rep, m) = run[Top + 1].m
<1> DEFINE k == [op |-> op, rep |-> rep]
           base == [m |-> m, stop |-> FALSE]
           run[i \in 0 .. Top + 1] ==
             IF i = 0 THEN [m |-> m, stop |-> FALSE]
             ELSE LET was == run[i - 1]
                      now == Once(op, was.m) IN
                  IF was.stop \/ was.m.cx = 0 THEN was
                  ELSE [m |-> [now EXCEPT !.cx = @ - 1], stop |-> Stops(op, rep, now)]
<1>0. Top + 1 \in Nat
  BY StringBounds
<1>1. StringOp(op, rep, m) = run[Top + 1].m
  BY DEF StringOp
<1>2. PICK g : Fixed(g, "string", k, base, Top + 1)
  <2> HIDE DEF k, base
  <2> QED
    BY <1>0, LoopFixed
<1>3. g = [i \in 0 .. Top + 1 |->
             IF i = 0 THEN [m |-> m, stop |-> FALSE]
             ELSE LET was == g[i - 1]
                      now == Once(op, was.m) IN
                  IF was.stop \/ was.m.cx = 0 THEN was
                  ELSE [m |-> [now EXCEPT !.cx = @ - 1], stop |-> Stops(op, rep, now)]]
  BY ONLY <1>2 DEF Fixed, LoopStep, Repeat, Element
<1>4. \E h : h = [i \in 0 .. Top + 1 |->
             IF i = 0 THEN [m |-> m, stop |-> FALSE]
             ELSE LET was == h[i - 1]
                      now == Once(op, was.m) IN
                  IF was.stop \/ was.m.cx = 0 THEN was
                  ELSE [m |-> [now EXCEPT !.cx = @ - 1], stop |-> Stops(op, rep, now)]]
  BY ONLY <1>3
<1>5. run = [i \in 0 .. Top + 1 |->
             IF i = 0 THEN [m |-> m, stop |-> FALSE]
             ELSE LET was == run[i - 1]
                      now == Once(op, was.m) IN
                  IF was.stop \/ was.m.cx = 0 THEN was
                  ELSE [m |-> [now EXCEPT !.cx = @ - 1], stop |-> Stops(op, rep, now)]]
  BY ONLY <1>4 DEF run
<1> HIDE DEF run
<1>6. Fixed(run, "string", k, base, Top + 1)
  BY ONLY <1>5 DEF Fixed, LoopStep, Repeat, Element
<1>7. Runs(run, "string", k, base, Top + 1)
  <2> HIDE DEF k, base
  <2> QED
    BY ONLY <1>0, <1>6, FixedRuns
<1> QED
  BY ONLY <1>1, <1>7

LEMMA CopyRuns ==
  ASSUME NEW mem, NEW di, NEW si, NEW n \in Nat, NEW df
  PROVE  \E run : /\ Runs(run, "copy", [di |-> di, si |-> si, df |-> df], mem, n)
                  /\ CopyChunk(mem, di, si, n, df) = run[n]
<1> DEFINE k == [di |-> di, si |-> si, df |-> df]
           s == IF df = 0 THEN 1 ELSE -1
           upto[i \in 0 .. n] ==
             IF i = 0 THEN mem
             ELSE LET was == upto[i - 1] IN [was EXCEPT ![di + s * (i - 1)] = was[si + s * (i - 1)]]
<1>1. CopyChunk(mem, di, si, n, df) = upto[n]
  BY DEF CopyChunk
<1>2. PICK g : Fixed(g, "copy", k, mem, n)
  <2> HIDE DEF k
  <2> QED
    BY LoopFixed
<1>3. g = [i \in 0 .. n |->
             IF i = 0 THEN mem
             ELSE LET was == g[i - 1] IN [was EXCEPT ![di + s * (i - 1)] = was[si + s * (i - 1)]]]
  BY ONLY <1>2 DEF Fixed, LoopStep, CopyByte, Sense
<1>4. \E h : h = [i \in 0 .. n |->
             IF i = 0 THEN mem
             ELSE LET was == h[i - 1] IN [was EXCEPT ![di + s * (i - 1)] = was[si + s * (i - 1)]]]
  BY ONLY <1>3
<1>5. upto = [i \in 0 .. n |->
             IF i = 0 THEN mem
             ELSE LET was == upto[i - 1] IN [was EXCEPT ![di + s * (i - 1)] = was[si + s * (i - 1)]]]
  BY ONLY <1>4 DEF upto
<1> HIDE DEF upto
<1>6. Fixed(upto, "copy", k, mem, n)
  BY ONLY <1>5 DEF Fixed, LoopStep, CopyByte, Sense
<1>7. Runs(upto, "copy", k, mem, n)
  <2> HIDE DEF k
  <2> QED
    BY ONLY n \in Nat, <1>6, FixedRuns
<1> QED
  BY ONLY <1>1, <1>7

LEMMA MovsRuns ==
  ASSUME NEW m, m.cx # 0, m.di # m.si
  PROVE  \E run : /\ Runs(run, "movs", 0, m, Top + 1)
                  /\ RepMovsbEnhanced(m) = run[Top + 1]
<1> DEFINE Chunk(w) == Least({w.cx, Remain(w.di, w.df), Remain(w.si, w.df)})
           run[i \in 0 .. Top + 1] ==
             IF i = 0 THEN m
             ELSE LET was == run[i - 1]
                      n == Chunk(was)
                      by == IF was.df = 0 THEN n ELSE -n IN
                  IF was.cx = 0 THEN was
                  ELSE [was EXCEPT !.mem = CopyChunk(@, was.di, was.si, n, was.df),
                                   !.di = @ + by, !.si = @ + by, !.cx = @ - n]
<1>0. Top + 1 \in Nat
  BY StringBounds
<1>1. RepMovsbEnhanced(m) = run[Top + 1]
  BY DEF RepMovsbEnhanced
<1>2. PICK g : Fixed(g, "movs", 0, m, Top + 1)
  BY <1>0, LoopFixed
<1>3. g = [i \in 0 .. Top + 1 |->
             IF i = 0 THEN m
             ELSE LET was == g[i - 1]
                      n == Chunk(was)
                      by == IF was.df = 0 THEN n ELSE -n IN
                  IF was.cx = 0 THEN was
                  ELSE [was EXCEPT !.mem = CopyChunk(@, was.di, was.si, n, was.df),
                                   !.di = @ + by, !.si = @ + by, !.cx = @ - n]]
  BY ONLY <1>2 DEF Fixed, LoopStep, MovStep, MovChunk
<1>4. \E h : h = [i \in 0 .. Top + 1 |->
             IF i = 0 THEN m
             ELSE LET was == h[i - 1]
                      n == Chunk(was)
                      by == IF was.df = 0 THEN n ELSE -n IN
                  IF was.cx = 0 THEN was
                  ELSE [was EXCEPT !.mem = CopyChunk(@, was.di, was.si, n, was.df),
                                   !.di = @ + by, !.si = @ + by, !.cx = @ - n]]
  BY ONLY <1>3
<1>5. run = [i \in 0 .. Top + 1 |->
             IF i = 0 THEN m
             ELSE LET was == run[i - 1]
                      n == Chunk(was)
                      by == IF was.df = 0 THEN n ELSE -n IN
                  IF was.cx = 0 THEN was
                  ELSE [was EXCEPT !.mem = CopyChunk(@, was.di, was.si, n, was.df),
                                   !.di = @ + by, !.si = @ + by, !.cx = @ - n]]
  BY ONLY <1>4 DEF run
<1> HIDE DEF run
<1>6. Fixed(run, "movs", 0, m, Top + 1)
  BY ONLY <1>5 DEF Fixed, LoopStep, MovStep, MovChunk
<1>7. Runs(run, "movs", 0, m, Top + 1)
  BY ONLY <1>0, <1>6, FixedRuns
<1> QED
  BY ONLY <1>1, <1>7

LEMMA StosRuns ==
  ASSUME NEW m
  PROVE  \E run : /\ Runs(run, "stos", 0, m, Top + 1)
                  /\ RepStosbEnhanced(m) = run[Top + 1]
<1> DEFINE run[i \in 0 .. Top + 1] ==
             IF i = 0 THEN m
             ELSE LET was == run[i - 1]
                      n == Least({was.cx, Remain(was.di, 0)}) IN
                  IF was.cx = 0 THEN was
                  ELSE [was EXCEPT !.mem = [a \in DOMAIN @ |-> IF a \in was.di .. was.di + n - 1 THEN was.al ELSE @[a]],
                                   !.di = @ + n, !.cx = @ - n]
<1>0. Top + 1 \in Nat
  BY StringBounds
<1>1. RepStosbEnhanced(m) = run[Top + 1]
  BY DEF RepStosbEnhanced
<1>2. PICK g : Fixed(g, "stos", 0, m, Top + 1)
  BY <1>0, LoopFixed
<1>3. g = [i \in 0 .. Top + 1 |->
             IF i = 0 THEN m
             ELSE LET was == g[i - 1]
                      n == Least({was.cx, Remain(was.di, 0)}) IN
                  IF was.cx = 0 THEN was
                  ELSE [was EXCEPT !.mem = [a \in DOMAIN @ |-> IF a \in was.di .. was.di + n - 1 THEN was.al ELSE @[a]],
                                   !.di = @ + n, !.cx = @ - n]]
  BY ONLY <1>2 DEF Fixed, LoopStep, StosStep, StosChunk
<1>4. \E h : h = [i \in 0 .. Top + 1 |->
             IF i = 0 THEN m
             ELSE LET was == h[i - 1]
                      n == Least({was.cx, Remain(was.di, 0)}) IN
                  IF was.cx = 0 THEN was
                  ELSE [was EXCEPT !.mem = [a \in DOMAIN @ |-> IF a \in was.di .. was.di + n - 1 THEN was.al ELSE @[a]],
                                   !.di = @ + n, !.cx = @ - n]]
  BY ONLY <1>3
<1>5. run = [i \in 0 .. Top + 1 |->
             IF i = 0 THEN m
             ELSE LET was == run[i - 1]
                      n == Least({was.cx, Remain(was.di, 0)}) IN
                  IF was.cx = 0 THEN was
                  ELSE [was EXCEPT !.mem = [a \in DOMAIN @ |-> IF a \in was.di .. was.di + n - 1 THEN was.al ELSE @[a]],
                                   !.di = @ + n, !.cx = @ - n]]
  BY ONLY <1>4 DEF run
<1> HIDE DEF run
<1>6. Fixed(run, "stos", 0, m, Top + 1)
  BY ONLY <1>5 DEF Fixed, LoopStep, StosStep, StosChunk
<1>7. Runs(run, "stos", 0, m, Top + 1)
  BY ONLY <1>0, <1>6, FixedRuns
<1> QED
  BY ONLY <1>1, <1>7

\* The machine of a string instruction, and where it may start: its elements are in memory.
Machines == [di : Int, si : Int, cx : Nat, df : 0 .. 1, zf : 0 .. 1, al : Nat, mem : [Addresses -> Nat]]
Reaches(a, cx, df) == IF df = 0 THEN a + cx <= Top + 1 ELSE cx <= a + 1
StringIn(m) ==
    /\ m \in Machines /\ m.di \in Addresses /\ m.si \in Addresses /\ m.cx <= Top + 1
    /\ Reaches(m.di, m.cx, m.df) /\ Reaches(m.si, m.cx, m.df)

\* The address of element j from a, and the machine after j elements.
Place(df, a, j) == IF df = 0 THEN a + j ELSE a - j
After(op, m, j, mem, zf) ==
    [di |-> Place(m.df, m.di, j), si |-> IF op \in {"movs", "cmps"} THEN Place(m.df, m.si, j) ELSE m.si,
     cx |-> m.cx - j, df |-> m.df, zf |-> zf, al |-> m.al, mem |-> mem]

LEMMA PlaceIs ==
  ASSUME NEW m, m.df \in 0 .. 1, NEW a \in Int, NEW j \in Int
  PROVE  a + Step(m) * j = Place(m.df, a, j) /\ Place(m.df, a, j) + Step(m) = Place(m.df, a, j + 1)
<1>1. CASE m.df = 1
  <2>1. Step(m) = -1
    BY <1>1 DEF Step
  <2> QED
    BY <1>1, <2>1 DEF Place
<1>2. CASE m.df = 0
  <2>1. Step(m) = 1
    BY <1>2 DEF Step
  <2> QED
    BY <1>2, <2>1 DEF Place
<1> QED
  BY <1>1, <1>2

LEMMA PlaceReached ==
  ASSUME NEW m, StringIn(m), NEW j \in 0 .. m.cx, j < m.cx
  PROVE  Place(m.df, m.di, j) \in Addresses /\ Place(m.df, m.si, j) \in Addresses
<1>1. /\ m.cx \in Nat /\ m.df \in 0 .. 1 /\ m.di \in 0 .. Top /\ m.si \in 0 .. Top /\ Top \in Nat
      /\ Reaches(m.di, m.cx, m.df) /\ Reaches(m.si, m.cx, m.df)
  BY StringBounds DEF StringIn, Addresses, Machines
<1>2. ASSUME NEW a \in 0 .. Top, Reaches(a, m.cx, m.df) PROVE Place(m.df, a, j) \in 0 .. Top
  BY <1>1, <1>2 DEF Reaches, Place
<1> QED
  BY <1>1, <1>2 DEF Addresses

LEMMA StartIs ==
  ASSUME NEW m, StringIn(m), NEW op
  PROVE  m = After(op, m, 0, m.mem, m.zf)
<1>1. m \in Machines
  BY DEF StringIn
<1>2. m = [di |-> m.di, si |-> m.si, cx |-> m.cx, df |-> m.df, zf |-> m.zf, al |-> m.al, mem |-> m.mem]
  BY <1>1 DEF Machines
<1>3. Place(m.df, m.di, 0) = m.di /\ Place(m.df, m.si, 0) = m.si /\ m.cx - 0 = m.cx
  BY <1>1 DEF Machines, Place
<1> QED
  BY <1>2, <1>3 DEF After

(* movs and stos, which never stop early. *)

Moved(op, m, j, mem) ==
    [mem EXCEPT ![Place(m.df, m.di, j)] = IF op = "movs" THEN mem[Place(m.df, m.si, j)] ELSE m.al]

LEMMA ElementIs ==
  ASSUME NEW m, StringIn(m), NEW op \in {"movs", "stos"}, NEW j \in 0 .. m.cx, NEW mem \in [Addresses -> Nat]
  PROVE  Element(op, After(op, m, j, mem, m.zf)) = After(op, m, j + 1, Moved(op, m, j, mem), m.zf)
<1>1. m.df \in 0 .. 1 /\ m.di \in Int /\ m.si \in Int /\ m.cx \in Nat /\ j \in Int
  BY DEF StringIn, Machines
<1> DEFINE D == Place(m.df, m.di, j)
           E == Place(m.df, m.si, j)
           C == m.cx - j
           N == Step(m)
<1>2. D + N = Place(m.df, m.di, j + 1) /\ E + N = Place(m.df, m.si, j + 1)
  BY <1>1, PlaceIs
<1>3. C - 1 = m.cx - (j + 1)
  BY <1>1
<1>5. CASE op = "movs"
  <2>1. After(op, m, j, mem, m.zf) = [di |-> D, si |-> E, cx |-> C, df |-> m.df, zf |-> m.zf,
                                      al |-> m.al, mem |-> mem]
    BY <1>5 DEF After
  <2>2. After(op, m, j + 1, Moved(op, m, j, mem), m.zf) =
          [di |-> D + N, si |-> E + N, cx |-> C - 1, df |-> m.df, zf |-> m.zf,
           al |-> m.al, mem |-> [mem EXCEPT ![D] = mem[E]]]
    BY <1>2, <1>3, <1>5 DEF After, Moved
  <2> HIDE DEF D, E, C, N
  <2>3. Element("movs", [di |-> D, si |-> E, cx |-> C, df |-> m.df, zf |-> m.zf, al |-> m.al, mem |-> mem]) =
          [di |-> D + N, si |-> E + N, cx |-> C - 1, df |-> m.df, zf |-> m.zf,
           al |-> m.al, mem |-> [mem EXCEPT ![D] = mem[E]]]
    <3> DEFINE w == [di |-> D, si |-> E, cx |-> C, df |-> m.df, zf |-> m.zf, al |-> m.al, mem |-> mem]
    <3>1. Step(w) = N
      BY DEF Step, N
    <3>2. Once("movs", w) = [[[w EXCEPT !.mem = [mem EXCEPT ![D] = mem[E]]] EXCEPT !.di = D + N] EXCEPT !.si = E + N]
      <4>1. Once("movs", w) = MovsOnce(w)
        BY DEF Once
      <4>2. w.di = D /\ w.si = E /\ w.mem = mem /\ w.al = m.al
        OBVIOUS
      <4> HIDE DEF w
      <4> QED
        BY <3>1, <4>1, <4>2 DEF MovsOnce
    <3>3. Element("movs", w) = [Once("movs", w) EXCEPT !.cx = Once("movs", w).cx - 1]
      BY DEF Element
    <3>4. Once("movs", w) = [di |-> D + N, si |-> E + N, cx |-> C, df |-> m.df, zf |-> m.zf, al |-> m.al, mem |-> [mem EXCEPT ![D] = mem[E]]]
      BY <3>2
    <3> HIDE DEF w
    <3>5. Element("movs", w) = [di |-> D + N, si |-> E + N, cx |-> C - 1, df |-> m.df, zf |-> m.zf, al |-> m.al, mem |-> [mem EXCEPT ![D] = mem[E]]]
      BY <3>3, <3>4
    <3> QED
      BY <3>5 DEF w
  <2> QED
    BY ONLY <1>5, <2>1, <2>2, <2>3
<1>6. CASE op = "stos"
  <2>1. After(op, m, j, mem, m.zf) = [di |-> D, si |-> m.si, cx |-> C, df |-> m.df, zf |-> m.zf,
                                      al |-> m.al, mem |-> mem]
    BY <1>6 DEF After
  <2>2. After(op, m, j + 1, Moved(op, m, j, mem), m.zf) =
          [di |-> D + N, si |-> m.si, cx |-> C - 1, df |-> m.df, zf |-> m.zf,
           al |-> m.al, mem |-> [mem EXCEPT ![D] = m.al]]
    BY <1>2, <1>3, <1>6 DEF After, Moved
  <2> HIDE DEF D, E, C, N
  <2>3. Element("stos", [di |-> D, si |-> m.si, cx |-> C, df |-> m.df, zf |-> m.zf, al |-> m.al, mem |-> mem]) =
          [di |-> D + N, si |-> m.si, cx |-> C - 1, df |-> m.df, zf |-> m.zf,
           al |-> m.al, mem |-> [mem EXCEPT ![D] = m.al]]
    <3> DEFINE w == [di |-> D, si |-> m.si, cx |-> C, df |-> m.df, zf |-> m.zf, al |-> m.al, mem |-> mem]
    <3>1. Step(w) = N
      BY DEF Step, N
    <3>2. Once("stos", w) = [[w EXCEPT !.mem = [mem EXCEPT ![D] = m.al]] EXCEPT !.di = D + N]
      <4>1. Once("stos", w) = StosOnce(w)
        BY DEF Once
      <4>2. w.di = D /\ w.si = m.si /\ w.mem = mem /\ w.al = m.al
        OBVIOUS
      <4> HIDE DEF w
      <4> QED
        BY <3>1, <4>1, <4>2 DEF StosOnce
    <3>3. Element("stos", w) = [Once("stos", w) EXCEPT !.cx = Once("stos", w).cx - 1]
      BY DEF Element
    <3>4. Once("stos", w) = [di |-> D + N, si |-> m.si, cx |-> C, df |-> m.df, zf |-> m.zf, al |-> m.al, mem |-> [mem EXCEPT ![D] = m.al]]
      BY <3>2
    <3> HIDE DEF w
    <3>5. Element("stos", w) = [di |-> D + N, si |-> m.si, cx |-> C - 1, df |-> m.df, zf |-> m.zf, al |-> m.al, mem |-> [mem EXCEPT ![D] = m.al]]
      BY <3>3, <3>4
    <3> QED
      BY <3>5 DEF w
  <2> QED
    BY ONLY <1>6, <2>1, <2>2, <2>3
<1> QED
  BY <1>5, <1>6

\* The memories of the loop of single elements.
Memories(op, m, L) ==
    /\ L \in [0 .. m.cx -> [Addresses -> Nat]] /\ L[0] = m.mem
    /\ \A j \in 0 .. m.cx : j < m.cx => L[j + 1] = Moved(op, m, j, L[j])

LEMMA MovedType ==
  ASSUME NEW m, StringIn(m), NEW op \in {"movs", "stos"}, NEW j \in 0 .. m.cx, j < m.cx, NEW mem \in [Addresses -> Nat]
  PROVE  Moved(op, m, j, mem) \in [Addresses -> Nat]
<1>1. Place(m.df, m.di, j) \in Addresses /\ Place(m.df, m.si, j) \in Addresses
  BY PlaceReached
<1>2. m.al \in Nat
  BY DEF StringIn, Machines
<1> QED
  BY <1>1, <1>2 DEF Moved

\* A run stays where it stops.
LEMMA RunStays ==
  ASSUME NEW op, NEW rep, NEW base, NEW run, NEW n \in Nat, NEW F \in 0 .. n,
         Runs(run, "string", [op |-> op, rep |-> rep], base, n), run[F].stop \/ run[F].m.cx = 0
  PROVE  run[n] = run[F]
<1> DEFINE T == {i \in 0 .. n : i >= F => run[i] = run[F]}
<1>1. 0 \in T
  OBVIOUS
<1>2. ASSUME NEW i \in T, i < n PROVE i + 1 \in T
  <2>1. CASE i >= F
    <3>1. i + 1 \in 1 .. n /\ (i + 1) - 1 = i /\ run[i] = run[F]
      BY <1>2, <2>1
    <3>2. run[i + 1] = Repeat(op, rep, run[i])
      BY <3>1 DEF Runs, LoopStep
    <3> QED
      BY <3>1, <3>2 DEF Repeat
  <2>2. CASE i < F
    BY <1>2, <2>2
  <2> QED
    BY <2>1, <2>2
<1>3. n \in T
  <2>1. T \in SUBSET (0 .. n)
    OBVIOUS
  <2> HIDE DEF T
  <2> QED
    BY <1>1, <1>2, <2>1, Climb
<1> QED
  BY <1>3

LEMMA PlainLoop ==
  ASSUME NEW m, StringIn(m), NEW op \in {"movs", "stos"}
  PROVE  \E L : Memories(op, m, L) /\ StringOp(op, 3, m) = After(op, m, m.cx, L[m.cx], m.zf)
<1>0. m.cx \in Nat /\ m.cx <= Top + 1 /\ m.mem \in [Addresses -> Nat] /\ Top + 1 \in Nat
  BY StringBounds DEF StringIn, Machines
<1>1. PICK run : /\ Runs(run, "string", [op |-> op, rep |-> 3], [m |-> m, stop |-> FALSE], Top + 1)
                 /\ StringOp(op, 3, m) = run[Top + 1].m
  BY StringOpRuns
<1> DEFINE Good(j) == ~run[j].stop /\ run[j].m.mem \in [Addresses -> Nat]
                      /\ run[j].m = After(op, m, j, run[j].m.mem, m.zf)
           S == {j \in 0 .. m.cx : Good(j)}
<1>2. 0 \in S
  <2>1. run[0] = [m |-> m, stop |-> FALSE]
    BY <1>1 DEF Runs
  <2> QED
    BY <1>0, <2>1, StartIs
<1>3. ASSUME NEW j \in S, j < m.cx
      PROVE  j + 1 \in S /\ run[j + 1].m.mem = Moved(op, m, j, run[j].m.mem)
  <2>1. j + 1 \in 1 .. Top + 1 /\ (j + 1) - 1 = j /\ j \in 0 .. m.cx /\ j + 1 \in 0 .. m.cx
    BY <1>0, <1>3
  <2>2. run[j + 1] = Repeat(op, 3, run[j])
    BY <1>1, <2>1 DEF Runs, LoopStep
  <2> DEFINE mem == run[j].m.mem
  <2>3. Good(j)
    BY <1>3
  <2>4. run[j].m.cx # 0
    <3>1. run[j].m.cx = m.cx - j
      BY <2>3 DEF After
    <3> QED
      BY <1>0, <1>3, <2>1, <3>1
  <2>5. ~Stops(op, 3, Once(op, run[j].m))
    BY DEF Stops, Compares
  <2>6. run[j + 1] = [m |-> Element(op, run[j].m), stop |-> Stops(op, 3, Once(op, run[j].m))]
    BY <2>2, <2>3, <2>4 DEF Repeat
  <2>7. run[j + 1].m = After(op, m, j + 1, Moved(op, m, j, mem), m.zf) /\ ~run[j + 1].stop
    <3>1. Element(op, run[j].m) = After(op, m, j + 1, Moved(op, m, j, mem), m.zf)
      <4> HIDE DEF mem
      <4>1. mem \in [Addresses -> Nat] /\ run[j].m = After(op, m, j, mem, m.zf)
        BY <2>3 DEF mem
      <4> QED
        BY <2>1, <4>1, ElementIs
    <3> QED
      BY <2>5, <2>6, <3>1
  <2>8. run[j + 1].m.mem = Moved(op, m, j, mem)
    BY <2>7 DEF After
  <2>9. Moved(op, m, j, mem) \in [Addresses -> Nat]
    BY <1>3, <2>1, <2>3, MovedType
  <2> QED
    BY <2>1, <2>7, <2>8, <2>9
<1>4. \A j \in 0 .. m.cx : j \in S
  <2>1. S \in SUBSET (0 .. m.cx) /\ \A j \in S : j < m.cx => j + 1 \in S
    BY <1>3
  <2> HIDE DEF S
  <2> QED
    BY <1>0, <1>2, <2>1, Climb
<1> DEFINE L == [j \in 0 .. m.cx |-> run[j].m.mem]
<1>5. Memories(op, m, L)
  <2>1. L \in [0 .. m.cx -> [Addresses -> Nat]]
    BY <1>4
  <2>2. L[0] = m.mem
    <3>1. run[0] = [m |-> m, stop |-> FALSE]
      BY <1>1 DEF Runs
    <3> QED
      BY <1>0, <3>1
  <2>3. ASSUME NEW j \in 0 .. m.cx, j < m.cx PROVE L[j + 1] = Moved(op, m, j, L[j])
    <3>1. j \in S /\ j + 1 \in 0 .. m.cx
      BY <1>0, <1>4, <2>3
    <3>2. run[j + 1].m.mem = Moved(op, m, j, run[j].m.mem)
      BY <1>3, <2>3, <3>1
    <3> QED
      BY <3>1, <3>2
  <2> HIDE DEF L
  <2> QED
    BY <2>1, <2>2, <2>3 DEF Memories
<1>6. run[m.cx].m = After(op, m, m.cx, L[m.cx], m.zf)
  BY <1>0, <1>4
<1>7. run[Top + 1] = run[m.cx]
  <2>1. run[m.cx].m.cx = 0 /\ m.cx \in 0 .. Top + 1
    BY <1>0, <1>6 DEF After
  <2> QED
    BY <1>0, <1>1, <2>1, RunStays
<1> QED
  BY <1>1, <1>5, <1>6, <1>7

(* The chunks. *)

LEMMA LeastOfThree ==
  ASSUME NEW a \in Nat \ {0}, NEW b \in Nat \ {0}, NEW c \in Nat \ {0}
  PROVE  Least({a, b, c}) \in 1 .. a /\ Least({a, b}) \in 1 .. a
<1>1. \E n \in {a, b, c} : \A o \in {a, b, c} : n <= o
  <2>1. CASE a <= b /\ a <= c
    BY <2>1
  <2>2. CASE b <= a /\ b <= c
    BY <2>2
  <2>3. CASE c <= a /\ c <= b
    BY <2>3
  <2> QED
    BY <2>1, <2>2, <2>3
<1>2. Least({a, b, c}) \in {a, b, c} /\ Least({a, b, c}) <= a
  BY <1>1 DEF Least
<1>3. \E n \in {a, b} : \A o \in {a, b} : n <= o
  OBVIOUS
<1>4. Least({a, b}) \in {a, b} /\ Least({a, b}) <= a
  BY <1>3 DEF Least
<1> QED
  BY <1>2, <1>4

LEMMA RemainPositive ==
  ASSUME NEW v \in Nat, NEW df
  PROVE  Remain(v, df) \in Nat \ {0}
<1>1. PICK p \in 0 .. PageSize - 1 : p = v % PageSize
  BY StringBounds, DivMod
<1>2. PICK q \in 0 .. LowSize - 1 : q = v % LowSize
  BY StringBounds, DivMod
<1>3. PageSize - p \in Nat \ {0} /\ LowSize - q \in Nat \ {0} /\ p + 1 \in Nat \ {0} /\ q + 1 \in Nat \ {0}
  BY StringBounds
<1>4. Least({PageSize - p, LowSize - q}) \in Nat \ {0}
  BY <1>3, LeastOfThree
<1>5. Least({p + 1, q + 1}) \in Nat \ {0}
  BY <1>3, LeastOfThree
<1> QED
  BY <1>1, <1>2, <1>4, <1>5 DEF Remain

\* Copying a chunk byte by byte is as many rounds of the loop.
LEMMA ChunkIs ==
  ASSUME NEW m, StringIn(m), NEW L, Memories("movs", m, L), NEW j \in 0 .. m.cx, NEW n \in Nat, j + n <= m.cx
  PROVE  CopyChunk(L[j], Place(m.df, m.di, j), Place(m.df, m.si, j), n, m.df) = L[j + n]
<1> DEFINE D == Place(m.df, m.di, j)
           E == Place(m.df, m.si, j)
<1>0. m.cx \in Nat /\ m.df \in 0 .. 1 /\ m.di \in Int /\ m.si \in Int
  BY DEF StringIn, Machines
<1>1. PICK c : Runs(c, "copy", [di |-> D, si |-> E, df |-> m.df], L[j], n) /\ CopyChunk(L[j], D, E, n, m.df) = c[n]
  <2> HIDE DEF D, E
  <2> QED
    BY CopyRuns
<1> DEFINE T == {i \in 0 .. n : c[i] = L[j + i]}
<1>2. 0 \in T
  BY <1>0, <1>1 DEF Runs
<1>3. ASSUME NEW i \in T, i < n PROVE i + 1 \in T
  <2>1. i \in 0 .. n /\ i + 1 \in 1 .. n /\ (i + 1) - 1 = i /\ j + i \in 0 .. m.cx /\ j + i < m.cx
    BY <1>0, <1>3
  <2>2. c[i + 1] = CopyByte([di |-> D, si |-> E, df |-> m.df], i + 1, c[i])
    BY <1>1, <2>1 DEF Runs, LoopStep
  <2>3. c[i + 1] = [c[i] EXCEPT ![D + Sense(m.df) * i] = c[i][E + Sense(m.df) * i]]
    BY <2>1, <2>2 DEF CopyByte
  <2>4. D + Sense(m.df) * i = Place(m.df, m.di, j + i) /\ E + Sense(m.df) * i = Place(m.df, m.si, j + i)
    <3>1. CASE m.df = 0
      BY <1>0, <2>1, <3>1 DEF Sense, Place
    <3>2. CASE m.df = 1
      BY <1>0, <2>1, <3>2 DEF Sense, Place
    <3> QED
      BY <1>0, <3>1, <3>2
  <2>5. L[j + i + 1] = Moved("movs", m, j + i, L[j + i])
    BY <2>1 DEF Memories
  <2>6. c[i] = L[j + i]
    BY <1>3
  <2>7. c[i + 1] = L[j + i + 1]
    BY <2>3, <2>4, <2>5, <2>6 DEF Moved
  <2>8. j + i + 1 = j + (i + 1)
    BY <2>1
  <2> QED
    BY <2>1, <2>7, <2>8
<1>4. n \in T
  <2>1. T \in SUBSET (0 .. n)
    OBVIOUS
  <2> HIDE DEF T
  <2> QED
    BY <1>2, <1>3, <2>1, Climb
<1> QED
  BY <1>1, <1>4

LEMMA PlaceAdds ==
  ASSUME NEW df \in 0 .. 1, NEW a \in Int, NEW j \in Int, NEW n \in Int
  PROVE  Place(df, a, j) + (IF df = 0 THEN n ELSE -n) = Place(df, a, j + n)
BY DEF Place

\* One chunk of rep movsb: some more elements, at least one.
LEMMA MovStepIs ==
  ASSUME NEW m, StringIn(m), NEW L, Memories("movs", m, L), NEW j \in 0 .. m.cx, j < m.cx
  PROVE  \E n \in 1 .. m.cx - j :
            MovStep(After("movs", m, j, L[j], m.zf)) = After("movs", m, j + n, L[j + n], m.zf)
<1> DEFINE D == Place(m.df, m.di, j)
           E == Place(m.df, m.si, j)
           C == m.cx - j
           w == [di |-> D, si |-> E, cx |-> C, df |-> m.df, zf |-> m.zf, al |-> m.al, mem |-> L[j]]
           n == MovChunk(w)
           by == IF m.df = 0 THEN n ELSE -n
<1>0. m.cx \in Nat /\ m.df \in 0 .. 1 /\ m.di \in Int /\ m.si \in Int /\ C \in Nat \ {0} /\ j \in Int
  BY DEF StringIn, Machines
<1>1. w = After("movs", m, j, L[j], m.zf)
  BY DEF After
<1>2. D \in Nat /\ E \in Nat
  BY PlaceReached, StringBounds DEF Addresses
<1>3. n \in 1 .. C
  <2>1. n = Least({C, Remain(D, m.df), Remain(E, m.df)})
    BY DEF MovChunk
  <2> HIDE DEF n, D, E, C
  <2> QED
    BY <1>0, <1>2, <2>1, RemainPositive, LeastOfThree
<1>4. CopyChunk(L[j], D, E, n, m.df) = L[j + n]
  <2>1. n \in Nat /\ j + n <= m.cx
    <3> HIDE DEF n
    <3> QED
      BY <1>0, <1>3
  <2> HIDE DEF n
  <2> QED
    BY <2>1, ChunkIs
<1>5. D + by = Place(m.df, m.di, j + n) /\ E + by = Place(m.df, m.si, j + n) /\ C - n = m.cx - (j + n)
  <2> HIDE DEF n
  <2>1. n \in Int
    BY <1>0, <1>3
  <2>2. Place(m.df, m.di, j) + by = Place(m.df, m.di, j + n)
    BY ONLY <1>0, <2>1, PlaceAdds
  <2>3. Place(m.df, m.si, j) + by = Place(m.df, m.si, j + n)
    BY ONLY <1>0, <2>1, PlaceAdds
  <2>4. C - n = m.cx - (j + n)
    BY ONLY <1>0, <2>1
  <2> QED
    BY ONLY <2>2, <2>3, <2>4
<1>6. MovStep(w) = [di |-> D + by, si |-> E + by, cx |-> C - n, df |-> m.df, zf |-> m.zf, al |-> m.al,
                    mem |-> CopyChunk(L[j], D, E, n, m.df)]
  <2>1. w.cx # 0 /\ w.df = m.df /\ w.di = D /\ w.si = E /\ w.mem = L[j] /\ w.cx = C
    BY <1>0
  <2>2. MovStep(w) = [[[[w EXCEPT !.mem = CopyChunk(L[j], D, E, n, m.df)] EXCEPT !.di = D + by] EXCEPT !.si = E + by]
                       EXCEPT !.cx = C - n]
    <3> HIDE DEF w, D, E, C
    <3> QED
      BY <2>1 DEF MovStep
  <2> HIDE DEF n, by, D, E, C
  <2> QED
    BY <2>2
<1>7. MovStep(w) = After("movs", m, j + n, L[j + n], m.zf)
  <2> HIDE DEF n, w, by
  <2> QED
    BY <1>4, <1>5, <1>6 DEF After
<1> QED
  <2>1. n \in 1 .. m.cx - j
    BY <1>3
  <2> HIDE DEF n, w
  <2> QED
    BY <1>1, <1>7, <2>1

LEMMA MovsbMatches ==
  ASSUME NEW m, StringIn(m), m.di # m.si
  PROVE  OpMovsb(3, m) = StringOp("movs", 3, m)
<1>0. m.cx \in Nat /\ m.cx <= Top + 1 /\ Top + 1 \in Nat
  BY StringBounds DEF StringIn, Machines
<1>1. PICK L : Memories("movs", m, L) /\ StringOp("movs", 3, m) = After("movs", m, m.cx, L[m.cx], m.zf)
  BY PlainLoop
<1>2. OpMovsb(3, m) = RepMovsbEnhanced(m)
  BY DEF OpMovsb
<1>3. CASE m.cx = 0
  <2>1. RepMovsbEnhanced(m) = m
    BY <1>3 DEF RepMovsbEnhanced
  <2>2. After("movs", m, m.cx, L[m.cx], m.zf) = m
    BY <1>1, <1>3, StartIs DEF Memories
  <2> QED
    BY <1>1, <1>2, <2>1, <2>2
<1>4. CASE m.cx # 0
  <2>1. PICK run : Runs(run, "movs", 0, m, Top + 1) /\ RepMovsbEnhanced(m) = run[Top + 1]
    BY <1>4, MovsRuns
  <2> DEFINE Good(i, j) == (j = m.cx \/ j >= i) /\ run[i] = After("movs", m, j, L[j], m.zf)
             T == {i \in 0 .. Top + 1 : \E j \in 0 .. m.cx : Good(i, j)}
  <2>2. 0 \in T
    <3>1. Good(0, 0)
      <4>1. run[0] = m /\ L[0] = m.mem
        BY <1>1, <2>1 DEF Runs, Memories
      <4>2. m = After("movs", m, 0, L[0], m.zf)
        BY <4>1, StartIs
      <4> QED
        BY <4>1, <4>2
    <3> QED
      BY <1>0, <3>1
  <2>3. ASSUME NEW i \in T, i < Top + 1 PROVE i + 1 \in T
    <3>1. PICK j \in 0 .. m.cx : Good(i, j)
      BY <2>3
    <3>2. run[i + 1] = MovStep(run[i])
      <4>1. i + 1 \in 1 .. Top + 1 /\ (i + 1) - 1 = i
        BY <1>0, <2>3
      <4> QED
        BY <2>1, <4>1 DEF Runs, LoopStep
    <3>3. CASE j = m.cx
      <4>1. run[i].cx = 0
        BY <1>0, <3>1, <3>3 DEF After
      <4>2. run[i + 1] = run[i]
        BY <3>2, <4>1 DEF MovStep
      <4>3. Good(i + 1, j)
        BY <3>1, <3>3, <4>2
      <4> QED
        BY <1>0, <2>3, <4>3
    <3>4. CASE j < m.cx
      <4>1. PICK n \in 1 .. m.cx - j : MovStep(After("movs", m, j, L[j], m.zf)) = After("movs", m, j + n, L[j + n], m.zf)
        BY <1>1, <3>4, MovStepIs
      <4>2. j + n \in 0 .. m.cx /\ j + n >= i + 1
        BY <1>0, <2>3, <3>1, <3>4
      <4>3. Good(i + 1, j + n)
        BY <3>1, <3>2, <4>1, <4>2
      <4>4. i + 1 \in 0 .. Top + 1
        BY <1>0, <2>3
      <4> QED
        BY <4>2, <4>3, <4>4
    <3> QED
      BY <1>0, <3>3, <3>4
  <2>4. Top + 1 \in T
    <3>1. T \in SUBSET (0 .. Top + 1)
      OBVIOUS
    <3> HIDE DEF T
    <3> QED
      BY <1>0, <2>2, <2>3, <3>1, Climb
  <2>5. PICK j \in 0 .. m.cx : Good(Top + 1, j)
    BY <2>4
  <2>6. j = m.cx
    BY <1>0, <2>5
  <2> QED
    BY <1>1, <1>2, <2>1, <2>5, <2>6
<1> QED
  BY <1>3, <1>4

\* Stored forwards, the bytes of a chunk are those of the interval.
LEMMA FillIs ==
  ASSUME NEW m, StringIn(m), m.df = 0, NEW L, Memories("stos", m, L), NEW j \in 0 .. m.cx, NEW n \in Nat, j + n <= m.cx
  PROVE  L[j + n] = [a \in Addresses |-> IF a \in m.di + j .. m.di + j + n - 1 THEN m.al ELSE L[j][a]]
<1>0. m.cx \in Nat /\ m.di \in Int /\ j \in Int
  BY DEF StringIn, Machines
<1> DEFINE Filled(i) == [a \in Addresses |-> IF a \in m.di + j .. m.di + j + i - 1 THEN m.al ELSE L[j][a]]
           T == {i \in 0 .. n : L[j + i] = Filled(i)}
<1>1. L[j] \in [Addresses -> Nat]
  BY DEF Memories
<1>2. 0 \in T
  <2>1. Filled(0) = [a \in Addresses |-> L[j][a]]
    BY <1>0
  <2>2. Filled(0) = L[j]
    BY <1>1, <2>1
  <2> QED
    BY <1>0, <2>2
<1>3. ASSUME NEW i \in T, i < n PROVE i + 1 \in T
  <2>1. i \in 0 .. n /\ i + 1 \in 0 .. n /\ j + i \in 0 .. m.cx /\ j + i < m.cx /\ j + (i + 1) = j + i + 1
    BY <1>0, <1>3
  <2>2. L[j + i + 1] = [L[j + i] EXCEPT ![m.di + (j + i)] = m.al]
    BY <2>1 DEF Memories, Moved, Place
  <2>3. L[j + i] = Filled(i)
    BY <1>3
  <2>4. ASSUME NEW a \in Addresses PROVE [Filled(i) EXCEPT ![m.di + (j + i)] = m.al][a] = Filled(i + 1)[a]
    <3>1. a \in Int
      BY StringBounds DEF Addresses
    <3> QED
      BY <1>0, <2>1, <3>1
  <2>5. [Filled(i) EXCEPT ![m.di + (j + i)] = m.al] = Filled(i + 1)
    <3> DEFINE F == Filled(i)
               G == Filled(i + 1)
    <3>1. F = [a \in Addresses |-> F[a]] /\ G = [a \in Addresses |-> G[a]]
      OBVIOUS
    <3>2. \A a \in Addresses : [F EXCEPT ![m.di + (j + i)] = m.al][a] = G[a]
      BY <2>4
    <3> HIDE DEF F, G
    <3>3. [F EXCEPT ![m.di + (j + i)] = m.al] = [a \in Addresses |-> [F EXCEPT ![m.di + (j + i)] = m.al][a]]
      BY <3>1
    <3>4. [F EXCEPT ![m.di + (j + i)] = m.al] = G
      BY <3>1, <3>2, <3>3
    <3> QED
      BY <3>4 DEF F, G
  <2>6. L[j + (i + 1)] = Filled(i + 1)
    <3> HIDE DEF Filled
    <3> QED
      BY <2>1, <2>2, <2>3, <2>5
  <2> HIDE DEF Filled
  <2> QED
    BY <2>1, <2>6
<1>4. n \in T
  <2>1. T \in SUBSET (0 .. n)
    OBVIOUS
  <2> HIDE DEF T
  <2> QED
    BY <1>2, <1>3, <2>1, Climb
<1> QED
  BY <1>4

LEMMA StosStepIs ==
  ASSUME NEW m, StringIn(m), m.df = 0, NEW L, Memories("stos", m, L), NEW j \in 0 .. m.cx, j < m.cx
  PROVE  \E n \in 1 .. m.cx - j :
            StosStep(After("stos", m, j, L[j], m.zf)) = After("stos", m, j + n, L[j + n], m.zf)
<1> DEFINE D == m.di + j
           C == m.cx - j
           w == [di |-> D, si |-> m.si, cx |-> C, df |-> m.df, zf |-> m.zf, al |-> m.al, mem |-> L[j]]
           n == StosChunk(w)
<1>0. m.cx \in Nat /\ m.df \in 0 .. 1 /\ m.di \in Int /\ C \in Nat \ {0} /\ j \in Int
  BY DEF StringIn, Machines
<1>1. w = After("stos", m, j, L[j], m.zf)
  BY DEF After, Place
<1>2. D \in Nat
  BY PlaceReached, StringBounds DEF Addresses, Place
<1>3. n \in 1 .. C
  <2>1. n = Least({C, Remain(D, 0)})
    BY DEF StosChunk
  <2>2. Remain(D, 0) \in Nat \ {0}
    <3> HIDE DEF D
    <3> QED
      BY <1>2, RemainPositive
  <2> HIDE DEF n, D, C
  <2> QED
    BY <1>0, <2>1, <2>2, LeastOfThree
<1>4. L[j + n] = [a \in Addresses |-> IF a \in D .. D + n - 1 THEN m.al ELSE L[j][a]]
  <2>1. n \in Nat /\ j + n <= m.cx
    <3> HIDE DEF n
    <3> QED
      BY <1>0, <1>3
  <2> HIDE DEF n
  <2> QED
    BY <2>1, FillIs
<1>5. L[j] \in [Addresses -> Nat]
  BY DEF Memories
<1>6. StosStep(w) = [di |-> D + n, si |-> m.si, cx |-> C - n, df |-> m.df, zf |-> m.zf, al |-> m.al,
                     mem |-> [a \in Addresses |-> IF a \in D .. D + n - 1 THEN m.al ELSE L[j][a]]]
  <2>1. w.cx # 0 /\ w.al = m.al /\ w.di = D /\ w.mem = L[j] /\ w.cx = C /\ DOMAIN w.mem = Addresses
    BY <1>0, <1>5
  <2> DEFINE M == [a \in Addresses |-> IF a \in D .. D + n - 1 THEN m.al ELSE L[j][a]]
  <2>2. StosStep(w) = [[[w EXCEPT !.mem = M] EXCEPT !.di = D + n] EXCEPT !.cx = C - n]
    <3> HIDE DEF w, D, C
    <3> QED
      BY <2>1 DEF StosStep
  <2> HIDE DEF n, D, C, M
  <2>3. StosStep(w) = [di |-> D + n, si |-> m.si, cx |-> C - n, df |-> m.df, zf |-> m.zf, al |-> m.al, mem |-> M]
    BY <2>2
  <2> QED
    BY <2>3 DEF M
<1>7. D + n = m.di + (j + n) /\ C - n = m.cx - (j + n)
  <2> HIDE DEF n
  <2> QED
    BY <1>0, <1>3
<1>8. StosStep(w) = After("stos", m, j + n, L[j + n], m.zf)
  <2>1. After("stos", m, j + n, L[j + n], m.zf) =
          [di |-> m.di + (j + n), si |-> m.si, cx |-> m.cx - (j + n), df |-> m.df, zf |-> m.zf, al |-> m.al,
           mem |-> L[j + n]]
    BY DEF After, Place
  <2> HIDE DEF n, w
  <2> QED
    BY ONLY <1>4, <1>6, <1>7, <2>1
<1> QED
  <2>1. n \in 1 .. m.cx - j
    BY <1>3
  <2> HIDE DEF n, w
  <2> QED
    BY <1>1, <1>8, <2>1

LEMMA StosbMatches ==
  ASSUME NEW m, StringIn(m)
  PROVE  OpStosb(3, m) = StringOp("stos", 3, m)
<1>0. m.cx \in Nat /\ m.cx <= Top + 1 /\ Top + 1 \in Nat
  BY StringBounds DEF StringIn, Machines
<1>1. PICK L : Memories("stos", m, L) /\ StringOp("stos", 3, m) = After("stos", m, m.cx, L[m.cx], m.zf)
  BY PlainLoop
<1>3. CASE m.df # 0
  BY <1>3 DEF OpStosb
<1>4. CASE m.df = 0
  <2>0. OpStosb(3, m) = RepStosbEnhanced(m)
    BY <1>4 DEF OpStosb
  <2>1. PICK run : Runs(run, "stos", 0, m, Top + 1) /\ RepStosbEnhanced(m) = run[Top + 1]
    BY StosRuns
  <2> DEFINE Good(i, j) == (j = m.cx \/ j >= i) /\ run[i] = After("stos", m, j, L[j], m.zf)
             T == {i \in 0 .. Top + 1 : \E j \in 0 .. m.cx : Good(i, j)}
  <2>2. 0 \in T
    <3>1. Good(0, 0)
      <4>1. run[0] = m /\ L[0] = m.mem
        BY <1>1, <2>1 DEF Runs, Memories
      <4>2. m = After("stos", m, 0, L[0], m.zf)
        BY <4>1, StartIs
      <4> QED
        BY <4>1, <4>2
    <3> QED
      BY <1>0, <3>1
  <2>3. ASSUME NEW i \in T, i < Top + 1 PROVE i + 1 \in T
    <3>1. PICK j \in 0 .. m.cx : Good(i, j)
      BY <2>3
    <3>2. run[i + 1] = StosStep(run[i])
      <4>1. i + 1 \in 1 .. Top + 1 /\ (i + 1) - 1 = i
        BY <1>0, <2>3
      <4> QED
        BY <2>1, <4>1 DEF Runs, LoopStep
    <3>3. CASE j = m.cx
      <4>1. run[i].cx = 0
        BY <1>0, <3>1, <3>3 DEF After
      <4>2. run[i + 1] = run[i]
        BY <3>2, <4>1 DEF StosStep
      <4>3. Good(i + 1, j)
        BY <3>1, <3>3, <4>2
      <4> QED
        BY <1>0, <2>3, <4>3
    <3>4. CASE j < m.cx
      <4>1. PICK n \in 1 .. m.cx - j : StosStep(After("stos", m, j, L[j], m.zf)) = After("stos", m, j + n, L[j + n], m.zf)
        BY <1>1, <1>4, <3>4, StosStepIs
      <4>2. j + n \in 0 .. m.cx /\ j + n >= i + 1
        BY <1>0, <2>3, <3>1, <3>4
      <4>3. Good(i + 1, j + n)
        BY <3>1, <3>2, <4>1, <4>2
      <4>4. i + 1 \in 0 .. Top + 1
        BY <1>0, <2>3
      <4> QED
        BY <4>2, <4>3, <4>4
    <3> QED
      BY <1>0, <3>3, <3>4
  <2>4. Top + 1 \in T
    <3>1. T \in SUBSET (0 .. Top + 1)
      OBVIOUS
    <3> HIDE DEF T
    <3> QED
      BY <1>0, <2>2, <2>3, <3>1, Climb
  <2>5. PICK j \in 0 .. m.cx : Good(Top + 1, j)
    BY <2>4
  <2>6. j = m.cx
    BY <1>0, <2>5
  <2> QED
    BY <1>1, <2>0, <2>1, <2>5, <2>6
<1> QED
  BY <1>3, <1>4

(* scas and cmps, which stop behind the first hit. *)

ByteAt(m, r, j) == m.mem[Place(m.df, r, j)]
Hit(op, m, j) == IF op = "scas" THEN ByteAt(m, m.di, j) = m.al ELSE ByteAt(m, m.di, j) # ByteAt(m, m.si, j)
Hits(op, m) == {j \in 0 .. m.cx - 1 : Hit(op, m, j)}
Behind(op, m) == IF Hits(op, m) = {} THEN m.cx ELSE Least(Hits(op, m)) + 1
\* The prefix that makes it stop there, and what the last comparison leaves in ZF.
Prefix(op) == IF op = "scas" THEN 2 ELSE 3
Zf(op, m, j) ==
    IF j = 0 THEN m.zf ELSE IF op = "scas" THEN Bool(Hit(op, m, j - 1)) ELSE Bool(~Hit(op, m, j - 1))

LEMMA LeastIs ==
  ASSUME NEW k \in Nat, NEW S \in SUBSET (0 .. k), S # {}
  PROVE  Least(S) \in S /\ \A i \in S : Least(S) <= i
<1>1. \E i \in S : \A j \in S : i <= j
  <2> SUFFICES ASSUME \A i \in S : \E j \in S : j < i PROVE FALSE
    OBVIOUS
  <2> DEFINE T == {i \in 0 .. k : \A j \in S : i < j}
  <2>1. 0 \in T
    OBVIOUS
  <2>2. \A i \in T : i < k => i + 1 \in T
    OBVIOUS
  <2>3. T \in SUBSET (0 .. k)
    OBVIOUS
  <2>4. k \in T
    <3> HIDE DEF T
    <3> QED
      BY <2>1, <2>2, <2>3, Climb
  <2>5. PICK j \in S : TRUE
    OBVIOUS
  <2>6. k < j
    BY <2>4
  <2> QED
    BY <2>5, <2>6
<1> QED
  BY <1>1 DEF Least

\* The comparison of one element.
LEMMA CompareIs ==
  ASSUME NEW m, StringIn(m), NEW op \in {"scas", "cmps"}, NEW j \in 0 .. m.cx, j < m.cx, NEW z
  PROVE  LET w == After(op, m, j, m.mem, z) IN
         /\ Element(op, w) = After(op, m, j + 1, m.mem, Zf(op, m, j + 1))
         /\ Stops(op, Prefix(op), Once(op, w)) <=> Hit(op, m, j)
<1>1. m.df \in 0 .. 1 /\ m.di \in Int /\ m.si \in Int /\ m.cx \in Nat /\ j \in Int
  BY DEF StringIn, Machines
<1> DEFINE D == Place(m.df, m.di, j)
           E == Place(m.df, m.si, j)
           C == m.cx - j
           N == Step(m)
           H == Hit(op, m, j)
<1>2. D + N = Place(m.df, m.di, j + 1) /\ E + N = Place(m.df, m.si, j + 1)
  BY <1>1, PlaceIs
<1>3. C - 1 = m.cx - (j + 1) /\ j + 1 # 0 /\ (j + 1) - 1 = j
  BY <1>1
<1>4. CASE op = "scas"
  <2> DEFINE w == [di |-> D, si |-> m.si, cx |-> C, df |-> m.df, zf |-> z, al |-> m.al, mem |-> m.mem]
             q == IF m.mem[D] = m.al THEN 1 ELSE 0
  <2>1. w = After(op, m, j, m.mem, z)
    BY <1>4 DEF After
  <2>2. q = Zf(op, m, j + 1) /\ (q = 1 <=> H)
    BY <1>3, <1>4 DEF Zf, Hit, Bool, ByteAt
  <2>3. Step(w) = N
    BY DEF Step, N
  <2>4. Once(op, w) = [[w EXCEPT !.zf = q] EXCEPT !.di = D + N]
    <3>1. Once(op, w) = ScasOnce(w)
      BY <1>4 DEF Once
    <3>2. w.di = D /\ w.mem = m.mem /\ w.al = m.al
      OBVIOUS
    <3> HIDE DEF w
    <3> QED
      BY <2>3, <3>1, <3>2 DEF ScasOnce
  <2> HIDE DEF D, E, C, N, H, q
  <2>5. Once(op, w) = [di |-> D + N, si |-> m.si, cx |-> C, df |-> m.df, zf |-> q, al |-> m.al, mem |-> m.mem]
    BY <2>4
  <2> HIDE DEF w
  <2>6. Element(op, w) = [di |-> D + N, si |-> m.si, cx |-> C - 1, df |-> m.df, zf |-> q, al |-> m.al, mem |-> m.mem]
    BY <2>5 DEF Element
  <2>7. Stops(op, Prefix(op), Once(op, w)) <=> q = 1
    <3>1. Once(op, w).zf = q
      BY <2>5
    <3> QED
      BY <1>4, <3>1 DEF Stops, Prefix, Compares
  <2>8. After(op, m, j + 1, m.mem, Zf(op, m, j + 1)) =
          [di |-> D + N, si |-> m.si, cx |-> C - 1, df |-> m.df, zf |-> q, al |-> m.al, mem |-> m.mem]
    BY <1>2, <1>3, <1>4, <2>2 DEF After
  <2> QED
    BY <2>1, <2>2, <2>6, <2>7, <2>8 DEF H
<1>5. CASE op = "cmps"
  <2> DEFINE w == [di |-> D, si |-> E, cx |-> C, df |-> m.df, zf |-> z, al |-> m.al, mem |-> m.mem]
             q == IF m.mem[E] = m.mem[D] THEN 1 ELSE 0
  <2>1. w = After(op, m, j, m.mem, z)
    BY <1>5 DEF After
  <2>2. q = Zf(op, m, j + 1) /\ (q = 0 <=> H)
    BY <1>3, <1>5 DEF Zf, Hit, Bool, ByteAt
  <2>3. Step(w) = N
    BY DEF Step, N
  <2>4. Once(op, w) = [[[w EXCEPT !.zf = q] EXCEPT !.di = D + N] EXCEPT !.si = E + N]
    <3>1. Once(op, w) = CmpsOnce(w)
      BY <1>5 DEF Once
    <3>2. w.di = D /\ w.si = E /\ w.mem = m.mem
      OBVIOUS
    <3> HIDE DEF w
    <3> QED
      BY <2>3, <3>1, <3>2 DEF CmpsOnce
  <2> HIDE DEF D, E, C, N, H, q
  <2>5. Once(op, w) = [di |-> D + N, si |-> E + N, cx |-> C, df |-> m.df, zf |-> q, al |-> m.al, mem |-> m.mem]
    BY <2>4
  <2> HIDE DEF w
  <2>6. Element(op, w) = [di |-> D + N, si |-> E + N, cx |-> C - 1, df |-> m.df, zf |-> q, al |-> m.al, mem |-> m.mem]
    BY <2>5 DEF Element
  <2>7. Stops(op, Prefix(op), Once(op, w)) <=> q = 0
    <3>1. Once(op, w).zf = q
      BY <2>5
    <3> QED
      BY <1>5, <3>1 DEF Stops, Prefix, Compares
  <2>8. After(op, m, j + 1, m.mem, Zf(op, m, j + 1)) =
          [di |-> D + N, si |-> E + N, cx |-> C - 1, df |-> m.df, zf |-> q, al |-> m.al, mem |-> m.mem]
    BY <1>2, <1>3, <1>5, <2>2 DEF After
  <2> QED
    BY <2>1, <2>2, <2>6, <2>7, <2>8 DEF H
<1> QED
  BY <1>4, <1>5

LEMMA BehindIs ==
  ASSUME NEW m, StringIn(m), NEW op
  PROVE  /\ Behind(op, m) \in 0 .. m.cx
         /\ \A j \in 0 .. m.cx : j < Behind(op, m) => (Hit(op, m, j) <=> (j + 1 = Behind(op, m) /\ Hits(op, m) # {}))
         /\ Hits(op, m) = {} => Behind(op, m) = m.cx
<1> DEFINE S == Hits(op, m)
<1>0. m.cx \in Nat
  BY DEF StringIn, Machines
<1>1. \A j \in 0 .. m.cx : j < m.cx => (Hit(op, m, j) <=> j \in S)
  BY <1>0 DEF Hits
<1>2. S \in SUBSET (0 .. m.cx - 1)
  BY DEF Hits
<1>3. CASE S = {}
  BY <1>0, <1>1, <1>3 DEF Behind
<1>4. CASE S # {}
  <2>1. m.cx - 1 \in Nat
    <3>1. PICK j \in S : TRUE
      BY <1>4
    <3> QED
      BY <1>0, <1>2, <3>1
  <2>2. Least(S) \in S /\ \A i \in S : Least(S) <= i
    <3> HIDE DEF S
    <3> QED
      BY <1>2, <1>4, <2>1, LeastIs
  <2>3. Behind(op, m) = Least(S) + 1
    BY <1>4 DEF Behind
  <2> HIDE DEF S
  <2>4. Least(S) \in 0 .. m.cx - 1
    BY <1>2, <2>2
  <2> QED
    BY <1>0, <1>1, <1>2, <1>4, <2>2, <2>3, <2>4 DEF S
<1> QED
  BY <1>3, <1>4

LEMMA ScanIs ==
  ASSUME NEW m, StringIn(m), NEW op \in {"scas", "cmps"}
  PROVE  StringOp(op, Prefix(op), m) = After(op, m, Behind(op, m), m.mem, Zf(op, m, Behind(op, m)))
<1> DEFINE F == Behind(op, m)
           rep == Prefix(op)
<1>0. m.cx \in Nat /\ m.cx <= Top + 1 /\ Top + 1 \in Nat /\ F \in 0 .. m.cx /\ rep # 0
  BY StringBounds, BehindIs DEF StringIn, Machines, Prefix
<1>1. PICK run : /\ Runs(run, "string", [op |-> op, rep |-> rep], [m |-> m, stop |-> FALSE], Top + 1)
                 /\ StringOp(op, rep, m) = run[Top + 1].m
  <2> HIDE DEF rep
  <2> QED
    BY <1>0, StringOpRuns
<1> DEFINE Stopped(j) == j = F /\ j # 0 /\ Hits(op, m) # {}
           Good(j) == (run[j].stop <=> Stopped(j)) /\ run[j].m = After(op, m, j, m.mem, Zf(op, m, j))
           T == {j \in 0 .. F : Good(j)}
<1>2. 0 \in T
  <2>1. run[0] = [m |-> m, stop |-> FALSE]
    BY <1>1 DEF Runs
  <2>2. m = After(op, m, 0, m.mem, m.zf) /\ Zf(op, m, 0) = m.zf
    BY StartIs DEF Zf
  <2>3. Good(0)
    BY <2>1, <2>2
  <2> QED
    BY <1>0, <2>3
<1>3. ASSUME NEW j \in T, j < F PROVE j + 1 \in T
  <2>1. j + 1 \in 1 .. Top + 1 /\ (j + 1) - 1 = j /\ j \in 0 .. m.cx /\ j + 1 \in 0 .. F /\ j < m.cx
    BY <1>0, <1>3
  <2>2. run[j + 1] = Repeat(op, rep, run[j])
    BY <1>1, <2>1 DEF Runs, LoopStep
  <2>3. Good(j) /\ ~run[j].stop
    BY <1>0, <1>3
  <2>4. run[j].m.cx # 0
    <3>1. run[j].m.cx = m.cx - j
      BY <2>3 DEF After
    <3> QED
      BY <1>0, <2>1, <3>1
  <2>5. run[j + 1] = [m |-> Element(op, run[j].m), stop |-> Stops(op, rep, Once(op, run[j].m))]
    BY <2>2, <2>3, <2>4 DEF Repeat
  <2>6. /\ Element(op, run[j].m) = After(op, m, j + 1, m.mem, Zf(op, m, j + 1))
        /\ Stops(op, rep, Once(op, run[j].m)) <=> Hit(op, m, j)
    BY <2>1, <2>3, CompareIs
  <2>7. Hit(op, m, j) <=> Stopped(j + 1)
    BY <1>0, <1>3, <2>1, BehindIs
  <2>8. Good(j + 1)
    BY <2>5, <2>6, <2>7
  <2> QED
    BY <2>1, <2>8
<1>4. F \in T
  <2>1. T \in SUBSET (0 .. F)
    OBVIOUS
  <2> HIDE DEF T, F
  <2> QED
    BY <1>0, <1>2, <1>3, <2>1, Climb
<1>5. run[F].stop \/ run[F].m.cx = 0
  <2>1. CASE Hits(op, m) = {}
    <3>1. F = m.cx
      BY <2>1, BehindIs
    <3> QED
      BY <1>0, <1>4, <3>1 DEF After
  <2>2. CASE Hits(op, m) # {} /\ F # 0
    BY <1>4, <2>2
  <2>3. CASE Hits(op, m) # {} /\ F = 0
    <3>1. PICK j \in 0 .. m.cx - 1 : j \in Hits(op, m)
      BY <2>3 DEF Hits
    <3>2. Least(Hits(op, m)) \in Nat
      <4>1. m.cx - 1 \in Nat /\ Hits(op, m) \in SUBSET (0 .. m.cx - 1)
        BY <1>0, <3>1 DEF Hits
      <4>2. Least(Hits(op, m)) \in Hits(op, m)
        BY <2>3, <4>1, LeastIs
      <4> QED
        BY <4>1, <4>2
    <3> QED
      BY <2>3, <3>2 DEF Behind
  <2> QED
    BY <2>1, <2>2, <2>3
<1>6. run[Top + 1] = run[F]
  <2>1. F \in 0 .. Top + 1
    BY <1>0
  <2> HIDE DEF F, rep
  <2> QED
    BY <1>0, <1>1, <1>5, <2>1, RunStays
<1> QED
  BY <1>1, <1>4, <1>6

(* On the machines of a run. *)

StringOperands == in.kind = "string" => StringIn(in.m)

LEMMA StringsHold == Spec => []StringOperands
<1>1. Init => StringOperands
  BY DEF Init, StringOperands
<1>2. StringOperands /\ [Next]_in => StringOperands'
  <2> SUFFICES ASSUME StringOperands, [Next]_in PROVE StringOperands'
    OBVIOUS
  <2>1. CASE PickFirst
    BY <2>1 DEF PickFirst, StringOperands
  <2>2. CASE PickSecond
    BY <2>2 DEF PickSecond, StringOperands
  <2>3. CASE PickString
    <3>1. PICK di \in Addresses, si \in Addresses, cx \in 0 .. MaxCx, df \in 0 .. 1, same \in {0, 3} :
            /\ \A r \in {di, si} : IF df = 0 THEN r + cx <= Top + 1 ELSE cx <= r + 1
            /\ in' = [kind |-> "string",
                      m |-> [di |-> di, si |-> si, cx |-> cx, df |-> df, zf |-> 0, al |-> 2,
                             mem |-> [a \in Addresses |-> IF same = 0 THEN a ELSE a \div same]]]
      BY <2>3 DEF PickString
    <3> DEFINE mem == [a \in Addresses |-> IF same = 0 THEN a ELSE a \div same]
               m == [di |-> di, si |-> si, cx |-> cx, df |-> df, zf |-> 0, al |-> 2, mem |-> mem]
    <3>2. mem \in [Addresses -> Nat]
      <4>1. ASSUME NEW a \in Addresses PROVE a \in Nat /\ a \div 3 \in Nat
        BY <4>1, StringBounds DEF Addresses
      <4> QED
        BY <4>1
    <3>3. cx \in Nat /\ cx <= Top + 1 /\ di \in Int /\ si \in Int
      BY OperandBounds, StringBounds DEF Addresses
    <3>4. StringIn(m)
      <4> HIDE DEF mem
      <4>1. m \in Machines
        BY <3>2, <3>3 DEF Machines
      <4> QED
        BY <3>1, <3>3, <4>1 DEF StringIn, Reaches
    <3>5. in'.m = m
      BY <3>1
    <3> HIDE DEF m
    <3> QED
      BY <3>4, <3>5 DEF StringOperands
  <2>4. CASE UNCHANGED in
    BY <2>4 DEF StringOperands
  <2> QED
    BY <2>1, <2>2, <2>3, <2>4 DEF Next
<1> QED
  BY <1>1, <1>2, PTL DEF Spec

\* What ScansStopAtFirst says of one machine.
ScansOf(m) ==
    LET At(r, j) == m.mem[r + Step(m) * j]
        found == {j \in 0 .. m.cx - 1 : At(m.di, j) = m.al}
        differ == {j \in 0 .. m.cx - 1 : At(m.di, j) # At(m.si, j)}
        Past(S) == IF S = {} THEN m.cx ELSE Least(S) + 1
        scas == StringOp("scas", 2, m)
        cmps == StringOp("cmps", 3, m) IN
    /\ scas.di = m.di + Step(m) * Past(found) /\ scas.cx = m.cx - Past(found)
    /\ cmps.si = m.si + Step(m) * Past(differ) /\ cmps.cx = m.cx - Past(differ)
    /\ m.cx > 0 => scas.zf = Bool(found # {}) /\ cmps.zf = Bool(differ = {})

LEMMA ScansRight ==
  ASSUME NEW m, StringIn(m)
  PROVE  ScansOf(m)
<1>0. m.df \in 0 .. 1 /\ m.di \in Int /\ m.si \in Int /\ m.cx \in Nat
  BY DEF StringIn, Machines
<1>1. ASSUME NEW j \in Int
      PROVE  m.di + Step(m) * j = Place(m.df, m.di, j) /\ m.si + Step(m) * j = Place(m.df, m.si, j)
  BY <1>0, PlaceIs
<1> DEFINE At(r, j) == m.mem[r + Step(m) * j]
           found == {j \in 0 .. m.cx - 1 : At(m.di, j) = m.al}
           differ == {j \in 0 .. m.cx - 1 : At(m.di, j) # At(m.si, j)}
<1>2. found = Hits("scas", m) /\ differ = Hits("cmps", m)
  <2>1. \A j \in 0 .. m.cx - 1 : At(m.di, j) = ByteAt(m, m.di, j) /\ At(m.si, j) = ByteAt(m, m.si, j)
    BY <1>1 DEF ByteAt
  <2> QED
    BY <2>1 DEF Hits, Hit
<1>3. ASSUME NEW op \in {"scas", "cmps"}, m.cx > 0
      PROVE  Zf(op, m, Behind(op, m)) = IF op = "scas" THEN Bool(Hits(op, m) # {}) ELSE Bool(Hits(op, m) = {})
  <2> DEFINE F == Behind(op, m)
  <2>1. F \in 0 .. m.cx /\ F # 0
    <3>1. CASE Hits(op, m) = {}
      BY <1>0, <1>3, <3>1, BehindIs
    <3>2. CASE Hits(op, m) # {}
      <4>1. m.cx - 1 \in Nat /\ Hits(op, m) \in SUBSET (0 .. m.cx - 1)
        BY <1>0, <1>3 DEF Hits
      <4>2. Least(Hits(op, m)) \in 0 .. m.cx - 1
        BY <3>2, <4>1, LeastIs
      <4> QED
        BY <3>2, <4>2, BehindIs DEF Behind
    <3> QED
      BY <3>1, <3>2
  <2>2. F - 1 \in 0 .. m.cx /\ F - 1 < F /\ (F - 1) + 1 = F
    BY <1>0, <2>1
  <2>3. Hit(op, m, F - 1) <=> Hits(op, m) # {}
    BY <2>2, BehindIs
  <2> HIDE DEF F
  <2>4. Zf(op, m, F) = IF op = "scas" THEN Bool(Hits(op, m) # {}) ELSE Bool(Hits(op, m) = {})
    BY <2>1, <2>3 DEF Zf, Bool
  <2> QED
    BY <2>4 DEF F
<1>4. /\ StringOp("scas", 2, m) = After("scas", m, Behind("scas", m), m.mem, Zf("scas", m, Behind("scas", m)))
      /\ StringOp("cmps", 3, m) = After("cmps", m, Behind("cmps", m), m.mem, Zf("cmps", m, Behind("cmps", m)))
  <2>1. Prefix("scas") = 2 /\ Prefix("cmps") = 3
    BY DEF Prefix
  <2> QED
    BY <2>1, ScanIs
<1> DEFINE s == Behind("scas", m)
           c == Behind("cmps", m)
<1>5. s \in Int /\ c \in Int
  BY <1>0, BehindIs
<1>6. /\ StringOp("scas", 2, m).di = Place(m.df, m.di, s) /\ StringOp("scas", 2, m).cx = m.cx - s
      /\ StringOp("scas", 2, m).zf = Zf("scas", m, s)
  BY ONLY <1>4 DEF After
<1>7. /\ StringOp("cmps", 3, m).si = Place(m.df, m.si, c) /\ StringOp("cmps", 3, m).cx = m.cx - c
      /\ StringOp("cmps", 3, m).zf = Zf("cmps", m, c)
  BY ONLY <1>4 DEF After
<1>8. /\ (IF found = {} THEN m.cx ELSE Least(found) + 1) = s
      /\ (IF differ = {} THEN m.cx ELSE Least(differ) + 1) = c
  BY <1>2 DEF Behind
<1>9. m.cx > 0 => /\ StringOp("scas", 2, m).zf = Bool(found # {})
                  /\ StringOp("cmps", 3, m).zf = Bool(differ = {})
  <2> HIDE DEF found, differ, s, c
  <2> QED
    BY <1>2, <1>3, <1>6, <1>7 DEF s, c
<1>10. m.di + Step(m) * s = Place(m.df, m.di, s) /\ m.si + Step(m) * c = Place(m.df, m.si, c)
  BY <1>1, <1>5
<1> QED
  <2> HIDE DEF s, c
  <2> QED
    BY ONLY <1>6, <1>7, <1>8, <1>9, <1>10 DEF ScansOf

\* string.c: for every size of the memory and of its pages, every count and both directions,
\* rep movsb and rep stosb in chunks leave the memory and the registers the loop of single
\* elements leaves, and repne scasb and repe cmpsb stop behind the first hit.
THEOREM StringsCorrect == Spec => []StringsMatch
<1>1. StringOperands => StringsMatch
  <2> SUFFICES ASSUME StringOperands, Strings PROVE ChunksMatchLoop /\ ScansStopAtFirst
    BY DEF StringsMatch, ChunksMatchLoop, ScansStopAtFirst
  <2>1. StringIn(in.m)
    BY DEF StringOperands, Strings
  <2>2. ChunksMatchLoop
    BY <2>1, MovsbMatches, StosbMatches DEF ChunksMatchLoop
  <2>3. ScansOf(in.m)
    BY <2>1, ScansRight
  <2>4. ScansStopAtFirst
    BY ONLY <2>3 DEF ScansStopAtFirst, ScansOf
  <2> QED
    BY <2>2, <2>4
<1> QED
  BY <1>1, StringsHold, PTL
====
