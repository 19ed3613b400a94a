----------------------------- MODULE FieldLimbs ----------------------------
(***************************************************************************)
(* Field elements in limbs: field_5x52_impl.h with the products of         *)
(* field_5x52_int128_impl.h, and the same operations for any number of     *)
(* limbs, as field_10x26_impl.h has them.  The field has P = 2^bits - C    *)
(* elements, and C needs one limb or two.  Where the code has a            *)
(* VERIFY_CHECK, the result carries its verdict in ok.                     *)
(***************************************************************************)
EXTENDS Words

CONSTANTS
    n, w, t,   \* limbs of w bits, the highest of t
    C0, C1,    \* C = C0 + C1 * 2^w
    WordBits   \* bits of the word that holds a limb, 64 or 32

Shape ==
    /\ n > 2 /\ 0 < t /\ t < w /\ w < WordBits
    /\ 0 < C0 /\ C0 < 2^w /\ 0 <= C1 /\ C1 < 2^(w-1)

M      == 2^w - 1
Top    == 2^t - 1
Full(i) == IF i = n THEN Top ELSE M
P(i)    == IF i = 1 THEN 2^w - C0 ELSE IF i = 2 THEN M - C1 ELSE Full(i)
U(x)    == x % 2^WordBits

Result(r, ok) == [r |-> r, ok |-> ok]

-----------------------------------------------------------------------------
\* The comparison with P, of limbs that do not exceed theirs.
AtLeastP(a) ==
    /\ \A i \in 3 .. n : a[i] = Full(i)
    /\ a[2] + C1 + ((a[1] + C0) \div 2^w) > M

\* secp256k1_fe_impl_verify
verify(a, magnitude, normalized) ==
    /\ \A i \in 1 .. n : a[i] <= Full(i) * (IF normalized THEN 1 ELSE 2 * magnitude)
    /\ normalized => ~AtLeastP(a)

get_bounds(m) == Tuple([i \in 1 .. n |-> Full(i) * 2 * m])

-----------------------------------------------------------------------------
(* Normalization: a pass adds x * C and carries from limb to limb; the     *)
(* highest limb keeps its carry.                                           *)

CarryInto(acc, x) ==
    IF acc.carry >= 0
    THEN [out |-> Append(acc.out, U(x + acc.carry) % 2^w), carry |-> U(x + acc.carry) \div 2^w]
    ELSE acc
IntoTop(acc, top) == Append(acc.out, U(top + acc.carry))
Carried(a, top) == IntoTop(FoldLeft(CarryInto, [out |-> <<>>, carry |-> 0], SubSeq(a, 1, n-1)), top)
Pass(a, x, top) ==
    Carried(<<U(a[1] + x * C0), U(a[2] + x * C1)>> \o SubSeq(a, 3, n), top)

FirstPass(a) == Pass(a, a[n] \div 2^t, a[n] % 2^t)

Excess(a)       == IF a[n] >= 2^t \/ AtLeastP(a) THEN 1 ELSE 0
Masked(a)       == SubSeq(a, 1, n-1) \o <<a[n] % 2^t>>
SecondCheck(a, x, r) == Result(Masked(r), a[n] < 2^(t+1) /\ r[n] \div 2^t = x)
SecondPass(a, x) == SecondCheck(a, x, Pass(a, x, a[n]))
Always(a)       == SecondPass(a, Excess(a))
WhenNeeded(a)   == IF Excess(a) = 1 THEN SecondPass(a, 1) ELSE Result(a, a[n] < 2^(t+1))

normalize(a)     == Always(FirstPass(a))
normalize_var(a) == WhenNeeded(FirstPass(a))
Weakly(a)        == Result(a, a[n] < 2^(t+1))
normalize_weak(a) == Weakly(FirstPass(a))

\* After one pass, zero is the raw number 0 or the raw number P.
RawZero(a) == (\A i \in 1 .. n : a[i] = 0) \/ \A i \in 1 .. n : a[i] = P(i)
normalizes_to_zero(a) == RawZero(FirstPass(a))

\* The lowest limb alone decides most of the time.
LowestAfter(a) == U(a[1] + (a[n] \div 2^t) * C0) % 2^w
normalizes_to_zero_var(a) == LowestAfter(a) \in {0, P(1)} /\ RawZero(FirstPass(a))

-----------------------------------------------------------------------------
(* Operations on limbs that carry nothing: the magnitude grows instead.    *)

set_int(a)   == Tuple([i \in 1 .. n |-> IF i = 1 THEN a ELSE 0])
is_zero(a)   == \A i \in 1 .. n : a[i] = 0
is_odd(a)    == Odd(a[1])
add(a, b)    == Tuple([i \in 1 .. n |-> U(a[i] + b[i])])
add_int(a, k) == Tuple([i \in 1 .. n |-> IF i = 1 THEN U(a[1] + k) ELSE a[i]])
mul_int(a, k) == Tuple([i \in 1 .. n |-> U(a[i] * k)])
cmov(r, a, flag) == IF flag = 1 THEN a ELSE r

\* Mutant: the multiple of P that a is taken from is too small for a.
negate_2m(a, m) ==
    Result(Tuple([i \in 1 .. n |-> U(P(i) * 2 * m - a[i])]),
           \A i \in 1 .. n : P(i) * 2 * (m + 1) >= Full(i) * 2 * m)

negate(a, m) ==
    Result(Tuple([i \in 1 .. n |-> U(P(i) * 2 * (m + 1) - a[i])]),
           \A i \in 1 .. n : P(i) * 2 * (m + 1) >= Full(i) * 2 * m)

\* P is added to an odd number.
Halves(a) ==
    Result(Tuple([i \in 1 .. n |-> (a[i] \div 2) + (IF i = n THEN 0 ELSE (a[i+1] % 2) * 2^(w-1))]),
           ~Odd(a[1]))
half(a) == Halves(IF Odd(a[1]) THEN Tuple([i \in 1 .. n |-> U(a[i] + P(i))]) ELSE a)

\* 1, 0 or -1: the highest limb that differs decides.
cmp_var(a, b) ==
    FoldLeft(LAMBDA res, i : IF a[i] > b[i] THEN 1 ELSE IF a[i] < b[i] THEN -1 ELSE res,
             0, [i \in 1 .. n |-> i])

-----------------------------------------------------------------------------
(* Bytes (of one bit), and the packed form of points in memory.            *)

BitsOf == w * (n-1) + t
set_b32_mod(bytes)   == Regroup(Tuple(Reverse(bytes)), 1, w, n)
Limited(r)           == [r |-> r, ret |-> ~AtLeastP(r)]
set_b32_limit(bytes) == Limited(set_b32_mod(bytes))
get_b32(a)           == Tuple(Reverse(Regroup(a, w, 1, BitsOf)))

to_storage(a, s, k)   == Regroup(a, w, s, k)
from_storage(a, s)    == Regroup(a, s, w, n)
storage_cmov(r, a, flag) == IF flag = 1 THEN a ELSE r

-----------------------------------------------------------------------------
(* Products.  Column k of a product is the sum of a[i] * b[k-i]; of a      *)
(* square, every product of two different limbs is taken twice.  Columns n *)
(* and more come back multiplied by R = 2^(w*n) mod P.                     *)

R     == C0 * 2^(w-t)
R1    == C1 * 2^(w-t)
Lo(x) == U(x)

Rows(k) == {i \in 0 .. n-1 : 0 <= k - i /\ k - i < n}
MulColumn(a, b, k) == MapThenSumSet(LAMBDA i : a[i+1] * b[k-i+1], Rows(k))
SqrColumn(a, k) ==
    MapThenSumSet(LAMBDA i : IF 2*i = k THEN a[i+1] * a[i+1] ELSE (a[i+1] * 2) * a[k-i+1],
                  {i \in Rows(k) : 2*i <= k})
MulColumns(a, b) == [k \in 0 .. 2*n-2 |-> MulColumn(a, b, k)]
SqrColumns(a)    == [k \in 0 .. 2*n-2 |-> SqrColumn(a, k)]

\* Five limbs, as secp256k1_fe_mul_inner of field_5x52_int128_impl.h: column
\* 8 comes back into 3 and 4, 5 into 0 with the bits tx that are above the
\* top of 4, 6 into 1, 7 into 2 and 3.
RHigh == R * 2^(WordBits - w)
Emit(s, c, d) ==
    [t3 |-> s.t3, t4 |-> s.t4, r |-> Append(s.r, c % 2^w), c |-> c \div 2^w, d |-> d]

TakeT3(d, c)    == [t3 |-> d % 2^w, d |-> d \div 2^w, c |-> c]
Columns38(p)    == TakeT3(p[3] + R * Lo(p[8]), p[8] \div 2^WordBits)
TakeT4(s, d)    == [t3 |-> s.t3, t4 |-> d % 2^t, tx |-> (d % 2^w) \div 2^t,
                    d |-> d \div 2^w, r |-> <<>>]
Column4(s, p)   == TakeT4(s, s.d + p[4] + RHigh * Lo(s.c))
TakeU0(s, c, d) == Emit(s, c + ((d % 2^w) * 2^(w-t) + s.tx) * (R \div 2^(w-t)), d \div 2^w)
Columns05(s, p) == TakeU0(s, p[0], s.d + p[5])
TakeD(s, c, d)  == Emit(s, c + (d % 2^w) * R, d \div 2^w)
Columns16(s, p) == TakeD(s, s.c + p[1], s.d + p[6])
TakeLo(s, c, d) == Emit(s, c + R * Lo(d), d \div 2^WordBits)
Columns27(s, p) == TakeLo(s, s.c + p[2], s.d + p[7])
Column3(s)      == Emit(s, s.c + RHigh * Lo(s.d) + s.t3, 0)
Last4(s)        == Append(s.r, U(Lo(s.c) + s.t4))
Reduced5(p)     == Last4(Column3(Columns27(Columns16(Columns05(Column4(Columns38(p), p), p), p), p)))

Checked5(r)     == Result(r, r[n] < 2^(t+1))
mul_inner(a, b) == Checked5(Reduced5(MulColumns(a, b)))
sqr_inner(a)    == Checked5(Reduced5(SqrColumns(a)))

\* Any number of limbs, as secp256k1_fe_mul_inner of field_10x26_impl.h:
\* column k + n comes back into k and k + 1.  The sums fit two words.
Fits(x) == x < 2^(2 * WordBits)
Start(p) ==
    [c |-> 0, d |-> p[n-1] \div 2^w, last |-> p[n-1] % 2^w, r |-> <<>>, ok |-> Fits(p[n-1])]
Emit10(s, c, u, d) ==
    [c |-> (c \div 2^w) + u * R1, d |-> d, last |-> s.last, r |-> Append(s.r, c % 2^w),
     ok |-> s.ok /\ Fits(c)]
Fold10(s, c, d) == IF Fits(d) THEN Emit10(s, c + (d % 2^w) * R, d % 2^w, d \div 2^w)
                              ELSE [s EXCEPT !.ok = FALSE]
Column10(s, k, p) == IF s.ok THEN Fold10(s, s.c + p[k], s.d + p[k + n]) ELSE s

\* What is left, c * 2^(w*n), comes back into the lowest limbs.
Ends(s, r0, d1, last) ==
    Result(<<r0, d1 % 2^w, (d1 \div 2^w) + s.r[3]>> \o SubSeq(s.r, 4, n-1) \o <<last>>,
           s.ok /\ (d1 \div 2^w) + s.r[3] < 2^(w+1))
Lowest(s, c, d0, last) == Ends(s, d0 % 2^w, (d0 \div 2^w) + c * (R1 \div 2^(w-t)) + s.r[2], last)
Around(s, c, last) == Lowest(s, c, c * (R \div 2^(w-t)) + s.r[1], last)
Highest(s, c) == Around(s, (c \div 2^t) + s.d * (R1 * 2^(w-t)), c % 2^t)
Finish10(s) == IF s.ok THEN Highest(s, s.c + s.d * R + s.last) ELSE Result(s.r, FALSE)
Reduced10(p) == Finish10(FoldLeft(LAMBDA s, k : Column10(s, k - 1, p), Start(p), [k \in 1 .. n-1 |-> k]))

mul_inner_10(a, b) == Reduced10(MulColumns(a, b))
sqr_inner_10(a)    == Reduced10(SqrColumns(a))
=============================================================================
