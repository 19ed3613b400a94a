---------------------------- MODULE ScalarLimbs ----------------------------
(***************************************************************************)
(* Scalars as machine words: the functions of scalar_4x64_impl.h, with     *)
(* NLimbs limbs of LimbBits bits for any number of limbs and any width.    *)
(* scalar_8x32_impl.h has the same functions for eight limbs.  N is the    *)
(* order, whose shape the code uses: 2^(NLimbs*LimbBits) - N is a number   *)
(* of half the limbs (N_C) with one more bit, which is set.                *)
(*                                                                         *)
(* Sequences start at 1: limb d[i] of the code is limb i+1.  An operation  *)
(* with a VERIFY_CHECK returns a record whose field ok says whether every  *)
(* check on its way holds.                                                 *)
(***************************************************************************)
EXTENDS Integers, Sequences, SequencesExt

CONSTANTS NLimbs, LimbBits, N

h    == NLimbs \div 2
Bits == NLimbs * LimbBits
Wrap(x) == x % 2^LimbBits           \* a word
Carry(x) == x \div 2^LimbBits       \* what a word does not hold

Places     == 1 .. NLimbs
Limb(x, i) == (x \div 2^(LimbBits * i)) % 2^LimbBits
OfInt(x)   == [i \in Places |-> Limb(x, i-1)]

N_(i)   == Limb(N, i)
N_C(i)  == Limb(2^Bits - N, i)          \* i \in 0 .. h; N_C(h) = 1
N_H(i)  == Limb(N \div 2, i)

Shape ==
    /\ NLimbs \in Nat /\ NLimbs >= 4 /\ NLimbs % 2 = 0
    /\ LimbBits \in Nat \ {0}
    /\ N % 2 = 1
    /\ 2^Bits - N \in 2^(h * LimbBits) .. 2^(h * LimbBits + 1) - 1

Indices    == [i \in Places |-> i]
Link(d, t) == [t |-> Carry(t), d |-> Append(d, Wrap(t))]

\* A chain of additions: the limbs of the sum of limbs each as large as it
\* likes, with the last carry.
Chain(limbs) == FoldLeft(LAMBDA s, x : Link(s.d, s.t + x), [t |-> 0, d |-> <<>>], limbs)

-----------------------------------------------------------------------------
(* Comparisons *)

set_int(v) == [i \in Places |-> IF i = 1 THEN v ELSE 0]

\* Mutant: the half of the order is taken for the order's limbs.
check_overflow_TopOnly(a) == \A i \in h+1 .. NLimbs : a[i] >= N_(i-1)

\* Both comparisons are in constant time: yes and no are sticky, and the
\* highest limb that differs decides.  below[i] and above[i] compare limb i.
Sticky(s, no, above) == [no |-> no, yes |-> s.yes \/ (~no /\ above)]
Decide(below, above) ==
    FoldRight(LAMBDA i, s : Sticky(s, s.no \/ (below[i] /\ ~s.yes), above[i]),
              Indices, [yes |-> FALSE, no |-> FALSE]).yes

\* secp256k1_scalar_check_overflow.  The limbs above h+1 cannot exceed those
\* of the order, which have all bits set.
check_overflow(a) ==
    Decide([i \in Places |-> i > 1 /\ a[i] < N_(i-1)],
           [i \in Places |-> IF i = 1 THEN a[i] >= N_(0) ELSE i <= h+1 /\ a[i] > N_(i-1)])

Verify(a) == ~check_overflow(a)

is_high(a) ==
    Decide([i \in Places |-> i > 1 /\ a[i] < N_H(i-1)],
           [i \in Places |-> (i <= h \/ i = NLimbs) /\ a[i] > N_H(i-1)])

is_zero(a) == \A i \in 1 .. NLimbs : a[i] = 0
is_one(a)  == a[1] = 1 /\ \A i \in 2 .. NLimbs : a[i] = 0
is_even(a) == a[1] % 2 = 0
eq(a, b)   == \A i \in 1 .. NLimbs : a[i] = b[i]

-----------------------------------------------------------------------------
(* Sums *)

\* secp256k1_scalar_reduce: overflow * (2^Bits - N) is added, modulo 2^Bits.
Result(d, ok) == [r |-> d, ok |-> ok /\ Verify(d)]
reduce(r, overflow) ==
    Result(Chain([i \in Places |-> r[i] + overflow * N_C(i-1)]).d, overflow <= 1)

Overflow(a) == IF check_overflow(a) THEN 1 ELSE 0

WithOverflow(res, overflow, ok) ==
    [r |-> res.r, overflow |-> overflow, ok |-> ok /\ res.ok]
ReduceBy(d, overflow) == WithOverflow(reduce(d, overflow), overflow, overflow \in {0, 1})
ReduceSum(s)          == ReduceBy(s.d, s.t + Overflow(s.d))

\* secp256k1_scalar_add
add(a, b) == ReduceSum(Chain([i \in Places |-> a[i] + b[i]]))

\* secp256k1_scalar_cadd_bit: a flag of 0 moves the bit out of the number.
NoCarry(s) == Result(s.d, s.t = 0)
AddBitAt(r, at) ==
    NoCarry(Chain([i \in Places |->
        r[i] + (IF at \div LimbBits = i-1 THEN 2^(at % LimbBits) ELSE 0)]))
cadd_bit(r, bit, flag) == AddBitAt(r, bit + (1 - flag) * Bits)

Not(x) == 2^LimbBits - 1 - x

negate(a) ==
    IF is_zero(a) THEN a
    ELSE Chain([i \in Places |-> Not(a[i]) + N_(i-1) + (IF i = 1 THEN 1 ELSE 0)]).d

\* secp256k1_scalar_cond_negate and the factor it returns
cond_negate(r, flag) ==
    [r |-> IF is_zero(r) THEN r
           ELSE Chain([i \in Places |-> (IF flag = 1 THEN Not(r[i]) ELSE r[i])
                                       + flag * (N_(i-1) + (IF i = 1 THEN 1 ELSE 0))]).d,
     factor |-> 1 - 2 * flag]

\* Limb i of a >> 1.
HalfLimb(a, i) == a[i] \div 2 + (IF i < NLimbs THEN (a[i+1] % 2) * 2^(LimbBits-1) ELSE 0)

\* secp256k1_scalar_half: a >> 1, and N // 2 + 1 more when a is odd.
half(a) ==
    NoCarry(Chain([i \in Places |->
        HalfLimb(a, i) + (a[1] % 2) * (N_H(i-1) + (IF i = 1 THEN 1 ELSE 0))]))

cmov(r, a, flag) == IF flag = 1 THEN a ELSE r

-----------------------------------------------------------------------------
(* Bits and bytes.  A byte has ByteBits bits here. *)

\* secp256k1_scalar_get_bits_limb32 and _get_bits_var: ok says that the
\* limbs that are read exist.
LowBits(a, limb, shift) == a[limb + 1] \div 2^shift
HighBits(a, limb, shift) == Wrap(a[limb + 2] * 2^(LimbBits - shift))

get_bits_var(a, offset, count) ==
    IF (offset + count - 1) \div LimbBits = offset \div LimbBits
    THEN [bits |-> LowBits(a, offset \div LimbBits, offset % LimbBits) % 2^count, ok |-> TRUE]
    ELSE [bits |-> (LowBits(a, offset \div LimbBits, offset % LimbBits)
                    + HighBits(a, offset \div LimbBits, offset % LimbBits)) % 2^count,
          ok   |-> offset \div LimbBits + 1 < NLimbs /\ offset % LimbBits > 0]

BytesPerLimb(ByteBits) == LimbBits \div ByteBits

\* b32 is big-endian: byte 1 is the highest.
ReadBE(b32, from, to, ByteBits) ==
    FoldLeft(LAMBDA x, byte : x * 2^ByteBits + byte, 0, SubSeq(b32, from, to))
Read(b32, ByteBits, per) ==
    [i \in Places |-> ReadBE(b32, (NLimbs - i) * per + 1, (NLimbs - i + 1) * per, ByteBits)]
Reduced(r) == ReduceBy(r, Overflow(r))
set_b32(b32, ByteBits) == Reduced(Read(b32, ByteBits, BytesPerLimb(ByteBits)))

WriteBE(a, ByteBits, per) ==
    [j \in 1 .. NLimbs * per |->
        (a[NLimbs - ((j-1) \div per)] \div 2^(ByteBits * (per - 1 - ((j-1) % per)))) % 2^ByteBits]
get_b32(a, ByteBits) == WriteBE(a, ByteBits, BytesPerLimb(ByteBits))

\* secp256k1_scalar_split_128
split_128(k) ==
    [r1 |-> [i \in Places |-> IF i <= h THEN k[i] ELSE 0],
     r2 |-> [i \in Places |-> IF i <= h THEN k[i + h] ELSE 0]]

-----------------------------------------------------------------------------
(* Products: an accumulator of three words, and the limbs extracted so far.*)
(* A check that fails ends the program: nothing is added from then on.     *)

Acc(c0) == [c0 |-> c0, c1 |-> 0, c2 |-> 0, out |-> <<>>, ok |-> TRUE]

\* a*b is tl + th words, and th takes the carry of c0 without overflow.
High(acc, tl, prod) == Carry(prod) + (IF Wrap(acc.c0 + tl) < tl THEN 1 ELSE 0)
th(acc, a, b)       == High(acc, Wrap(a * b), a * b)

AddHigh(acc, c0, t, c1) ==
    [acc EXCEPT !.c0 = c0, !.c1 = c1, !.c2 = Wrap(@ + (IF c1 < t THEN 1 ELSE 0)),
                !.ok = @ /\ (c1 >= t \/ Wrap(acc.c2 + 1) # 0)]
AddHighFast(acc, c0, t, c1) == [acc EXCEPT !.c0 = c0, !.c1 = c1, !.ok = @ /\ c1 >= t]

Sum1(acc, t)            == Wrap(acc.c1 + t)
Muladd2(acc, c0, t)     == AddHigh(acc, c0, t, Sum1(acc, t))
Muladd2Fast(acc, c0, t) == AddHighFast(acc, c0, t, Sum1(acc, t))
muladd(acc, a, b)       ==
    IF acc.ok THEN Muladd2(acc, Wrap(acc.c0 + a * b), th(acc, a, b)) ELSE acc
muladd_fast(acc, a, b)  == Muladd2Fast(acc, Wrap(acc.c0 + a * b), th(acc, a, b))

Sumadd2(acc, c0, over, c1) ==
    [acc EXCEPT !.c0 = c0, !.c1 = c1, !.c2 = Wrap(@ + (IF c1 < over THEN 1 ELSE 0))]
Sumadd1(acc, c0, over) == Sumadd2(acc, c0, over, Sum1(acc, over))
sumadd(acc, a)         == Sumadd1(acc, Wrap(acc.c0 + a), Carry(acc.c0 + a))

Sumadd2Fast(acc, c0, a, c1) ==
    [acc EXCEPT !.c0 = c0, !.c1 = c1, !.ok = @ /\ (c1 # 0 \/ c0 >= a) /\ acc.c2 = 0]
sumadd_fast(acc, a) == Sumadd2Fast(acc, Wrap(acc.c0 + a), a, Sum1(acc, Carry(acc.c0 + a)))

extract(acc) ==
    [acc EXCEPT !.out = Append(@, acc.c0), !.c0 = acc.c1, !.c1 = acc.c2, !.c2 = 0]

extract_fast(acc) ==
    [acc EXCEPT !.out = Append(@, acc.c0), !.c0 = acc.c1, !.c1 = 0, !.ok = @ /\ acc.c2 = 0]

Larger(a, b) == IF a > b THEN a ELSE b
UpTo(a, b) == [i \in 1 .. (IF b < a THEN 0 ELSE b - a + 1) |-> a + i - 1]

\* Column k of a product: a[i] * b[k-i], for every i.
AddProducts(acc, a, b, k, from, to) ==
    FoldLeft(LAMBDA c, i : muladd(c, a[i+1], b[k-i+1]), acc, UpTo(from, to))
MulColumn(acc, a, b, k) ==
    IF acc.ok
    THEN extract(AddProducts(acc, a, b, k, Larger(0, k - NLimbs + 1), k - Larger(0, k - NLimbs + 1)))
    ELSE acc

\* secp256k1_scalar_mul_512
Product(c) == [l |-> Append(c.out, c.c0), ok |-> c.ok /\ c.c1 = 0]
mul_512(a, b) ==
    Product(extract_fast(muladd_fast(
        FoldLeft(LAMBDA acc, k : MulColumn(acc, a, b, k),
                 extract_fast(muladd_fast(Acc(0), a[1], b[1])), UpTo(1, 2*NLimbs - 3)),
        a[NLimbs], b[NLimbs])))

\* The limbs of low + high * N_C, where high has limbs 0 .. top: column k is
\* low(k), the products high(k-i) * N_C(i), and high(k-h), as N_C(h) is 1.
AddFolded(acc, high, k, top) ==
    FoldLeft(LAMBDA c, i : muladd(c, high[k-i+1], N_C(i)), acc,
             UpTo(Larger(0, k - top), IF k < h THEN k ELSE h - 1))
AddLast(acc, high, k) == IF k >= h THEN sumadd(acc, high[k-h+1]) ELSE acc
FoldColumn(acc, low, high, k, top) ==
    IF ~acc.ok THEN acc
    ELSE extract(AddLast(AddFolded(IF k < NLimbs THEN sumadd(acc, low[k+1]) ELSE acc, high, k, top),
                         high, k))

\* Columns 0 and 1, and all up to column last.
FoldFirst(low, high) ==
    extract(muladd(muladd(
        sumadd_fast(extract_fast(muladd_fast(Acc(low[1]), high[1], N_C(0))), low[2]),
        high[2], N_C(0)), high[1], N_C(1)))
FoldColumns(low, high, top, last) ==
    FoldLeft(LAMBDA acc, k : FoldColumn(acc, low, high, k, top), FoldFirst(low, high), UpTo(2, last))

\* secp256k1_scalar_reduce_512: 512 bits to 385, to 258, to 256.
Limbs385(c) == [m |-> Append(c.out, c.c0), ok |-> c.ok /\ c.c0 <= 1]
Fold385(l, n) ==
    Limbs385(extract_fast(sumadd_fast(FoldColumns(l, n, NLimbs - 1, NLimbs + h - 2), n[NLimbs])))

Limbs258(c, top, ok) ==
    [p |-> Append(c.out, Wrap(c.c0 + top)), ok |-> ok /\ c.ok /\ c.c0 + top <= 2]
Fold258(m, n, ok) ==
    Limbs258(extract_fast(sumadd_fast(
                 muladd_fast(sumadd_fast(FoldColumns(m, n, h, NLimbs - 2), m[NLimbs]),
                             n[h + 1], N_C(h - 1)),
                 n[h])),
             n[h + 1], ok)

Checked(res, ok) == [r |-> res.r, ok |-> ok /\ res.ok]
Fold256(p) == Checked(ReduceSum(Chain([i \in Places |-> p.p[i] + p.p[NLimbs + 1] * N_C(i-1)])), p.ok)
Reduce385(m) == Fold256(Fold258(m.m, SubSeq(m.m, NLimbs + 1, NLimbs + h + 1), m.ok))
reduce_512(l) == Reduce385(Fold385(l, SubSeq(l, NLimbs + 1, 2 * NLimbs)))

ReduceProduct(l) == Checked(reduce_512(l.l), l.ok)
mul(a, b)        == ReduceProduct(mul_512(a, b))

\* secp256k1_scalar_shift_limb: lo and hi are the shifts from which the limb
\* is gone, or needs nothing of the limb above.
ShiftLimb(l, shift, at, low, lo) ==
    (IF shift < lo THEN l[at + 1] \div 2^low ELSE 0)
    + (IF shift < lo - LimbBits /\ low # 0 THEN Wrap(l[at + 2] * 2^(LimbBits - low)) ELSE 0)
shift_limb(l, shift, j) ==
    ShiftLimb(l, shift, j + (shift \div LimbBits), shift % LimbBits, (2 * NLimbs - j) * LimbBits)

BitOf(l, i) == (l[i \div LimbBits + 1] \div 2^(i % LimbBits)) % 2

RoundedShift(l, shift) ==
    Checked(cadd_bit([i \in Places |-> shift_limb(l.l, shift, i-1)], 0, BitOf(l.l, shift - 1)),
            l.ok)
mul_shift_var(a, b, shift) == RoundedShift(mul_512(a, b), shift)
=============================================================================
