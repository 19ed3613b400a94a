----------------------------- MODULE ScalarLow -----------------------------
(***************************************************************************)
(* scalar_low_impl.h: scalars of the small groups that the exhaustive      *)
(* tests run in, each a single word.  The names of the code get the suffix *)
(* _low.  A sum or product that leaves the word is cut, as the word is.    *)
(***************************************************************************)
EXTENDS Words

CONSTANTS
    NLow, LambdaLow,   \* EXHAUSTIVE_TEST_ORDER and its EXHAUSTIVE_TEST_LAMBDA
    BitsLow, ByteLow,  \* bits of a word and of a byte: 32 and 8 in the code
    BytesLow           \* bytes of set_b32: 32, and more than a word has

UL(x) == Low(x, BitsLow)

ASSUME ScalarLowAssumption ==
    /\ BitsLow \in Nat /\ ByteLow \in Nat \ {0} /\ BytesLow \in Nat /\ BytesLow * ByteLow > BitsLow
    /\ NLow \in Nat /\ NLow > 1 /\ NLow * 2^ByteLow <= 2^BitsLow /\ NLow * NLow < 2^BitsLow
    /\ \A d \in 2 .. NLow-1 : NLow % d # 0   \* a prime, as the orders of the tests are
    /\ LambdaLow \in 1 .. NLow-1 /\ (LambdaLow * LambdaLow + LambdaLow + 1) % NLow = 0

\* Arithmetic: what the proofs use of powers, which the provers do not know.
ASSUME LowPowersOfTwo ==
    LET Exponents == 0 .. BytesLow * ByteLow
    IN  /\ 2^0 = 1 /\ 2^1 = 2
        /\ \A i \in Exponents : 2^i \in Nat \ {0}
        /\ \A i, j \in Exponents : i + j \in Exponents => 2^(i + j) = 2^i * 2^j

-----------------------------------------------------------------------------
is_even_low(a)        == ~Odd(a)
set_int_low(v)        == v % NLow
check_overflow_low(a) == a >= NLow
is_zero_low(a)        == a = 0
is_one_low(a)         == a = 1
is_high_low(a)        == a > NLow \div 2
eq_low(a, b)          == a = b

\* Both functions that read bits: those above the word are 0.
get_bits_low(a, offset, count) == IF offset < BitsLow THEN Low(Shr(a, offset), count) ELSE 0

WithLess(res, b) == [r |-> res, overflow |-> Bool(res < b)]
add_low(a, b)    == WithLess(UL(a + b) % NLow, b)
mul_low(a, b)    == UL(a * b) % NLow

cadd_bit_low(r, bit, flag) ==
    [r  |-> IF flag = 1 /\ bit < BitsLow THEN UL(r + 2^bit) ELSE r,
     ok |-> bit < BitsLow /\ 2^bit - 1 <= 2^BitsLow - 1 - NLow]

TakeByte(s, r)     == [r |-> r % NLow, overflow |-> IF r >= NLow THEN 1 ELSE s.overflow]
set_b32_low(bytes) ==
    FoldLeft(LAMBDA s, b : TakeByte(s, UL(s.r * 2^ByteLow + b)), [r |-> 0, overflow |-> 0], bytes)
get_b32_low(a) ==
    Zeros(BytesLow - BitsLow \div ByteLow) \o Reverse(Limbs(a, ByteLow, BitsLow \div ByteLow))

negate_low(a)            == IF a = 0 THEN 0 ELSE NLow - a
cond_negate_low(r, flag) ==
    [r |-> IF flag = 1 THEN negate_low(r) ELSE r, factor |-> IF flag = 1 THEN -1 ELSE 1]
split_128_low(a)         == [r1 |-> a, r2 |-> 0]
cmov_low(r, a, flag)     == IF flag = 1 THEN a ELSE r
half_low(a)              == UL(a + (IF Odd(a) THEN NLow ELSE 0)) \div 2

\* The first i with i*x = 1, or 0.
inverse_low(x) ==
    LET found == {i \in 0 .. NLow-1 : UL(i * x) % NLow = 1}
    IN  IF found = {} THEN 0 ELSE Min(found)

\* secp256k1_scalar_split_lambda of scalar_impl.h, for these groups
SplitBy(k, r2)      == [r1 |-> UL(k + (NLow - r2) * LambdaLow) % NLow, r2 |-> r2]
split_lambda_low(k) == SplitBy(k, (k + 5) % NLow)

-----------------------------------------------------------------------------
(***************************************************************************)
(* A register r, the residue v that it should be, whether all checks held, *)
(* and what was and what should have been returned.                        *)
(***************************************************************************)
LowReg(r, v, ok, ret, want) ==
    [unit |-> "scalar_low", r |-> r, v |-> v, ok |-> ok, ret |-> ret, want |-> want]

LowInit == st = LowReg(0, 0, TRUE, 0, 0)

LowSet(r, v)             == st' = LowReg(r, v, TRUE, 0, 0)
LowReturns(res, v, want) == st' = LowReg(res.r, v, TRUE, res.overflow, want)
IsLow                    == st.unit = "scalar_low"

LowSetB32 == IsLow /\ st.v = 0 /\ \E x \in 0 .. 2^(BytesLow * ByteLow) - 1 :
    LowReturns(set_b32_low(Reverse(Limbs(x, ByteLow, BytesLow))), x % NLow, Bool(x >= NLow))
LowSetInt == IsLow /\ st.v = 0 /\ \E x \in 0 .. 2^BitsLow - 1 : LowSet(set_int_low(x), x % NLow)
LowAdd    == IsLow /\ \E b \in 0 .. NLow-1 :
    LowReturns(add_low(st.r, b), (st.v + b) % NLow, (st.v + b) \div NLow)
LowMul    == IsLow /\ \E b \in 0 .. NLow-1 : LowSet(mul_low(st.r, b), (st.v * b) % NLow)
LowNegate == IsLow /\ LowSet(negate_low(st.r), (-st.v) % NLow)
LowCondNegate == IsLow /\ \E flag \in {0, 1} :
    LET res == cond_negate_low(st.r, flag)
    IN  st' = LowReg(res.r, (res.factor * st.v) % NLow, TRUE, res.factor, 1 - 2 * flag)
LowHalf   == IsLow /\ LowSet(half_low(st.r), IF Odd(st.v) THEN (st.v + NLow) \div 2 ELSE st.v \div 2)
LowCmov   == IsLow /\ \E b \in {0, NLow-1}, flag \in {0, 1} :
    LowSet(cmov_low(st.r, b, flag), IF flag = 1 THEN b ELSE st.v)

\* "The result is not allowed to overflow" (scalar.h).
LowCaddBit == IsLow /\ \E bit \in 0 .. BitsLow-1, flag \in {0, 1} :
    /\ st.v + flag * 2^bit < NLow /\ NLow + 2^bit <= 2^BitsLow
    /\ LET res == cadd_bit_low(st.r, bit, flag)
       IN  st' = LowReg(res.r, st.v + flag * 2^bit, res.ok, 0, 0)

\* A second inversion gives the number back.
LowInverse == IsLow /\ st.v # 0 /\
    st' = LowReg(inverse_low(inverse_low(st.r)), st.v, inverse_low(st.r) # 0, 0, 0)

LowNext ==
    \/ LowSetB32 \/ LowSetInt \/ LowAdd \/ LowMul \/ LowNegate \/ LowCondNegate
    \/ LowHalf \/ LowCmov \/ LowCaddBit \/ LowInverse

LowSpec == LowInit /\ [][LowNext]_st

\* The word is the reduced residue, what the functions that look at it say is
\* true of it, and both splittings add up to it.
LowSound ==
    /\ st.r = st.v /\ st.v < NLow /\ st.ok /\ st.ret = st.want
    /\ ~check_overflow_low(st.r)
    /\ is_high_low(st.r) = (2 * st.v > NLow)
    /\ set_b32_low(get_b32_low(st.r)) = [r |-> st.v, overflow |-> 0]
    /\ split_128_low(st.r).r1 + split_128_low(st.r).r2 * 2^(BitsLow \div 2) = st.v
    /\ LET s == split_lambda_low(st.r) IN (s.r1 + s.r2 * LambdaLow) % NLow = st.v
    /\ st.v # 0 => mul_low(inverse_low(st.r), st.r) = 1
    /\ \A count \in 1 .. BitsLow, offset \in 0 .. BitsLow + 1 :
           get_bits_low(st.r, offset, count) = Low(Shr(st.v, offset), count)
    /\ is_even_low(st.r) = ~Odd(st.v) /\ is_zero_low(st.r) = (st.v = 0)
    /\ is_one_low(st.r) = (st.v = 1) /\ eq_low(st.r, 1) = (st.v = 1)
=============================================================================
