------------------------------ MODULE Scalars ------------------------------
(***************************************************************************)
(* The two representations of scalars, four and eight limbs, as registers  *)
(* that operations are applied to, with the residue that the register      *)
(* should hold; beside them those of a single word (ScalarLow).            *)
(***************************************************************************)
EXTENDS ScalarLow

CONSTANTS
    LimbBits4, N4,       \* width of a limb and order, for scalar_4x64_impl.h
    LimbBits8, N8,       \* and for scalar_8x32_impl.h
    Operands4,           \* the scalars that operations take
    Operands8

S4 == INSTANCE ScalarLimbs WITH NLimbs <- 4, LimbBits <- LimbBits4, N <- N4
S8 == INSTANCE ScalarLimbs WITH NLimbs <- 8, LimbBits <- LimbBits8, N <- N8

ASSUME ScalarsAssumption ==
    S4!Shape /\ S8!Shape /\ Operands4 \subseteq 0 .. N4-1 /\ Operands8 \subseteq 0 .. N8-1

-----------------------------------------------------------------------------
(* scalar_8x32_impl.h: what it has in eight limbs *)
set_int_8x32(v)              == S8!set_int(v)
check_overflow_8x32(a)       == S8!check_overflow(a)
reduce_8x32(r, overflow)     == S8!reduce(r, overflow)
is_zero_8x32(a)              == S8!is_zero(a)
is_one_8x32(a)               == S8!is_one(a)
is_even_8x32(a)              == S8!is_even(a)
eq_8x32(a, b)                == S8!eq(a, b)
cmov_8x32(r, a, flag)        == S8!cmov(r, a, flag)
add_8x32(a, b)               == S8!add(a, b)
cadd_bit_8x32(r, bit, flag)  == S8!cadd_bit(r, bit, flag)
set_b32_8x32(b32)            == S8!set_b32(b32, 1)
get_b32_8x32(a)              == S8!get_b32(a, 1)
negate_8x32(a)               == S8!negate(a)
half_8x32(a)                 == S8!half(a)
is_high_8x32(a)              == S8!is_high(a)
cond_negate_8x32(r, flag)    == S8!cond_negate(r, flag)
get_bits_var_8x32(a, off, n) == S8!get_bits_var(a, off, n)
mul_512_8x32(a, b)           == S8!mul_512(a, b)
reduce_512_8x32(l)           == S8!reduce_512(l)
Reduced8(l)                  == S8!Checked(reduce_512_8x32(l.l), l.ok)
mul_8x32(a, b)               == Reduced8(mul_512_8x32(a, b))
split_128_8x32(k)            == S8!split_128(k)
mul_shift_var_8x32(a, b, shift) == S8!mul_shift_var(a, b, shift)

-----------------------------------------------------------------------------
ScalarN(rep)     == IF rep = 4 THEN N4 ELSE N8
LimbBits(rep)    == IF rep = 4 THEN LimbBits4 ELSE LimbBits8
ScalarBits(rep)  == rep * LimbBits(rep)
Operands(rep)    == IF rep = 4 THEN Operands4 ELSE Operands8
ScalarOf(rep, x) == Limbs(x, LimbBits(rep), rep)

\* v is the residue that r should be, ok whether all checks held, ret what
\* the function returned and want what it should have returned.
ScalarReg(rep, r, v, ok, ret, want) ==
    [unit |-> "scalar", rep |-> rep, r |-> r, v |-> v, ok |-> ok, ret |-> ret, want |-> want]

ScalarInit ==
    \/ \E rep \in {4, 8} : \E x \in Operands(rep) :
           st = ScalarReg(rep, ScalarOf(rep, x), x, TRUE, 0, 0)
    \/ LowInit

\* A register is used again when it holds one of the operands.
IsScalar(rep) == st.unit = "scalar" /\ st.rep = rep /\ st.v \in Operands(rep)
Set(rep, res, v)             == st' = ScalarReg(rep, res.r, v, res.ok, 0, 0)
SetAnd(rep, res, v, ret, want) == st' = ScalarReg(rep, res.r, v, res.ok, ret, want)

ScalarAdd == \E rep \in {4, 8} : IsScalar(rep) /\ \E b \in Operands(rep) :
    LET res == IF rep = 4 THEN S4!add(st.r, ScalarOf(4, b)) ELSE add_8x32(st.r, ScalarOf(8, b))
    IN  SetAnd(rep, res, (st.v + b) % ScalarN(rep),
               res.overflow, (st.v + b) \div ScalarN(rep))

ScalarMul == \E rep \in {4, 8} : IsScalar(rep) /\ \E b \in Operands(rep) :
    Set(rep,
        IF rep = 4 THEN S4!mul(st.r, ScalarOf(4, b)) ELSE mul_8x32(st.r, ScalarOf(8, b)),
        MulMod(st.v, b, ScalarN(rep)))

ScalarNegate == \E rep \in {4, 8} : IsScalar(rep) /\
    LET r == IF rep = 4 THEN S4!negate(st.r) ELSE negate_8x32(st.r)
    IN  Set(rep, [r |-> r, ok |-> TRUE], (-st.v) % ScalarN(rep))

ScalarCondNegate == \E rep \in {4, 8} : IsScalar(rep) /\ \E flag \in {0, 1} :
    LET res == IF rep = 4 THEN S4!cond_negate(st.r, flag) ELSE cond_negate_8x32(st.r, flag)
        factor == IF flag = 1 THEN -1 ELSE 1
    IN  SetAnd(rep, [r |-> res.r, ok |-> TRUE], (factor * st.v) % ScalarN(rep), res.factor, factor)

\* The half of v is h with 2h = v.
ScalarHalf == \E rep \in {4, 8} : IsScalar(rep) /\
    Set(rep, IF rep = 4 THEN S4!half(st.r) ELSE half_8x32(st.r),
        IF Odd(st.v) THEN (st.v + ScalarN(rep)) \div 2 ELSE st.v \div 2)

\* "The result is not allowed to overflow" (scalar.h).
ScalarCaddBit == \E rep \in {4, 8} : IsScalar(rep) /\
    \E bit \in 0 .. ScalarBits(rep) - 1, flag \in {0, 1} :
        /\ st.v + flag * 2^bit < ScalarN(rep)
        /\ Set(rep, IF rep = 4 THEN S4!cadd_bit(st.r, bit, flag) ELSE cadd_bit_8x32(st.r, bit, flag),
               st.v + flag * 2^bit)

\* The bytes of any number: of the operands, of those numbers that a word
\* more makes of them, and of the largest ones.  A byte has one bit.
Inputs32(rep) ==
    Operands(rep) \cup {x + ScalarN(rep) : x \in {y \in Operands(rep) :
                                               y < 2^ScalarBits(rep) - ScalarN(rep)}}
Bytes(rep, x) == Reverse(Limbs(x, 1, ScalarBits(rep)))

ScalarSetB32 == \E rep \in {4, 8} : IsScalar(rep) /\ st.v = 0 /\ \E x \in Inputs32(rep) :
    LET res == IF rep = 4 THEN S4!set_b32(Bytes(4, x), 1) ELSE set_b32_8x32(Bytes(8, x))
    IN  SetAnd(rep, res, x % ScalarN(rep), res.overflow, x \div ScalarN(rep))

\* Rounded division of the product by 2^shift.
Rounded(p, bits, shift) ==
    IF shift = bits THEN p.hi + p.lo \div 2^(bits - 1)
                    ELSE (p.hi + 2^(shift - bits - 1)) \div 2^(shift - bits)

ScalarMulShift == \E rep \in {4, 8} : IsScalar(rep) /\ \E b \in Operands(rep) :
    \E shift \in ScalarBits(rep) .. 2 * ScalarBits(rep) - 1 :
        /\ shift % 3 = st.v % 3
        /\ Set(rep,
               IF rep = 4 THEN S4!mul_shift_var(st.r, ScalarOf(4, b), shift)
                          ELSE mul_shift_var_8x32(st.r, ScalarOf(8, b), shift),
               Rounded(ProductHalves(st.v, b, ScalarBits(rep)), ScalarBits(rep), shift))

ScalarSetInt == \E rep \in {4, 8} : IsScalar(rep) /\ st.v = 0 /\ \E v \in {0, 1, 2^LimbBits(rep) - 1} :
    Set(rep, [r |-> Tuple(IF rep = 4 THEN S4!set_int(v) ELSE set_int_8x32(v)), ok |-> TRUE], v)

ScalarCmov == \E rep \in {4, 8} : IsScalar(rep) /\ \E b \in {1, ScalarN(rep) - 1}, flag \in {0, 1} :
    Set(rep, [r  |-> IF rep = 4 THEN S4!cmov(st.r, ScalarOf(4, b), flag)
                                ELSE cmov_8x32(st.r, ScalarOf(8, b), flag),
              ok |-> TRUE], IF flag = 1 THEN b ELSE st.v)

ScalarNext ==
    \/ ScalarAdd \/ ScalarMul \/ ScalarNegate \/ ScalarCondNegate \/ ScalarHalf
    \/ ScalarCaddBit \/ ScalarSetB32 \/ ScalarMulShift \/ ScalarSetInt \/ ScalarCmov
    \/ LowNext

(***************************************************************************)
(* Whatever is computed, limb by limb, is the residue of arithmetic modulo *)
(* the order: the limbs are a reduced number, every VERIFY_CHECK on the    *)
(* way (accumulators that may not overflow, single-bit overflows, at most  *)
(* two in the last fold) holds, and functions that look at a scalar say    *)
(* what is true of its number.                                             *)
(***************************************************************************)
ReadsSound(rep, r, v) ==
    LET half == ScalarBits(rep) \div 2
        split == IF rep = 4 THEN S4!split_128(r) ELSE split_128_8x32(r)
    IN  /\ v = Value(r, LimbBits(rep))
        /\ (IF rep = 4 THEN S4!is_high(r) ELSE is_high_8x32(r)) = (v > ScalarN(rep) \div 2)
        /\ ~(IF rep = 4 THEN S4!check_overflow(r) ELSE check_overflow_8x32(r))
        /\ (IF rep = 4 THEN S4!is_zero(r) ELSE is_zero_8x32(r)) = (v = 0)
        /\ (IF rep = 4 THEN S4!is_one(r) ELSE is_one_8x32(r)) = (v = 1)
        /\ (IF rep = 4 THEN S4!is_even(r) ELSE is_even_8x32(r)) = ~Odd(v)
        /\ (IF rep = 4 THEN S4!eq(r, ScalarOf(4, 1)) ELSE eq_8x32(r, ScalarOf(8, 1))) = (v = 1)
        /\ (IF rep = 4 THEN S4!reduce(r, 0) ELSE reduce_8x32(r, 0)) = [r |-> r, ok |-> TRUE]
        /\ (IF rep = 4 THEN S4!get_b32(r, 1) ELSE get_b32_8x32(r)) = Bytes(rep, v)
        /\ Value(split.r1, LimbBits(rep)) = Low(v, half)
        /\ Value(split.r2, LimbBits(rep)) = Shr(v, half)
        /\ \A n \in 1 .. LimbBits(rep) : \A off \in 0 .. ScalarBits(rep) - n :
               LET b == IF rep = 4 THEN S4!get_bits_var(r, off, n) ELSE get_bits_var_8x32(r, off, n)
               IN  b.ok /\ b.bits = Low(Shr(v, off), n)

ScalarsAreResidues ==
    /\ st.unit = "scalar" =>
        /\ st.v < ScalarN(st.rep)
        /\ ReadsSound(st.rep, st.r, st.v)
        /\ st.ok
        /\ st.ret = st.want
    /\ st.unit = "scalar_low" => LowSound
=============================================================================
