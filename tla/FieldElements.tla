--------------------------- MODULE FieldElements ---------------------------
(***************************************************************************)
(* The two representations of field elements, five and ten limbs, under    *)
(* the contract of field_impl.h: a register of limbs with its magnitude    *)
(* and whether it is normalized, and the number that it should stand for.  *)
(* That number is too long for TLC and is known by its remainders modulo   *)
(* Factors, whose product is P: the code of the limbs needs no prime P.    *)
(***************************************************************************)
EXTENDS Words

CONSTANTS
    w5, t5, C5, Word5, Storage5, Factors5,            \* field_5x52: limbs, C, words
    w10, t10, C10, C10High, Word10, Storage10, Factors10,
    MaxMag, MulMag,                                   \* 32 and 8 in the code
    MaxFeSteps                                        \* operations on a register

F5  == INSTANCE FieldLimbs WITH n <- 5, w <- w5, t <- t5, C0 <- C5, C1 <- 0, WordBits <- Word5
F10 == INSTANCE FieldLimbs WITH n <- 10, w <- w10, t <- t10, C0 <- C10, C1 <- C10High,
                                WordBits <- Word10

\* The factors are factors: P is 0 modulo each.
ASSUME FieldElementsAssumption ==
    /\ F5!Shape /\ F10!Shape
    /\ \A i \in DOMAIN Factors5 : Rem([k \in 1 .. 5 |-> F5!P(k)], w5, Factors5[i]) = 0
    /\ \A i \in DOMAIN Factors10 : Rem([k \in 1 .. 10 |-> F10!P(k)], w10, Factors10[i]) = 0

-----------------------------------------------------------------------------
(* field_10x26_impl.h: what it has in ten limbs *)
verify_10x26(a, magnitude, normalized) == F10!verify(a, magnitude, normalized)
get_bounds_10x26(m)             == F10!get_bounds(m)
normalize_10x26(a)              == F10!normalize(a)
normalize_weak_10x26(a)         == F10!normalize_weak(a)
normalize_var_10x26(a)          == F10!normalize_var(a)
normalizes_to_zero_10x26(a)     == F10!normalizes_to_zero(a)
normalizes_to_zero_var_10x26(a) == F10!normalizes_to_zero_var(a)
set_int_10x26(a)                == F10!set_int(a)
is_zero_10x26(a)                == F10!is_zero(a)
is_odd_10x26(a)                 == F10!is_odd(a)
cmp_var_10x26(a, b)             == F10!cmp_var(a, b)
set_b32_mod_10x26(bytes)        == F10!set_b32_mod(bytes)
set_b32_limit_10x26(bytes)      == F10!set_b32_limit(bytes)
get_b32_10x26(a)                == F10!get_b32(a)
negate_10x26(a, m)              == F10!negate(a, m)
mul_int_10x26(a, k)             == F10!mul_int(a, k)
add_10x26(a, b)                 == F10!add(a, b)
add_int_10x26(a, k)             == F10!add_int(a, k)
mul_inner_10x26(a, b)           == F10!mul_inner_10(a, b)
sqr_inner_10x26(a)              == F10!sqr_inner_10(a)
cmov_10x26(r, a, flag)          == F10!cmov(r, a, flag)
half_10x26(a)                   == F10!half(a)
storage_cmov_10x26(r, a, flag)  == F10!storage_cmov(r, a, flag)
to_storage_10x26(a)             == F10!to_storage(a, Storage10, 8)
from_storage_10x26(a)           == F10!from_storage(a, Storage10)

-----------------------------------------------------------------------------
Factors(rep)   == IF rep = 5 THEN Factors5 ELSE Factors10
FeLimb(rep)    == IF rep = 5 THEN w5 ELSE w10
FeBits(rep)    == IF rep = 5 THEN F5!BitsOf ELSE F10!BitsOf
FeFull(rep, i) == IF rep = 5 THEN F5!Full(i) ELSE F10!Full(i)
FeP(rep, i)    == IF rep = 5 THEN F5!P(i) ELSE F10!P(i)

Remainders(rep, a) == Tuple([i \in DOMAIN Factors(rep) |-> Rem(a, FeLimb(rep), Factors(rep)[i])])
ModEach(rep, f(_)) == Tuple([i \in DOMAIN Factors(rep) |-> f(i) % Factors(rep)[i]])

\* Numbers at the borders: the lowest two limbs around those of P, the other
\* ones empty or full, and the highest.
Corner(rep, low, second, middle, top) ==
    [i \in 1 .. rep |-> IF i = 1 THEN FeP(rep, 1) + low
                        ELSE IF i = 2 THEN IF second = 2 THEN FeP(rep, 2) ELSE second * FeFull(rep, 2)
                        ELSE IF i = rep THEN top * FeFull(rep, rep) ELSE middle * FeFull(rep, i)]
Lows(rep)    == {-FeP(rep, 1), 1 - FeP(rep, 1), -1, 0, 1, FeFull(rep, 1) - FeP(rep, 1)}
Corners(rep) == {Corner(rep, low, second, middle, top) :
                     low \in Lows(rep), second \in 0 .. 2, middle \in {0, 1}, top \in {0, 1}}
BytesOf(rep, a) == Tuple(Reverse(Regroup(a, FeLimb(rep), 1, FeBits(rep))))

\* m and norm are magnitude and normalized.  ok: every check held; ret is
\* what a function returned, and want what it should have returned.  full:
\* from get_bounds, so its limbs are larger than operations make them.
FeReg(rep, r, v, m, norm, ok, ret, want, full, steps) ==
    [unit |-> "fe", rep |-> rep, r |-> r, v |-> v, m |-> m, norm |-> norm, ok |-> ok,
     ret |-> ret, want |-> want, full |-> full, steps |-> steps]

\* The largest limbs of a magnitude (31 at most, as in run_field_half), a
\* small integer, or bytes.
FeBounds(rep, m) ==
    LET r == IF rep = 5 THEN F5!get_bounds(m) ELSE get_bounds_10x26(m)
    IN  FeReg(rep, r, Remainders(rep, r), m, m = 0, TRUE, TRUE, TRUE, TRUE, 0)
FeSetInt(rep, a) ==
    LET r == IF rep = 5 THEN F5!set_int(a) ELSE set_int_10x26(a)
    IN  FeReg(rep, r, Remainders(rep, r), Bool(a # 0), TRUE, TRUE, TRUE, TRUE, FALSE, 0)
FeSetMod(rep, x) ==
    LET r == IF rep = 5 THEN F5!set_b32_mod(BytesOf(rep, x)) ELSE set_b32_mod_10x26(BytesOf(rep, x))
    IN  FeReg(rep, r, Remainders(rep, x), 1, FALSE, TRUE, TRUE, TRUE, FALSE, 0)

FeInit == \E rep \in {5, 10} :
    \/ \E m \in 0 .. MaxMag - 1 : st = FeBounds(rep, m)
    \/ \E a \in {0, 1, 127} : st = FeSetInt(rep, a)
    \/ \E x \in Corners(rep) : st = FeSetMod(rep, x)

IsFe(rep) == st.unit = "fe" /\ st.rep = rep /\ st.ok /\ st.steps < MaxFeSteps
Becomes(res, v, m, norm) ==
    st' = FeReg(st.rep, res.r, v, m, norm, res.ok, TRUE, TRUE, st.full, st.steps + 1)
Limbs5(r) == F5!Result(r, TRUE)

\* What the contract allows, except that no full element grows to the last
\* magnitude: in ten limbs its lowest one has no room for what normalization
\* adds.  No operation makes it: the largest limbs are those of a negation.
Grows(m) == m <= MaxMag /\ (st.full => m < MaxMag)

FeLargest(rep, m) ==
    LET res == IF rep = 5 THEN F5!negate(F5!set_int(0), m - 1) ELSE negate_10x26(set_int_10x26(0), m - 1)
    IN  FeReg(rep, res.r, Remainders(rep, res.r), m, FALSE, res.ok, TRUE, TRUE, FALSE, 0)

\* The second operand: an element with large limbs, or a number at the border.
Others(rep, large) ==
    large
    \cup {FeSetMod(rep, Corner(rep, low, 1, 1, 1)) : low \in {-1, 0, FeFull(rep, 1) - FeP(rep, 1)}}

-----------------------------------------------------------------------------
(* secp256k1_fe_..., of field_impl.h *)

FeNormalize == \E rep \in {5, 10} : IsFe(rep) /\
    \E res \in IF rep = 5 THEN {F5!normalize(st.r), F5!normalize_var(st.r)}
                          ELSE {normalize_10x26(st.r), normalize_var_10x26(st.r)} :
        Becomes(res, st.v, 1, TRUE)

FeNormalizeWeak == \E rep \in {5, 10} :
    /\ IsFe(rep)
    /\ Becomes(IF rep = 5 THEN F5!normalize_weak(st.r) ELSE normalize_weak_10x26(st.r),
               st.v, 1, st.norm)

FeNegate == \E rep \in {5, 10} : IsFe(rep) /\ \E m \in {st.m, MaxMag - 1} :
    /\ st.m <= m /\ Grows(m + 1)
    /\ Becomes(IF rep = 5 THEN F5!negate(st.r, m) ELSE negate_10x26(st.r, m),
               ModEach(rep, LAMBDA i : -st.v[i]), m + 1, FALSE)

FeMulInt == \E rep \in {5, 10} : IsFe(rep) /\ \E k \in {0, 2, 3, MaxMag} :
    /\ Grows(k * st.m)
    /\ Becomes(Limbs5(IF rep = 5 THEN F5!mul_int(st.r, k) ELSE mul_int_10x26(st.r, k)),
               ModEach(rep, LAMBDA i : k * st.v[i]), k * st.m, FALSE)

\* field.h: a is at most 0x7FFF, 15 of the 26 bits of a limb.
FeAddInt == \E rep \in {5, 10} : IsFe(rep) /\ \E k \in {1, 2^(FeLimb(rep) \div 2) - 1} :
    /\ Grows(st.m + 1)
    /\ Becomes(Limbs5(IF rep = 5 THEN F5!add_int(st.r, k) ELSE add_int_10x26(st.r, k)),
               ModEach(rep, LAMBDA i : st.v[i] + k), st.m + 1, FALSE)

FeAdd == \E rep \in {5, 10} : IsFe(rep) /\ \E b \in Others(rep, {FeLargest(rep, 1), FeLargest(rep, 3)}) \cup {st} :
    /\ Grows(st.m + b.m)
    /\ Becomes(Limbs5(IF rep = 5 THEN F5!add(st.r, b.r) ELSE add_10x26(st.r, b.r)),
               ModEach(rep, LAMBDA i : st.v[i] + b.v[i]), st.m + b.m, FALSE)

Product(rep, u, v) == Tuple([i \in DOMAIN u |-> MulMod(u[i], v[i], Factors(rep)[i])])

FeMul == \E rep \in {5, 10} : IsFe(rep) /\ st.m <= MulMag /\ \E b \in Others(rep, {FeBounds(rep, MulMag)}) :
    Becomes(IF rep = 5 THEN F5!mul_inner(st.r, b.r) ELSE mul_inner_10x26(st.r, b.r),
            Product(rep, st.v, b.v), 1, FALSE)

FeSqr == \E rep \in {5, 10} :
    /\ IsFe(rep) /\ st.m <= MulMag
    /\ Becomes(IF rep = 5 THEN F5!sqr_inner(st.r) ELSE sqr_inner_10x26(st.r),
               Product(rep, st.v, st.v), 1, FALSE)

\* The half of v is h with 2 * h = v, modulo odd factors.
Half(v, q) == IF Odd(v) THEN (v + q) \div 2 ELSE v \div 2
FeHalf == \E rep \in {5, 10} :
    /\ IsFe(rep) /\ st.m <= MaxMag - 1
    /\ Becomes(IF rep = 5 THEN F5!half(st.r) ELSE half_10x26(st.r),
               ModEach(rep, LAMBDA i : Half(st.v[i], Factors(rep)[i])), (st.m \div 2) + 1, FALSE)

FeCmov == \E rep \in {5, 10} : IsFe(rep) /\ \E b \in Others(rep, {FeLargest(rep, 3)}), flag \in {0, 1} :
    Becomes(Limbs5(IF rep = 5 THEN F5!cmov(st.r, b.r, flag) ELSE cmov_10x26(st.r, b.r, flag)),
            IF flag = 1 THEN b.v ELSE st.v, IF b.m > st.m THEN b.m ELSE st.m, st.norm /\ b.norm)

\* Through bytes, and through the packed form.
FeLimit == \E rep \in {5, 10} : IsFe(rep) /\ st.steps = 0 /\ st.m = 1 /\ ~st.norm /\
    (\A i \in 1 .. rep : st.r[i] <= FeFull(rep, i)) /\
    LET res == IF rep = 5 THEN F5!set_b32_limit(F5!get_b32(st.r))
                          ELSE set_b32_limit_10x26(get_b32_10x26(st.r))
    IN  st' = FeReg(rep, res.r, st.v, 1, res.ret, TRUE, res.ret,
                    (IF rep = 5 THEN F5!normalize(st.r) ELSE normalize_10x26(st.r)).r = st.r, FALSE, 1)

Stored(rep, r)   == IF rep = 5 THEN F5!to_storage(r, Storage5, 4) ELSE to_storage_10x26(r)
FeStorage == \E rep \in {5, 10} : IsFe(rep) /\ st.norm /\
    \E b \in {FeSetInt(rep, 1)}, flag \in {0, 1} :
        LET s == IF rep = 5 THEN F5!storage_cmov(Stored(5, st.r), Stored(5, b.r), flag)
                            ELSE storage_cmov_10x26(Stored(10, st.r), Stored(10, b.r), flag)
        IN  Becomes(Limbs5(IF rep = 5 THEN F5!from_storage(s, Storage5) ELSE from_storage_10x26(s)),
                    IF flag = 1 THEN b.v ELSE st.v, 1, TRUE)

FeNext ==
    \/ FeNormalize \/ FeNormalizeWeak \/ FeNegate \/ FeMulInt \/ FeAddInt \/ FeAdd \/ FeMul
    \/ FeSqr \/ FeHalf \/ FeCmov \/ FeLimit \/ FeStorage

(***************************************************************************)
(* After any legal operations, whatever they left in the spare bits: the   *)
(* limbs stay within what the magnitude allows, stand for the right number *)
(* modulo P (so that no word and no double word overflowed) and, when      *)
(* normalized, are below P; and both tests for zero, the lowest bit and    *)
(* the comparison tell the truth.                                          *)
(***************************************************************************)
IsZeroMod(rep, v) == \A i \in DOMAIN v : v[i] = 0
Verified(rep, r, m, norm) ==
    IF rep = 5 THEN F5!verify(r, m, norm) ELSE verify_10x26(r, m, norm)

\* Of two different normalized numbers, one is larger: it is the one whose
\* difference with the other borrows nothing from the highest limb.
Borrow(a, b, i) == FoldLeft(LAMBDA c, k : IF a[k] - b[k] - c < 0 THEN 1 ELSE 0, 0,
                            [k \in 1 .. i |-> k])
ReadsTrue(rep, r, v) ==
    LET zero == IsZeroMod(rep, v)
        half == [i \in 1 .. rep |-> FeP(rep, i) \div 2]
        cmp  == IF rep = 5 THEN F5!cmp_var(r, half) ELSE cmp_var_10x26(r, half)
        bytes == IF rep = 5 THEN F5!get_b32(r) ELSE get_b32_10x26(r)
    IN  /\ (IF rep = 5 THEN F5!is_zero(r) ELSE is_zero_10x26(r)) = zero
        /\ (IF rep = 5 THEN F5!is_odd(r) ELSE is_odd_10x26(r)) = (bytes[FeBits(rep)] = 1)
        /\ Remainders(rep, Regroup(Tuple(Reverse(bytes)), 1, FeLimb(rep), rep)) = v
        /\ cmp = IF r = half THEN 0 ELSE IF Borrow(r, half, rep) = 1 THEN -1 ELSE 1

FieldLimbsSound == st.unit = "fe" =>
    /\ st.ok
    /\ Verified(st.rep, st.r, st.m, st.norm)
    /\ Remainders(st.rep, st.r) = st.v
    /\ (IF st.rep = 5 THEN F5!normalizes_to_zero(st.r) ELSE normalizes_to_zero_10x26(st.r))
           = IsZeroMod(st.rep, st.v)
    /\ (IF st.rep = 5 THEN F5!normalizes_to_zero_var(st.r) ELSE normalizes_to_zero_var_10x26(st.r))
           = IsZeroMod(st.rep, st.v)
    /\ st.ret = st.want
    /\ st.norm => ReadsTrue(st.rep, st.r, st.v)
=============================================================================
