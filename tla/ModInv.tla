------------------------------- MODULE ModInv ------------------------------
(***************************************************************************)
(* Modular inverses and Jacobi symbols in both implementations, of scalars *)
(* and field elements: from their words to signed limbs, through a loop    *)
(* that takes one step per iteration, and back.                            *)
(***************************************************************************)
EXTENDS Words

CONSTANTS
    S64, Modulus64, Inv64, Limb64,  \* modinv64: limbs of S64 bits; field limbs of Limb64 bits
    Iterations64, MaxIterations64, JacobiIterations64,
    S32, Modulus32, Inv32, Limb32,  \* and modinv32
    Iterations32, MaxIterations32, JacobiIterations32,
    Inverted                        \* the numbers to invert

-----------------------------------------------------------------------------
(* What cancels the low bits of g: a formula for 4 or 6 of them, or a table*)
(* for 8.                                                                  *)

Fewer(a, b)       == IF a < b THEN a ELSE b
By(bits, w)       == [bits |-> bits, w |-> w % 2^bits]
Formula6(f, g, bits) == By(bits, ((f * g) % 64) * ((f * f - 2) % 64))
Formula4(f, g, bits) == By(bits, -((f + 8 * Bit(f + 1, 2)) % 16) * (g % 16))
multiple(swapped, f, g, limit) ==
    IF swapped THEN Formula6(f, g, Fewer(limit, 6)) ELSE Formula4(f, g, Fewer(limit, 4))

\* secp256k1_modinv32_inv256[i] = -(2*i+1)^-1 (mod 256)
inv256 == <<
    255,  85,  51,  73, 199,  93,  59,  17,  15, 229, 195,  89, 215, 237, 203,  33,
     31, 117,  83, 105, 231, 125,  91,  49,  47,   5, 227, 121, 247,  13, 235,  65,
     63, 149, 115, 137,   7, 157, 123,  81,  79,  37,   3, 153,  23,  45,  11,  97,
     95, 181, 147, 169,  39, 189, 155, 113, 111,  69,  35, 185,  55,  77,  43, 129,
    127, 213, 179, 201,  71, 221, 187, 145, 143, 101,  67, 217,  87, 109,  75, 161,
    159, 245, 211, 233, 103, 253, 219, 177, 175, 133,  99, 249, 119, 141, 107, 193,
    191,  21, 243,   9, 135,  29, 251, 209, 207, 165, 131,  25, 151, 173, 139, 225,
    223,  53,  19,  41, 167,  61,  27, 241, 239, 197, 163,  57, 183, 205, 171,   1 >>
multiple_30(swapped, f, g, limit) ==
    By(Fewer(limit, 8), (g % 256) * inv256[((f \div 2) % 128) + 1])

G64 == INSTANCE SafeGcd WITH
    S <- S64, NL <- 3, Modulus <- Modulus64, ModulusInv <- Inv64, FirstStep <- 3,
    MaxSteps <- (MaxIterations64 * S64) + 1, Iterations <- Iterations64,
    MaxIterations <- MaxIterations64, JacobiIterations <- JacobiIterations64,
    Multiple <- multiple
G32 == INSTANCE SafeGcd WITH
    S <- S32, NL <- 3, Modulus <- Modulus32, ModulusInv <- Inv32, FirstStep <- 0,
    MaxSteps <- (MaxIterations32 * S32) + 1, Iterations <- Iterations32,
    MaxIterations <- MaxIterations32, JacobiIterations <- JacobiIterations32,
    Multiple <- multiple_30

ASSUME ModInvAssumption == G64!Shape /\ G32!Shape

-----------------------------------------------------------------------------
(* modinv32_impl.h: what it has in more limbs, for fewer divsteps          *)

divsteps_30(zeta, f0, g0)             == G32!divsteps(zeta, f0, g0)
divsteps_30_var(eta, f0, g0)          == G32!divsteps_var(eta, f0, g0)
posdivsteps_30_var(eta, f0, g0, jac)  == G32!posdivsteps_var(eta, f0, g0, jac)
update_de_30(d, e, t)                 == G32!update_de(d, e, t)
update_fg_30(f, g, t)                 == G32!update_fg(f, g, t)
update_fg_30_var(len, f, g, t)        == G32!update_fg_var(len, f, g, t)
normalize_30(r, sign)                 == G32!normalize(r, sign)
Low32(a)                              == a[1] % 2^(S32 + 2)

Found32(c) == G32!Returns(G32!AtEnd(c), normalize_30(c.d, c.f[c.len]))
De32(c, t) == G32!WithDe(c, t, update_de_30(c.d, c.e, t))

ConstStep32(c, t) ==
    IF t.ok THEN G32!WithFg(De32(c, t), update_fg_30(c.f, c.g, t), -G32!M) ELSE G32!Failed(c)
modinv32(c) ==
    IF c.count < Iterations32 THEN ConstStep32(c, divsteps_30(c.eta, Low32(c.f), Low32(c.g)))
                              ELSE Found32(c)

FoundOrReduced32(c) == IF G32!IsFound(c) THEN Found32(c) ELSE G32!Continue(c)
VarStep32(c, t) ==
    IF t.ok
    THEN FoundOrReduced32(G32!WithFg(De32(c, t), update_fg_30_var(c.len, c.f, c.g, t), -G32!M))
    ELSE G32!Failed(c)
modinv32_var(c) == VarStep32(c, divsteps_30_var(c.eta, Low32(c.f), Low32(c.g)))

JacobiStep32(c, t) ==
    IF t.ok
    THEN G32!SymbolOrReduced(
             G32!WithFg(G32!WithJac(c, t), update_fg_30_var(c.len, c.f, c.g, t), 0))
    ELSE G32!Failed(c)
jacobi32_maybe_var(c) ==
    JacobiStep32(c, posdivsteps_30_var(c.eta, G32!LowWord(c.f), G32!LowWord(c.g), c.jac))

-----------------------------------------------------------------------------
(* Signed limbs from scalars (words of two bits more) and field elements.  *)

Signs64(a, w) == Regroup(a, w, S64, 3)
scalar_to_signed62(a)   == Signs64(a, S64 + 2)
scalar_from_signed62(a) == Regroup(a, S64, S64 + 2, 2)
fe_to_signed62(a)       == Signs64(a, Limb64)
fe_from_signed62(a)     == Regroup(a, S64, Limb64, 3)
scalar_to_signed30(a)   == Regroup(a, S32 + 2, S32, 3)
scalar_from_signed30(a) == Regroup(a, S32, S32 + 2, 2)
fe_to_signed30(a)       == Regroup(a, Limb32, S32, 3)
fe_from_signed30(a)     == Regroup(a, S32, Limb32, 4)

To(impl, kind, a) ==
    IF kind = "scalar" THEN IF impl = 64 THEN scalar_to_signed62(a) ELSE scalar_to_signed30(a)
                       ELSE IF impl = 64 THEN fe_to_signed62(a) ELSE fe_to_signed30(a)
From(impl, kind, a) ==
    IF kind = "scalar" THEN IF impl = 64 THEN scalar_from_signed62(a) ELSE scalar_from_signed30(a)
                       ELSE IF impl = 64 THEN fe_from_signed62(a) ELSE fe_from_signed30(a)

-----------------------------------------------------------------------------
(* The calls.  v is the number that is inverted, k that of its limbs.      *)

Prime(impl)     == IF impl = 64 THEN G64!M ELSE G32!M
LimbsOf(impl)   == IF impl = 64 THEN S64 ELSE S32
WordBits(impl, kind) ==
    IF kind = "scalar" THEN LimbsOf(impl) + 2 ELSE IF impl = 64 THEN Limb64 ELSE Limb32
WordsOf(impl, kind) == IF kind = "scalar" THEN 2 ELSE IF impl = 64 THEN 3 ELSE 4
Represented(impl, kind, x) == Limbs(x, WordBits(impl, kind), WordsOf(impl, kind))
NewCall(impl, mode, a) == IF impl = 64 THEN G64!Call(mode, a) ELSE G32!Call(mode, a)

Inversion(impl, kind, v, c) == [unit |-> "modinv", impl |-> impl, kind |-> kind, v |-> v, c |-> c]

\* Scalars have no Jacobi symbol, and it is not called for 0.
ModInvInit == \E impl \in {32, 64}, kind \in {"scalar", "fe"}, mode \in {"const", "var", "jacobi"} :
    \E v \in Inverted :
        /\ v < Prime(impl)
        /\ mode = "jacobi" => kind = "fe" /\ v # 0
        /\ st = Inversion(impl, kind, v,
                          NewCall(impl, mode, To(impl, kind, Represented(impl, kind, v))))

IsCall(mode) == st.unit = "modinv" /\ st.c.mode = mode /\ st.c.pc = "loop" /\ st.c.ok

ModInvConst ==
    /\ IsCall("const")
    /\ st' = [st EXCEPT !.c = IF st.impl = 64 THEN G64!modinv(@) ELSE modinv32(@)]

ModInvVar ==
    /\ IsCall("var")
    /\ st' = [st EXCEPT !.c = IF st.impl = 64 THEN G64!modinv_var(@) ELSE modinv32_var(@)]

ModInvJacobi ==
    /\ IsCall("jacobi")
    /\ st' = [st EXCEPT !.c = IF st.impl = 64 THEN G64!jacobi_maybe_var(@)
                                              ELSE jacobi32_maybe_var(@)]

ModInvNext == ModInvConst \/ ModInvVar \/ ModInvJacobi

-----------------------------------------------------------------------------
\* v^n, the symbol by Euler's criterion, and the root when -1 is no square.
SquareTimes(p, v, m) == IF p = 0 THEN 0 ELSE MulMod(MulMod(p, p, m), v, m)
Power(v, m, n) ==
    LET pow[k \in Nat] == IF k = 0 THEN 1
                          ELSE SquareTimes(pow[k \div 2], IF Odd(k) THEN v ELSE 1, m)
    IN  pow[n]
Symbol(v, m) == IF Power(v, m, (m - 1) \div 2) = 1 THEN 1 ELSE -1
Root(v, m)   == Power(v, m, (m + 1) \div 4)

\* Mutant: an unknown symbol is taken for that of a square.
is_square_var_NoFallback(v, jac, m) == jac >= 0

\* secp256k1_fe_impl_is_square_var, from what the call returned
is_square_var(v, jac, m) ==
    IF v = 0 THEN TRUE ELSE IF jac = 0 THEN MulMod(Root(v, m), Root(v, m), m) = v ELSE jac >= 0

(***************************************************************************)
(* Every iteration keeps d * x = f and e * x = g modulo the modulus, with  *)
(* f and g in their ranges, so that the loop may stop as soon as g is 0;   *)
(* every VERIFY_CHECK holds and no word overflows.                         *)
(***************************************************************************)
DivstepsInvariant == st.unit = "modinv" =>
    LET m == Prime(st.impl)
        N(a) == Value(a, LimbsOf(st.impl))
    IN  /\ st.c.ok
        /\ N(st.c.x) = st.v
        /\ st.c.mode # "jacobi" /\ st.c.pc = "loop" =>
              /\ MulMod(N(st.c.d) % m, st.v, m) = Value(SubSeq(st.c.f, 1, st.c.len), LimbsOf(st.impl)) % m
              /\ MulMod(N(st.c.e) % m, st.v, m) = Value(SubSeq(st.c.g, 1, st.c.len), LimbsOf(st.impl)) % m

(***************************************************************************)
(* Both implementations return the inverse, in constant and in variable    *)
(* time, 0 for 0, and the Jacobi symbol unless they run out of iterations, *)
(* when fe_is_square_var falls back on a square root: it always knows.     *)
(***************************************************************************)
Returned == st.unit = "modinv" /\ st.c.pc = "done" =>
    LET m == Prime(st.impl)
        inverse == From(st.impl, st.kind, st.c.ret)
        n == Value(inverse, WordBits(st.impl, st.kind))
    IN  IF st.c.mode = "jacobi"
        THEN /\ st.c.ret \in {0, Symbol(st.v, m)}
             /\ is_square_var(st.v, st.c.ret, m) = (Symbol(st.v, m) = 1)
        ELSE /\ n < m
             /\ \A i \in 1 .. Len(inverse) : inverse[i] \in Word(WordBits(st.impl, st.kind))
             /\ IF st.v = 0 THEN n = 0 ELSE MulMod(n, st.v, m) = 1

\* The call is right on its way and in the end.
InverseCorrect == DivstepsInvariant /\ Returned
=============================================================================
