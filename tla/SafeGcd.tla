------------------------------ MODULE SafeGcd ------------------------------
(***************************************************************************)
(* Modular inverses and Jacobi symbols by divsteps: the functions of       *)
(* modinv64_impl.h for limbs of S bits, NL of them, in words of S+2 bits.  *)
(* modinv32_impl.h has the same functions with more limbs.                 *)
(*                                                                         *)
(* A number is a sequence of NL signed limbs, the lowest first.  Field ok  *)
(* of a result says that every VERIFY_CHECK on the way holds and that no   *)
(* signed word or double word overflows.                                   *)
(***************************************************************************)
EXTENDS Words

CONSTANTS
    S, NL,
    Modulus,                \* its limbs, which need not be normalised
    ModulusInv,             \* its inverse modulo 2^S
    FirstStep,              \* divsteps of the constant-time loop that are left out
    MaxSteps,               \* bound on |eta| and |zeta| in their VERIFY_CHECKs
    Iterations,             \* of the constant-time loop,
    MaxIterations,          \* bound on those of the variable-time loop,
    JacobiIterations,       \* and after which the symbol is given up
    Multiple(_, _, _, _)    \* what cancels the low bits of g

Width == S + 2
U(x) == x % 2^Width
M    == Value(Modulus, S)

Shape ==
    /\ S \in Nat /\ S >= 4 /\ NL \in Nat /\ NL >= 3 /\ Len(Modulus) = NL
    /\ Odd(M) /\ (M * ModulusInv) % 2^S = 1

First   == [i \in 1 .. NL |-> IF i = 1 THEN 1 ELSE 0]
Nil     == [i \in 1 .. NL |-> 0]
Abs(x)  == IF x < 0 THEN -x ELSE x
Number(a, len) == Value(SubSeq(a, 1, len), S)

-----------------------------------------------------------------------------
(* Divsteps on the lowest words of f and g.  Words u, v, q, r are unsigned.*)

Steps(eta, f0, g0, scale, jac) ==
    [eta |-> eta, f |-> f0, g |-> g0, u |-> scale, v |-> 0, q |-> 0, r |-> scale,
     i |-> 0, jac |-> jac, ok |-> TRUE]

\* What i divsteps have done to f0 and g0.
Agrees(s, f0, g0, i) ==
    /\ Odd(s.f)
    /\ U(s.u * f0 + s.v * g0) = U(s.f * 2^i)
    /\ U(s.q * f0 + s.r * g0) = U(s.g * 2^i)

\* One divstep in constant time: f, u, v are added to g, q, r with a sign,
\* and then g, q, r to f, u, v.
AddF(s, sign) ==
    [s EXCEPT !.g = U(@ + sign * s.f), !.q = U(@ + sign * s.u), !.r = U(@ + sign * s.v)]
AddG(s, swap) ==
    [s EXCEPT !.eta = (IF swap THEN -@ - 1 ELSE @) - 1,
              !.f = IF swap THEN U(@ + s.g) ELSE @,
              !.u = U(2 * (IF swap THEN @ + s.q ELSE @)),
              !.v = U(2 * (IF swap THEN @ + s.r ELSE @)),
              !.g = @ \div 2]
Divstep(s) ==
    AddG(IF Odd(s.g) THEN AddF(s, IF s.eta < 0 THEN -1 ELSE 1) ELSE s, s.eta < 0 /\ Odd(s.g))

CheckedDivstep(s, f0, g0, i) ==
    IF s.ok /\ Agrees(s, f0, g0, i) /\ Abs(s.eta) <= MaxSteps THEN Divstep(s)
                                                           ELSE [s EXCEPT !.ok = FALSE]

\* The matrix as signed words; its determinant is a power of two.
Det(t) == t.u * t.r - t.v * t.q
Matrix(s, u, v, q, r) ==
    [eta |-> s.eta, jac |-> s.jac, u |-> u, v |-> v, q |-> q, r |-> r, ok |-> s.ok]
Transition(s) ==
    Matrix(s, Signed(s.u, Width), Signed(s.v, Width), Signed(s.q, Width), Signed(s.r, Width))
WithDet(t, dets) == [t EXCEPT !.ok = @ /\ Abs(t.eta) <= MaxSteps /\ Det(t) \in dets]

\* secp256k1_modinv64_divsteps_59
divsteps(zeta, f0, g0) ==
    WithDet(Transition(FoldLeft(LAMBDA s, i : IF s.ok THEN CheckedDivstep(s, f0, g0, i) ELSE s,
                                Steps(zeta, f0, g0, 2^FirstStep, 0),
                                [i \in 1 .. S - FirstStep |-> FirstStep + i - 1])),
            {2^(S + FirstStep)})

\* In variable time: zeros of g are divided out at once, up to a sentinel.
TrailingZeros(g, left) ==
    CHOOSE k \in 0 .. left :
        /\ k = left \/ Bit(g, k) = 1
        /\ \A j \in 0 .. k - 1 : Bit(g, j) = 0

\* When g is divided by an odd power of 2, (f | g) changes sign if f is 3 or
\* 5 modulo 8; when f and g are swapped, if both are 3 modulo 4.
Divide(s, zeros) ==
    [s EXCEPT !.g = @ \div 2^zeros, !.u = U(@ * 2^zeros), !.v = U(@ * 2^zeros),
              !.eta = @ - zeros, !.i = @ + zeros,
              !.jac = (@ + zeros * (Bit(s.f, 1) + Bit(s.f, 2))) % 2]

Swap(s, sign) ==
    [s EXCEPT !.eta = -@,
              !.f = s.g, !.g = U(sign * s.f),
              !.u = s.q, !.q = U(sign * s.u),
              !.v = s.r, !.r = U(sign * s.v),
              !.jac = (@ + Bit(s.f, 1) * Bit(s.g, 1)) % 2]

\* w times f is added to g: at most the steps left are cancelled, and at
\* most eta+1, after which the sign of eta flips.
AddMultiple(s, w, bits, limit) ==
    [s EXCEPT !.g = U(@ + s.f * w), !.q = U(@ + s.u * w), !.r = U(@ + s.v * w),
              !.ok = @ /\ limit > 0 /\ U(s.g + s.f * w) % 2^bits = 0]
CancelBy(s, m, limit)   == AddMultiple(s, m.w, m.bits, limit)
CancelUpTo(s, swapped, limit) == CancelBy(s, Multiple(swapped, s.f, s.g, limit), limit)
Smaller(a, b) == IF a < b THEN a ELSE b
Cancel(s, swapped) == CancelUpTo(s, swapped, Smaller(s.eta + 1, S - s.i))

Round(s, f0, g0, sign) ==
    IF s.i = S \/ ~s.ok THEN s
    ELSE IF ~(Agrees(s, f0, g0, s.i) /\ Odd(s.g) /\ Abs(s.eta) <= MaxSteps)
         THEN [s EXCEPT !.ok = FALSE]
    ELSE IF s.eta < 0 THEN Cancel(Swap(s, sign), TRUE) ELSE Cancel(s, FALSE)

\* Each round but the first divides, so S+1 rounds are enough.
DivideOut(s) == Divide(s, TrailingZeros(s.g, S - s.i))
Loop(eta, f0, g0, sign, jac) ==
    FoldLeft(LAMBDA s, i : IF s.ok THEN Round(DivideOut(s), f0, g0, sign) ELSE s,
             Steps(eta, f0, g0, 1, jac), [i \in 1 .. S + 1 |-> i])
Finished(s) == [s EXCEPT !.ok = @ /\ s.i = S]

\* secp256k1_modinv64_divsteps_62_var and posdivsteps_62_var
divsteps_var(eta, f0, g0) == WithDet(Transition(Finished(Loop(eta, f0, g0, -1, 0))), {2^S})
posdivsteps_var(eta, f0, g0, jac) ==
    WithDet(Transition(Finished(Loop(eta, f0, g0, 1, jac))), {2^S, -(2^S)})

-----------------------------------------------------------------------------
(* The matrix applied to numbers *)

InWords(seq) == \A i \in 1 .. Len(seq) : IsSigned(seq[i], 2 * Width)

\* A column of the product: its terms are added to the carry one by one.
Sums(c, terms) == FoldLeft(LAMBDA s, x : Append(s, s[Len(s)] + x), <<c>>, terms)
Column(acc, sums) ==
    [c |-> sums[Len(sums)] \div 2^S, out |-> Append(acc.out, sums[Len(sums)] % 2^S),
     ok |-> acc.ok /\ InWords(sums)]

\* The lowest S bits must be zero and are thrown away; what remains after
\* the last limb is the top limb.
Row(terms(_), len) ==
    FoldLeft(LAMBDA acc, i : IF acc.ok THEN Column(acc, Sums(acc.c, terms(i))) ELSE acc,
             [c |-> 0, out |-> <<>>, ok |-> TRUE], [i \in 1 .. len |-> i])
ShiftedRow(acc) ==
    [r |-> Append(Tail(acc.out), acc.c),
     ok |-> acc.ok /\ acc.out[1] = 0 /\ IsSigned(acc.c, Width)]
Combination(terms(_), len) == ShiftedRow(Row(terms, len))

\* secp256k1_modinv64_update_fg_62_var: limbs above len stay.
Above(a, len) == SubSeq(a, len + 1, NL)
NewRow(row, old, len) == [r |-> row.r \o Above(old, len), ok |-> row.ok]
update_fg_var(len, f, g, t) ==
    [f |-> NewRow(Combination(LAMBDA i : <<t.u * f[i], t.v * g[i]>>, len), f, len),
     g |-> NewRow(Combination(LAMBDA i : <<t.q * f[i], t.r * g[i]>>, len), g, len)]
update_fg(f, g, t) ==
    [f |-> Combination(LAMBDA i : <<t.u * f[i], t.v * g[i]>>, NL),
     g |-> Combination(LAMBDA i : <<t.q * f[i], t.r * g[i]>>, NL)]

\* md: a multiple of the modulus that makes d or e nonnegative and the low
\* bits of the combination zero.  a and b are a row of the matrix.
Sign(a, x) == IF x[NL] < 0 THEN a ELSE 0

Correction(a, b, d, e) == Sign(a, d) + Sign(b, e)
Corrected(md, low)     == md - (U(ModulusInv * low + md) % 2^S)
RowDe(a, b, d, e, md) ==
    Combination(LAMBDA i : <<a * d[i], b * e[i], Modulus[i] * md>>, NL)
UpdateRow(a, b, d, e) ==
    RowDe(a, b, d, e, Corrected(Correction(a, b, d, e), U(a * d[1] + b * e[1])))

\* secp256k1_modinv64_update_de_62
InRange(a)  == -2 * M < Number(a, NL) /\ Number(a, NL) < M
RowSmall(a, b) == Abs(a) + Abs(b) <= 2^S
DeChecked(d, e, t, d1, e1) ==
    [d |-> d1.r, e |-> e1.r,
     ok |-> /\ InRange(d) /\ InRange(e) /\ RowSmall(t.u, t.v) /\ RowSmall(t.q, t.r)
            /\ d1.ok /\ e1.ok /\ InRange(d1.r) /\ InRange(e1.r)]
update_de(d, e, t) ==
    DeChecked(d, e, t, UpdateRow(t.u, t.v, d, e), UpdateRow(t.q, t.r, d, e))

\* The checks around update_fg: f in (-M, M], g in (-M, M); for the Jacobi
\* symbol both are positive.
Between(f, g, low) == low < f /\ f <= M /\ low < g /\ g < M
FgInRange(f, g, len, low) == Between(Number(f, len), Number(g, len), low)

-----------------------------------------------------------------------------
(* Normalisation *)

AddModulus(r)  == IF r[NL] < 0 THEN [i \in 1 .. NL |-> r[i] + Modulus[i]] ELSE r
NegateIf(r, sign) == IF sign < 0 THEN [i \in 1 .. NL |-> -r[i]] ELSE r
Carried(acc, x, i) ==
    IF i = NL THEN [c |-> 0, out |-> Append(acc.out, x)]
              ELSE [c |-> x \div 2^S, out |-> Append(acc.out, x % 2^S)]
Propagate(r) ==
    FoldLeft(LAMBDA acc, i : Carried(acc, acc.c + r[i], i), [c |-> 0, out |-> <<>>],
             [i \in 1 .. NL |-> i]).out

\* secp256k1_modinv64_normalize_62
InLimbs(r)  == \A i \in 1 .. NL : -(2^S) < r[i] /\ r[i] < 2^S
Normal(r)   == (\A i \in 1 .. NL : 0 <= r[i] /\ r[i] < 2^S) /\ Number(r, NL) < M
Normalized(r, ok) == [r |-> r, ok |-> ok /\ Normal(r)]
normalize(r, sign) ==
    Normalized(Propagate(AddModulus(Propagate(NegateIf(AddModulus(r), sign)))),
               InLimbs(r) /\ InRange(r))

\* When limb len of both f and g is 0 or -1, it becomes the sign of the limb
\* below.
IsSign(x) == x = 0 \/ x = -1
Signless(len, fn, gn) == len >= 2 /\ IsSign(fn) /\ IsSign(gn)

\* Mutant: the sign is lost.
Shorter_NoSign(a, len) == a

Shorter(a, len) == [a EXCEPT ![len - 1] = @ + a[len] * 2^S]

\* The lowest word of a number, for posdivsteps.
LowWord(a) == U(a[1] + a[2] * 2^S)
-----------------------------------------------------------------------------
(***************************************************************************)
(* The three loops.  A call has registers d, e, f, g, eta, len, jac, the   *)
(* number of iterations count, and pc, which is "loop" until it returns    *)
(* ret.  x is what it was called with.                                     *)
(***************************************************************************)
Call(mode, x) ==
    [mode |-> mode, pc |-> "loop", x |-> x, d |-> Nil, e |-> First, f |-> Modulus, g |-> x,
     eta |-> -1, len |-> NL, jac |-> 0, count |-> 0, ret |-> 0,
     ok |-> mode = "jacobi" => (x # Nil /\ \A i \in 1 .. NL : x[i] >= 0)]

WithDe(c, t, de) == [c EXCEPT !.eta = t.eta, !.d = de.d, !.e = de.e, !.ok = @ /\ t.ok /\ de.ok]
WithFg(c, fg, low) ==
    [c EXCEPT !.f = fg.f.r, !.g = fg.g.r, !.count = @ + 1,
              !.ok = @ /\ fg.f.ok /\ fg.g.ok /\ FgInRange(c.f, c.g, c.len, low)
                       /\ FgInRange(fg.f.r, fg.g.r, c.len, low)]

\* An inverse is found when g is 0: f is 1 or -1, or the modulus if x is 0.
Returns(c, ret) == [c EXCEPT !.pc = "done", !.ret = ret.r, !.ok = @ /\ ret.ok]
AtEnd(c) ==
    [c EXCEPT !.ok = /\ @
                     /\ Number(c.g, c.len) = 0
                     /\ \/ Abs(Number(c.f, c.len)) = 1
                        \/ c.x = Nil /\ c.d = Nil /\ Number(c.f, c.len) = M]
Found(c) == Returns(AtEnd(c), normalize(c.d, c.f[c.len]))

\* secp256k1_modinv64
Failed(c) == [c EXCEPT !.ok = FALSE]
ConstStep(c, t) ==
    IF t.ok THEN WithFg(WithDe(c, t, update_de(c.d, c.e, t)), update_fg(c.f, c.g, t), -M)
            ELSE Failed(c)
modinv(c) ==
    IF c.count < Iterations THEN ConstStep(c, divsteps(c.eta, U(c.f[1]), U(c.g[1]))) ELSE Found(c)

\* secp256k1_modinv64_var
Reduce(c) ==
    IF Signless(c.len, c.f[c.len], c.g[c.len])
    THEN [c EXCEPT !.f = Shorter(@, c.len), !.g = Shorter(@, c.len), !.len = @ - 1] ELSE c
StillInRange(c, low) == [c EXCEPT !.ok = @ /\ FgInRange(c.f, c.g, c.len, low)]
IsFound(c)  == \A i \in 1 .. c.len : c.g[i] = 0
Continue(c) == StillInRange(Reduce([c EXCEPT !.ok = @ /\ c.count < MaxIterations]), -M)
FoundOrReduced(c) == IF IsFound(c) THEN Found(c) ELSE Continue(c)
VarStep(c, t) ==
    IF t.ok
    THEN FoundOrReduced(
             WithFg(WithDe(c, t, update_de(c.d, c.e, t)), update_fg_var(c.len, c.f, c.g, t), -M))
    ELSE Failed(c)
modinv_var(c) == VarStep(c, divsteps_var(c.eta, U(c.f[1]), U(c.g[1])))

\* secp256k1_jacobi64_maybe_var: the symbol of (1 | g) is 1.
ShorterPositive(c) ==
    IF c.len >= 2 /\ c.f[c.len] = 0 /\ c.g[c.len] = 0 THEN [c EXCEPT !.len = @ - 1] ELSE c
GivenUp(c) == IF c.count = JacobiIterations THEN [c EXCEPT !.pc = "done"] ELSE c
SymbolOrReduced(c) ==
    IF c.f = First THEN [c EXCEPT !.pc = "done", !.ret = 1 - 2 * c.jac]
    ELSE GivenUp(StillInRange(ShorterPositive(c), 0))
WithJac(c, t) == [c EXCEPT !.eta = t.eta, !.jac = t.jac, !.ok = @ /\ t.ok]
JacobiStep(c, t) ==
    IF t.ok THEN SymbolOrReduced(WithFg(WithJac(c, t), update_fg_var(c.len, c.f, c.g, t), 0))
            ELSE Failed(c)
jacobi_maybe_var(c) ==
    JacobiStep(c, posdivsteps_var(c.eta, LowWord(c.f), LowWord(c.g), c.jac))
=============================================================================
