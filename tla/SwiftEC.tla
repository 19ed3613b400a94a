------------------------------ MODULE SwiftEC ------------------------------
(***************************************************************************)
(* modules/ellswift/main_impl.h: pairs (u, t) of field elements for points *)
(* of the curve, and back.  The field operations carry their magnitudes.   *)
(* An encoding is two numbers of 32 bytes, which may exceed the field.     *)
(***************************************************************************)
EXTENDS Group

-----------------------------------------------------------------------------
(* From (u, t) to an X coordinate *)

C1 == Stored((-Beta - 1) % P)
C2 == Stored(Beta)
C3 == Stored((Beta + 1) % P)
C4 == Stored((-Beta) % P)

\* secp256k1_fe_set_b32_mod
SetB32Mod(number) == [v |-> number % P, m |-> 1, n |-> FALSE]

NonZero(a, b)    == IF NormalizesToZero(a) THEN One ELSE b
FourTimes(g, s)  == IF NormalizesToZero(Add(g, s)) THEN MulInt(s, 4) ELSE s
X3(d, u1, p)     == Add(Mul(d, u1), Negate(Sqr(p), 1))
X2(s, g, u1)     == Mul(Add(Mul(C2, g), Mul(C1, s)), u1)
Frac(xn, xd)     == [xn |-> xn, xd |-> xd]
Decoded(u1, g, s, p, d) ==
    IF XFracOnCurve(X3(d, u1, p), d)      THEN Frac(X3(d, u1, p), d)
    ELSE IF XFracOnCurve(X2(s, g, u1), p) THEN Frac(X2(s, g, u1), p)
    ELSE Frac(Negate(Add(X2(s, g, u1), Mul(p, u1)), 2), p)

\* secp256k1_ellswift_xswiftec_frac_var
WithS(u1, g, s) == Decoded(u1, g, s, Add(g, s), MulInt(Mul(s, Sqr(u1)), 3))
WithG(u1, g, s) == WithS(u1, g, FourTimes(g, s))
WithU(u1, s)    == WithG(u1, AddInt(Cube(u1), B), s)
xswiftec_frac_var(u, t) == WithU(NonZero(u, u), NonZero(t, Sqr(t)))

Quotient(f)         == Mul(f.xn, Inv(f.xd))
xswiftec_var(u, t)  == Quotient(xswiftec_frac_var(u, t))
swiftec_var(u, t)   == LiftX(xswiftec_var(u, t), IsOdd(t))

ellswift_decode(ell64) == swiftec_var(SetB32Mod(ell64.u), Normalize(SetB32Mod(ell64.t)))

-----------------------------------------------------------------------------
(* From an X coordinate and u to t: secp256k1_ellswift_xswiftec_inv_var *)

NoT        == [ret |-> FALSE, t |-> SetInt(0)]
Branch(s, v) == [ret |-> TRUE, s |-> s, v |-> v]
NoBranch   == [ret |-> FALSE]

G3(u)      == AddInt(Cube(u), B)

\* Mutant: t is given for an X coordinate that x3 would be preferred to.
DecodesAsX3_Ignored(m) == FALSE

DecodesAsX3(m) == XOnCurve(m)

S12(m, u, x) == Add(Negate(Sqr(m), 1), Mul(u, x))
Branch12(x, u, m) ==
    IF DecodesAsX3(m) \/ ~IsSquare(Mul(S12(m, u, x), G3(u))) THEN NoBranch
    ELSE Branch(Mul(Inv(S12(m, u, x)), G3(u)), x)

\* q = -s*(4*(u^3+B) + 3*u^2*s)
Q3(s, u) == Negate(Mul(Add(MulInt(Mul(s, Sqr(u)), 3), AddInt(MulInt(Cube(u), 4), 4 * B)), s), 1)
Root3(s, u, c, r) ==
    IF (c % 2 = 1 /\ NormalizesToZero(r)) \/ NormalizesToZero(s) THEN NoBranch
    ELSE Branch(s, Half(Add(Mul(Inv(s), r), Negate(u, 1))))
Branch3(s, u, c) ==
    IF ~IsSquare(s) \/ ~IsSquare(Q3(s, u)) THEN NoBranch ELSE Root3(s, u, c, Sqrt(Q3(s, u)))

\* (c & 5) = 0 or 5
Signed(c, w) == IF c \div 4 = c % 2 THEN Negate(w, 1) ELSE w
TOf(c, u, b) ==
    IF ~b.ret THEN NoT
    ELSE [ret |-> TRUE,
          t   |-> Mul(Signed(c, Sqrt(b.s)), Add(Mul(u, IF c % 2 = 1 THEN C4 ELSE C3), b.v))]
Partial(x, u, c) ==
    TOf(c, u, IF (c \div 2) % 2 = 0 THEN Branch12(x, u, Negate(Add(x, u), 2))
                                    ELSE Branch3(Add(Negate(u, 1), x), u, c))
xswiftec_inv_var(x, u, c) == Partial(NormalizeWeak(x), NormalizeWeak(u), c)

\* secp256k1_ellswift_elligatorswift_var, when the search has come to u and c
WithParity(t, y) == IF IsOdd(t) # IsOdd(y) THEN Normalize(Negate(t, 1)) ELSE t
elligatorswift_var(p, u, c) ==
    LET found == xswiftec_inv_var(p.x, SetB32Mod(u), c)
    IN  [ret |-> found.ret, u |-> u, t |-> WithParity(Normalize(found.t), p.y).v]

=============================================================================
