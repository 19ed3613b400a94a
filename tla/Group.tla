------------------------------- MODULE Group -------------------------------
(***************************************************************************)
(* The group law of src/src/group_impl.h on the curve y^2 = x^3 + B: the   *)
(* operations in constant time, the ones in variable time and the ones     *)
(* that work on an isomorphic curve, on points in jacobian and in affine   *)
(* coordinates.  Every coordinate carries its magnitude.                   *)
(***************************************************************************)
EXTENDS Field, Sequences

CONSTANTS
    B,        \* SECP256K1_B
    N,        \* the order of the group
    Gx, Gy,   \* the generator
    Beta,     \* a cube root of 1 in the field: Beta*x is the X coordinate of
    Lambda    \* Lambda times the point, for a cube root of 1 modulo N

ASSUME GroupAssumption ==
    /\ B \in 1 .. 8 /\ N \in Nat /\ Gx \in Elements /\ Gy \in Elements
    /\ (Gy * Gy) % P = (Gx * Gx * Gx + B) % P
    /\ Beta \in 2 .. P-1 /\ (Beta * Beta * Beta) % P = 1
    /\ Lambda \in 2 .. N-1 /\ (Lambda * Lambda * Lambda) % N = 1

One == SetInt(1)

GeInfinity  == [x |-> SetInt(0), y |-> SetInt(0), inf |-> TRUE]
GejInfinity == [x |-> SetInt(0), y |-> SetInt(0), z |-> SetInt(0), inf |-> TRUE]

\* secp256k1_ge_verify and secp256k1_gej_verify
IsGe(p)  == IsFe(p.x) /\ IsFe(p.y) /\ p.x.m <= 4 /\ p.y.m <= 3
IsGej(p) == IsFe(p.x) /\ IsFe(p.y) /\ IsFe(p.z) /\ p.x.m <= 4 /\ p.y.m <= 4 /\ p.z.m <= 1

GeSetXY(x, y) == [x |-> x, y |-> y, inf |-> FALSE]
GejSetGe(p)   == [x |-> p.x, y |-> p.y, z |-> One, inf |-> p.inf]

\* Mutant: the magnitude of Y is taken to be 1.
NegY_NotNormalized(p) == [p EXCEPT !.y = Negate(p.y, 1)]

\* secp256k1_ge_neg and secp256k1_gej_neg
NegY(p) == [p EXCEPT !.y = Negate(NormalizeWeak(p.y), 1)]

\* secp256k1_ge_set_gej_zinv and secp256k1_ge_set_ge_zinv: x * zi^2, y * zi^3
SetZinv(p, zi) ==
    LET zi2 == Sqr(zi) IN GeSetXY(Mul(p.x, zi2), Mul(p.y, Mul(zi2, zi)))

\* secp256k1_ge_set_gej; in the _var version infinity has coordinates 0
GeSetGej(p)    == [SetZinv(p, Inv(p.z)) EXCEPT !.inf = p.inf]
GeSetGejVar(p) == IF p.inf THEN GeInfinity ELSE GeSetGej(p)

GejRescale(p, s) ==
    LET zz == Sqr(s)
    IN  [p EXCEPT !.x = Mul(@, zz), !.y = Mul(Mul(@, zz), s), !.z = Mul(@, s)]

GejCmov(p, q, flag) ==
    [x |-> Cmov(p.x, q.x, flag), y |-> Cmov(p.y, q.y, flag), z |-> Cmov(p.z, q.z, flag),
     inf |-> IF flag THEN q.inf ELSE p.inf]

\* secp256k1_ge_mul_lambda
MulLambda(p) == [p EXCEPT !.x = Mul(@, [v |-> Beta, m |-> 1, n |-> TRUE])]

-----------------------------------------------------------------------------
(* Doubling *)

\* secp256k1_gej_double
Double(p) ==
    LET s == Sqr(p.y)
        l == Half(MulInt(Sqr(p.x), 3))
        t == Mul(Negate(s, 1), p.x)
        x == Add(Add(Sqr(l), t), t)
    IN  [x |-> x, y |-> Negate(Add(Mul(Add(t, x), l), Sqr(s)), 2),
         z |-> Mul(p.z, p.y), inf |-> p.inf]

\* secp256k1_gej_double_var, and the ratio of the Z coordinates
DoubleVar(p)   == IF p.inf THEN GejInfinity ELSE Double(p)
DoubleRatio(p) == IF p.inf THEN One ELSE NormalizeWeak(p.y)

-----------------------------------------------------------------------------
(* Addition in variable time.  u1, s1 are the first point brought to the   *)
(* common Z coordinate, h and i the differences to the second.             *)

AddTail(p, u1, s1, h, i, z) ==
    IF NormalizesToZero(h)
    THEN IF NormalizesToZero(i) THEN DoubleVar(p) ELSE GejInfinity
    ELSE LET h2 == Negate(Sqr(h), 1)
             h3 == Mul(h2, h)
             t  == Mul(u1, h2)
             x  == Add(Add(Add(Sqr(i), h3), t), t)
         IN  [x |-> x, y |-> Add(Mul(Add(t, x), i), Mul(h3, s1)), z |-> z, inf |-> FALSE]

\* secp256k1_gej_add_var
AddVar(p, q) ==
    LET z22 == Sqr(q.z)
        z12 == Sqr(p.z)
        u1  == Mul(p.x, z22)
        s1  == Mul(Mul(p.y, z22), q.z)
        h   == Add(Negate(u1, 1), Mul(q.x, z12))
        i   == Add(Negate(Mul(Mul(q.y, z12), p.z), 1), s1)
    IN  IF p.inf THEN q ELSE IF q.inf THEN p
        ELSE AddTail(p, u1, s1, h, i, Mul(p.z, Mul(h, q.z)))

\* The differences of an affine point q to p, at the Z coordinate az.
GeH(p, q, az) == Add(Negate(p.x, 4), Mul(q.x, Sqr(az)))
GeI(p, q, az) == Add(Negate(Mul(Mul(q.y, Sqr(az)), az), 1), p.y)

\* secp256k1_gej_add_ge_var, and the ratio of the Z coordinates
AddGeVar(p, q) ==
    LET h == GeH(p, q, p.z)
    IN  IF p.inf THEN GejSetGe(q) ELSE IF q.inf THEN p
        ELSE AddTail(p, p.x, p.y, h, GeI(p, q, p.z), Mul(p.z, h))

AddGeRatio(p, q) ==
    LET h == GeH(p, q, p.z)
    IN  IF q.inf THEN One
        ELSE IF ~NormalizesToZero(h) THEN h
        ELSE IF NormalizesToZero(GeI(p, q, p.z)) THEN DoubleRatio(p) ELSE SetInt(0)

\* secp256k1_gej_add_zinv_var: q has the Z coordinate 1/bzinv.
AddZinvVar(p, q, bzinv) ==
    LET az == Mul(p.z, bzinv)
        h  == GeH(p, q, az)
    IN  IF p.inf THEN [GejSetGe(SetZinv(q, bzinv)) EXCEPT !.inf = q.inf]
        ELSE IF q.inf THEN p
        ELSE AddTail(p, p.x, p.y, h, GeI(p, q, az), Mul(p.z, h))

-----------------------------------------------------------------------------
(* Addition in constant time *)

\* Mutant: the second expression for lambda is never taken.
Degenerate_Ignored(m) == FALSE

\* The first expression for lambda is R/0.
Degenerate(m) == NormalizesToZero(m)

\* secp256k1_gej_add_ge
AddGe(p, q) ==
    LET zz   == Sqr(p.z)
        u2   == Mul(q.x, zz)
        t    == Add(p.x, u2)
        m    == Add(p.y, Mul(Mul(q.y, zz), p.z))
        malt == Negate(u2, 1)
        rr   == Add(Sqr(t), Mul(p.x, malt))
        ralt == Cmov(MulInt(p.y, 2), rr, ~Degenerate(m))
        mlt  == Cmov(Add(malt, p.x), m, ~Degenerate(m))
        n2   == Sqr(mlt)
        qq   == Mul(Negate(t, 5), n2)
        n    == Cmov(Sqr(n2), m, Degenerate(m))
        x    == Add(Sqr(ralt), qq)
        y    == Half(Negate(Add(Mul(Add(MulInt(x, 2), qq), ralt), n), 6))
        z    == Cmov(Mul(p.z, mlt), One, p.inf)
    IN  [x |-> Cmov(x, q.x, p.inf), y |-> Cmov(y, q.y, p.inf), z |-> z,
         inf |-> NormalizesToZero(z)]

-----------------------------------------------------------------------------
(* Comparisons and curve membership *)

GejEqVar(p, q)   == AddVar(NegY(p), q).inf
GejEqGeVar(p, q) == AddGeVar(NegY(p), q).inf
GejEqXVar(x, p)  == Equal(Mul(Sqr(p.z), x), p.x)

\* Mutant: the coordinates are compared as they are.
GeEqVar_NotNormalized(p, q) ==
    /\ p.inf = q.inf
    /\ p.inf \/ (Equal(p.x, q.x) /\ Equal(p.y, q.y))

GeEqVar(p, q) ==
    /\ p.inf = q.inf
    /\ p.inf \/ (Equal(NormalizeWeak(p.x), q.x) /\ Equal(NormalizeWeak(p.y), q.y))

Cube(x)        == Mul(Sqr(x), x)
GeIsValid(p)   == ~p.inf /\ Equal(Sqr(p.y), AddInt(Cube(p.x), B))
XOnCurve(x)    == IsSquare(AddInt(Cube(x), B))
XFracOnCurve(xn, xd) ==
    IsSquare(Add(Mul(Mul(xd, xn), Sqr(xn)), MulInt(Sqr(Sqr(xd)), B)))

\* secp256k1_ge_set_xo_var: what it leaves in r, and whether x is on the curve
LiftX(x, odd) ==
    LET y == Normalize(Sqrt(AddInt(Cube(x), B)))
    IN  GeSetXY(x, IF IsOdd(y) # odd THEN Negate(y, 1) ELSE y)
XIsLifted(x) ==
    LET c == AddInt(Cube(x), B) IN Equal(Sqr(Sqrt(c)), c)

-----------------------------------------------------------------------------
(* Tables of points *)

\* Mutant: infinity is not skipped.
SetAllGejVar_AllFinite(ps) ==
    LET prod[i \in 0 .. Len(ps)] == IF i = 0 THEN One ELSE Mul(prod[i-1], ps[i].z)
        u[i \in 1 .. Len(ps)] == IF i = Len(ps) THEN Inv(prod[i]) ELSE Mul(u[i+1], ps[i+1].z)
    IN  [i \in 1 .. Len(ps) |->
            IF ps[i].inf THEN GeInfinity ELSE SetZinv(ps[i], Mul(prod[i-1], u[i]))]

\* secp256k1_ge_set_all_gej_var: one inversion for all points.  prod[i] is the
\* product of the Z coordinates up to i, u[i] the inverse of that product.
\* secp256k1_ge_set_all_gej does the same for points that are all finite.
SetAllGejVar(ps) ==
    LET prod[i \in 0 .. Len(ps)] == IF i = 0 THEN One
                                    ELSE IF ps[i].inf THEN prod[i-1] ELSE Mul(prod[i-1], ps[i].z)
        u[i \in 1 .. Len(ps)] == IF i = Len(ps) THEN Inv(prod[i])
                                 ELSE IF ps[i+1].inf THEN u[i+1] ELSE Mul(u[i+1], ps[i+1].z)
    IN  [i \in 1 .. Len(ps) |->
            IF ps[i].inf THEN GeInfinity ELSE SetZinv(ps[i], Mul(prod[i-1], u[i]))]

\* secp256k1_ge_table_set_globalz: zr[i] is the ratio of the omitted Z
\* coordinates of points i and i-1.
TableSetGlobalz(ps, zr) ==
    LET zs[i \in 1 .. Len(ps)] == IF i = Len(ps) THEN One
                                  ELSE IF i + 1 = Len(ps) THEN zr[i+1] ELSE Mul(zs[i+1], zr[i+1])
    IN  [i \in 1 .. Len(ps) |->
            IF i = Len(ps) THEN [ps[i] EXCEPT !.y = NormalizeWeak(@)] ELSE SetZinv(ps[i], zs[i])]

\* secp256k1_ecmult_odd_multiples_table: the points p, 3p, ..., their ratios, and
\* the Z coordinate of the last.  d is 2p; the additions are on the isomorphic
\* curve on which it is affine.
MultiplesFrom(n, p, d, dg) ==
    LET ai[i \in 1 .. n] == IF i = 1 THEN [GejSetGe(SetZinv(p, d.z)) EXCEPT !.z = p.z]
                            ELSE AddGeVar(ai[i-1], dg)
    IN  ai

TableOf(n, ai, d, dg) ==
    [pre |-> [i \in 1 .. n |-> GeSetXY(ai[i].x, ai[i].y)],
     zr  |-> [i \in 1 .. n |-> IF i = 1 THEN d.z ELSE AddGeRatio(ai[i-1], dg)],
     z   |-> Mul(ai[n].z, d.z)]

OddMultiples(n, p) ==
    LET d  == DoubleVar(p)
        dg == GeSetXY(d.x, d.y)
    IN  TableOf(n, MultiplesFrom(n, p, d, dg), d, dg)

-----------------------------------------------------------------------------
(* Encodings.  A field element is stored as its residue. *)

Stored(x) == [v |-> x, m |-> 1, n |-> TRUE]

\* secp256k1_ge_to_bytes_ext and secp256k1_ge_from_bytes_ext
ToBytesExt(p) == IF p.inf THEN <<0, 0>> ELSE <<Normalize(p.x).v, Normalize(p.y).v>>
FromBytesExt(b) == IF b = <<0, 0>> THEN GeInfinity ELSE GeSetXY(Stored(b[1]), Stored(b[2]))

\* secp256k1_ge_serialize_ext33 and secp256k1_ge_serialize65.  Only the first
\* takes infinity.
Serialize33(p) ==
    IF p.inf THEN [tag |-> "zero", x |-> 0]
    ELSE [tag |-> IF IsOdd(Normalize(p.y)) THEN "odd" ELSE "even", x |-> Normalize(p.x).v]
Serialize65(p) ==
    [tag |-> "uncompressed", x |-> Normalize(p.x).v, y |-> Normalize(p.y).v]

\* secp256k1_ge_parse33.  A coordinate may exceed the field.
Parses33(b) == b.tag \in {"even", "odd"} /\ b.x < P /\ XIsLifted(Stored(b.x))
Parse33(b)  == LiftX(Stored(b.x), b.tag = "odd")

\* secp256k1_ge_parse_with_hybrid65
Parses65(b) ==
    /\ b.tag \in {"uncompressed", "hybrid_even", "hybrid_odd"}
    /\ b.x < P /\ b.y < P
    /\ b.tag # "uncompressed" => IsOdd(Stored(b.y)) = (b.tag = "hybrid_odd")
    /\ GeIsValid(GeSetXY(Stored(b.x), Stored(b.y)))
Parse65(b) == GeSetXY(Stored(b.x), Stored(b.y))

-----------------------------------------------------------------------------
(* The group, by the chord and tangent rule over the rationals of the field *)

None == <<>>

RefAdd(p, q) ==
    LET Line(num, den) ==
            LET l == num * Inverses[den % P]
                x == (l * l - p[1] - q[1]) % P
            IN  <<x, (l * (p[1] - x) - p[2]) % P>>
    IN  IF p = None THEN q ELSE IF q = None THEN p
        ELSE IF p = q THEN Line(3 * p[1] * p[1], 2 * p[2])
        ELSE IF p[1] = q[1] THEN None
        ELSE Line(q[2] - p[2], q[1] - p[1])

Multiple ==
    LET mult[k \in 0 .. N-1] == IF k = 0 THEN None ELSE RefAdd(mult[k-1], <<Gx, Gy>>)
    IN  mult

AffineOf(p) == IF p.inf THEN None ELSE <<p.x.v, p.y.v>>
PointOf(p)  == IF p.inf THEN None
               ELSE LET zi == Inverses[p.z.v]
                    IN  <<(p.x.v * zi * zi) % P, (p.y.v * zi * zi * zi) % P>>
=============================================================================
