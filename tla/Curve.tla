------------------------------- MODULE Curve -------------------------------
(***************************************************************************)
(* The group as the protocol modules see it.  A group element is named by  *)
(* its discrete logarithm to the base G, so k \in 0 .. N-1 is both the     *)
(* scalar k (src/src/scalar.h) and the point k*G (src/src/group.h); 0 is   *)
(* the point at infinity and 1 is G.  Which of the two points P, -P has    *)
(* the odd Y coordinate is arbitrary on the curve and is the constant      *)
(* OddY.  An x-only key or nonce is named by the even-Y point with that X  *)
(* coordinate.                                                             *)
(***************************************************************************)
EXTENDS Integers

CONSTANTS
    N,     \* the order of the group (of the scalars)
    OddY   \* the points with an odd Y coordinate

ASSUME CurveAssumption ==
    /\ N \in Nat /\ N > 1
    /\ OddY \subseteq 1 .. N-1
    /\ \A P \in 1 .. N-1 : (P \in OddY) # (N - P \in OddY)

Scalars  == 0 .. N-1
Points   == 0 .. N-1
Infinity == 0
G        == 1

\* secp256k1_scalar_add, _mul, _negate; also point addition, multiplication
\* of a point by a scalar and negation of a point
Plus(a, b)  == (a + b) % N
Times(a, b) == (a * b) % N
Neg(a)      == IF a = 0 THEN 0 ELSE N - a

\* secp256k1_scalar_half (N is odd: no P is its own negative)
Half(a) == IF a % 2 = 0 THEN a \div 2 ELSE (a + N) \div 2

\* secp256k1_fe_is_odd of the normalized Y coordinate
IsOdd(P) == P \in OddY

\* secp256k1_extrakeys_ge_even_y: the point kept, and whether it was negated
EvenY(P) == IF IsOdd(P) THEN Neg(P) ELSE P

\* secp256k1_schnorrsig_verify of the signature (r, s) under the x-only key
\* pk, e being the challenge: R = s*G - e*pk must be the even-Y point r.
SchnorrVerify(r, s, e, pk) ==
    LET R == Plus(s, Neg(Times(e, pk)))
    IN  R # Infinity /\ ~IsOdd(R) /\ R = r
=============================================================================
