------------------------------- MODULE Field -------------------------------
(***************************************************************************)
(* Field elements and the contract of their operations (src/src/field.h    *)
(* and the checked functions of src/src/field_impl.h).  An element is a    *)
(* residue with a bound on how far its representation has grown, its       *)
(* magnitude.  An operation that is called outside its contract gives      *)
(* Overflown, which no operation recovers from.                            *)
(***************************************************************************)
EXTENDS Integers

CONSTANT P   \* the order of the field

ASSUME FieldAssumption == P \in Nat /\ P > 3 /\ P % 4 = 3

MaxMagnitude == 32
Elements     == 0 .. P-1

Overflown == [v |-> 0, m |-> MaxMagnitude + 1, n |-> FALSE]

\* secp256k1_fe_verify
IsFe(a) == a.m <= MaxMagnitude /\ (a.n => a.m <= 1)

Checked(contract, a) == IF contract THEN a ELSE Overflown

\* A result that is not normalized.
Fe(v, m) == Checked(m <= MaxMagnitude, [v |-> v % P, m |-> m, n |-> FALSE])

-----------------------------------------------------------------------------
SetInt(a)        == [v |-> a % P, m |-> IF a = 0 THEN 0 ELSE 1, n |-> TRUE]
AddInt(r, a)     == Fe(r.v + a, r.m + 1)
Normalize(a)     == Checked(IsFe(a), [a EXCEPT !.m = 1, !.n = TRUE])
NormalizeWeak(a) == Checked(IsFe(a), [a EXCEPT !.m = 1])
NormalizesToZero(a) == IsFe(a) /\ a.v = 0

\* m is what the caller says of the magnitude of a.
Negate(a, m) == Checked(m <= 31 /\ a.m <= m, Fe(-a.v, m + 1))

Add(r, a)    == Fe(r.v + a.v, r.m + a.m)
MulInt(r, a) == Fe(r.v * a, r.m * a)
Mul(a, b)    == Checked(a.m <= 8 /\ b.m <= 8, Fe(a.v * b.v, 1))
Sqr(a)       == Mul(a, a)

\* secp256k1_fe_half
Half(r) == Checked(r.m <= 31, Fe(r.v * ((P + 1) \div 2), r.m \div 2 + 1))

\* The larger magnitude, whichever value is taken.
Cmov(r, a, flag) ==
    Checked(IsFe(r) /\ IsFe(a),
            [v |-> IF flag THEN a.v ELSE r.v,
             m |-> IF a.m > r.m THEN a.m ELSE r.m,
             n |-> r.n /\ a.n])

\* secp256k1_fe_inv and secp256k1_fe_inv_var: 0 has the inverse 0.
Inverses == [a \in Elements |-> IF a = 0 THEN 0 ELSE CHOOSE b \in Elements : (a * b) % P = 1]
Inv(a) == Checked(IsFe(a), [v |-> Inverses[a.v], m |-> IF a.m > 0 THEN 1 ELSE 0, n |-> TRUE])

Equal(a, b) == a.m <= 1 /\ b.m <= 30 /\ a.v = b.v
IsOdd(a)    == a.n /\ a.v % 2 = 1

\* secp256k1_fe_sqrt: the (P+1)/4-th power, a root if there is one.
Powers == [a \in Elements |->
              LET pow[k \in 0 .. (P + 1) \div 4] == IF k = 0 THEN 1 ELSE (a * pow[k-1]) % P
              IN  pow[(P + 1) \div 4]]
Sqrt(a)     == Checked(a.m <= 8, Fe(Powers[a.v], 1))
IsSquare(a) == IsFe(a) /\ (Powers[a.v] * Powers[a.v]) % P = a.v
=============================================================================
