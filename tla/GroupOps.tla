------------------------------ MODULE GroupOps ------------------------------
(***************************************************************************)
(* One point in jacobian coordinates and one in affine coordinates go      *)
(* through any sequence of the operations of Group.                        *)
(***************************************************************************)
EXTENDS Group

\* The finite points of the curve.
Points == {pt \in Elements \X Elements : (pt[2] * pt[2]) % P = (pt[1] * pt[1] * pt[1] + B) % P}

\* What the constants of secp256k1 are chosen for.  P is prime: every element
\* but 0 has an inverse.
ASSUME FieldIsPrime == \A a \in 1 .. P-1 : \E b \in Elements : (a * b) % P = 1

\* Fermat's little theorem.
ASSUME FermatHolds ==
    \A y \in 1 .. P-1 :
        LET pow[k \in 0 .. P-1] == IF k = 0 THEN 1 ELSE (y * pow[k-1]) % P IN pow[P-1] = 1

\* The curve, with the sums of the chord and tangent rule, is the cyclic group
\* of prime order N that the generator makes.  It has no point of order 2, and
\* Beta and Lambda are the same endomorphism.
ASSUME CurveIsGroup ==
    /\ \A j, k \in 1 .. N-1 : (j * k) % N # 0
    /\ Multiple[0] = None /\ Multiple[1] = <<Gx, Gy>>
    /\ {Multiple[k] : k \in 1 .. N-1} = Points
    /\ \A j, k \in 0 .. N-1 : RefAdd(Multiple[j], Multiple[k]) = Multiple[(j + k) % N]
    /\ \A pt \in Points : pt[2] # 0
    /\ \A k \in 1 .. N-1 :
          Multiple[(Lambda * k) % N] = <<(Beta * Multiple[k][1]) % P, Multiple[k][2]>>

VARIABLES
    jac,         \* a point in jacobian coordinates
    aff,         \* a point in affine coordinates
    kjac, kaff  \* history: the multiples of the generator they stand for

groupVars == <<jac, aff, kjac, kaff>>

-----------------------------------------------------------------------------
(* The operations on the two points *)

GroupInit ==
    /\ jac = GejInfinity /\ kjac = 0
    /\ aff = GeSetXY(Stored(Gx), Stored(Gy)) /\ kaff = 1

SetR(p, k) == jac' = p /\ kjac' = k % N /\ UNCHANGED <<aff, kaff>>
SetA(p, k) == aff' = p /\ kaff' = k % N /\ UNCHANGED <<jac, kjac>>

\* Second operands in jacobian coordinates, and what they stand for.
Operands ==
    {<<GejSetGe(aff), kaff>>, <<GejInfinity, 0>>, <<NegY(jac), -kjac>>, <<DoubleVar(jac), 2 * kjac>>,
     <<AddGeVar(jac, aff), kjac + kaff>>}

ConvertToJacobian == SetR(GejSetGe(aff), kaff)
NegateR           == SetR(NegY(jac), -kjac)
DoubleR           == SetR(Double(jac), 2 * kjac)
DoubleVarR        == SetR(DoubleVar(jac), 2 * kjac)
AddVarR           == \E q \in Operands : SetR(AddVar(jac, q[1]), kjac + q[2])
CmovR             == \E q \in Operands, f \in BOOLEAN :
                        SetR(GejCmov(jac, q[1], f), IF f THEN q[2] ELSE kjac)
AddGeVarR         == SetR(AddGeVar(jac, aff), kjac + kaff)
AddGeR            == ~aff.inf /\ SetR(AddGe(jac, aff), kjac + kaff)
RescaleR          == \E s \in 1 .. P-1 : SetR(GejRescale(jac, Stored(s)), kjac)

\* The affine point is scaled to the Z coordinate 1/s first.
AddZinvVarR ==
    \E s \in 1 .. P-1 :
        LET q == IF aff.inf THEN aff ELSE SetZinv(aff, Inv(Stored(s)))
        IN  SetR(AddZinvVar(jac, q, Stored(s)), kjac + kaff)

\* secp256k1_ge_set_gej and its _var version, which leave the jacobian point
\* with the Z coordinate 1.
ConvertToAffine ==
    /\ aff' = GeSetGej(jac) /\ kaff' = kjac
    /\ jac' = GejSetGe(aff') /\ UNCHANGED kjac
ConvertToAffineVar ==
    /\ aff' = GeSetGejVar(jac) /\ kaff' = kjac
    /\ jac' = (IF jac.inf THEN jac ELSE GejSetGe(aff')) /\ UNCHANGED kjac

NegateA    == SetA(NegY(aff), -kaff)
MulLambdaA == SetA(MulLambda(aff), Lambda * kaff)
StoreA     == SetA(FromBytesExt(ToBytesExt(aff)), kaff)

\* Whatever is accepted stands for the point of these coordinates.
KOf(S) == LET ks == {k \in 1 .. N-1 : Multiple[k] \in S} IN IF ks = {} THEN 0 ELSE CHOOSE k \in ks : TRUE
Parse33A ==
    \E b \in [tag : {"zero", "even", "odd", "uncompressed"}, x : 0 .. P] :
        /\ Parses33(b)
        /\ SetA(Parse33(b), KOf({<<b.x, y>> : y \in {e \in Elements : (e % 2 = 1) = (b.tag = "odd")}}))
Parse65A ==
    \E b \in [tag : {"even", "uncompressed", "hybrid_even", "hybrid_odd"}, x : 0 .. P, y : 0 .. P] :
        /\ Parses65(b)
        /\ SetA(Parse65(b),
                IF b.tag = "uncompressed" \/ (b.y % 2 = 1) = (b.tag = "hybrid_odd")
                THEN KOf({<<b.x, b.y>>}) ELSE 0)

GroupNext ==
    \/ ConvertToJacobian \/ NegateR \/ DoubleR \/ DoubleVarR
    \/ AddVarR \/ CmovR \/ AddGeVarR \/ AddGeR \/ RescaleR \/ AddZinvVarR
    \/ ConvertToAffine \/ ConvertToAffineVar \/ NegateA \/ MulLambdaA \/ StoreA \/ Parse33A \/ Parse65A

GroupSpec == GroupInit /\ [][GroupNext]_groupVars

-----------------------------------------------------------------------------
(***************************************************************************)
(* Any sequence of the operations computes the group law: the degenerate   *)
(* additions (equal points, opposite points, infinity, opposite Y but      *)
(* different X), the endomorphism, the conversions and the encodings       *)
(* included.  No field operation is called outside its contract, and the   *)
(* points stay within the magnitudes that group.h allows them and that the *)
(* arguments of secp256k1_fe_negate rely on.                               *)
(***************************************************************************)
GroupLaw ==
    /\ PointOf(jac) = Multiple[kjac] /\ AffineOf(aff) = Multiple[kaff]
    /\ IsGej(jac) /\ IsGe(aff)

(***************************************************************************)
(* The comparisons agree with the points, whatever their representation,   *)
(* the curve equation with fractions holds for exactly the X coordinates   *)
(* of points, and what is serialized is parsed to the same point.          *)
(***************************************************************************)
ComparisonsSound ==
    /\ GejEqGeVar(jac, aff) = (kjac = kaff)
    /\ \A q \in Operands : GejEqVar(jac, q[1]) = (kjac = q[2] % N)
    /\ GeEqVar(aff, GeSetGejVar(jac)) = (kjac = kaff)
    /\ GeIsValid(aff) = ~aff.inf
    /\ ~aff.inf => /\ Parses33(Serialize33(aff)) /\ GeEqVar(Parse33(Serialize33(aff)), Parse65(Serialize65(aff)))
                 /\ Parses65(Serialize65(aff)) /\ GeEqVar(aff, Parse65(Serialize65(aff)))
    /\ ~jac.inf /\ ~aff.inf => GejEqXVar(aff.x, jac) = (kjac \in {kaff, (-kaff) % N})
    /\ ~jac.inf => \A x \in Elements :
          XFracOnCurve(Mul(Stored(x), Sqr(jac.z)), Sqr(jac.z))
              = (\E k \in 1 .. N-1 : Multiple[k][1] = x)

(***************************************************************************)
(* The shared inversion gives every point its affine coordinates, infinity *)
(* among them or not, and a table of odd multiples brought to one Z        *)
(* coordinate by the ratios is that of the point.                          *)
(***************************************************************************)
TablesSound ==
    /\ LET ps == <<jac, GejInfinity, NegY(jac), GejSetGe(aff), AddGeVar(jac, aff)>>
           ks == <<kjac, 0, -kjac, kaff, kjac + kaff>>
       IN  \A i \in 1 .. 5 : AffineOf(SetAllGejVar(ps)[i]) = Multiple[ks[i] % N]
    /\ ~jac.inf =>
          LET t    == OddMultiples(3, jac)
              pts  == TableSetGlobalz(t.pre, t.zr)
          IN  \A i \in 1 .. 3 :
                 /\ IsGe(pts[i])
                 /\ PointOf([GejSetGe(pts[i]) EXCEPT !.z = t.z]) = Multiple[((2 * i - 1) * kjac) % N]

(* What is computed from points, without changing them, is true of them:    *)
(* comparisons, serialized forms and tables (both above).                   *)
PointsReadSound == ComparisonsSound /\ TablesSound
=============================================================================
