---------------------------- MODULE EcdsaProofs ----------------------------
(***************************************************************************)
(* Three components.  ECDSA, for every group, field, assignment of X         *)
(* coordinates, key, message and sequence of nonces: a signature that was  *)
(* created verifies and gives back the signer's key, and one that was not  *)
(* verifies under no key; and for every signature, recovery finds the keys *)
(* under which it verifies.  What it signs and the nonces it signs with,   *)
(* for every compression function, message and way to write it: digests    *)
(* are those of FIPS 180-4, of BIP-340's tagged hashes and of RFC 2104,    *)
(* and the generator of nonces is that of RFC 6979.  And signatures as     *)
(* bytes: the strict parser reads the encodings of X.690 and nothing else. *)
(***************************************************************************)
EXTENDS Ecdsa, Sha256, Der, SequenceTheorems, CurveLemmas

-----------------------------------------------------------------------------
(* The algebra of a signature *)

Units == 1 .. N-1

LEMMA UnitsAreScalars ==
    /\ \A a \in Units : a \in Scalars /\ a \in Int /\ a # 0
    /\ \A a \in Scalars : a \in Int /\ (a # 0 => a \in Units)
BY CurveAssumption DEF Units, Scalars

LEMMA InverseType ==
    ASSUME NEW a \in Units
    PROVE  ScalarInverse(a) \in Units /\ Times(a, ScalarInverse(a)) = 1 /\ Times(ScalarInverse(a), a) = 1
<1>1. \E b \in 1 .. N-1 : Times(a, b) = 1  BY EcdsaAssumption DEF Units
<1>2. ScalarInverse(a) \in 1 .. N-1 /\ Times(a, ScalarInverse(a)) = 1  BY <1>1 DEF ScalarInverse
<1>3. a \in Int /\ ScalarInverse(a) \in Int  BY <1>2 DEF Units
<1> QED  BY <1>2, <1>3, TimesComm DEF Units

LEMMA SetB32Type ==
    ASSUME NEW b \in Bytes
    PROVE  SetB32(b) \in Scalars /\ (IsSeckey(b) => b \in Units)
<1>1. N \in Nat \ {0} /\ b \in Int /\ b >= 0  BY CurveAssumption, EcdsaAssumption
<1>2. b % N \in Nat /\ b % N < N  BY ONLY <1>1, DivMod
<1> QED  BY <1>1, <1>2 DEF SetB32, Scalars, IsSeckey, Overflow, Units

\* X reduced to a scalar and back: the overflow bit says what was lost.
LEMMA XOfScalar ==
    ASSUME NEW R \in Units
    PROVE  /\ SetB32(X[R]) \in Scalars
           /\ XMatches(SetB32(X[R]), R)
           /\ IF Overflow(X[R]) THEN SetB32(X[R]) < P - N /\ SetB32(X[R]) + N = X[R]
                                ELSE SetB32(X[R]) = X[R]
<1> DEFINE x == X[R]
<1>0. X \in [Units -> 0 .. P-1] /\ P \in Nat /\ N < P /\ P < 2 * N
  BY EcdsaAssumption DEF Units
<1>1. N \in Nat \ {0} /\ P \in Nat /\ N < P /\ P < 2 * N /\ x \in 0 .. P-1
  <2>1. N \in Nat \ {0}  BY CurveAssumption
  <2>2. x \in 0 .. P-1  BY <1>0
  <2> QED  BY <1>0, <2>1, <2>2
<1> HIDE DEF x
<1>2. x \in Int /\ x % N \in Nat /\ x % N < N  BY <1>1, DivMod
<1>3. CASE x < N
  <2>1. x \in Scalars  BY <1>1, <1>3 DEF Scalars
  <2>2. x % N = x  BY <2>1, SmallMod
  <2> QED  BY <1>1, <1>2, <1>3, <2>1, <2>2 DEF SetB32, XMatches, Overflow, x
<1>4. CASE ~(x < N)
  <2> DEFINE y == x - N
  <2>1. y \in Scalars /\ y \in Int /\ y < P - N /\ x = y + N * 1 /\ y + N = x
    BY <1>1, <1>4 DEF Scalars
  <2> HIDE DEF y
  <2>2. (y + N * 1) % N = y % N  BY ONLY <1>1, <2>1, 1 \in Int, ModShift
  <2>3. y % N = y  BY <2>1, SmallMod
  <2>4. x % N = y  BY <2>1, <2>2, <2>3
  <2> QED  BY <1>1, <1>4, <2>1, <2>4 DEF SetB32, XMatches, Overflow, x
<1> QED  BY <1>3, <1>4

LEMMA NegPoint ==
    ASSUME NEW k \in Units
    PROVE  Neg(k) \in Units /\ X[Neg(k)] = X[k] /\ IsOdd(Neg(k)) = ~IsOdd(k)
<1>1. k \in Scalars /\ k # 0  BY UnitsAreScalars
<1>2. Neg(k) \in Units /\ Neg(k) = N - k  BY <1>1, NegType DEF Units, Neg
<1>3. X[Neg(k)] = X[k]  BY <1>2, EcdsaAssumption DEF Units
<1>4. (k \in OddY) # (N - k \in OddY)  BY CurveAssumption DEF Units
<1> QED  BY <1>2, <1>3, <1>4 DEF IsOdd

\* The nonce, or its negative if s was negated.
SignedPoint(k) == IF IsHigh(SigS(k)) THEN Neg(k) ELSE k

\* r*d + m, which the nonce hides.
Hidden(k) == Plus(Times(SigR(k), Sec), SetB32(msg))

Signable(k) == k \in Units /\ SigR(k) # 0 /\ SigS(k) # 0

\* All an attempt computes, in one place.
LEMMA AttemptType ==
    ASSUME Sec \in Units, msg \in Bytes, NEW k, Signable(k)
    PROVE  /\ k \in Units /\ SigR(k) \in Units /\ SigS(k) \in Units /\ LowS(k) \in Units
           /\ SetB32(msg) \in Scalars /\ Hidden(k) \in Scalars
           /\ Times(SigR(k), Sec) \in Scalars
           /\ SignedPoint(k) \in Units
           /\ ~IsHigh(LowS(k))
<1>1. k \in Units /\ SigR(k) # 0 /\ SigS(k) # 0  BY DEF Signable
<1>2. SigR(k) \in Units  BY <1>1, XOfScalar, UnitsAreScalars DEF SigR
<1>3. SetB32(msg) \in Scalars  BY SetB32Type
<1>4. Times(SigR(k), Sec) \in Scalars  BY <1>2, UnitsAreScalars, TimesType
<1>5. Hidden(k) \in Scalars  BY <1>3, <1>4, UnitsAreScalars, PlusType DEF Hidden
<1>6. SigS(k) = Times(ScalarInverse(k), Hidden(k))  BY DEF SigS, Hidden
<1>7. SigS(k) \in Units
  BY <1>1, <1>5, <1>6, InverseType, UnitsAreScalars, TimesType
<1>8. Neg(SigS(k)) \in Units /\ Neg(SigS(k)) = N - SigS(k)
  BY <1>7, UnitsAreScalars, NegType DEF Units, Neg
<1>9. LowS(k) \in Units  BY <1>7, <1>8 DEF LowS
<1>10. ~IsHigh(LowS(k))
  <2> DEFINE s0 == SigS(k)
             h  == N \div 2
  <2>1. N \in Int /\ s0 \in Int /\ h \in Int /\ N <= 2 * h + 1
    BY <1>7, UnitsAreScalars, CurveAssumption
  <2>2. LowS(k) = IF s0 > h THEN N - s0 ELSE s0  BY <1>8 DEF LowS, IsHigh
  <2> HIDE DEF s0, h
  <2>3. ~(LowS(k) > h)  BY <2>1, <2>2
  <2> QED  BY <2>3 DEF IsHigh, h
<1>11. SignedPoint(k) \in Units  BY <1>1, NegPoint DEF SignedPoint
<1> QED  BY <1>1, <1>2, <1>3, <1>4, <1>5, <1>7, <1>9, <1>10, <1>11

\* The signing equation: s times the signed point is r*d + m.
LEMMA SigningEquation ==
    ASSUME Sec \in Units, msg \in Bytes, NEW k, Signable(k)
    PROVE  Times(SignedPoint(k), LowS(k)) = Hidden(k)
<1> DEFINE h  == Hidden(k)
           w  == ScalarInverse(k)
           s0 == SigS(k)
<1>1. k \in Units /\ h \in Scalars /\ s0 \in Units  BY AttemptType
<1>2. w \in Units /\ Times(k, w) = 1  BY <1>1, InverseType
<1>3. s0 = Times(w, h)  BY DEF SigS, Hidden
<1> HIDE DEF h, w, s0
<1>4. k \in Int /\ w \in Int /\ h \in Int /\ k \in Scalars /\ s0 \in Scalars
  BY <1>1, <1>2, UnitsAreScalars
<1>5. Times(k, Times(w, h)) = Times(Times(k, w), h)  BY <1>4, TimesAssoc
<1>6. Times(k, s0) = h  BY <1>1, <1>2, <1>3, <1>5, TimesOne
<1>7. Times(Neg(k), Neg(s0)) = h
  <2>1. Neg(k) \in Scalars /\ Neg(s0) \in Scalars /\ Times(k, s0) \in Scalars
    BY <1>1, <1>4, <1>6, NegType
  <2>2. Times(Neg(k), Neg(s0)) = Neg(Times(k, Neg(s0)))  BY <1>4, <2>1, TimesNeg
  <2>3. Times(k, Neg(s0)) = Neg(Times(k, s0))  BY <1>4, TimesNeg
  <2> QED  BY <1>6, <2>1, <2>2, <2>3, NegNeg
<1> QED  BY <1>6, <1>7 DEF SignedPoint, LowS, h, s0

\* u2*Q + u1*G is the signed point.
LEMMA CreatedVerifies ==
    ASSUME Sec \in Units, msg \in Bytes, NEW k, Signable(k)
    PROVE  Verify(SigR(k), LowS(k), Sec, SetB32(msg))
<1> DEFINE r0 == SigR(k)
           s1 == LowS(k)
           d  == Sec
           m  == SetB32(msg)
           w  == ScalarInverse(s1)
           K  == SignedPoint(k)
<1>1. r0 \in Units /\ s1 \in Units /\ K \in Units /\ m \in Scalars /\ ~IsHigh(s1)
      /\ k \in Units /\ d \in Units
  BY AttemptType
<1>2. w \in Units /\ Times(s1, w) = 1  BY <1>1, InverseType
<1>3. Times(K, s1) = Plus(Times(r0, d), m)  BY SigningEquation DEF Hidden
<1>4. XMatches(r0, K)
  BY <1>1, XOfScalar, NegPoint DEF SigR, SignedPoint, XMatches
<1>5. Plus(Times(Times(w, r0), d), Times(w, m)) = K
  <2> HIDE DEF r0, s1, d, m, w, K
  <2>1. r0 \in Int /\ s1 \in Int /\ K \in Int /\ K \in Scalars /\ m \in Int /\ w \in Int /\ d \in Int
    BY <1>1, <1>2, UnitsAreScalars
  <2>2. Times(r0, d) \in Int  BY <2>1, TimesType, UnitsAreScalars
  <2>3. Times(Times(w, r0), d) = Times(w, Times(r0, d))  BY <2>1, TimesAssoc
  <2>4. Times(w, Plus(Times(r0, d), m)) = Plus(Times(w, Times(r0, d)), Times(w, m))
    BY <2>1, <2>2, TimesPlus
  <2>5. Times(w, Times(K, s1)) = K
    <3>1. Times(Times(K, s1), w) = Times(K, Times(s1, w))  BY <2>1, TimesAssoc
    <3>2. Times(K, s1) \in Int  BY <2>1, TimesType, UnitsAreScalars
    <3>3. Times(w, Times(K, s1)) = Times(Times(K, s1), w)  BY <2>1, <3>2, TimesComm
    <3> QED  BY <1>2, <2>1, <3>1, <3>3, TimesOne
  <2> QED  BY <1>3, <2>3, <2>4, <2>5
<1>6. K # 0 /\ r0 # 0 /\ s1 # 0 /\ d # 0  BY <1>1, UnitsAreScalars
<1> QED  BY <1>1, <1>4, <1>5, <1>6 DEF Verify, SigVerify, Infinity

\* A point is determined by its X coordinate and parity.
LEMMA LiftsOnePoint ==
    ASSUME NEW K \in Units
    PROVE  Lifts(X[K], IsOdd(K)) = {K}
<1>1. K \in Lifts(X[K], IsOdd(K))  BY DEF Lifts, Units
<1>2. ASSUME NEW R \in Lifts(X[K], IsOdd(K)) PROVE R = K
  <2>1. R \in Units /\ X[R] = X[K] /\ IsOdd(R) = IsOdd(K)  BY DEF Lifts, Units
  <2>2. R \in {K, Neg(K)}  BY <2>1, EcdsaAssumption DEF Units
  <2>3. IsOdd(Neg(K)) = ~IsOdd(K)  BY NegPoint
  <2>4. IsOdd(K) \in BOOLEAN  BY DEF IsOdd
  <2> QED  BY <2>1, <2>2, <2>3, <2>4
<1> QED  BY <1>1, <1>2

\* The recovery id names the signed point.
LEMMA RecIdNamesPoint ==
    ASSUME Sec \in Units, msg \in Bytes, NEW k, Signable(k)
    PROVE  UNION {Lifts(x, RecId(k) % 2 = 1) : x \in RecoverX(SigR(k), RecId(k))}
               = {SignedPoint(k)}
<1> DEFINE K   == SignedPoint(k)
           ov  == Overflow(X[k])
           odd == IsOdd(k) # IsHigh(SigS(k))
<1>1. k \in Units /\ K \in Units  BY AttemptType
<1>2. X[K] = X[k] /\ IsOdd(K) = odd
  <2>1. X[Neg(k)] = X[k] /\ IsOdd(Neg(k)) = ~IsOdd(k)  BY <1>1, NegPoint
  <2>2. CASE IsHigh(SigS(k))  BY <2>1, <2>2 DEF SignedPoint, IsOdd
  <2>3. CASE ~IsHigh(SigS(k))
    <3>1. IsHigh(SigS(k)) = FALSE  BY <2>3 DEF IsHigh
    <3>2. K = k  BY <2>3 DEF SignedPoint
    <3>3. IsOdd(k) \in BOOLEAN  BY DEF IsOdd
    <3>4. odd = IsOdd(k)  BY <3>1, <3>3
    <3> QED  BY <3>2, <3>4
  <2> QED  BY <2>2, <2>3
<1>3. RecId(k) = (IF ov THEN 2 ELSE 0) + (IF odd THEN 1 ELSE 0)  BY DEF RecId
<1>4. ov \in BOOLEAN /\ odd \in BOOLEAN  BY DEF Overflow, IsOdd
<1> HIDE DEF ov, odd
<1>5. (RecId(k) < 2 <=> ~ov) /\ (RecId(k) % 2 = 1) = odd  BY <1>3, <1>4
<1>6. RecoverX(SigR(k), RecId(k)) = {X[k]}
  <2>1. IF ov THEN SetB32(X[k]) < P - N /\ SetB32(X[k]) + N = X[k]
              ELSE SetB32(X[k]) = X[k]
    BY <1>1, XOfScalar DEF ov
  <2> QED  BY <1>4, <1>5, <2>1 DEF RecoverX, SigR
<1>7. UNION {Lifts(x, RecId(k) % 2 = 1) : x \in RecoverX(SigR(k), RecId(k))}
          = Lifts(X[k], odd)
  BY <1>5, <1>6
<1>8. Lifts(X[k], odd) = {K}  BY <1>1, <1>2, LiftsOnePoint
<1> QED  BY <1>7, <1>8

\* r^-1 * s*K - r^-1 * m is d.
LEMMA CreatedRecovers ==
    ASSUME Sec \in Units, msg \in Bytes, NEW k, Signable(k)
    PROVE  Recover(SigR(k), LowS(k), RecId(k), SetB32(msg)) = Sec
<1> DEFINE r0 == SigR(k)
           s1 == LowS(k)
           d  == Sec
           m  == SetB32(msg)
           v  == ScalarInverse(r0)
           K  == SignedPoint(k)
           Rs == UNION {Lifts(x, RecId(k) % 2 = 1) : x \in RecoverX(SigR(k), RecId(k))}
           Q  == Plus(Times(Times(v, s1), CHOOSE R \in Rs : TRUE), Neg(Times(v, m)))
<1>1. r0 \in Units /\ s1 \in Units /\ K \in Units /\ m \in Scalars /\ d \in Units
  BY AttemptType
<1>2. v \in Units /\ Times(v, r0) = 1  BY <1>1, InverseType
<1>3. Times(K, s1) = Plus(Times(r0, d), m)  BY SigningEquation DEF Hidden
<1>4. Rs = {K}  BY RecIdNamesPoint
<1>5. (CHOOSE R \in Rs : TRUE) = K  BY <1>4
<1>6. Plus(Times(Times(v, s1), K), Neg(Times(v, m))) = d
  <2> HIDE DEF r0, s1, d, m, v, K, Rs
  <2>1. r0 \in Int /\ s1 \in Int /\ K \in Int /\ m \in Int /\ v \in Int /\ d \in Int
        /\ d \in Scalars
    BY <1>1, <1>2, UnitsAreScalars
  <2>2. Times(r0, d) \in Int /\ Times(v, m) \in Scalars /\ Times(v, m) \in Int
        /\ Neg(Times(v, m)) \in Int
    BY <2>1, TimesType, NegType, UnitsAreScalars
  <2>3. Times(Times(v, s1), K) = Times(v, Times(s1, K))  BY <2>1, TimesAssoc
  <2>4. Times(s1, K) = Times(K, s1)  BY <2>1, TimesComm
  <2>5. Times(v, Plus(Times(r0, d), m)) = Plus(Times(v, Times(r0, d)), Times(v, m))
    BY <2>1, <2>2, TimesPlus
  <2>6. Times(v, Times(r0, d)) = d
    <3>1. Times(Times(v, r0), d) = Times(v, Times(r0, d))  BY <2>1, TimesAssoc
    <3> QED  BY <1>2, <2>1, <3>1, TimesOne
  <2>7. Plus(Plus(d, Times(v, m)), Neg(Times(v, m)))
            = Plus(d, Plus(Times(v, m), Neg(Times(v, m))))
    BY <2>1, <2>2, PlusAssoc
  <2> QED  BY <1>3, <2>1, <2>2, <2>3, <2>4, <2>5, <2>6, <2>7, PlusNeg, PlusZero
<1>7. r0 # 0 /\ s1 # 0 /\ d # 0 /\ Rs # {}  BY <1>1, <1>4, UnitsAreScalars
<1>8. Q = d  BY <1>5, <1>6
<1> QED  BY <1>7, <1>8 DEF Recover, Infinity

-----------------------------------------------------------------------------
(* Recovery and verification solve one equation, R*s = r*Q + m: the one    *)
(* for R, the other for Q                                                  *)

LEMMA VerifySolves ==
    ASSUME NEW r0 \in Units, NEW s0 \in Units, NEW m \in Scalars,
           NEW Q \in Scalars, NEW R \in Scalars
    PROVE  Times(R, s0) = Plus(Times(r0, Q), m)
               <=> Plus(Times(Times(ScalarInverse(s0), r0), Q), Times(ScalarInverse(s0), m)) = R
<1> DEFINE w == ScalarInverse(s0)
           h == Plus(Times(r0, Q), m)
<1>1. w \in Units /\ Times(s0, w) = 1 /\ Times(w, s0) = 1  BY InverseType
<1> HIDE DEF w
<1>2. r0 \in Int /\ s0 \in Int /\ m \in Int /\ Q \in Int /\ R \in Int /\ w \in Int
  BY <1>1, UnitsAreScalars
<1>3. Times(r0, Q) \in Int /\ h \in Scalars /\ h \in Int
  BY <1>2, TimesType, PlusType, UnitsAreScalars
<1>4. Plus(Times(Times(w, r0), Q), Times(w, m)) = Times(w, h)
  <2>1. Times(Times(w, r0), Q) = Times(w, Times(r0, Q))  BY <1>2, TimesAssoc
  <2>2. Times(w, h) = Plus(Times(w, Times(r0, Q)), Times(w, m))  BY <1>2, <1>3, TimesPlus
  <2> QED  BY <2>1, <2>2
<1> HIDE DEF h
<1>5. ASSUME Times(R, s0) = h PROVE Times(w, h) = R
  <2>1. Times(Times(R, s0), w) = Times(R, Times(s0, w))  BY <1>2, TimesAssoc
  <2>2. Times(h, w) = Times(w, h)  BY <1>2, <1>3, TimesComm
  <2> QED  BY <1>1, <1>5, <2>1, <2>2, TimesOne
<1>6. ASSUME Times(w, h) = R PROVE Times(R, s0) = h
  <2>1. Times(s0, Times(w, h)) = Times(Times(s0, w), h)  BY <1>2, <1>3, TimesAssoc
  <2>2. Times(R, s0) = Times(s0, R)  BY <1>2, TimesComm
  <2> QED  BY <1>1, <1>3, <1>6, <2>1, <2>2, TimesOne
<1> QED  BY <1>4, <1>5, <1>6 DEF w, h

LEMMA RecoverSolves ==
    ASSUME NEW r0 \in Units, NEW s0 \in Units, NEW m \in Scalars,
           NEW Q \in Scalars, NEW R \in Scalars
    PROVE  Times(R, s0) = Plus(Times(r0, Q), m)
               <=> Plus(Times(Times(ScalarInverse(r0), s0), R), Neg(Times(ScalarInverse(r0), m))) = Q
<1> DEFINE v == ScalarInverse(r0)
           q == Plus(Times(Times(v, s0), R), Neg(Times(v, m)))
<1>1. v \in Units /\ Times(r0, v) = 1 /\ Times(v, r0) = 1  BY InverseType
<1> HIDE DEF v
<1>2. r0 \in Int /\ s0 \in Int /\ m \in Int /\ Q \in Int /\ R \in Int /\ v \in Int
  BY <1>1, UnitsAreScalars
<1>3. Times(R, s0) \in Int /\ Times(r0, Q) \in Int /\ Times(v, m) \in Scalars
      /\ Times(v, m) \in Int /\ Neg(Times(v, m)) \in Int /\ Neg(m) \in Int
      /\ Times(R, s0) \in Scalars
  BY <1>2, TimesType, NegType, UnitsAreScalars
<1>4. Times(Times(v, s0), R) = Times(v, Times(R, s0))
  <2>1. Times(Times(v, s0), R) = Times(v, Times(s0, R))  BY <1>2, TimesAssoc
  <2> QED  BY <1>2, <2>1, TimesComm
<1>5. ASSUME Times(R, s0) = Plus(Times(r0, Q), m) PROVE q = Q
  <2>1. Times(v, Plus(Times(r0, Q), m)) = Plus(Times(v, Times(r0, Q)), Times(v, m))
    BY <1>2, <1>3, TimesPlus
  <2>2. Times(v, Times(r0, Q)) = Q
    <3>1. Times(Times(v, r0), Q) = Times(v, Times(r0, Q))  BY <1>2, TimesAssoc
    <3> QED  BY <1>1, <3>1, TimesOne
  <2>3. Plus(Plus(Q, Times(v, m)), Neg(Times(v, m)))
            = Plus(Q, Plus(Times(v, m), Neg(Times(v, m))))
    BY <1>2, <1>3, PlusAssoc
  <2> QED  BY <1>2, <1>3, <1>4, <1>5, <2>1, <2>2, <2>3, PlusNeg, PlusZero
<1>6. ASSUME q = Q PROVE Times(R, s0) = Plus(Times(r0, Q), m)
  <2> DEFINE a == Times(R, s0)
  <2>1. a \in Int /\ a \in Scalars  BY <1>3
  <2>2. Q = Plus(Times(v, a), Neg(Times(v, m)))  BY <1>4, <1>6
  <2> HIDE DEF a
  <2>3. Neg(Times(v, m)) = Times(v, Neg(m))  BY <1>1, <1>2, UnitsAreScalars, TimesNeg
  <2>4. Plus(Times(v, a), Times(v, Neg(m))) = Times(v, Plus(a, Neg(m)))
    BY <1>2, <1>3, <2>1, TimesPlus
  <2>5. Plus(a, Neg(m)) \in Scalars /\ Plus(a, Neg(m)) \in Int
    BY <1>3, <2>1, PlusType, UnitsAreScalars
  <2>6. Times(r0, Q) = Plus(a, Neg(m))
    <3>1. Times(r0, Times(v, Plus(a, Neg(m)))) = Times(Times(r0, v), Plus(a, Neg(m)))
      BY <1>2, <2>5, TimesAssoc
    <3> QED  BY <1>1, <2>2, <2>3, <2>4, <2>5, <3>1, TimesOne
  <2>7. Plus(Plus(a, Neg(m)), m) = Plus(a, Plus(Neg(m), m))  BY <1>2, <1>3, <2>1, PlusAssoc
  <2>8. Plus(Neg(m), m) = 0  BY <1>2, <1>3, PlusComm, PlusNeg
  <2>9. Plus(Times(r0, Q), m) = a  BY <2>1, <2>6, <2>7, <2>8, PlusZero
  <2> QED  BY <2>9 DEF a
<1> QED  BY <1>5, <1>6 DEF v

\* The points that an id lets recovery try.
Candidates(rr, id) == UNION {Lifts(x, id % 2 = 1) : x \in RecoverX(rr, id)}

\* The low one of s and -s, and the point that goes with it.
LEMMA NormalizedEquation ==
    ASSUME NEW s0 \in Units, NEW R \in Units
    PROVE  /\ Normalized(s0) \in Units /\ ~IsHigh(Normalized(s0))
           /\ \E K \in Units : X[K] = X[R] /\ Times(K, Normalized(s0)) = Times(R, s0)
<1>1. Neg(s0) \in Units /\ Neg(s0) = N - s0  BY UnitsAreScalars, NegType DEF Units, Neg
<1>2. ~IsHigh(Normalized(s0))
  <2> DEFINE h  == N \div 2
  <2>1. N \in Int /\ s0 \in Int /\ h \in Int /\ N <= 2 * h + 1
    BY UnitsAreScalars, CurveAssumption
  <2>2. Normalized(s0) = IF s0 > h THEN N - s0 ELSE s0  BY <1>1 DEF Normalized, IsHigh
  <2> HIDE DEF h
  <2>3. ~(Normalized(s0) > h)  BY <2>1, <2>2
  <2> QED  BY <2>3 DEF IsHigh, h
<1>3. Neg(R) \in Units /\ X[Neg(R)] = X[R]  BY NegPoint
<1>4. Times(Neg(R), Neg(s0)) = Times(R, s0)
  <2>1. R \in Int /\ s0 \in Int /\ Neg(R) \in Int /\ Neg(s0) \in Int
        /\ R \in Scalars /\ s0 \in Scalars /\ Neg(R) \in Scalars /\ Neg(s0) \in Scalars
    BY <1>1, <1>3, UnitsAreScalars
  <2>2. Times(R, s0) \in Scalars  BY <2>1, TimesType
  <2>3. Times(Neg(R), Neg(s0)) = Neg(Times(R, Neg(s0)))
    <3>1. Times(Neg(R), Neg(s0)) = Times(Neg(s0), Neg(R))  BY <2>1, TimesComm
    <3>2. Times(Neg(s0), Neg(R)) = Neg(Times(Neg(s0), R))  BY <2>1, TimesNeg
    <3>3. Times(Neg(s0), R) = Times(R, Neg(s0))  BY <2>1, TimesComm
    <3> QED  BY <3>1, <3>2, <3>3
  <2>4. Times(R, Neg(s0)) = Neg(Times(R, s0))  BY <2>1, TimesNeg
  <2> QED  BY <2>2, <2>3, <2>4, NegNeg
<1> QED  BY <1>1, <1>2, <1>3, <1>4 DEF Normalized

\* A recovered key verifies the normalized signature.
LEMMA RecoveredVerifies ==
    ASSUME NEW r0 \in Scalars, NEW s0 \in Scalars, NEW id, NEW m \in Scalars,
           Recover(r0, s0, id, m) # Fail
    PROVE  Verify(r0, Normalized(s0), Recover(r0, s0, id, m), m)
<1> DEFINE Rs == Candidates(r0, id)
           R  == CHOOSE R0 \in Rs : TRUE
           Q  == Plus(Times(Times(ScalarInverse(r0), s0), R), Neg(Times(ScalarInverse(r0), m)))
           s1 == Normalized(s0)
<1>1. r0 # 0 /\ s0 # 0 /\ Rs # {} /\ Q # Infinity /\ Recover(r0, s0, id, m) = Q
  BY DEF Recover, Candidates
<1>2. r0 \in Units /\ s0 \in Units  BY <1>1, UnitsAreScalars
<1>3. R \in Rs  BY <1>1
<1>4. R \in Units /\ XMatches(r0, R)
  <2>1. PICK x \in RecoverX(r0, id) : R \in Lifts(x, id % 2 = 1)  BY <1>3 DEF Candidates
  <2>2. R \in Units /\ X[R] = x  BY <2>1 DEF Lifts, Units
  <2>3. x = r0 \/ (r0 < P - N /\ x = r0 + N)  BY <2>1 DEF RecoverX
  <2> QED  BY <2>2, <2>3 DEF XMatches
<1> HIDE DEF R, Rs
<1>5. Q \in Scalars
  <2>1. ScalarInverse(r0) \in Int /\ s0 \in Int /\ R \in Int /\ m \in Int
    BY <1>2, <1>4, InverseType, UnitsAreScalars
  <2>2. Times(Times(ScalarInverse(r0), s0), R) \in Int /\ Neg(Times(ScalarInverse(r0), m)) \in Int
    BY <2>1, TimesType, NegType, UnitsAreScalars
  <2> QED  BY <2>2, PlusType
<1>6. Times(R, s0) = Plus(Times(r0, Q), m)
  <2>1. R \in Scalars  BY <1>4, UnitsAreScalars
  <2> QED  BY <1>2, <1>5, <2>1, RecoverSolves
<1> HIDE DEF Q
<1>7. s1 \in Units /\ ~IsHigh(s1)  BY <1>2, <1>4, NormalizedEquation
<1>8. PICK K \in Units : X[K] = X[R] /\ Times(K, s1) = Times(R, s0)
  BY <1>2, <1>4, NormalizedEquation
<1> HIDE DEF s1
<1>9. Plus(Times(Times(ScalarInverse(s1), r0), Q), Times(ScalarInverse(s1), m)) = K
  <2>1. K \in Scalars  BY UnitsAreScalars
  <2>2. Times(K, s1) = Plus(Times(r0, Q), m)  BY <1>6, <1>8
  <2> QED  BY <1>2, <1>5, <1>7, <2>1, <2>2, VerifySolves
<1>10. K # 0 /\ s1 # 0 /\ XMatches(r0, K)
  BY <1>4, <1>7, <1>8, UnitsAreScalars DEF XMatches
<1>11. Verify(r0, s1, Q, m)
  BY <1>1, <1>7, <1>9, <1>10 DEF Verify, SigVerify, Infinity
<1> QED  BY <1>1, <1>11 DEF s1

\* A key that verifies is recovered with the id of the point R.
LEMMA VerifiedRecovers ==
    ASSUME NEW r0 \in Scalars, NEW s0 \in Scalars, NEW m \in Scalars, NEW K \in Units,
           Verify(r0, s0, K, m)
    PROVE  \E id \in 0 .. 3 : Recover(r0, s0, id, m) = K
<1> DEFINE R  == Plus(Times(Times(ScalarInverse(s0), r0), K), Times(ScalarInverse(s0), m))
           id == (IF r0 = X[R] THEN 0 ELSE 2) + (IF IsOdd(R) THEN 1 ELSE 0)
<1>1. r0 # 0 /\ s0 # 0 /\ R # Infinity /\ XMatches(r0, R)  BY DEF Verify, SigVerify
<1>2. r0 \in Units /\ s0 \in Units /\ K \in Scalars /\ K # 0  BY <1>1, UnitsAreScalars
<1>3. R \in Scalars /\ R \in Units
  <2>1. ScalarInverse(s0) \in Int /\ r0 \in Int /\ K \in Int /\ m \in Int
    BY <1>2, InverseType, UnitsAreScalars
  <2>2. Times(Times(ScalarInverse(s0), r0), K) \in Int /\ Times(ScalarInverse(s0), m) \in Int
    BY <2>1, TimesType, UnitsAreScalars
  <2> QED  BY <1>1, <2>2, PlusType, UnitsAreScalars DEF Infinity
<1>4. Plus(Times(Times(ScalarInverse(r0), s0), R), Neg(Times(ScalarInverse(r0), m))) = K
  <2>1. Times(R, s0) = Plus(Times(r0, K), m)  BY <1>2, <1>3, VerifySolves
  <2> QED  BY <1>2, <1>3, <2>1, RecoverSolves
<1> HIDE DEF R
<1>5. IsOdd(R) \in BOOLEAN  BY DEF IsOdd
<1>6. id \in 0 .. 3 /\ (id < 2 <=> r0 = X[R]) /\ (id % 2 = 1) = IsOdd(R)  BY <1>5
<1> HIDE DEF id
<1>7. RecoverX(r0, id) = {X[R]}  BY <1>1, <1>6 DEF RecoverX, XMatches
<1>8. Candidates(r0, id) = {R}
  <2>1. Candidates(r0, id) = Lifts(X[R], IsOdd(R))  BY <1>6, <1>7 DEF Candidates
  <2> QED  BY <1>3, <2>1, LiftsOnePoint
<1>9. Recover(r0, s0, id, m) = K
  <2>1. (CHOOSE R0 \in Candidates(r0, id) : TRUE) = R  BY <1>8
  <2> QED  BY <1>1, <1>2, <1>4, <1>8, <2>1 DEF Recover, Candidates, Infinity
<1> QED  BY <1>6, <1>9

-----------------------------------------------------------------------------
(* The inductive invariant: a signature that was created comes from one    *)
(* attempt with a valid nonce and a valid key                              *)

Created(k) == Signable(k) /\ r = SigR(k) /\ s = LowS(k) /\ recid = RecId(k)

IInv ==
    /\ seckey \in Bytes /\ msg \in Bytes
    /\ pc = "signed" /\ ret = 1 => IsSeckey(seckey) /\ \E k \in Units : Created(k)
    /\ pc = "signed" /\ ret # 1 => r = 0
    /\ pc = "parsed" => r \in Scalars /\ s \in Scalars

LEMMA IInvInductive == Spec => []IInv
<1>1. Init => IInv  BY DEF Init, IInv
<1>2. IInv /\ [Next]_vars => IInv'
  <2> SUFFICES ASSUME IInv, [Next]_vars PROVE IInv'  OBVIOUS
  <2>1. CASE SignStart  BY <2>1 DEF SignStart, IInv, args
  <2>2. CASE NonceFails  BY <2>2 DEF NonceFails, Return, IInv, args
  <2>3. ASSUME NEW nonce32 \in Bytes, TryAgain(nonce32) PROVE IInv'
    BY <2>3 DEF TryAgain, IInv, args
  <2>4. ASSUME NEW nonce32 \in Bytes, Sign(nonce32) PROVE IInv'
    <3>1. CASE IsSeckey(seckey)
      <4>1. nonce32 \in Units  BY <2>4, SetB32Type DEF Sign
      <4>2. Signable(nonce32)  BY <2>4, <4>1 DEF Sign, Signable
      <4>3. seckey' = seckey /\ msg' = msg  BY <2>4 DEF Sign, args
      <4>4. r' = SigR(nonce32) /\ s' = LowS(nonce32) /\ recid' = RecId(nonce32)
        BY <2>4, <3>1 DEF Sign, Return
      <4>5. Created(nonce32)'
        BY <4>1, <4>2, <4>3, <4>4 DEF Created, Signable, SigR, SigS, LowS, RecId, Sec
      <4> QED  BY <2>4, <3>1, <4>1, <4>3, <4>5 DEF IInv, Sign, Return
    <3>2. CASE ~IsSeckey(seckey)
      BY <2>4, <3>2 DEF Sign, Return, IInv, args
    <3> QED  BY <3>1, <3>2
  <2>5. ASSUME NEW r32 \in Bytes, NEW s32 \in Bytes, NEW id \in 0 .. 3, ParseCompact(r32, s32, id)
        PROVE  IInv'
    <3>1. 0 \in Scalars /\ SetB32(r32) \in Scalars /\ SetB32(s32) \in Scalars
      BY SetB32Type, CurveAssumption DEF Scalars
    <3> QED  BY <2>5, <3>1 DEF ParseCompact, IInv, args
  <2>6. CASE UNCHANGED vars
    BY <2>6 DEF vars, args, sig, IInv, Created, Signable, SigR, SigS, LowS, RecId, Sec
  <2> QED  BY <2>1, <2>2, <2>3, <2>4, <2>5, <2>6 DEF Next, Finished
<1> QED  BY <1>1, <1>2, PTL DEF Spec

\* With IInv, a created signature is one the lemmas are about.
LEMMA CreatedSignature ==
    ASSUME IInv, pc = "signed", ret = 1
    PROVE  /\ Sec = seckey /\ seckey \in Units /\ Times(seckey, G) = seckey
           /\ \E k \in Units : Created(k)
<1>1. IsSeckey(seckey) /\ seckey \in Bytes /\ \E k \in Units : Created(k)  BY DEF IInv
<1>2. seckey \in Units  BY <1>1, SetB32Type
<1>3. Times(seckey, 1) = seckey  BY <1>2, UnitsAreScalars, TimesOne
<1> QED  BY <1>1, <1>2, <1>3 DEF Sec, G

(***************************************************************************)
(* Every signature that secp256k1_ecdsa_sign creates is in lower-S form    *)
(* and verifies under the signer's key, and a failed call leaves one that  *)
(* verifies under no key, for every group, key, message and nonce.         *)
(***************************************************************************)
THEOREM EcdsaSignatureVerifies == Spec => []SignatureVerifies
<1>1. IInv => SignatureVerifies
  <2> SUFFICES ASSUME IInv, pc = "signed" PROVE
        IF ret = 1 THEN IsSeckey(seckey) /\ ~IsHigh(s) /\ Verify(r, s, Times(seckey, G), M)
                   ELSE \A Q \in Points : ~Verify(r, s, Q, M)
    BY DEF SignatureVerifies
  <2>1. CASE ret = 1
    <3>1. PICK k \in Units : Created(k)  BY <2>1, CreatedSignature
    <3>2. Sec = seckey /\ seckey \in Units /\ msg \in Bytes /\ Times(seckey, G) = seckey
      BY <2>1, CreatedSignature DEF IInv
    <3>3. Signable(k) /\ r = SigR(k) /\ s = LowS(k)  BY <3>1 DEF Created
    <3>4. Verify(SigR(k), LowS(k), Sec, SetB32(msg))  BY <3>2, <3>3, CreatedVerifies
    <3>5. Verify(r, s, Times(seckey, G), M)  BY <3>2, <3>3, <3>4 DEF M
    <3>6. IsSeckey(seckey)  BY <2>1 DEF IInv
    <3> QED  BY <2>1, <3>5, <3>6 DEF Verify
  <2>2. CASE ret # 1
    <3>1. r = 0  BY <2>2 DEF IInv
    <3> QED  BY <2>2, <3>1 DEF Verify, SigVerify
  <2> QED  BY <2>1, <2>2
<1> QED  BY <1>1, IInvInductive, PTL

(***************************************************************************)
(* From every signature that was created secp256k1_ecdsa_recover gets the  *)
(* signer's key, for every group, key, message and nonce.                  *)
(***************************************************************************)
THEOREM EcdsaSignerIsRecovered == Spec => []SignerIsRecovered
<1>1. IInv => SignerIsRecovered
  <2> SUFFICES ASSUME IInv, pc = "signed", ret = 1
               PROVE  Recover(r, s, recid, M) = Times(seckey, G)
    BY DEF SignerIsRecovered
  <2>1. PICK k \in Units : Created(k)  BY CreatedSignature
  <2>2. Sec = seckey /\ seckey \in Units /\ msg \in Bytes /\ Times(seckey, G) = seckey
    BY CreatedSignature DEF IInv
  <2>3. Signable(k) /\ r = SigR(k) /\ s = LowS(k) /\ recid = RecId(k)  BY <2>1 DEF Created
  <2>4. Recover(SigR(k), LowS(k), RecId(k), SetB32(msg)) = Sec  BY <2>2, <2>3, CreatedRecovers
  <2> QED  BY <2>2, <2>3, <2>4 DEF M
<1> QED  BY <1>1, IInvInductive, PTL

(***************************************************************************)
(* For every r, s and recid that parse_compact lets through: a recovered   *)
(* key verifies the normalized signature, and a key that verifies is what  *)
(* one of the four recids recovers.                                        *)
(***************************************************************************)
THEOREM EcdsaRecoveryIsVerification == Spec => []RecoveryIsVerification
<1>1. IInv => RecoveryIsVerification
  <2> SUFFICES ASSUME IInv, pc = "parsed"
               PROVE  /\ Recover(r, s, recid, M) # Fail =>
                            Verify(r, Normalized(s), Recover(r, s, recid, M), M)
                      /\ \A K \in 1 .. N-1 : Verify(r, s, K, M) =>
                            \E id \in 0 .. 3 : Recover(r, s, id, M) = K
    BY DEF RecoveryIsVerification
  <2>1. r \in Scalars /\ s \in Scalars /\ M \in Scalars  BY SetB32Type DEF IInv, M
  <2>2. Recover(r, s, recid, M) # Fail =>
            Verify(r, Normalized(s), Recover(r, s, recid, M), M)
    BY <2>1, RecoveredVerifies
  <2>3. ASSUME NEW K \in 1 .. N-1, Verify(r, s, K, M)
        PROVE  \E id \in 0 .. 3 : Recover(r, s, id, M) = K
    BY <2>1, <2>3, VerifiedRecovers DEF Units
  <2> QED  BY <2>2, <2>3
<1> QED  BY <1>1, IInvInductive, PTL

-----------------------------------------------------------------------------
(* Recursion over the naturals *)

\* A function on 0 .. m that is defined by its start and by a step from each
\* number to the next exists.
IsRecursion(f, T, b, m, H) ==
    /\ f \in [0 .. m -> T]
    /\ \A n \in 0 .. m : f[n] = IF n = 0 THEN b ELSE H[<<f[n-1], n>>]

LEMMA RecursionDefined ==
    ASSUME NEW T, NEW b \in T, NEW m \in Nat, NEW H \in [T \X (1 .. m) -> T]
    PROVE  \E f : IsRecursion(f, T, b, m, H)
<1> DEFINE Rec(g, k) == /\ g \in [0 .. k -> T]
                        /\ \A n \in 0 .. k : g[n] = IF n = 0 THEN b ELSE H[<<g[n-1], n>>]
           U == {k \in 0 .. m : ~ \E g : Rec(g, k)}
<1> SUFFICES ASSUME U # {} PROVE FALSE
  <2>1. m \in 0 .. m  OBVIOUS
  <2>2. ASSUME m \notin U PROVE \E g : Rec(g, m)  BY <2>1, <2>2
  <2>3. ASSUME NEW g, Rec(g, m) PROVE IsRecursion(g, T, b, m, H)  BY <2>3 DEF IsRecursion
  <2> HIDE DEF U, Rec
  <2> QED  BY <2>2, <2>3
<1>1. PICK k \in U : \A j \in U : k <= j
  <2>1. U \in SUBSET Nat  OBVIOUS
  <2> HIDE DEF U
  <2> QED  BY <2>1, LeastElement
<1>2. k \in 0 .. m /\ ~ \E g : Rec(g, k)  OBVIOUS
<1>3. CASE k = 0
  <2>1. Rec([n \in 0 .. k |-> b], k)  BY <1>3
  <2> QED  BY <1>2, <2>1
<1>4. CASE k # 0
  <2>1. k - 1 \in 0 .. m /\ k - 1 \notin U
    <3>1. k - 1 \in 0 .. m  BY <1>2, <1>4
    <3> SUFFICES ASSUME k - 1 \in U PROVE FALSE  BY <3>1
    <3>2. k <= k - 1  BY <1>1
    <3> QED  BY <3>1, <3>2
  <2>2. PICK g : Rec(g, k - 1)  BY <2>1
  <2> DEFINE g1 == [n \in 0 .. k |-> IF n < k THEN g[n] ELSE H[<<g[k-1], k>>]]
  <2>3. g[k-1] \in T /\ H[<<g[k-1], k>>] \in T  BY <1>2, <1>4, <2>1, <2>2
  <2>4. g1 \in [0 .. k -> T]  BY <1>2, <2>2, <2>3
  <2>5. ASSUME NEW n \in 0 .. k PROVE g1[n] = IF n = 0 THEN b ELSE H[<<g1[n-1], n>>]
    <3>1. \A i \in 0 .. k - 1 : g1[i] = g[i]  BY <1>2
    <3>2. g1[k] = H[<<g[k-1], k>>]  BY <1>2
    <3>3. \A i \in 0 .. k - 1 : g[i] = IF i = 0 THEN b ELSE H[<<g[i-1], i>>]  BY <2>2
    <3> HIDE DEF g1
    <3>4. CASE n = 0
      <4>1. 0 \in 0 .. k - 1  BY <1>2, <1>4
      <4> QED  BY <3>1, <3>3, <3>4, <4>1
    <3>5. CASE n = k  BY <1>2, <1>4, <3>1, <3>2, <3>5
    <3>6. CASE n # 0 /\ n # k
      <4>1. n \in 0 .. k - 1 /\ n - 1 \in 0 .. k - 1  BY <1>2, <3>6
      <4> QED  BY <3>1, <3>3, <3>6, <4>1
    <3> QED  BY <3>4, <3>5, <3>6
  <2>6. Rec(g1, k)  BY <2>4, <2>5
  <2> QED  BY <1>2, <2>6
<1> QED  BY <1>3, <1>4

-----------------------------------------------------------------------------
(* Blocks *)

\* What a compression function is: eight words and a block make eight words.
State == [1 .. 8 -> Nat]
Data == Seq(Byte)
EightWords ==
    /\ InitialState \in State
    /\ \A x \in State, block \in Data : Compress(x, block) \in State

Block(data, n) == SubSeq(data, 64 * n - 63, 64 * n)
IsChain(f, x, data) ==
    f = [n \in 0 .. Len(data) \div 64 |->
            IF n = 0 THEN x ELSE Compress(f[n-1], SubSeq(data, 64 * n - 63, 64 * n))]
Chain(x, data) == CHOOSE f : IsChain(f, x, data)

LEMMA BlocksIsChain ==
    ASSUME NEW x, NEW data
    PROVE  Blocks(x, data) = Chain(x, data)[Len(data) \div 64]
BY DEF Blocks, Chain, IsChain

\* Which the block is that a chain takes.
LEMMA BlockType ==
    ASSUME NEW data \in Data, NEW n \in Nat, n > 0, 64 * n <= Len(data)
    PROVE  /\ Block(data, n) \in Data /\ Len(Block(data, n)) = 64
           /\ \A i \in 1 .. 64 : Block(data, n)[i] = data[64 * (n - 1) + i]
<1> DEFINE p == 64 * n - 63
           q == 64 * n
<1>1. Len(data) \in Nat /\ data \in [1 .. Len(data) -> Byte]  BY LenProperties DEF Data
<1>2. p \in Int /\ q \in Int /\ 1 <= p /\ q <= Len(data) /\ q = p + 63  BY <1>1
<1> HIDE DEF p, q
<1>3. \A i \in p .. q : data[i] \in Byte  BY <1>1, <1>2
<1>4. /\ SubSeq(data, p, q) \in Seq(Byte)
      /\ Len(SubSeq(data, p, q)) = IF p <= q THEN q - p + 1 ELSE 0
      /\ \A i \in 1 .. q - p + 1 : SubSeq(data, p, q)[i] = data[p + i - 1]
  BY <1>2, <1>3, SubSeqProperties
<1>5. p <= q /\ q - p + 1 = 64  BY <1>2
<1>6. Block(data, n) = SubSeq(data, p, q)  BY DEF Block, p, q
<1>7. Block(data, n) \in Data /\ Len(Block(data, n)) = 64  BY <1>4, <1>5, <1>6 DEF Data
<1>8. ASSUME NEW i \in 1 .. 64 PROVE Block(data, n)[i] = data[64 * (n - 1) + i]
  <2>1. Block(data, n)[i] = data[p + i - 1]  BY <1>4, <1>5, <1>6
  <2>2. p + i - 1 = 64 * (n - 1) + i  BY DEF p
  <2> QED  BY <2>1, <2>2
<1> QED  BY <1>7, <1>8

\* The chain of states exists.
LEMMA ChainDefined ==
    ASSUME EightWords, NEW x \in State, NEW data \in Data
    PROVE  /\ Chain(x, data)[0] = x
           /\ \A n \in 0 .. Len(data) \div 64 : Chain(x, data)[n] \in State
           /\ \A n \in 1 .. Len(data) \div 64 :
                 Chain(x, data)[n] = Compress(Chain(x, data)[n-1], Block(data, n))
<1> DEFINE m == Len(data) \div 64
           H == [p \in State \X (1 .. m) |-> Compress(p[1], Block(data, p[2]))]
<1>1. Len(data) \in Nat  BY LenProperties DEF Data
<1>2. m \in Nat /\ \A n \in 1 .. m : n \in Nat /\ n > 0 /\ 64 * n <= Len(data)  BY <1>1
<1> HIDE DEF m
<1>3. \A n \in 1 .. m : Block(data, n) \in Data  BY <1>2, BlockType
<1>4. H \in [State \X (1 .. m) -> State]
  <2> SUFFICES ASSUME NEW p \in State \X (1 .. m) PROVE Compress(p[1], Block(data, p[2])) \in State
    OBVIOUS
  <2> QED  BY <1>3 DEF EightWords
<1>5. \A y \in State, n \in 1 .. m : H[<<y, n>>] = Compress(y, Block(data, n))  OBVIOUS
<1> HIDE DEF H
<1>6. PICK f : IsRecursion(f, State, x, m, H)  BY <1>2, <1>4, RecursionDefined
<1> DEFINE E(g, n) == IF n = 0 THEN x ELSE Compress(g[n-1], SubSeq(data, 64 * n - 63, 64 * n))
<1>7. ASSUME NEW n \in 0 .. m PROVE f[n] = E(f, n)
  <2>1. CASE n = 0  BY <1>6, <2>1 DEF IsRecursion
  <2>2. CASE n # 0
    <3>1. n \in 1 .. m /\ n - 1 \in 0 .. m  BY <1>2, <2>2
    <3>2. f[n] = H[<<f[n-1], n>>] /\ f[n-1] \in State  BY ONLY <1>6, <3>1 DEF IsRecursion
    <3>3. f[n] = Compress(f[n-1], Block(data, n))  BY ONLY <1>5, <3>1, <3>2
    <3> QED  BY ONLY <2>2, <3>3 DEF Block
  <2> QED  BY <2>1, <2>2
<1> HIDE DEF E
<1>8. f = [n \in 0 .. m |-> E(f, n)]  BY <1>6, <1>7 DEF IsRecursion
<1>9. IsChain(f, x, data)  BY <1>8 DEF IsChain, E, m
<1> DEFINE c == Chain(x, data)
<1>10. IsChain(c, x, data)
  <2>1. \E g : IsChain(g, x, data)  BY <1>9
  <2> QED  BY <2>1 DEF Chain
<1> HIDE DEF c
<1>11. c = [n \in 0 .. m |-> E(c, n)]  BY <1>10 DEF IsChain, E, m
<1>12. \A n \in 0 .. m : c[n] = E(c, n)  BY <1>11
<1>13. c[0] = x  BY <1>2, <1>12 DEF E
<1>14. \A n \in 1 .. m : c[n] = Compress(c[n-1], Block(data, n))
  BY <1>2, <1>12 DEF E, Block
<1>15. \A n \in 0 .. m : c[n] \in State
  <2> DEFINE U == {n \in 0 .. m : c[n] \notin State}
  <2> SUFFICES ASSUME U # {} PROVE FALSE  OBVIOUS
  <2>1. PICK k \in U : \A j \in U : k <= j
    <3>1. U \in SUBSET Nat  OBVIOUS
    <3> HIDE DEF U
    <3> QED  BY <3>1, LeastElement
  <2>2. k \in 0 .. m /\ c[k] \notin State  OBVIOUS
  <2>3. k # 0  BY <1>13, <2>2
  <2>4. k \in 1 .. m /\ k - 1 \in 0 .. m /\ k - 1 \notin U
    <3>1. k \in 1 .. m /\ k - 1 \in 0 .. m  BY <1>2, <2>2, <2>3
    <3> SUFFICES ASSUME k - 1 \in U PROVE FALSE  BY <3>1
    <3>2. k <= k - 1  BY <2>1
    <3> QED  BY <3>1, <3>2
  <2>5. c[k-1] \in State /\ Block(data, k) \in Data  BY <1>3, <2>4
  <2> QED  BY <1>14, <2>2, <2>4, <2>5 DEF EightWords
<1> QED  BY <1>13, <1>14, <1>15 DEF c, m

\* The first k blocks of e are those of d after j blocks.
SameBlocks(e, k, d, j) == \A i \in 1 .. 64 * k : e[i] = d[64 * j + i]

\* A chain that starts where another one is, on the same bytes, goes along
\* with it.
LEMMA ChainFollows ==
    ASSUME EightWords, NEW x \in State, NEW y \in State, NEW d \in Data, NEW e \in Data,
           NEW j \in Nat, NEW k \in Nat, 64 * (j + k) <= Len(d), 64 * k <= Len(e),
           SameBlocks(e, k, d, j),
           y = Chain(x, d)[j]
    PROVE  Chain(y, e)[k] = Chain(x, d)[j + k]
<1>1. Len(d) \in Nat /\ Len(e) \in Nat  BY LenProperties DEF Data
<1> DEFINE U == {n \in 0 .. k : Chain(y, e)[n] # Chain(x, d)[j + n]}
<1>2. k \in 0 .. k  OBVIOUS
<1> SUFFICES ASSUME U # {} PROVE FALSE  BY <1>2
<1>3. PICK n \in U : \A i \in U : n <= i
  <2>1. U \in SUBSET Nat  OBVIOUS
  <2> HIDE DEF U
  <2> QED  BY <2>1, LeastElement
<1>4. n \in 0 .. k /\ Chain(y, e)[n] # Chain(x, d)[j + n]  OBVIOUS
<1>5. Chain(y, e)[0] = y  BY ChainDefined
<1>6. n # 0  BY <1>4, <1>5
<1>7. n - 1 \in 0 .. k /\ n - 1 \notin U
  <2>1. n - 1 \in 0 .. k  BY <1>4, <1>6
  <2> SUFFICES ASSUME n - 1 \in U PROVE FALSE  BY <2>1
  <2>2. n <= n - 1  BY <1>3
  <2> QED  BY <1>4, <2>2
<1>8. Chain(y, e)[n-1] = Chain(x, d)[j + n - 1]
  <2>1. j + (n - 1) = j + n - 1  BY <1>4
  <2>2. Chain(y, e)[n-1] = Chain(x, d)[j + (n-1)]  BY <1>7
  <2> QED  BY <2>1, <2>2
<1>9. /\ n \in Nat /\ n > 0 /\ 64 * n <= Len(e) /\ n \in 1 .. Len(e) \div 64
      /\ j + n \in Nat /\ j + n > 0 /\ 64 * (j + n) <= Len(d) /\ j + n \in 1 .. Len(d) \div 64
  BY <1>1, <1>4, <1>6
<1> HIDE DEF U
<1>10. /\ Block(e, n) \in Data /\ Len(Block(e, n)) = 64
       /\ \A i \in 1 .. 64 : Block(e, n)[i] = e[64 * (n - 1) + i]
  BY <1>9, BlockType
<1>11. /\ Block(d, j + n) \in Data /\ Len(Block(d, j + n)) = 64
       /\ \A i \in 1 .. 64 : Block(d, j + n)[i] = d[64 * (j + n - 1) + i]
  BY <1>9, BlockType
<1>12. ASSUME NEW i \in 1 .. 64 PROVE Block(e, n)[i] = Block(d, j + n)[i]
  <2>1. 64 * (n - 1) + i \in 1 .. 64 * k  BY <1>4, <1>6
  <2>2. 64 * j + (64 * (n - 1) + i) = 64 * (j + n - 1) + i  BY <1>4
  <2>3. e[64 * (n - 1) + i] = d[64 * j + (64 * (n - 1) + i)]  BY <2>1 DEF SameBlocks
  <2>4. Block(e, n)[i] = e[64 * (n - 1) + i]  BY ONLY i \in 1 .. 64, <1>10
  <2>5. Block(d, j + n)[i] = d[64 * (j + n - 1) + i]  BY ONLY i \in 1 .. 64, <1>11
  <2> QED  BY ONLY <2>2, <2>3, <2>4, <2>5
<1>13. Block(e, n) = Block(d, j + n)
  <2> DEFINE u == Block(e, n)
             v == Block(d, j + n)
  <2>1. u \in Data /\ v \in Data /\ Len(u) = 64 /\ Len(v) = 64 /\ \A i \in 1 .. 64 : u[i] = v[i]
    BY ONLY <1>10, <1>11, <1>12
  <2> HIDE DEF u, v
  <2>2. u \in Seq(Byte) /\ v \in Seq(Byte) /\ Len(u) = Len(v) /\ \A i \in 1 .. Len(u) : u[i] = v[i]
    BY ONLY <2>1 DEF Data
  <2>3. u = v  BY ONLY <2>2, SeqEqual
  <2> QED  BY ONLY <2>3 DEF u, v
<1>14. Chain(y, e)[n] = Compress(Chain(y, e)[n-1], Block(e, n))  BY <1>9, ChainDefined
<1>15. Chain(x, d)[j + n] = Compress(Chain(x, d)[j + n - 1], Block(d, j + n))
  BY <1>9, ChainDefined
<1> QED  BY <1>4, <1>8, <1>13, <1>14, <1>15

\* The state after whole blocks is eight words again.
LEMMA BlocksType ==
    ASSUME EightWords, NEW x \in State, NEW d \in Data
    PROVE  Blocks(x, d) \in State
<1>1. Len(d) \in Nat  BY LenProperties DEF Data
<1>2. Len(d) \div 64 \in 0 .. Len(d) \div 64  BY <1>1
<1> QED  BY <1>2, BlocksIsChain, ChainDefined

\* Data, and what two pieces of it are together.
LEMMA Joined ==
    ASSUME NEW m \in Data, NEW d \in Data
    PROVE  /\ m \o d \in Data /\ Len(m) \in Nat /\ Len(d) \in Nat
           /\ Len(m \o d) = Len(m) + Len(d)
           /\ \A i \in 1 .. Len(m) : (m \o d)[i] = m[i]
           /\ \A i \in 1 .. Len(d) : (m \o d)[Len(m) + i] = d[i]
<1>1. Len(m) \in Nat /\ Len(d) \in Nat  BY LenProperties DEF Data
<1>2. /\ m \o d \in Data /\ Len(m \o d) = Len(m) + Len(d)
      /\ \A i \in 1 .. Len(m) + Len(d) : (m \o d)[i] = IF i <= Len(m) THEN m[i] ELSE d[i - Len(m)]
  BY ConcatProperties DEF Data
<1>3. ASSUME NEW i \in 1 .. Len(d) PROVE (m \o d)[Len(m) + i] = d[i]
  <2>1. Len(m) + i \in 1 .. Len(m) + Len(d) /\ ~(Len(m) + i <= Len(m)) /\ (Len(m) + i) - Len(m) = i
    BY <1>1
  <2> QED  BY <1>2, <2>1
<1>4. ASSUME NEW i \in 1 .. Len(m) PROVE (m \o d)[i] = m[i]
  <2>1. i \in 1 .. Len(m) + Len(d) /\ i <= Len(m)  BY <1>1
  <2> QED  BY <1>2, <2>1
<1> QED  BY <1>1, <1>2, <1>3, <1>4

\* More data do not change what the first blocks make.
LEMMA BlocksPrefix ==
    ASSUME EightWords, NEW x \in State, NEW m \in Data, NEW d \in Data
    PROVE  Chain(x, m \o d)[Len(m) \div 64] = Blocks(x, m)
<1> DEFINE k == Len(m) \div 64
           c == m \o d
<1>1. /\ c \in Data /\ Len(m) \in Nat /\ Len(d) \in Nat /\ Len(c) = Len(m) + Len(d)
      /\ \A i \in 1 .. Len(m) : c[i] = m[i]
  BY Joined
<1>2. k \in Nat /\ 64 * (0 + k) <= Len(c) /\ 64 * k <= Len(m) /\ 0 \in Nat /\ 0 + k = k  BY <1>1
<1> HIDE DEF c, k
<1>3. SameBlocks(m, k, c, 0)
  <2> SUFFICES ASSUME NEW i \in 1 .. 64 * k PROVE m[i] = c[64 * 0 + i]  BY DEF SameBlocks
  <2>1. i \in 1 .. Len(m) /\ 64 * 0 + i = i  BY <1>1, <1>2
  <2> QED  BY <1>1, <2>1
<1>4. x = Chain(x, c)[0]  BY <1>1, ChainDefined
<1>5. Chain(x, m)[k] = Chain(x, c)[0 + k]  BY <1>1, <1>2, <1>3, <1>4, ChainFollows
<1> QED  BY <1>2, <1>5, BlocksIsChain DEF k, c

\* Data behind whole blocks.
LEMMA BlocksJoined ==
    ASSUME EightWords, NEW x \in State, NEW m \in Data, NEW d \in Data, Len(m) % 64 = 0
    PROVE  Blocks(x, m \o d) = Blocks(Blocks(x, m), d)
<1> DEFINE j == Len(m) \div 64
           k == Len(d) \div 64
           c == m \o d
<1>1. /\ c \in Data /\ Len(m) \in Nat /\ Len(d) \in Nat /\ Len(c) = Len(m) + Len(d)
      /\ \A i \in 1 .. Len(d) : c[Len(m) + i] = d[i]
  BY Joined
<1>2. /\ j \in Nat /\ k \in Nat /\ 64 * (j + k) <= Len(c) /\ 64 * k <= Len(d)
      /\ 64 * j = Len(m) /\ Len(c) \div 64 = j + k
  <2> DEFINE a == Len(m)
             b == Len(d)
             l == Len(c)
  <2>1. a \in Nat /\ b \in Nat /\ l = a + b /\ a % 64 = 0  BY ONLY <1>1, Len(m) % 64 = 0
  <2> HIDE DEF a, b, l
  <2>2. /\ a \div 64 \in Nat /\ b \div 64 \in Nat /\ 64 * (a \div 64) = a
        /\ 64 * (b \div 64) <= b /\ 64 * (a \div 64 + b \div 64) <= l
        /\ l \div 64 = a \div 64 + b \div 64
    BY ONLY <2>1
  <2> QED  BY ONLY <2>2 DEF a, b, l
<1>3. Chain(x, c)[j] = Blocks(x, m)  BY BlocksPrefix
<1>4. Blocks(x, m) \in State  BY BlocksType
<1> HIDE DEF c, k, j
<1>5. SameBlocks(d, k, c, j)
  <2> SUFFICES ASSUME NEW i \in 1 .. 64 * k PROVE d[i] = c[64 * j + i]  BY DEF SameBlocks
  <2>1. i \in 1 .. Len(d)  BY <1>1, <1>2
  <2> QED  BY <1>1, <1>2, <2>1
<1>6. Chain(Blocks(x, m), d)[k] = Chain(x, c)[j + k]
  BY <1>1, <1>2, <1>3, <1>4, <1>5, ChainFollows
<1> QED  BY <1>2, <1>6, BlocksIsChain DEF c, k

\* Data that do not fill the last block.
LEMMA BlocksShort ==
    ASSUME EightWords, NEW x \in State, NEW m \in Data, NEW d \in Data, (Len(m) % 64) + Len(d) < 64
    PROVE  Blocks(x, m \o d) = Blocks(x, m)
<1>1. Len(m) \in Nat /\ Len(d) \in Nat /\ Len(m \o d) = Len(m) + Len(d)  BY Joined
<1>2. (Len(m) + Len(d)) \div 64 = Len(m) \div 64  BY <1>1
<1>3. Blocks(x, m \o d) = Chain(x, m \o d)[Len(m) \div 64]  BY <1>1, <1>2, BlocksIsChain
<1> QED  BY <1>3, BlocksPrefix

\* Data that fill it exactly.
LEMMA BlocksFilled ==
    ASSUME EightWords, NEW x \in State, NEW m \in Data, NEW d \in Data, (Len(m) % 64) + Len(d) = 64
    PROVE  Blocks(x, m \o d) = Compress(Blocks(x, m), Block(m \o d, (Len(m) \div 64) + 1))
<1> DEFINE j == Len(m) \div 64
           c == m \o d
<1>1. c \in Data /\ Len(m) \in Nat /\ Len(d) \in Nat /\ Len(c) = Len(m) + Len(d)  BY Joined
<1>2. j \in Nat /\ Len(c) \div 64 = j + 1 /\ j + 1 \in 1 .. Len(c) \div 64 /\ (j + 1) - 1 = j
  BY <1>1
<1>3. Chain(x, c)[j] = Blocks(x, m)  BY BlocksPrefix
<1> HIDE DEF c, j
<1>4. Chain(x, c)[j + 1] = Compress(Chain(x, c)[(j + 1) - 1], Block(c, j + 1))
  BY <1>1, <1>2, ChainDefined
<1> QED  BY <1>2, <1>3, <1>4, BlocksIsChain DEF c, j

-----------------------------------------------------------------------------
(* Writing *)

\* a is the n bytes of d behind the first k.
IsPart(a, d, k, n) == a \in Data /\ Len(a) = n /\ \A i \in 1 .. n : a[i] = d[k + i]

\* Joining sequences of bytes is associative.
LEMMA JoinAssociative ==
    ASSUME NEW a \in Data, NEW b \in Data, NEW c \in Data
    PROVE  (a \o b) \o c = a \o (b \o c)
BY ONLY a \in Data, b \in Data, c \in Data, ConcatAssociative DEF Data

Associates(a, b, c) == (a \o b) \o c = a \o (b \o c)

\* The same fact, by its name.
LEMMA JoinAssociates ==
    ASSUME NEW a \in Data, NEW b \in Data, NEW c \in Data
    PROVE  Associates(a, b, c)
BY JoinAssociative DEF Associates

\* A part of a sequence of bytes, byte by byte.
LEMMA PartOf ==
    ASSUME NEW d \in Data, NEW k \in Nat, NEW n \in Nat, k + n <= Len(d),
           NEW p, NEW q, p = k + 1, q = k + n, NEW a, a = SubSeq(d, p, q)
    PROVE  IsPart(a, d, k, n)
<1>1. Len(d) \in Nat /\ d \in [1 .. Len(d) -> Byte]  BY LenProperties DEF Data
<1>2. p \in Int /\ q \in Int /\ q - p + 1 = n  OBVIOUS
<1>3. \A i \in p .. q : d[i] \in Byte
  <2> SUFFICES ASSUME NEW i \in p .. q PROVE i \in 1 .. Len(d)  BY <1>1
  <2> QED  BY <1>1
<1>4. /\ SubSeq(d, p, q) \in Seq(Byte)
      /\ Len(SubSeq(d, p, q)) = IF p <= q THEN q - p + 1 ELSE 0
      /\ \A i \in 1 .. q - p + 1 : SubSeq(d, p, q)[i] = d[p + i - 1]
  BY <1>2, <1>3, SubSeqProperties
<1>5. (IF p <= q THEN q - p + 1 ELSE 0) = n  OBVIOUS
<1>6. ASSUME NEW i \in 1 .. n PROVE a[i] = d[k + i]
  <2>1. a[i] = d[p + i - 1]  BY <1>2, <1>4
  <2>2. p + i - 1 = k + i  OBVIOUS
  <2> QED  BY <2>1, <2>2
<1> QED  BY <1>4, <1>5, <1>6 DEF Data, IsPart

\* c is k bytes of m and n bytes of d.
IsJoin(c, m, d, k, n) ==
    /\ c \in Data /\ k \in Nat /\ n \in Nat /\ Len(c) = k + n
    /\ \A i \in 1 .. k : c[i] = m[i]
    /\ \A i \in 1 .. n : c[k + i] = d[i]

\* Two sequences joined, byte by byte.
LEMMA JoinedAt ==
    ASSUME NEW m \in Data, NEW d \in Data, NEW k, NEW n, k = Len(m), n = Len(d), NEW c, c = m \o d
    PROVE  IsJoin(c, m, d, k, n)
BY Joined DEF IsJoin

\* Two parts, the second behind the first.
LEMMA Split ==
    ASSUME NEW d \in Data, NEW k \in Nat, k <= Len(d)
    PROVE  /\ IsPart(SubSeq(d, 1, k), d, 0, k)
           /\ IsPart(SubSeq(d, k + 1, Len(d)), d, k, Len(d) - k)
           /\ SubSeq(d, 1, k) \o SubSeq(d, k + 1, Len(d)) = d
<1> DEFINE a == SubSeq(d, 1, k)
           e == SubSeq(d, k + 1, Len(d))
           n == Len(d) - k
           c == a \o e
<1>1. Len(d) \in Nat /\ n \in Nat /\ k + n = Len(d)  BY LenProperties DEF Data
<1> HIDE DEF n
<1>2. IsPart(a, d, 0, k)
  <2>1. 0 \in Nat /\ 1 = 0 + 1 /\ k = 0 + k /\ 0 + k <= Len(d)  BY <1>1
  <2> QED  BY <2>1, PartOf
<1>3. IsPart(e, d, k, n)
  <2>1. k + 1 = k + 1 /\ Len(d) = k + n /\ k + n <= Len(d)  BY <1>1
  <2> QED  BY <1>1, <2>1, PartOf
<1> HIDE DEF a, e, c
<1>4. IsJoin(c, a, e, k, n)  BY <1>2, <1>3, JoinedAt DEF IsPart, c
<1>5. ASSUME NEW i \in 1 .. Len(d) PROVE c[i] = d[i]
  <2>1. CASE i <= k
    <3>1. i \in 1 .. k /\ 0 + i = i  BY <1>1, <2>1
    <3>2. c[i] = a[i]  BY <1>4, <3>1 DEF IsJoin
    <3>3. a[i] = d[0 + i]  BY <1>2, <3>1 DEF IsPart
    <3> QED  BY <3>1, <3>2, <3>3
  <2>2. CASE i > k
    <3>1. i - k \in 1 .. n /\ k + (i - k) = i  BY <1>1, <2>2
    <3>2. c[k + (i - k)] = e[i - k]  BY <1>4, <3>1 DEF IsJoin
    <3>3. e[i - k] = d[k + (i - k)]  BY <1>3, <3>1 DEF IsPart
    <3> QED  BY <3>1, <3>2, <3>3
  <2>3. i <= k \/ i > k  BY <1>1
  <2> QED  BY <2>1, <2>2, <2>3
<1>6. c \in Data /\ Len(c) = Len(d)  BY <1>1, <1>4 DEF IsJoin
<1>7. c = d  BY <1>5, <1>6, SeqEqual DEF Data
<1> QED  BY <1>2, <1>3, <1>7 DEF a, e, c, n

\* What memcpy leaves in the buffer.
IsPut(c, buf, at, d) ==
    /\ c \in Data /\ Len(c) = 64
    /\ \A i \in 1 .. at : c[i] = buf[i]
    /\ \A i \in 1 .. Len(d) : c[at + i] = d[i]

\* What is put into the buffer, byte by byte; the rest of it stays.
LEMMA PutProperties ==
    ASSUME NEW buf \in Data, Len(buf) = 64, NEW at \in Nat, NEW d \in Data, at + Len(d) <= 64
    PROVE  IsPut(Put(buf, at, d), buf, at, d)
<1> DEFINE a == SubSeq(buf, 1, at)
           k == Len(d)
           n == at + k
           j == 64 - n
           p == n + 1
           c == SubSeq(buf, p, 64)
           e == a \o d
           f == e \o c
<1>1. k \in Nat  BY LenProperties DEF Data
<1>2. n \in Nat /\ n <= 64 /\ at <= n /\ j \in Nat /\ n + j = 64 /\ n + j <= 64  BY <1>1
<1>3. IsPart(a, buf, 0, at)
  <2>1. 0 \in Nat /\ 1 = 0 + 1 /\ at = 0 + at /\ 0 + at <= Len(buf)  BY <1>1, <1>2
  <2> HIDE DEF n
  <2> QED  BY ONLY buf \in Data, <2>1, PartOf
<1> HIDE DEF j
<1>4. IsPart(c, buf, n, j)
  <2> DEFINE q == 64
  <2>1. /\ p = n + 1 /\ q = n + j /\ n + j <= Len(buf) /\ n \in Nat /\ j \in Nat
        /\ c = SubSeq(buf, p, q)
    BY <1>2
  <2> HIDE DEF n, p, q, c
  <2> QED  BY ONLY buf \in Data, <2>1, PartOf
<1>5. Put(buf, at, d) = f  BY DEF Put
<1> HIDE DEF a, c, e, f, k
<1>6. IsJoin(e, a, d, at, k)  BY <1>3, JoinedAt DEF IsPart, k, e
<1>7. IsJoin(f, e, c, n, j)
  <2>1. Len(e) = n /\ e \in Data  BY <1>6 DEF IsJoin
  <2>2. Len(c) = j /\ c \in Data  BY <1>4 DEF IsPart
  <2> HIDE DEF n
  <2> QED  BY <2>1, <2>2, JoinedAt DEF f
<1>8. f \in Data /\ Len(f) = 64  BY <1>2, <1>7 DEF IsJoin
<1>9. ASSUME NEW i \in 1 .. at PROVE f[i] = buf[i]
  <2>1. i \in 1 .. n /\ 0 + i = i  BY <1>1, <1>2
  <2>2. f[i] = e[i]  BY <1>7, <2>1 DEF IsJoin
  <2>3. e[i] = a[i]  BY <1>6 DEF IsJoin
  <2>4. a[i] = buf[0 + i]  BY <1>3 DEF IsPart
  <2> QED  BY <2>1, <2>2, <2>3, <2>4
<1>10. ASSUME NEW i \in 1 .. k PROVE f[at + i] = d[i]
  <2>1. at + i \in 1 .. n  BY <1>1, <1>2
  <2>2. f[at + i] = e[at + i]  BY <1>7, <2>1 DEF IsJoin
  <2>3. e[at + i] = d[i]  BY <1>6 DEF IsJoin
  <2> QED  BY <2>2, <2>3
<1> QED  BY <1>5, <1>8, <1>9, <1>10 DEF k, IsPut

\* A hash has absorbed m: its state has the whole blocks of m, and its buffer
\* begins with the rest.
Absorbed(h, m) ==
    /\ m \in Data
    /\ h = [s |-> Blocks(InitialState, m), buf |-> h.buf, bytes |-> Len(m)]
    /\ h.buf \in Data /\ Len(h.buf) = 64
    /\ \A i \in 1 .. Len(m) % 64 : h.buf[i] = m[Len(m) - (Len(m) % 64) + i]

\* With an empty buffer.
LEMMA DirectAbsorbs ==
    ASSUME EightWords, NEW m \in Data, Len(m) % 64 = 0, NEW d \in Data,
           NEW h, h.buf \in Data, Len(h.buf) = 64, h.bytes = Len(m) + Len(d)
    PROVE  Absorbed(Direct(Blocks(InitialState, m), h, 0, d), m \o d)
<1> DEFINE x == Blocks(Blocks(InitialState, m), d)
           k == Len(d) % 64
           p == Len(d) - k + 1
           rest == SubSeq(d, p, Len(d))
           buf == Put(h.buf, 0, rest)
           g == Direct(Blocks(InitialState, m), h, 0, d)
           c == m \o d
<1>1. g = [s |-> x, buf |-> buf, bytes |-> h.bytes]  BY DEF Direct, Keep
<1>2. /\ c \in Data /\ Len(m) \in Nat /\ Len(d) \in Nat /\ Len(c) = Len(m) + Len(d)
      /\ \A i \in 1 .. Len(d) : c[Len(m) + i] = d[i]
  BY Joined
<1>3. k \in Nat /\ k < 64 /\ k <= Len(d) /\ Len(c) % 64 = k
  <2> DEFINE a == Len(m)
             e == Len(d)
  <2>1. a \in Nat /\ e \in Nat /\ a % 64 = 0 /\ Len(c) = a + e  BY <1>2
  <2> HIDE DEF a, e, c
  <2>2. e % 64 \in Nat /\ e % 64 < 64 /\ e % 64 <= e  BY <2>1
  <2>3. ((a % 64) + e) % 64 = (a + e) % 64
    <3>1. 64 \in Nat \ {0} /\ a \in Int /\ e \in Int  BY <2>1
    <3> QED  BY ONLY <3>1, ModSum
  <2>4. (0 + e) % 64 = e % 64  BY <2>1
  <2> QED  BY <2>1, <2>2, <2>3, <2>4 DEF e
<1>4. x = Blocks(InitialState, c)  BY BlocksJoined DEF EightWords
<1> HIDE DEF x, c, g, k
<1>5. IsPart(rest, d, Len(d) - k, k)
  <2>1. Len(d) - k \in Nat /\ p = (Len(d) - k) + 1 /\ Len(d) = (Len(d) - k) + k
    BY <1>2, <1>3
  <2>2. (Len(d) - k) + k <= Len(d)  BY <1>2, <1>3
  <2> HIDE DEF p
  <2> QED  BY <1>3, <2>1, <2>2, PartOf
<1> HIDE DEF rest
<1>6. 0 \in Nat /\ 0 + Len(rest) <= 64 /\ rest \in Data  BY <1>3, <1>5 DEF IsPart
<1>7. IsPut(buf, h.buf, 0, rest)  BY <1>6, PutProperties
<1> HIDE DEF buf
<1>8. ASSUME NEW i \in 1 .. k PROVE buf[i] = c[Len(c) - k + i]
  <2>1. /\ 0 + i = i /\ (Len(d) - k) + i \in 1 .. Len(d)
        /\ Len(m) + ((Len(d) - k) + i) = Len(c) - k + i
    BY <1>2, <1>3
  <2>2. buf[0 + i] = rest[i]  BY <1>5, <1>7 DEF IsPart, IsPut
  <2>3. rest[i] = d[(Len(d) - k) + i]  BY <1>5 DEF IsPart
  <2>4. c[Len(m) + ((Len(d) - k) + i)] = d[(Len(d) - k) + i]  BY <1>2, <2>1
  <2> QED  BY <2>1, <2>2, <2>3, <2>4
<1>9. g.buf = buf /\ g = [s |-> x, buf |-> g.buf, bytes |-> Len(c)]  BY <1>1, <1>2
<1>10. Absorbed(g, c)  BY <1>2, <1>3, <1>4, <1>7, <1>8, <1>9 DEF Absorbed, IsPut
<1> QED  BY <1>10 DEF g, c

\* Into a buffer that keeps all of it.
LEMMA KeepAbsorbs ==
    ASSUME EightWords, NEW m \in Data, NEW d \in Data, (Len(m) % 64) + Len(d) < 64,
           NEW h, Absorbed(h, m), NEW g, g.buf = h.buf, g.bytes = Len(m) + Len(d)
    PROVE  Absorbed(Keep(h.s, g, Len(m) % 64, d), m \o d)
<1> DEFINE k == Len(m) % 64
           n == Len(d)
           buf == Put(g.buf, k, d)
           f == Keep(h.s, g, k, d)
           c == m \o d
<1>1. f = [s |-> h.s, buf |-> buf, bytes |-> g.bytes]  BY DEF Keep
<1>2. /\ c \in Data /\ Len(m) \in Nat /\ n \in Nat /\ Len(c) = Len(m) + n
      /\ \A i \in 1 .. Len(m) : c[i] = m[i]
      /\ \A i \in 1 .. n : c[Len(m) + i] = d[i]
  BY Joined
<1>3. /\ h.buf \in Data /\ Len(h.buf) = 64 /\ h.s = Blocks(InitialState, m)
      /\ \A i \in 1 .. k : h.buf[i] = m[Len(m) - k + i]
  BY DEF Absorbed
<1>4. h.s = Blocks(InitialState, c)  BY <1>3, BlocksShort DEF EightWords
<1>5. k \in Nat /\ k <= Len(m) /\ k + n <= 64 /\ Len(c) % 64 = k + n
  <2> DEFINE a == Len(m)
  <2>1. a \in Nat /\ n \in Nat /\ (a % 64) + n < 64 /\ Len(c) = a + n  BY <1>2
  <2> HIDE DEF a, n, c
  <2>2. (a + n) % 64 = (a % 64) + n /\ a % 64 \in Nat /\ a % 64 <= a /\ (a % 64) + n <= 64  BY <2>1
  <2> QED  BY <2>1, <2>2 DEF a
<1> HIDE DEF k
<1>6. IsPut(buf, h.buf, k, d)  BY <1>3, <1>5, PutProperties
<1> HIDE DEF buf, c, f, n
<1>7. ASSUME NEW i \in 1 .. k + n PROVE buf[i] = c[Len(c) - (k + n) + i]
  <2>1. CASE i <= k
    <3>1. /\ i \in 1 .. k /\ Len(m) - k + i \in 1 .. Len(m)
          /\ Len(c) - (k + n) + i = Len(m) - k + i
      BY <1>2, <1>5, <2>1
    <3>2. buf[i] = h.buf[i]  BY <1>6, <3>1 DEF IsPut
    <3>3. c[Len(m) - k + i] = m[Len(m) - k + i]  BY <1>2, <3>1
    <3> QED  BY <1>3, <3>1, <3>2, <3>3
  <2>2. CASE i > k
    <3>1. /\ i - k \in 1 .. n /\ k + (i - k) = i
          /\ Len(c) - (k + n) + i = Len(m) + (i - k)
      BY <1>2, <1>5, <2>2
    <3>2. buf[k + (i - k)] = d[i - k]  BY <1>6, <3>1 DEF IsPut, n
    <3>3. c[Len(m) + (i - k)] = d[i - k]  BY <1>2, <3>1
    <3> QED  BY <3>1, <3>2, <3>3
  <2>3. i <= k \/ i > k  BY <1>2, <1>5
  <2> QED  BY <2>1, <2>2, <2>3
<1>8. f.buf = buf /\ f = [s |-> h.s, buf |-> f.buf, bytes |-> Len(c)]  BY <1>1, <1>2 DEF n
<1>9. Absorbed(f, c)  BY <1>2, <1>4, <1>5, <1>6, <1>7, <1>8 DEF Absorbed, IsPut
<1> QED  BY <1>9 DEF f, c, k

\* A buffer that is filled is the last block of what was written.
IsFilled(b, m, d) ==
    /\ b = Block(m \o d, (Len(m) \div 64) + 1)
    /\ b \in Data /\ Len(b) = 64
    /\ m \o d \in Data /\ Len(m \o d) = Len(m) + Len(d) /\ Len(m \o d) % 64 = 0

\* A buffer that new data fills is the next block of the message.
LEMMA FilledBlock ==
    ASSUME NEW m \in Data, NEW d \in Data, (Len(m) % 64) + Len(d) = 64,
           NEW h, Absorbed(h, m)
    PROVE  IsFilled(Put(h.buf, Len(m) % 64, d), m, d)
<1> DEFINE k == Len(m) % 64
           n == Len(d)
           j == Len(m) \div 64
           j1 == j + 1
           buf == Put(h.buf, k, d)
           c == m \o d
           e == Block(c, j1)
<1>1. /\ c \in Data /\ Len(m) \in Nat /\ n \in Nat /\ Len(c) = Len(m) + n
      /\ \A i \in 1 .. Len(m) : c[i] = m[i]
      /\ \A i \in 1 .. n : c[Len(m) + i] = d[i]
  BY Joined
<1>2. /\ h.buf \in Data /\ Len(h.buf) = 64
      /\ \A i \in 1 .. k : h.buf[i] = m[Len(m) - k + i]
  BY DEF Absorbed
<1>3. /\ k \in Nat /\ j \in Nat /\ j1 \in Nat /\ j1 > 0 /\ 64 * j1 <= Len(c) /\ j1 - 1 = j
      /\ 64 * j + k = Len(m) /\ k + n <= 64 /\ k + n = 64 /\ Len(c) = 64 * j1
  BY <1>1
<1>4. Len(c) % 64 = 0  BY <1>3
<1> HIDE DEF c, j, j1, k
<1>5. IsPut(buf, h.buf, k, d)  BY <1>2, <1>3, PutProperties
<1>6. e \in Data /\ Len(e) = 64 /\ \A i \in 1 .. 64 : e[i] = c[64 * j + i]
  <2> HIDE DEF e, n
  <2>1. e = SubSeq(c, 64 * j1 - 63, 64 * j1)  BY DEF e, Block
  <2>2. /\ 64 * j \in Nat /\ 64 * j + 64 <= Len(c)
        /\ 64 * j1 - 63 = 64 * j + 1 /\ 64 * j1 = 64 * j + 64
    BY <1>3
  <2>3. 64 \in Nat  OBVIOUS
  <2>4. IsPart(e, c, 64 * j, 64)  BY ONLY <1>1, <2>1, <2>2, <2>3, PartOf
  <2> QED  BY <2>4 DEF IsPart
<1> HIDE DEF buf, e, n
<1>7. ASSUME NEW i \in 1 .. 64 PROVE buf[i] = e[i]
  <2>1. CASE i <= k
    <3>1. i \in 1 .. k /\ 64 * j + i \in 1 .. Len(m) /\ Len(m) - k + i = 64 * j + i
      BY <1>1, <1>3, <2>1
    <3>2. buf[i] = h.buf[i]  BY <1>5, <3>1 DEF IsPut
    <3>3. h.buf[i] = m[64 * j + i]  BY <1>2, <3>1
    <3>4. c[64 * j + i] = m[64 * j + i]  BY <1>1, <3>1
    <3> QED  BY <1>6, <3>2, <3>3, <3>4
  <2>2. CASE i > k
    <3>1. i - k \in 1 .. n /\ k + (i - k) = i /\ Len(m) + (i - k) = 64 * j + i
      <4>1. /\ k \in Nat /\ n \in Nat /\ k + n = 64 /\ j \in Nat
            /\ Len(m) \in Nat /\ Len(m) = 64 * j + k
        BY <1>1, <1>3
      <4> QED  BY <2>2, <4>1
    <3>2. buf[k + (i - k)] = d[i - k]  BY <1>5, <3>1 DEF IsPut, n
    <3>3. c[Len(m) + (i - k)] = d[i - k]  BY <1>1, <3>1
    <3> QED  BY <1>6, <3>1, <3>2, <3>3
  <2>3. i <= k \/ i > k  BY <1>3
  <2> QED  BY <2>1, <2>2, <2>3
<1>8. buf \in Data /\ Len(buf) = 64  BY <1>5 DEF IsPut
<1>9. buf = e
  <2>1. buf \in Seq(Byte) /\ e \in Seq(Byte) /\ Len(buf) = Len(e) /\ Len(buf) = 64
    BY <1>6, <1>8 DEF Data
  <2>2. \A i \in 1 .. Len(buf) : buf[i] = e[i]  BY <1>7, <2>1
  <2> QED  BY <2>1, <2>2, SeqEqual
<1> QED  BY <1>1, <1>4, <1>8, <1>9 DEF buf, e, c, n, k, j, j1, IsFilled

\* Into a buffer that is filled.
LEMMA FillAbsorbs ==
    ASSUME EightWords, NEW m \in Data, NEW d \in Data, (Len(m) % 64) + Len(d) >= 64,
           NEW h, Absorbed(h, m),
           NEW g, g = [s |-> h.s, buf |-> h.buf, bytes |-> Len(m) + Len(d)],
           NEW k, k = Len(m) % 64
    PROVE  Absorbed(FillFrom(g, Put(h.buf, k, SubSeq(d, 1, 64 - k)), d, 64 - k), m \o d)
<1> DEFINE n == 64 - k
           d1 == SubSeq(d, 1, n)
           d2 == SubSeq(d, n + 1, Len(d))
           b == Put(h.buf, k, d1)
           c == m \o d1
           g2 == [g EXCEPT !.buf = b]
           x == Blocks(InitialState, m)
           y == Compress(x, b)
<1>1. Len(m) \in Nat /\ Len(d) \in Nat  BY LenProperties DEF Data
<1>2. k \in Nat /\ k < 64 /\ n \in Nat /\ n <= Len(d) /\ k + n = 64  BY <1>1
<1> HIDE DEF n
<1>3. IsPart(d1, d, 0, n) /\ IsPart(d2, d, n, Len(d) - n) /\ d1 \o d2 = d  BY <1>2, Split
<1>4. /\ d1 \in Data /\ Len(d1) = n /\ (Len(m) % 64) + Len(d1) = 64
      /\ d2 \in Data /\ Len(d2) = Len(d) - n
  BY <1>2, <1>3 DEF IsPart
<1> HIDE DEF d1, d2
<1>5. /\ b = Block(c, (Len(m) \div 64) + 1) /\ b \in Data /\ Len(b) = 64
      /\ c \in Data /\ Len(c) = Len(m) + Len(d1) /\ Len(c) % 64 = 0
  <2>1. b = Put(h.buf, Len(m) % 64, d1)  OBVIOUS
  <2>2. IsFilled(Put(h.buf, Len(m) % 64, d1), m, d1)  BY <1>4, FilledBlock
  <2> HIDE DEF b
  <2> QED  BY <2>1, <2>2 DEF IsFilled
<1>6. Blocks(InitialState, c) = y
  <2>1. InitialState \in State  BY DEF EightWords
  <2>2. Blocks(InitialState, c) = Compress(x, Block(c, (Len(m) \div 64) + 1))
    BY <1>4, <2>1, BlocksFilled
  <2> QED  BY <1>5, <2>2
<1>7. FillFrom(g, b, d, n) = Direct(y, g2, 0, d2)
  <2>1. g.s = x  BY DEF Absorbed
  <2> QED  BY <2>1 DEF FillFrom, d2
<1>8. g2.buf = b /\ g2.bytes = Len(m) + Len(d)  OBVIOUS
<1>9. c \o d2 = m \o d
  <2>1. (m \o d1) \o d2 = m \o (d1 \o d2)  BY <1>4, JoinAssociative
  <2> QED  BY <1>3, <2>1
<1> HIDE DEF b, c, g2, x, y
<1>10. g2.bytes = Len(c) + Len(d2)  BY <1>1, <1>2, <1>4, <1>5, <1>8
<1>11. Absorbed(Direct(Blocks(InitialState, c), g2, 0, d2), c \o d2)
  BY <1>4, <1>5, <1>8, <1>10, DirectAbsorbs
<1> QED  BY <1>6, <1>7, <1>9, <1>11 DEF b, c, d1, n

\* secp256k1_sha256_write: whatever the pieces, the state is that of what they
\* make together.
LEMMA WriteAbsorbs ==
    ASSUME EightWords, NEW m, NEW d \in Data, NEW h, Absorbed(h, m)
    PROVE  Absorbed(write(h, d), m \o d)
<1> DEFINE k == Len(m) % 64
           g == [s |-> h.s, buf |-> h.buf, bytes |-> Len(m) + Len(d)]
           b == Put(h.buf, k, SubSeq(d, 1, 64 - k))
<1>1. /\ m \in Data /\ h = [s |-> h.s, buf |-> h.buf, bytes |-> Len(m)]
      /\ h.s = Blocks(InitialState, m) /\ h.buf \in Data /\ Len(h.buf) = 64
  BY DEF Absorbed
<1>2. Len(m) \in Nat /\ Len(d) \in Nat  BY <1>1, LenProperties DEF Data
<1>3. k \in Nat /\ k < 64  BY <1>2
<1>4. h.bytes = Len(m) /\ [h EXCEPT !.bytes = @ + Len(d)] = g
  <2> DEFINE f == [s |-> h.s, buf |-> h.buf, bytes |-> Len(m)]
  <2>1. f.bytes = Len(m) /\ [f EXCEPT !.bytes = @ + Len(d)] = g  OBVIOUS
  <2>2. h = f  BY <1>1
  <2> HIDE DEF f, g
  <2> QED  BY <2>1, <2>2
<1>5. g.s = h.s /\ g.buf = h.buf /\ g.bytes = Len(m) + Len(d)  OBVIOUS
<1>6. write(h, d) = Into(g, d, k)  BY <1>4 DEF write
<1> HIDE DEF k, g, b
<1>7. CASE k > 0 /\ Len(d) >= 64 - k
  <2>1. Into(g, d, k) = FillFrom(g, b, d, 64 - k)  BY <1>5, <1>7 DEF Into, b
  <2>2. (Len(m) % 64) + Len(d) >= 64  BY <1>2, <1>3, <1>7 DEF k
  <2>3. Absorbed(FillFrom(g, b, d, 64 - k), m \o d)  BY <1>1, <2>2, FillAbsorbs DEF b, g, k
  <2> QED  BY <1>6, <2>1, <2>3
<1>8. CASE k > 0 /\ ~(Len(d) >= 64 - k)
  <2>1. Into(g, d, k) = Keep(h.s, g, k, d)  BY <1>5, <1>8 DEF Into
  <2>2. (Len(m) % 64) + Len(d) < 64  BY <1>2, <1>3, <1>8 DEF k
  <2>3. Absorbed(Keep(h.s, g, Len(m) % 64, d), m \o d)
    BY <1>1, <1>5, <2>2, KeepAbsorbs
  <2> QED  BY <1>6, <2>1, <2>3 DEF k
<1>9. CASE k = 0
  <2>1. Into(g, d, k) = Direct(h.s, g, 0, d)  BY <1>5, <1>9 DEF Into
  <2>2. Len(m) % 64 = 0  BY <1>9 DEF k
  <2>3. Absorbed(Direct(Blocks(InitialState, m), g, 0, d), m \o d)
    BY <1>1, <1>5, <2>2, DirectAbsorbs
  <2> QED  BY <1>1, <1>6, <2>1, <2>3
<1>10. k > 0 \/ k = 0  BY <1>3
<1> QED  BY <1>7, <1>8, <1>9, <1>10

-----------------------------------------------------------------------------
(* Bytes *)

\* Sequences of bytes: one byte, bytes given by a function, zeros.
LEMMA SingleByte ==
    ASSUME NEW a \in Byte
    PROVE  <<a>> \in Data /\ Len(<<a>>) = 1
BY DEF Data

LEMMA FunctionData ==
    ASSUME NEW n \in Nat, NEW f \in [1 .. n -> Byte]
    PROVE  f \in Data /\ Len(f) = n
<1>1. \A i \in 1 .. n : f[i] \in Byte  OBVIOUS
<1>2. [i \in 1 .. n |-> f[i]] \in Seq(Byte) /\ Len([i \in 1 .. n |-> f[i]]) = n  BY <1>1
<1>3. f = [i \in 1 .. n |-> f[i]]  OBVIOUS
<1> QED  BY <1>2, <1>3 DEF Data

LEMMA ZerosType ==
    ASSUME NEW n \in Nat
    PROVE  Zeros(n) \in Data /\ Len(Zeros(n)) = n /\ \A i \in 1 .. n : Zeros(n)[i] = 0
BY DEF Zeros, Data, Byte

\* Sequences with the same bytes are equal.
LEMMA SameData ==
    ASSUME NEW a \in Data, NEW b \in Data, Len(a) = Len(b), \A i \in 1 .. Len(a) : a[i] = b[i]
    PROVE  a = b
BY SeqEqual DEF Data

LEMMA JoinEmpty ==
    ASSUME NEW a \in Data
    PROVE  a \o <<>> = a /\ <<>> \o a = a /\ <<>> \in Data /\ Len(<<>>) = 0
BY ConcatEmptySeq, EmptySeq DEF Data

LEMMA ZerosJoin ==
    ASSUME NEW k \in Nat, NEW n \in Nat
    PROVE  Zeros(k) \o Zeros(n) = Zeros(k + n)
<1> DEFINE a == Zeros(k)
           b == Zeros(n)
           c == Zeros(k + n)
           e == a \o b
<1>1. /\ a \in Data /\ Len(a) = k /\ \A i \in 1 .. k : a[i] = 0
      /\ b \in Data /\ Len(b) = n /\ \A i \in 1 .. n : b[i] = 0
      /\ c \in Data /\ Len(c) = k + n /\ \A i \in 1 .. k + n : c[i] = 0
  BY ZerosType
<1> HIDE DEF a, b, c, e
<1>2. IsJoin(e, a, b, k, n)  BY <1>1, JoinedAt DEF e
<1>3. ASSUME NEW i \in 1 .. k + n PROVE e[i] = c[i]
  <2>1. CASE i <= k
    <3>1. i \in 1 .. k  BY <2>1
    <3> QED  BY <1>1, <1>2, <3>1 DEF IsJoin
  <2>2. CASE i > k
    <3>1. i - k \in 1 .. n /\ k + (i - k) = i  BY <2>2
    <3> QED  BY <1>1, <1>2, <3>1 DEF IsJoin
  <2> QED  BY <2>1, <2>2
<1>4. e \in Data /\ Len(e) = Len(c) /\ \A i \in 1 .. Len(e) : e[i] = c[i]
  BY <1>1, <1>2, <1>3 DEF IsJoin
<1> QED  BY <1>1, <1>4, SameData DEF a, b, c, e

\* A word has four bytes.
LEMMA WordBytes ==
    ASSUME NEW x \in Nat
    PROVE  write_be32(x) \in Data /\ Len(write_be32(x)) = 4
<1>1. /\ (x \div 16777216) % 256 \in Byte /\ (x \div 65536) % 256 \in Byte
      /\ (x \div 256) % 256 \in Byte /\ x % 256 \in Byte
  BY DEF Byte
<1> QED  BY <1>1 DEF write_be32, Data

LEMMA ZeroWord == write_be32(0) = Zeros(4)
<1>1. write_be32(0) = <<0, 0, 0, 0>>
  <2>1. /\ (0 \div 16777216) % 256 = 0 /\ (0 \div 65536) % 256 = 0
        /\ (0 \div 256) % 256 = 0 /\ 0 % 256 = 0
    OBVIOUS
  <2> QED  BY <2>1 DEF write_be32
<1>2. write_be32(0) \in Data /\ Len(write_be32(0)) = 4  BY WordBytes
<1>3. 4 \in Nat  OBVIOUS
<1>4. Zeros(4) \in Data /\ Len(Zeros(4)) = 4 /\ \A i \in 1 .. 4 : Zeros(4)[i] = 0
  BY <1>3, ZerosType
<1>5. \A i \in 1 .. 4 : <<0, 0, 0, 0>>[i] = 0  OBVIOUS
<1> QED  BY <1>1, <1>2, <1>4, <1>5, SameData

\* A digest is 32 bytes.
LEMMA DigestType ==
    ASSUME NEW x \in State
    PROVE  DigestOf(x) \in Data /\ Len(DigestOf(x)) = 32
<1> DEFINE f == [i \in 1 .. 32 |-> write_be32(x[(i + 3) \div 4])[((i - 1) % 4) + 1]]
<1>1. ASSUME NEW i \in 1 .. 32 PROVE f[i] \in Byte
  <2>1. (i + 3) \div 4 \in 1 .. 8 /\ ((i - 1) % 4) + 1 \in 1 .. 4  OBVIOUS
  <2>2. x[(i + 3) \div 4] \in Nat  BY <2>1 DEF State
  <2> DEFINE y == x[(i + 3) \div 4]
             e == write_be32(y)
  <2> HIDE DEF y
  <2>3. e \in Data /\ Len(e) = 4  BY <2>2, WordBytes DEF y
  <2> HIDE DEF e
  <2>4. \A j \in 1 .. 4 : e[j] \in Byte  BY ONLY <2>3, ElementOfSeq DEF Data
  <2>5. f[i] = e[((i - 1) % 4) + 1]  BY DEF e, y
  <2> QED  BY <2>1, <2>4, <2>5
<1>2. f \in [1 .. 32 -> Byte]  BY <1>1
<1> HIDE DEF f
<1>3. f \in Data /\ Len(f) = 32
  <2>1. 32 \in Nat  OBVIOUS
  <2> QED  BY <1>2, <2>1, FunctionData
<1>4. DigestOf(x) = f \o <<>>  BY DEF DigestOf, Tuple, f
<1> QED  BY <1>3, <1>4, JoinEmpty

-----------------------------------------------------------------------------
(* Digests *)

\* How many zeros the padding needs: secp256k1_sha256_finalize computes the
\* number that the standard chooses.
ZerosOf(n) == (119 - (n % 64)) % 64

\* Below 64 only one number of zeros fills the last block.
LEMMA ZerosAreChosen ==
    ASSUME NEW n \in Nat
    PROVE  /\ ZerosOf(n) \in 0 .. 63
           /\ (CHOOSE k \in 0 .. 63 : (n + 1 + k + 8) % 64 = 0) = ZerosOf(n)
<1> DEFINE z == ZerosOf(n)
           Fits(k) == (n + 1 + k + 8) % 64 = 0
           b == n % 64
<1>1. z \in 0 .. 63 /\ Fits(z) /\ \A k \in 0 .. 63 : Fits(k) => k = z
  <2>1. b \in 0 .. 63  OBVIOUS
  <2>2. ASSUME NEW k \in 0 .. 63 PROVE Fits(k) <=> (b + (k + 9)) % 64 = 0
    <3>1. 64 \in Nat \ {0} /\ n \in Int /\ k + 9 \in Int  OBVIOUS
    <3>2. ((n % 64) + (k + 9)) % 64 = (n + (k + 9)) % 64  BY ONLY <3>1, ModSum
    <3>3. n + 1 + k + 8 = n + (k + 9)  OBVIOUS
    <3> QED  BY <3>2, <3>3
  <2>3. z = (119 - b) % 64  BY DEF ZerosOf
  <2> HIDE DEF b, Fits, z
  <2>4. z = IF b <= 55 THEN 55 - b ELSE 119 - b  BY <2>1, <2>3
  <2>5. ASSUME NEW k \in 0 .. 63
        PROVE  (b + (k + 9)) % 64 = 0 <=> k = IF b <= 55 THEN 55 - b ELSE 119 - b
    <3>1. b + (k + 9) \in 9 .. 135  BY <2>1
    <3>2. \A i \in 9 .. 135 : i % 64 = 0 <=> (i = 64 \/ i = 128)  OBVIOUS
    <3>3. (b + (k + 9)) % 64 = 0 <=> (b + (k + 9) = 64 \/ b + (k + 9) = 128)  BY <3>1, <3>2
    <3>4. (b + (k + 9) = 64 \/ b + (k + 9) = 128) <=> k = IF b <= 55 THEN 55 - b ELSE 119 - b
      BY <2>1
    <3> QED  BY <3>3, <3>4
  <2>6. z \in 0 .. 63  BY <2>1, <2>4
  <2> QED  BY <2>2, <2>4, <2>5, <2>6
<1> HIDE DEF Fits, z
<1>2. (CHOOSE k \in 0 .. 63 : Fits(k)) = z  BY <1>1
<1> QED  BY <1>1, <1>2 DEF Fits, z

\* A length whose number of bits fits into the low word.
IsShort(n) == n \in Nat /\ n < MaxHashed

\* The two words of the size are the bytes of the length in bits.
LEMMA SizeBytes ==
    ASSUME NEW n, IsShort(n)
    PROVE  /\ SizeDesc(n) = Zeros(4) \o write_be32(8 * n)
           /\ n \in Nat
<1>1. n \in Nat /\ n \div 536870912 = 0 /\ n * 8 = 8 * n  BY SMT DEF IsShort, MaxHashed
<1>2. SizeDesc(n) = write_be32(n \div 536870912) \o write_be32(n * 8)  BY SMT DEF SizeDesc
<1>3. SizeDesc(n) = write_be32(0) \o write_be32(8 * n)  BY ONLY <1>1, <1>2, SMT
<1> QED  BY <1>1, <1>3, ZeroWord

\* secp256k1_sha256_finalize gives the digest of the standard.
LEMMA FinalizeIsDigest ==
    ASSUME EightWords, NEW m, NEW h, Absorbed(h, m), IsShort(Len(m))
    PROVE  finalize(h) = StdDigest(m)
<1> DEFINE L == Len(m)
           z == ZerosOf(L)
           a == <<128>>
           b == Zeros(z)
           f == Zeros(4)
           e == write_be32(8 * L)
           pad == Padding(h.bytes)
           size == SizeDesc(h.bytes)
           g1 == write(h, pad)
           g2 == write(g1, size)
           w == (m \o pad) \o size
<1>1. m \in Data /\ L \in Nat /\ h.bytes = L  BY LenProperties DEF Absorbed, Data
<1>2. z \in 0 .. 63 /\ (CHOOSE k \in 0 .. 63 : (L + 1 + k + 8) % 64 = 0) = z
  BY <1>1, ZerosAreChosen
<1>3. a \in Data  BY SingleByte DEF Byte
<1>4. b \in Data
  <2> HIDE DEF z
  <2>1. z \in Nat  BY <1>2
  <2> QED  BY <2>1, ZerosType
<1>5. f \in Data
  <2>1. 4 \in Nat  OBVIOUS
  <2> QED  BY <2>1, ZerosType
<1>6. e \in Data
  <2>1. 8 * L \in Nat  BY <1>1
  <2> QED  BY <2>1, WordBytes
<1>7. pad = a \o b  BY <1>1 DEF Padding, ZerosOf
<1>8. size = f \o e  BY <1>1, SizeBytes
<1>9. PaddedMessage(m) = ((m \o a) \o Zeros(z + 4)) \o e  BY <1>2 DEF PaddedMessage
<1> HIDE DEF a, b, e, f, pad, size, z
<1>10. Zeros(z + 4) = b \o f
  <2>1. z \in Nat /\ 4 \in Nat  BY <1>2
  <2> QED  BY <2>1, ZerosJoin DEF b, f
<1>11. m \o a \in Data /\ a \o b \in Data /\ f \o e \in Data /\ (m \o a) \o b \in Data
  BY <1>1, <1>3, <1>4, <1>5, <1>6, Joined
<1>12. w = PaddedMessage(m)
  <2> DEFINE u == m \o a
             v == u \o b
             x == f \o e
  <2>1. u \in Data /\ v \in Data  BY ONLY <1>11
  <2> HIDE DEF u, v
  <2>2. Associates(m, a, b)  BY ONLY <1>1, <1>3, <1>4, JoinAssociates
  <2>3. Associates(v, f, e)  BY ONLY <1>5, <1>6, <2>1, JoinAssociates
  <2>4. Associates(u, b, f)  BY ONLY <1>4, <1>5, <2>1, JoinAssociates
  <2>5. m \o (a \o b) = v  BY ONLY <2>2 DEF Associates, u, v
  <2>6. v \o x = (u \o (b \o f)) \o e  BY ONLY <2>3, <2>4 DEF Associates, v
  <2> HIDE DEF x
  <2>7. w = (m \o (a \o b)) \o x  BY ONLY <1>7, <1>8 DEF x
  <2>8. PaddedMessage(m) = (u \o (b \o f)) \o e  BY ONLY <1>9, <1>10 DEF u
  <2> HIDE DEF w
  <2> QED  BY ONLY <2>5, <2>6, <2>7, <2>8
<1>13. Absorbed(g1, m \o pad)  BY <1>7, <1>11, WriteAbsorbs
<1>14. Absorbed(g2, w)  BY <1>8, <1>11, <1>13, WriteAbsorbs
<1> HIDE DEF w, g1, g2
<1>15. g2.s = Blocks(InitialState, w)  BY <1>14 DEF Absorbed
<1>16. finalize(h) = DigestOf(g2.s)  BY DEF finalize, g2, g1, pad, size
<1> QED  BY <1>12, <1>15, <1>16 DEF StdDigest

\* A digest has 32 bytes.
LEMMA StdDigestType ==
    ASSUME EightWords, NEW m \in Data
    PROVE  StdDigest(m) \in Data /\ Len(StdDigest(m)) = 32
<1> DEFINE L == Len(m)
           z == ZerosOf(L)
           a == <<128>>
           b == Zeros(z + 4)
           e == write_be32(8 * L)
           w == ((m \o a) \o b) \o e
<1>1. L \in Nat  BY LenProperties DEF Data
<1>2. z \in 0 .. 63 /\ (CHOOSE k \in 0 .. 63 : (L + 1 + k + 8) % 64 = 0) = z
  BY <1>1, ZerosAreChosen
<1>3. a \in Data  BY SingleByte DEF Byte
<1>4. b \in Data
  <2> HIDE DEF z
  <2>1. z + 4 \in Nat  BY <1>2
  <2> QED  BY <2>1, ZerosType
<1>5. e \in Data
  <2>1. 8 * L \in Nat  BY <1>1
  <2> QED  BY <2>1, WordBytes
<1>6. PaddedMessage(m) = w  BY <1>2 DEF PaddedMessage
<1> HIDE DEF a, b, e, z
<1>7. w \in Data  BY <1>3, <1>4, <1>5, Joined
<1> HIDE DEF w
<1>8. Blocks(InitialState, w) \in State  BY <1>7, BlocksType DEF EightWords
<1> QED  BY <1>6, <1>8, DigestType DEF StdDigest

\* What a hash begins with.
LEMMA InitializeAbsorbs ==
    ASSUME EightWords
    PROVE  Absorbed(initialize, <<>>)
<1>1. <<>> \in Data /\ Len(<<>>) = 0  BY EmptySeq DEF Data
<1>2. Blocks(InitialState, <<>>) = InitialState
  <2>1. Len(<<>>) \div 64 = 0  BY <1>1
  <2> QED  BY <1>1, <2>1, BlocksIsChain, ChainDefined DEF EightWords
<1>3. Unwritten \in Data /\ Len(Unwritten) = 64
  <2>1. 64 \in Nat /\ Unwritten \in [1 .. 64 -> Byte]  BY DEF Unwritten, Byte
  <2> QED  BY <2>1, FunctionData
<1>4. initialize.buf = Unwritten /\ Len(<<>>) % 64 = 0  BY <1>1 DEF initialize
<1> QED  BY <1>1, <1>2, <1>3, <1>4 DEF Absorbed, initialize

\* A hash that is written once has absorbed what was written.
LEMMA StartAbsorbs ==
    ASSUME EightWords, NEW m \in Data
    PROVE  Absorbed(write(initialize, m), m)
<1>1. <<>> \o m = m  BY JoinEmpty
<1> QED  BY <1>1, InitializeAbsorbs, WriteAbsorbs

\* A midstate is taken after whole blocks.
LEMMA MidstateAbsorbs ==
    ASSUME EightWords, NEW m \in Data, Len(m) = 64
    PROVE  Absorbed(initialize_midstate(64, Blocks(InitialState, m)), m)
<1> DEFINE h == initialize_midstate(64, Blocks(InitialState, m))
<1>1. Unwritten \in Data /\ Len(Unwritten) = 64
  <2>1. 64 \in Nat /\ Unwritten \in [1 .. 64 -> Byte]  BY DEF Unwritten, Byte
  <2> QED  BY <2>1, FunctionData
<1>2. h = [s |-> Blocks(InitialState, m), buf |-> Unwritten, bytes |-> Len(m)]
  BY DEF initialize_midstate
<1>3. Len(m) % 64 = 0 /\ h.buf = Unwritten  BY <1>2
<1> HIDE DEF h
<1>4. Absorbed(h, m)  BY <1>1, <1>2, <1>3 DEF Absorbed
<1> QED  BY <1>4 DEF h

\* A message that is written at once.
LEMMA WholeIsDigest ==
    ASSUME EightWords, NEW m \in Data, IsShort(Len(m))
    PROVE  finalize(write(initialize, m)) = StdDigest(m)
BY StartAbsorbs, FinalizeIsDigest

\* The digest of a tag, twice, is one block.
LEMMA TagBlockType ==
    ASSUME EightWords, NEW tag \in Data
    PROVE  /\ StdDigest(tag) \o StdDigest(tag) \in Data
           /\ Len(StdDigest(tag) \o StdDigest(tag)) = 64
<1> DEFINE b == StdDigest(tag)
<1>1. b \in Data /\ Len(b) = 32  BY StdDigestType
<1> HIDE DEF b
<1>2. b \o b \in Data /\ Len(b \o b) = Len(b) + Len(b)
  <2> DEFINE c == b \o b
             k == Len(b)
  <2>1. c = b \o b /\ k = Len(b)  OBVIOUS
  <2> HIDE DEF c, k
  <2>2. IsJoin(c, b, b, k, k)  BY ONLY <1>1, <2>1, JoinedAt
  <2> QED  BY ONLY <2>1, <2>2 DEF IsJoin
<1> QED  BY <1>1, <1>2 DEF b

\* A tagged hash begins with the digest of the tag, twice.
LEMMA TaggedAbsorbs ==
    ASSUME EightWords, NEW tag \in Data, IsShort(Len(tag))
    PROVE  Absorbed(initialize_tagged(tag), StdDigest(tag) \o StdDigest(tag))
<1> DEFINE b == StdDigest(tag)
<1>1. finalize(write(initialize, tag)) = b  BY WholeIsDigest
<1>2. b \in Data  BY StdDigestType
<1>3. initialize_tagged(tag) = write(write(initialize, b), b)  BY <1>1 DEF initialize_tagged
<1> HIDE DEF b
<1>4. Absorbed(write(initialize, b), b)  BY <1>2, StartAbsorbs
<1>5. Absorbed(write(write(initialize, b), b), b \o b)  BY <1>2, <1>4, WriteAbsorbs
<1> QED  BY <1>3, <1>5 DEF b

\* secp256k1_tagged_sha256 gives the tagged hash of BIP-340.
LEMMA TaggedIsStandard ==
    ASSUME EightWords, NEW tag \in Data, IsShort(Len(tag)), NEW m \in Data, IsShort(64 + Len(m))
    PROVE  tagged_sha256(tag, m) = StdTagged(tag, m)
<1> DEFINE b == StdDigest(tag) \o StdDigest(tag)
           h == write(initialize_tagged(tag), m)
<1>1. b \in Data /\ Len(b) = 64  BY TagBlockType
<1>2. Absorbed(initialize_tagged(tag), b)  BY TaggedAbsorbs
<1> HIDE DEF b
<1>3. Absorbed(h, b \o m)  BY <1>2, WriteAbsorbs
<1>4. Len(b \o m) = 64 + Len(m)
  <2>1. b \in Data  BY <1>1
  <2>2. IsJoin(b \o m, b, m, Len(b), Len(m))  BY ONLY m \in Data, <2>1, JoinedAt
  <2> QED  BY <1>1, <2>2 DEF IsJoin
<1> HIDE DEF h
<1>5. finalize(h) = StdDigest(b \o m)  BY <1>3, <1>4, FinalizeIsDigest
<1> QED  BY <1>5 DEF tagged_sha256, StdTagged, h, b

-----------------------------------------------------------------------------
(* HMAC *)

\* The bits of a byte.
OfBits(a, b, c, d, e, f, g, h) == a + 2*b + 4*c + 8*d + 16*e + 32*f + 64*g + 128*h

\* A byte is the sum of its bits.
LEMMA ByteBits ==
    ASSUME NEW x \in Byte
    PROVE  \E a, b, c, d, e, f, g, h \in {0, 1} : x = OfBits(a, b, c, d, e, f, g, h)
<1> DEFINE B(p) == (x \div p) % 2
<1>1. /\ B(1) \in {0, 1} /\ B(2) \in {0, 1} /\ B(4) \in {0, 1} /\ B(8) \in {0, 1}
      /\ B(16) \in {0, 1} /\ B(32) \in {0, 1} /\ B(64) \in {0, 1} /\ B(128) \in {0, 1}
  BY DEF Byte
<1>2. x = OfBits(B(1), B(2), B(4), B(8), B(16), B(32), B(64), B(128))  BY DEF Byte, OfBits
<1> HIDE DEF B
<1> QED  BY <1>1, <1>2

\* One bit is inverted exactly where the other byte has a one.
LEMMA XorOfBits ==
    ASSUME NEW a \in {0, 1}, NEW b \in {0, 1}, NEW c \in {0, 1}, NEW d \in {0, 1},
           NEW e \in {0, 1}, NEW f \in {0, 1}, NEW g \in {0, 1}, NEW h \in {0, 1},
           NEW x, x = OfBits(a, b, c, d, e, f, g, h)
    PROVE  /\ Xor(x, 92)  = OfBits(a, b, 1 - c, 1 - d, 1 - e, f, 1 - g, h)
           /\ Xor(x, 54)  = OfBits(a, 1 - b, 1 - c, d, 1 - e, 1 - f, g, h)
           /\ Xor(x, 106) = OfBits(a, 1 - b, c, 1 - d, e, 1 - f, 1 - g, h)
           /\ x \in Byte
<1>1. x \in Byte  BY DEF OfBits, Byte
<1>2. /\ x \div 1 = x
      /\ x \div 2 = b + 2*c + 4*d + 8*e + 16*f + 32*g + 64*h
      /\ x \div 4 = c + 2*d + 4*e + 8*f + 16*g + 32*h
      /\ x \div 8 = d + 2*e + 4*f + 8*g + 16*h
      /\ x \div 16 = e + 2*f + 4*g + 8*h
      /\ x \div 32 = f + 2*g + 4*h
      /\ x \div 64 = g + 2*h
      /\ x \div 128 = h
  BY DEF OfBits
<1>3. ASSUME NEW t \in {0, 1}, NEW k \in Nat, NEW n \in Nat
      PROVE  (t + 2 * k + n) % 2 = IF n % 2 = 0 THEN t ELSE 1 - t
  OBVIOUS
<1> QED  BY <1>1, <1>2 DEF OfBits, Xor, XorBit

\* The pad of the inner hash is made from that of the outer one.
LEMMA XorTwice ==
    ASSUME NEW x \in Byte
    PROVE  /\ Xor(x, 92) \in Byte /\ Xor(x, 54) \in Byte
           /\ Xor(92, 54) = 106 /\ Xor(Xor(x, 92), 106) = Xor(x, 54)
<1>1. PICK a, b, c, d, e, f, g, h \in {0, 1} : x = OfBits(a, b, c, d, e, f, g, h)  BY ByteBits
<1> DEFINE y == OfBits(a, b, 1 - c, 1 - d, 1 - e, f, 1 - g, h)
           z == OfBits(a, 1 - b, 1 - c, d, 1 - e, 1 - f, g, h)
<1>2. /\ Xor(x, 92) = y /\ Xor(x, 54) = z  BY <1>1, XorOfBits
<1>3. 1 - c \in {0, 1} /\ 1 - d \in {0, 1} /\ 1 - e \in {0, 1} /\ 1 - g \in {0, 1}
      /\ 1 - b \in {0, 1} /\ 1 - f \in {0, 1}
  OBVIOUS
<1>4. y \in Byte /\ Xor(y, 106) = OfBits(a, 1 - b, 1 - c, 1 - (1 - d), 1 - e, 1 - f, 1 - (1 - g), h)
  <2> DEFINE c1 == 1 - c
             d1 == 1 - d
             e1 == 1 - e
             g1 == 1 - g
  <2>1. c1 \in {0, 1} /\ d1 \in {0, 1} /\ e1 \in {0, 1} /\ g1 \in {0, 1}  BY <1>3
  <2>2. y = OfBits(a, b, c1, d1, e1, f, g1, h)  OBVIOUS
  <2> HIDE DEF y, c1, d1, e1, g1
  <2>3. y \in Byte /\ Xor(y, 106) = OfBits(a, 1 - b, c1, 1 - d1, e1, 1 - f, 1 - g1, h)
    BY <2>1, <2>2, XorOfBits
  <2> QED  BY <2>3 DEF c1, d1, e1, g1
<1>5. 1 - (1 - d) = d /\ 1 - (1 - g) = g  OBVIOUS
<1>6. z \in Byte  BY <1>3 DEF OfBits, Byte
<1>7. Xor(92, 54) = 106
  <2>1. 92 = OfBits(0, 0, 1, 1, 1, 0, 1, 0) /\ 106 = OfBits(0, 1 - 0, 1 - 1, 1, 1 - 1, 1 - 0, 1, 0)
    BY DEF OfBits
  <2>2. 0 \in {0, 1} /\ 1 \in {0, 1}  OBVIOUS
  <2> QED  BY <2>1, <2>2, XorOfBits
<1> QED  BY <1>2, <1>4, <1>5, <1>6, <1>7

\* v is u, each byte with x.
IsXor(v, u, x) == v \in Data /\ Len(v) = Len(u) /\ \A i \in 1 .. Len(u) : v[i] = Xor(u[i], x)

\* Bytes that are flipped: by 92, then by 92 and 54 together, is by 54.
LEMMA XorAllIs ==
    ASSUME NEW u \in Data, NEW x, \A a \in Byte : Xor(a, x) \in Byte
    PROVE  IsXor(XorAll(u, x), u, x)
<1> DEFINE n == Len(u)
           f == [i \in 1 .. n |-> Xor(u[i], x)]
<1>1. n \in Nat /\ u \in [1 .. n -> Byte]  BY LenProperties DEF Data
<1> HIDE DEF n
<1>2. f \in [1 .. n -> Byte]  BY <1>1
<1>3. \A i \in 1 .. n : f[i] = Xor(u[i], x)  OBVIOUS
<1>4. XorAll(u, x) = f \o <<>>  BY DEF XorAll, Tuple, n
<1> HIDE DEF f
<1>5. f \in Data /\ Len(f) = n  BY <1>1, <1>2, FunctionData
<1>6. XorAll(u, x) = f  BY <1>4, <1>5, JoinEmpty
<1> QED  BY <1>3, <1>5, <1>6 DEF IsXor, n

LEMMA XorAllTwice ==
    ASSUME NEW u \in Data
    PROVE  /\ IsXor(XorAll(u, 92), u, 92) /\ IsXor(XorAll(u, 54), u, 54)
           /\ XorAll(XorAll(u, 92), Xor(92, 54)) = XorAll(u, 54)
<1> DEFINE v == XorAll(u, 92)
           w == XorAll(v, 106)
           z == XorAll(u, 54)
<1>1. \A a \in Byte : Xor(a, 92) \in Byte /\ Xor(a, 54) \in Byte  BY XorTwice
<1>2. \A a \in Byte : Xor(a, 106) \in Byte
  <2> SUFFICES ASSUME NEW x \in Byte PROVE Xor(x, 106) \in Byte  OBVIOUS
  <2>1. PICK a, b, c, d, e, f, g, h \in {0, 1} : x = OfBits(a, b, c, d, e, f, g, h)  BY ByteBits
  <2>2. Xor(x, 106) = OfBits(a, 1 - b, c, 1 - d, e, 1 - f, 1 - g, h)  BY <2>1, XorOfBits
  <2>3. OfBits(a, 1 - b, c, 1 - d, e, 1 - f, 1 - g, h) \in Byte  BY DEF OfBits, Byte
  <2> QED  BY <2>2, <2>3
<1>3. IsXor(v, u, 92)  BY <1>1, XorAllIs
<1>4. IsXor(z, u, 54)  BY <1>1, XorAllIs
<1> HIDE DEF v, w, z
<1>5. v \in Data  BY <1>3 DEF IsXor
<1>6. IsXor(w, v, 106)  BY <1>2, <1>5, XorAllIs DEF w
<1>7. ASSUME NEW i \in 1 .. Len(u) PROVE w[i] = z[i]
  <2>1. v[i] = Xor(u[i], 92) /\ z[i] = Xor(u[i], 54)  BY <1>3, <1>4 DEF IsXor
  <2>2. w[i] = Xor(v[i], 106)  BY <1>3, <1>6 DEF IsXor
  <2>3. u[i] \in Byte  BY DEF Data
  <2> QED  BY <2>1, <2>2, <2>3, XorTwice
<1>8. w \in Data /\ z \in Data /\ Len(w) = Len(u) /\ Len(z) = Len(u)  BY <1>3, <1>4, <1>6 DEF IsXor
<1>9. w = z  BY <1>7, <1>8, SameData
<1>10. Xor(92, 54) = 106
  <2>1. 0 \in Byte  BY DEF Byte
  <2> QED  BY <2>1, XorTwice
<1> QED  BY <1>3, <1>4, <1>9, <1>10 DEF v, w, z

\* The key, filled up to a block.
LEMMA RKeyIsStandard ==
    ASSUME EightWords, NEW key \in Data, IsShort(Len(key))
    PROVE  /\ RKey(key) = Padded64(StdKey(key))
           /\ RKey(key) \in Data /\ Len(RKey(key)) = 64
<1>1. Len(key) \in Nat  BY LenProperties DEF Data
<1>2. CASE Len(key) <= 64
  <2> DEFINE n == 64 - Len(key)
  <2>1. n \in Nat /\ Len(key) + n = 64  BY <1>1, <1>2
  <2>2. StdKey(key) = key  BY <1>1, <1>2 DEF StdKey
  <2>3. RKey(key) = key \o Zeros(n)  BY <1>2 DEF RKey
  <2>4. Padded64(StdKey(key)) = key \o Zeros(n)  BY <2>2 DEF Padded64
  <2> HIDE DEF n
  <2>5. Zeros(n) \in Data /\ Len(Zeros(n)) = n  BY <2>1, ZerosType
  <2>6. IsJoin(key \o Zeros(n), key, Zeros(n), Len(key), n)  BY <2>5, JoinedAt
  <2> QED  BY <2>1, <2>3, <2>4, <2>6 DEF IsJoin
<1>3. CASE Len(key) > 64
  <2> DEFINE b == StdDigest(key)
  <2>1. b \in Data /\ Len(b) = 32  BY StdDigestType
  <2>2. finalize(write(initialize, key)) = b  BY WholeIsDigest
  <2>3. RKey(key) = b \o Zeros(32)  BY <1>1, <1>3, <2>2 DEF RKey
  <2>4. StdKey(key) = b  BY <1>3 DEF StdKey
  <2> HIDE DEF b
  <2>5. Padded64(StdKey(key)) = b \o Zeros(32)
    <3>1. 64 - Len(b) = 32  BY <2>1
    <3> QED  BY <2>4, <3>1 DEF Padded64
  <2>6. 32 \in Nat  OBVIOUS
  <2>7. Zeros(32) \in Data /\ Len(Zeros(32)) = 32  BY <2>6, ZerosType
  <2>8. IsJoin(b \o Zeros(32), b, Zeros(32), 32, 32)  BY <2>1, <2>7, JoinedAt
  <2> QED  BY <2>3, <2>5, <2>8 DEF IsJoin
<1>4. Len(key) <= 64 \/ Len(key) > 64  BY <1>1
<1> QED  BY <1>2, <1>3, <1>4

OuterPad(key) == XorAll(Padded64(StdKey(key)), 92)
InnerPad(key) == XorAll(Padded64(StdKey(key)), 54)

\* Pads are blocks.
LEMMA PadsType ==
    ASSUME EightWords, NEW key \in Data, IsShort(Len(key))
    PROVE  /\ OuterPad(key) \in Data /\ Len(OuterPad(key)) = 64
           /\ InnerPad(key) \in Data /\ Len(InnerPad(key)) = 64
<1> DEFINE u == Padded64(StdKey(key))
<1>1. u \in Data /\ Len(u) = 64  BY RKeyIsStandard
<1> HIDE DEF u
<1>2. IsXor(XorAll(u, 92), u, 92) /\ IsXor(XorAll(u, 54), u, 54)  BY <1>1, XorAllTwice
<1> QED  BY <1>1, <1>2 DEF IsXor, OuterPad, InnerPad, u

\* An HMAC under key has absorbed m.
HmacAbsorbed(hmac, key, m) ==
    /\ hmac = [outer |-> hmac.outer, inner |-> hmac.inner]
    /\ Absorbed(hmac.outer, OuterPad(key))
    /\ Absorbed(hmac.inner, InnerPad(key) \o m)

\* A new HMAC has absorbed the two pads.
LEMMA HmacInitializeAbsorbs ==
    ASSUME EightWords, NEW key \in Data, IsShort(Len(key))
    PROVE  HmacAbsorbed(hmac_initialize(key), key, <<>>)
<1> DEFINE u == RKey(key)
           a == write(initialize, OuterPad(key))
           b == write(initialize, InnerPad(key))
           f == hmac_initialize(key)
<1>1. u = Padded64(StdKey(key)) /\ u \in Data  BY RKeyIsStandard
<1> HIDE DEF u
<1>2. XorAll(u, 92) = OuterPad(key) /\ XorAll(XorAll(u, 92), Xor(92, 54)) = InnerPad(key)
  <2>1. XorAll(XorAll(u, 92), Xor(92, 54)) = XorAll(u, 54)  BY <1>1, XorAllTwice
  <2> QED  BY <1>1, <2>1 DEF OuterPad, InnerPad
<1>3. f = [outer |-> a, inner |-> b]  BY <1>2 DEF hmac_initialize, Keyed, u
<1>4. OuterPad(key) \in Data /\ InnerPad(key) \in Data  BY PadsType
<1>5. Absorbed(a, OuterPad(key)) /\ Absorbed(b, InnerPad(key))  BY <1>4, StartAbsorbs
<1>6. InnerPad(key) \o <<>> = InnerPad(key)  BY <1>4, JoinEmpty
<1> HIDE DEF a, b, f
<1>7. f.outer = a /\ f.inner = b /\ f = [outer |-> f.outer, inner |-> f.inner]  BY <1>3
<1>8. HmacAbsorbed(f, key, <<>>)  BY <1>5, <1>6, <1>7 DEF HmacAbsorbed
<1> QED  BY <1>8 DEF f

\* Data goes to the inner hash.
LEMMA HmacWriteAbsorbs ==
    ASSUME EightWords, NEW key \in Data, IsShort(Len(key)), NEW m \in Data, NEW d \in Data,
           NEW hmac, HmacAbsorbed(hmac, key, m)
    PROVE  HmacAbsorbed(hmac_write(hmac, d), key, m \o d)
<1> DEFINE f == hmac_write(hmac, d)
           b == write(hmac.inner, d)
           g == [outer |-> hmac.outer, inner |-> hmac.inner]
<1>1. InnerPad(key) \in Data  BY PadsType
<1>2. Absorbed(b, (InnerPad(key) \o m) \o d)  BY WriteAbsorbs DEF HmacAbsorbed
<1>3. (InnerPad(key) \o m) \o d = InnerPad(key) \o (m \o d)  BY <1>1, JoinAssociative
<1>4. f = [outer |-> hmac.outer, inner |-> b]
  <2>1. [g EXCEPT !.inner = b] = [outer |-> hmac.outer, inner |-> b]  OBVIOUS
  <2>2. hmac = g  BY DEF HmacAbsorbed
  <2> HIDE DEF g
  <2> QED  BY <2>1, <2>2 DEF hmac_write
<1> HIDE DEF f, b
<1>5. f.outer = hmac.outer /\ f.inner = b /\ f = [outer |-> f.outer, inner |-> f.inner]  BY <1>4
<1>6. HmacAbsorbed(f, key, m \o d)  BY <1>2, <1>3, <1>5 DEF HmacAbsorbed
<1> QED  BY <1>6 DEF f

\* secp256k1_hmac_sha256_finalize gives the HMAC of RFC 2104.
LEMMA HmacFinalizeIsStandard ==
    ASSUME EightWords, NEW key \in Data, IsShort(Len(key)), NEW m \in Data, IsShort(64 + Len(m)),
           NEW hmac, HmacAbsorbed(hmac, key, m)
    PROVE  hmac_finalize(hmac) = StdHmac(key, m)
<1> DEFINE a == InnerPad(key) \o m
           b == StdDigest(a)
           h == write(hmac.outer, b)
           c == OuterPad(key) \o b
<1>1. /\ OuterPad(key) \in Data /\ Len(OuterPad(key)) = 64
      /\ InnerPad(key) \in Data /\ Len(InnerPad(key)) = 64
  BY PadsType
<1>2. a \in Data /\ Len(a) = 64 + Len(m)
  <2>1. IsJoin(a, InnerPad(key), m, 64, Len(m))  BY <1>1, JoinedAt
  <2> QED  BY <2>1 DEF IsJoin
<1> HIDE DEF a
<1>3. finalize(hmac.inner) = b  BY <1>2, FinalizeIsDigest DEF HmacAbsorbed, a
<1>4. b \in Data /\ Len(b) = 32  BY <1>2, StdDigestType
<1> HIDE DEF b, c, h
<1>5. Absorbed(h, c)  BY <1>4, WriteAbsorbs DEF HmacAbsorbed, h, c
<1>6. IsJoin(c, OuterPad(key), b, 64, 32)
  <2> DEFINE o == OuterPad(key)
             k == 64
             n == 32
  <2>1. o \in Data /\ k = Len(o) /\ n = Len(b) /\ c = o \o b  BY <1>1, <1>4 DEF c
  <2> HIDE DEF o, k, n
  <2>2. IsJoin(c, o, b, k, n)  BY ONLY <1>4, <2>1, JoinedAt
  <2> QED  BY <2>2 DEF o, k, n
<1>7. IsShort(Len(c))
  <2>1. Len(c) = 96  BY <1>6 DEF IsJoin
  <2> QED  BY <2>1, SMT DEF IsShort, MaxHashed
<1>8. finalize(h) = StdDigest(c)  BY <1>5, <1>7, FinalizeIsDigest
<1> QED  BY <1>3, <1>8 DEF hmac_finalize, StdHmac, h, c, b, a, OuterPad, InnerPad

-----------------------------------------------------------------------------
(* The registers *)

\* What is written, the tag and the keys are bytes.
LEMMA MessageType ==
    ASSUME NEW from \in Nat, NEW len \in Nat
    PROVE  Message(from, len) \in Data /\ Len(Message(from, len)) = len
<1> DEFINE f == [i \in 1 .. len |-> ByteOf(from + i)]
<1>1. f \in [1 .. len -> Byte]
  <2> SUFFICES ASSUME NEW i \in 1 .. len PROVE ByteOf(from + i) \in Byte  OBVIOUS
  <2>1. (from + i) * 37 + 11 \in Nat  OBVIOUS
  <2> QED  BY <2>1 DEF ByteOf, Byte
<1>2. Message(from, len) = f \o <<>>  BY DEF Message, Tuple
<1> HIDE DEF f
<1>3. f \in Data /\ Len(f) = len  BY <1>1, FunctionData
<1> QED  BY <1>2, <1>3, JoinEmpty

LEMMA TagType ==
    ASSUME EightWords
    PROVE  Tag \in Data /\ IsShort(Len(Tag)) /\ TagBlock \in Data /\ Len(TagBlock) = 64
<1> DEFINE from == 1000
           len == 13
<1>1. from \in Nat /\ len \in Nat  OBVIOUS
<1>2. Tag \in Data /\ Len(Tag) = 13
  <2>1. Tag = Message(from, len)  BY DEF Tag
  <2>2. len = 13  OBVIOUS
  <2> HIDE DEF from, len
  <2> QED  BY <1>1, <2>1, <2>2, MessageType
<1>3. IsShort(Len(Tag))  BY <1>2, SMT DEF IsShort, MaxHashed
<1>4. TagBlock \in Data /\ Len(TagBlock) = 64  BY <1>2, TagBlockType DEF TagBlock
<1> HIDE DEF from, len
<1> QED  BY <1>2, <1>3, <1>4

\* Lengths, written so that they stay small numbers.
LEMMA Lengths ==
    ASSUME NEW n \in Nat
    PROVE  /\ n <= MaxMessage + 64 => IsShort(n) /\ IsShort(64 + n)
           /\ n \in KeyLengths => IsShort(n)
           /\ MaxMessage \in Nat /\ MaxMessage \div 2 <= MaxMessage /\ Pieces \subseteq Nat
           /\ KeyLengths \subseteq Nat
<1>1. MaxMessage \in Nat /\ Pieces \subseteq Nat  BY Sha256Assumption
<1>2. MaxMessage \div 2 <= MaxMessage  BY <1>1
<1>3. n <= MaxMessage + 64 => IsShort(n) /\ IsShort(64 + n)
  <2>1. MaxMessage + 128 < MaxHashed  BY Sha256Assumption
  <2>2. MaxHashed \in Nat  BY SMT DEF MaxHashed
  <2> QED  BY <1>1, <2>1, <2>2 DEF IsShort
<1>4. KeyLengths \subseteq 0 .. MaxHashed - 1  BY Sha256Assumption
<1>5. \A i \in KeyLengths : i \in Nat /\ IsShort(i)
  <2>1. MaxHashed \in Nat  BY SMT DEF MaxHashed
  <2> QED  BY <1>4, <2>1 DEF IsShort
<1> QED  BY <1>1, <1>2, <1>3, <1>5

IsHash(x) ==
    /\ x = HashReg(x.h, x.msg, x.done, x.out)
    /\ Absorbed(x.h, x.msg) /\ Len(x.msg) <= MaxMessage + 64
    /\ x.done => x.out = StdDigest(x.msg)
IsHmac(x) ==
    /\ x = HmacReg(x.key, x.h, x.msg, x.done, x.out)
    /\ x.key \in Data /\ IsShort(Len(x.key)) /\ x.msg \in Data
    /\ HmacAbsorbed(x.h, x.key, x.msg) /\ Len(x.msg) <= MaxMessage + 64
    /\ x.done => x.out = StdHmac(x.key, x.msg)

(***************************************************************************)
(* The invariant of the hashes: the state of each is that of the bytes     *)
(* written so far, of the inner hash those behind the pad of its key.      *)
(***************************************************************************)
HashInv ==
    \/ st.unit = "sha256" /\ IsHash(st)
    \/ st.unit = "hmac" /\ IsHmac(st)
    \/ st.unit = "rfc6979"

\* A register with what was absorbed is as the invariant says.
LEMMA HashRegIs ==
    ASSUME NEW h, NEW m, NEW done, NEW out, Absorbed(h, m), Len(m) <= MaxMessage + 64,
           done => out = StdDigest(m)
    PROVE  LET x == HashReg(h, m, done, out) IN IsHash(x) /\ x.unit = "sha256"
<1> DEFINE x == HashReg(h, m, done, out)
<1>1. x.h = h /\ x.msg = m /\ x.done = done /\ x.out = out /\ x.unit = "sha256"  BY DEF HashReg
<1> HIDE DEF x
<1>2. x = HashReg(x.h, x.msg, x.done, x.out)  BY <1>1 DEF x
<1> QED  BY <1>1, <1>2 DEF IsHash, x

IsFresh(x, h, m) == x = HashReg(h, m, FALSE, <<>>)
MayHash(m) == Len(m) <= MaxMessage + 64

\* A hash before it is finalised.
LEMMA FreshHashIs ==
    ASSUME NEW h, NEW m, Absorbed(h, m), MayHash(m), NEW x, IsFresh(x, h, m)
    PROVE  IsHash(x) /\ x.unit = "sha256"
<1>1. x.h = h /\ x.msg = m /\ ~x.done /\ x.out = <<>> /\ x.unit = "sha256"  BY DEF IsFresh, HashReg
<1>2. x = HashReg(x.h, x.msg, x.done, x.out)  BY <1>1 DEF IsFresh, HashReg
<1> QED  BY <1>1, <1>2 DEF IsHash, MayHash

LEMMA HmacRegIs ==
    ASSUME NEW key \in Data, IsShort(Len(key)), NEW m \in Data, NEW h, NEW done, NEW out,
           HmacAbsorbed(h, key, m), Len(m) <= MaxMessage + 64, done => out = StdHmac(key, m)
    PROVE  LET x == HmacReg(key, h, m, done, out) IN IsHmac(x) /\ x.unit = "hmac"
<1> DEFINE x == HmacReg(key, h, m, done, out)
<1>1. /\ x.key = key /\ x.h = h /\ x.msg = m /\ x.done = done /\ x.out = out
      /\ x.unit = "hmac"
  BY DEF HmacReg
<1> HIDE DEF x
<1>2. x = HmacReg(x.key, x.h, x.msg, x.done, x.out)  BY <1>1 DEF x
<1> QED  BY <1>1, <1>2 DEF IsHmac, x

\* The invariant holds at the start, after every step, and gives the property.
LEMMA HashStarts ==
    ASSUME EightWords, HashInit
    PROVE  HashInv
<1>1. MaxMessage \in Nat
  <2>1. 0 \in Nat  OBVIOUS
  <2> QED  BY <2>1, Lengths
<1>2. <<>> \in Data /\ Len(<<>>) = 0 /\ Len(<<>>) <= MaxMessage + 64  BY <1>1, EmptySeq DEF Data
<1>3. CASE st = HashReg(initialize, <<>>, FALSE, <<>>)
  <2>1. Absorbed(initialize, <<>>)  BY InitializeAbsorbs
  <2>2. IsFresh(st, initialize, <<>>) /\ MayHash(<<>>)  BY ONLY <1>2, <1>3 DEF IsFresh, MayHash
  <2>3. IsHash(st) /\ st.unit = "sha256"  BY ONLY <2>1, <2>2, FreshHashIs
  <2> QED  BY <2>3 DEF HashInv
<1>4. TagBlock \in Data /\ Len(TagBlock) = 64 /\ Len(TagBlock) <= MaxMessage + 64
  <2>1. TagBlock \in Data /\ Len(TagBlock) = 64  BY TagType
  <2> QED  BY <1>1, <2>1
<1>5. CASE st = HashReg(initialize_midstate(64, Blocks(InitialState, TagBlock)), TagBlock,
                        FALSE, <<>>)
  <2> DEFINE h == initialize_midstate(64, Blocks(InitialState, TagBlock))
  <2>1. Absorbed(h, TagBlock)  BY <1>4, MidstateAbsorbs
  <2>2. IsFresh(st, h, TagBlock) /\ MayHash(TagBlock)  BY ONLY <1>4, <1>5 DEF IsFresh, MayHash
  <2> HIDE DEF h
  <2>3. IsHash(st) /\ st.unit = "sha256"  BY ONLY <2>1, <2>2, FreshHashIs
  <2> QED  BY <2>3 DEF HashInv
<1>6. CASE st = HashReg(initialize_tagged(Tag), TagBlock, FALSE, <<>>)
  <2> DEFINE h == initialize_tagged(Tag)
  <2>1. Absorbed(h, TagBlock)  BY TagType, TaggedAbsorbs DEF TagBlock
  <2>2. IsFresh(st, h, TagBlock) /\ MayHash(TagBlock)  BY ONLY <1>4, <1>6 DEF IsFresh, MayHash
  <2> HIDE DEF h
  <2>3. IsHash(st) /\ st.unit = "sha256"  BY ONLY <2>1, <2>2, FreshHashIs
  <2> QED  BY <2>3 DEF HashInv
<1>7. ASSUME NEW len \in KeyLengths,
             st = HmacReg(KeyOf(len), hmac_initialize(KeyOf(len)), <<>>, FALSE, <<>>)
      PROVE  HashInv
  <2> DEFINE key == KeyOf(len)
  <2>1. len \in Nat /\ IsShort(len)
    <3>1. 0 \in Nat  OBVIOUS
    <3> QED  BY <3>1, Lengths
  <2>2. key \in Data /\ Len(key) = len
    <3>1. 2000 \in Nat  OBVIOUS
    <3> QED  BY <2>1, <3>1, MessageType DEF KeyOf
  <2> HIDE DEF key
  <2>3. HmacAbsorbed(hmac_initialize(key), key, <<>>)  BY <2>1, <2>2, HmacInitializeAbsorbs
  <2>4. st = HmacReg(key, hmac_initialize(key), <<>>, FALSE, <<>>)  BY <1>7 DEF key
  <2> QED  BY <1>2, <2>1, <2>2, <2>3, <2>4, HmacRegIs DEF HashInv
<1>9. \/ st = HashReg(initialize, <<>>, FALSE, <<>>)
      \/ st = HashReg(initialize_midstate(64, Blocks(InitialState, TagBlock)), TagBlock,
                        FALSE, <<>>)
      \/ st = HashReg(initialize_tagged(Tag), TagBlock, FALSE, <<>>)
      \/ \E len \in KeyLengths :
             st = HmacReg(KeyOf(len), hmac_initialize(KeyOf(len)), <<>>, FALSE, <<>>)
      \/ \E len \in {64, 80, 96, 112} :
             st = RngReg(SeedOf(len), rfc6979_initialize(SeedOf(len)),
                         StdStart(SeedOf(len)), <<>>, <<>>, 0, TRUE)
  BY DEF HashInit
<1>10. CASE \E len \in KeyLengths :
                st = HmacReg(KeyOf(len), hmac_initialize(KeyOf(len)), <<>>, FALSE, <<>>)
  BY ONLY <1>7, <1>10
<1>11. CASE \E len \in {64, 80, 96, 112} :
                st = RngReg(SeedOf(len), rfc6979_initialize(SeedOf(len)),
                            StdStart(SeedOf(len)), <<>>, <<>>, 0, TRUE)
  <2>1. PICK len \in {64, 80, 96, 112} :
                st = RngReg(SeedOf(len), rfc6979_initialize(SeedOf(len)),
                            StdStart(SeedOf(len)), <<>>, <<>>, 0, TRUE)
    BY ONLY <1>11
  <2> QED  BY ONLY <2>1 DEF RngReg, HashInv
<1> QED  BY <1>3, <1>5, <1>6, <1>9, <1>10, <1>11

LEMMA HashSteps ==
    ASSUME EightWords, HashInv, HashNext
    PROVE  HashInv'
<1>1. CASE HashWrite
  <2>1. PICK len \in Pieces :
            /\ st.unit = "sha256" /\ ~st.done /\ Len(st.msg) + len <= MaxMessage
            /\ LET data == Message(Len(st.msg), len)
               IN  st' = HashReg(write(st.h, data), st.msg \o data, FALSE, <<>>)
    BY <1>1 DEF HashWrite
  <2> DEFINE m == st.msg
             d == Message(Len(m), len)
  <2>2. IsHash(st)  BY <2>1 DEF HashInv
  <2>3. Absorbed(st.h, m)  BY <2>2 DEF IsHash
  <2>4. m \in Data /\ Len(m) \in Nat  BY <2>3, LenProperties DEF Absorbed, Data
  <2>5. len \in Nat /\ MaxMessage \in Nat  BY <2>4, Lengths
  <2>6. d \in Data /\ Len(d) = len  BY <2>4, <2>5, MessageType
  <2>7. st' = HashReg(write(st.h, d), m \o d, FALSE, <<>>) /\ Len(m) + len <= MaxMessage  BY <2>1
  <2> HIDE DEF m, d
  <2>8. Absorbed(write(st.h, d), m \o d)  BY <2>3, <2>6, WriteAbsorbs
  <2>9. Len(m \o d) <= MaxMessage + 64
    <3>1. Len(m \o d) = Len(m) + len  BY <2>4, <2>6, Joined
    <3> QED  BY <2>4, <2>5, <2>7, <3>1
  <2>10. IsHash(st') /\ st'.unit = "sha256"  BY <2>7, <2>8, <2>9, HashRegIs
  <2> QED  BY <2>10 DEF HashInv
<1>2. CASE HashFinalize
  <2>1. st.unit = "sha256" /\ st' = HashReg(st.h, st.msg, TRUE, finalize(st.h))
    BY <1>2 DEF HashFinalize
  <2>2. IsHash(st)  BY <2>1 DEF HashInv
  <2>3. Absorbed(st.h, st.msg) /\ Len(st.msg) <= MaxMessage + 64  BY <2>2 DEF IsHash
  <2>4. Len(st.msg) \in Nat  BY <2>3, LenProperties DEF Absorbed, Data
  <2>5. finalize(st.h) = StdDigest(st.msg)  BY <2>3, <2>4, Lengths, FinalizeIsDigest
  <2>6. IsHash(st') /\ st'.unit = "sha256"  BY <2>1, <2>3, <2>5, HashRegIs
  <2> QED  BY <2>6 DEF HashInv
<1>3. CASE HmacWrite
  <2>1. PICK len \in Pieces :
            /\ st.unit = "hmac" /\ ~st.done /\ Len(st.msg) + len <= MaxMessage \div 2
            /\ LET data == Message(Len(st.msg), len)
               IN  st' = HmacReg(st.key, hmac_write(st.h, data), st.msg \o data, FALSE, <<>>)
    BY <1>3 DEF HmacWrite
  <2> DEFINE m == st.msg
             d == Message(Len(m), len)
             key == st.key
             f == hmac_write(st.h, d)
  <2>2. IsHmac(st)  BY <2>1 DEF HashInv
  <2>3. m \in Data /\ key \in Data /\ IsShort(Len(key)) /\ HmacAbsorbed(st.h, key, m)
    BY <2>2 DEF IsHmac
  <2>4. Len(m) \in Nat  BY <2>3, LenProperties DEF Data
  <2>5. len \in Nat /\ MaxMessage \in Nat /\ MaxMessage \div 2 <= MaxMessage  BY <2>4, Lengths
  <2>6. d \in Data /\ Len(d) = len  BY <2>4, <2>5, MessageType
  <2>7. st' = HmacReg(key, f, m \o d, FALSE, <<>>) /\ Len(m) + len <= MaxMessage \div 2  BY <2>1
  <2> HIDE DEF m, d, key
  <2>8. HmacAbsorbed(f, key, m \o d)  BY <2>3, <2>6, HmacWriteAbsorbs
  <2> HIDE DEF f
  <2>9. m \o d \in Data /\ Len(m \o d) <= MaxMessage + 64
    <3>1. m \o d \in Data /\ Len(m \o d) = Len(m) + len  BY <2>3, <2>6, Joined
    <3>2. MaxMessage \div 2 \in Int  BY <2>5
    <3> QED  BY <2>4, <2>5, <2>7, <3>1, <3>2
  <2>10. IsHmac(st') /\ st'.unit = "hmac"  BY <2>3, <2>7, <2>8, <2>9, HmacRegIs
  <2> QED  BY <2>10 DEF HashInv
<1>4. CASE HmacFinalize
  <2>1. st.unit = "hmac" /\ st' = HmacReg(st.key, st.h, st.msg, TRUE, hmac_finalize(st.h))
    BY <1>4 DEF HmacFinalize
  <2>2. IsHmac(st)  BY <2>1 DEF HashInv
  <2>3. /\ st.msg \in Data /\ st.key \in Data /\ IsShort(Len(st.key))
        /\ HmacAbsorbed(st.h, st.key, st.msg) /\ Len(st.msg) <= MaxMessage + 64
    BY <2>2 DEF IsHmac
  <2>4. Len(st.msg) \in Nat  BY <2>3, LenProperties DEF Data
  <2>5. hmac_finalize(st.h) = StdHmac(st.key, st.msg)
    BY <2>3, <2>4, Lengths, HmacFinalizeIsStandard
  <2> DEFINE out == hmac_finalize(st.h)
             key == st.key
             m == st.msg
             h == st.h
  <2>6. /\ key \in Data /\ IsShort(Len(key)) /\ m \in Data /\ HmacAbsorbed(h, key, m)
        /\ Len(m) <= MaxMessage + 64 /\ out = StdHmac(key, m)
        /\ st' = HmacReg(key, h, m, TRUE, out)
    BY <2>1, <2>3, <2>5
  <2> HIDE DEF out, key, m, h
  <2>7. IsHmac(st') /\ st'.unit = "hmac"  BY <2>6, HmacRegIs
  <2> QED  BY <2>7 DEF HashInv
<1>5. CASE RngGenerate
  <2>1. st'.unit = "rfc6979"  BY <1>5 DEF RngGenerate, RngReg
  <2> QED  BY <2>1 DEF HashInv
<1> QED  BY <1>1, <1>2, <1>3, <1>4, <1>5 DEF HashNext

LEMMA HashesAreOfMessages ==
    ASSUME EightWords, HashInv
    PROVE  DigestIsOfMessage
<1>1. ASSUME st.unit = "sha256"
      PROVE  /\ st.h.s = Blocks(InitialState, st.msg)
             /\ st.h.bytes = Len(st.msg)
             /\ LET rest == Len(st.msg) % 64
                IN  SubSeq(st.h.buf, 1, rest) = SubSeq(st.msg, Len(st.msg) - rest + 1, Len(st.msg))
             /\ st.done => /\ st.out = StdDigest(st.msg)
                           /\ tagged_sha256(Tag, st.msg) = StdTagged(Tag, st.msg)
  <2> DEFINE m == st.msg
             k == Len(m) % 64
             n == Len(m) - k
             p == n + 1
             buf == st.h.buf
             a == SubSeq(buf, 1, k)
             b == SubSeq(m, p, Len(m))
  <2>1. IsHash(st)  BY <1>1 DEF HashInv
  <2>2. /\ Absorbed(st.h, m) /\ Len(m) <= MaxMessage + 64 /\ (st.done => st.out = StdDigest(m))
        /\ m \in Data /\ buf \in Data /\ Len(buf) = 64 /\ \A i \in 1 .. k : buf[i] = m[n + i]
    BY <2>1 DEF IsHash, Absorbed
  <2>3. /\ Len(m) \in Nat /\ k \in Nat /\ n \in Nat /\ k < 64 /\ p = n + 1 /\ Len(m) = n + k
        /\ n + k <= Len(m) /\ 0 + k <= Len(buf) /\ 0 \in Nat /\ 1 = 0 + 1 /\ k = 0 + k
    <3>1. Len(m) \in Nat  BY <2>2, LenProperties DEF Data
    <3>2. k \in 0 .. 63 /\ k <= Len(m)
      <4> DEFINE L == Len(m)
      <4>1. L \in Nat  BY <3>1
      <4> HIDE DEF L
      <4>2. L % 64 \in 0 .. 63 /\ L % 64 <= L  BY <4>1
      <4> QED  BY <4>2 DEF L
    <3>3. n = Len(m) - k /\ p = n + 1  OBVIOUS
    <3> HIDE DEF m, k, n, p, buf
    <3> QED  BY <2>2, <3>1, <3>2, <3>3
  <2>4. st.h.s = Blocks(InitialState, m) /\ st.h.bytes = Len(m)  BY <2>2 DEF Absorbed
  <2>5. tagged_sha256(Tag, m) = StdTagged(Tag, m)
    BY <2>2, <2>3, Lengths, TagType, TaggedIsStandard
  <2> HIDE DEF m, k, n, p, buf
  <2>6. IsPart(a, buf, 0, k)  BY <2>2, <2>3, PartOf
  <2>7. IsPart(b, m, n, k)  BY <2>2, <2>3, PartOf
  <2> HIDE DEF a, b
  <2>8. ASSUME NEW i \in 1 .. k PROVE a[i] = b[i]
    <3>1. 0 + i = i  BY <2>3
    <3>2. a[i] = buf[0 + i] /\ b[i] = m[n + i]  BY <2>6, <2>7 DEF IsPart
    <3> QED  BY <2>2, <3>1, <3>2
  <2>9. a \in Data /\ b \in Data /\ Len(a) = k /\ Len(b) = k  BY <2>6, <2>7 DEF IsPart
  <2>10. a = b  BY <2>8, <2>9, SameData
  <2> QED  BY <2>2, <2>4, <2>5, <2>10 DEF a, b, buf, p, n, k, m
<1>2. ASSUME st.unit = "hmac", st.done PROVE st.out = StdHmac(st.key, st.msg)
  BY <1>2 DEF HashInv, IsHmac
<1> QED  BY <1>1, <1>2 DEF DigestIsOfMessage

(***************************************************************************)
(* Whatever the compression function, the pieces in which a message is     *)
(* written and the length of a key: digests are those of FIPS 180-4, of    *)
(* BIP-340's tagged hashes and of RFC 2104 (hash_impl.h).                  *)
(***************************************************************************)
THEOREM HashesAreStandard ==
    ASSUME EightWords
    PROVE  HashSpec => []DigestIsOfMessage
<1>1. HashInit => HashInv  BY HashStarts
<1>2. HashInv /\ [HashNext]_st => HashInv'
  <2>1. ASSUME HashInv, HashNext PROVE HashInv'  BY <2>1, HashSteps
  <2>2. ASSUME HashInv, UNCHANGED st PROVE HashInv'  BY <2>2 DEF HashInv, IsHash, IsHmac
  <2> QED  BY <2>1, <2>2
<1>3. HashInv => DigestIsOfMessage  BY HashesAreOfMessages
<1> QED  BY <1>1, <1>2, <1>3, PTL DEF HashSpec

-----------------------------------------------------------------------------
(* The generator of RFC 6979 *)

Data32 == {d \in Data : Len(d) = 32}

\* What the generator hashes is short.
LEMMA SmallIsShort ==
    ASSUME NEW n \in Nat, n <= 1000
    PROVE  IsShort(n)
BY SMT DEF IsShort, MaxHashed

\* An HMAC has 32 bytes.
LEMMA StdHmacType ==
    ASSUME EightWords, NEW key \in Data, IsShort(Len(key)), NEW m \in Data
    PROVE  StdHmac(key, m) \in Data32
<1> DEFINE a == InnerPad(key) \o m
           b == StdDigest(a)
           c == OuterPad(key) \o b
<1>1. OuterPad(key) \in Data /\ InnerPad(key) \in Data  BY PadsType
<1>2. a \in Data  BY <1>1, Joined
<1> HIDE DEF a
<1>3. b \in Data  BY <1>2, StdDigestType
<1> HIDE DEF b
<1>4. c \in Data  BY <1>1, <1>3, Joined
<1> HIDE DEF c
<1>5. StdDigest(c) \in Data /\ Len(StdDigest(c)) = 32  BY <1>4, StdDigestType
<1>6. StdHmac(key, m) = StdDigest(c)  BY DEF StdHmac, c, b, a, OuterPad, InnerPad
<1> QED  BY <1>5, <1>6 DEF Data32

LEMMA Data32Short ==
    ASSUME NEW d \in Data32
    PROVE  d \in Data /\ IsShort(Len(d))
<1>1. d \in Data /\ Len(d) = 32  BY DEF Data32
<1>2. IsShort(32)  BY SmallIsShort
<1> QED  BY <1>1, <1>2

\* HMACs of one and of three pieces.
LEMMA Hmac1IsStandard ==
    ASSUME EightWords, NEW key \in Data32, NEW a \in Data, IsShort(64 + Len(a))
    PROVE  Hmac1(key, a) = StdHmac(key, a) /\ StdHmac(key, a) \in Data32
<1> DEFINE h == hmac_initialize(key)
           g == hmac_write(h, a)
<1>1. key \in Data /\ IsShort(Len(key))  BY Data32Short
<1>2. HmacAbsorbed(h, key, <<>>)  BY <1>1, HmacInitializeAbsorbs
<1>3. <<>> \in Data /\ <<>> \o a = a  BY JoinEmpty
<1> HIDE DEF h
<1>4. HmacAbsorbed(g, key, <<>> \o a)  BY <1>1, <1>2, <1>3, HmacWriteAbsorbs
<1> HIDE DEF g
<1>5. hmac_finalize(g) = StdHmac(key, a)  BY <1>1, <1>3, <1>4, HmacFinalizeIsStandard
<1>6. StdHmac(key, a) \in Data32  BY <1>1, StdHmacType
<1> QED  BY <1>5, <1>6 DEF Hmac1, g, h

LEMMA Hmac3IsStandard ==
    ASSUME EightWords, NEW key \in Data32, NEW a \in Data, NEW b \in Data, NEW c \in Data,
           IsShort(64 + (Len(a) + (Len(b) + Len(c))))
    PROVE  /\ Hmac3(key, a, b, c) = StdHmac(key, a \o (b \o c))
           /\ StdHmac(key, a \o (b \o c)) \in Data32
<1> DEFINE h == hmac_initialize(key)
           h1 == hmac_write(h, a)
           h2 == hmac_write(h1, b)
           h3 == hmac_write(h2, c)
           m == a \o (b \o c)
<1>1. key \in Data /\ IsShort(Len(key))  BY Data32Short
<1>2. HmacAbsorbed(h, key, <<>>)  BY <1>1, HmacInitializeAbsorbs
<1>3. <<>> \in Data /\ <<>> \o a = a  BY JoinEmpty
<1> HIDE DEF h
<1>4. HmacAbsorbed(h1, key, a)
  <2>1. HmacAbsorbed(h1, key, <<>> \o a)  BY <1>1, <1>2, <1>3, HmacWriteAbsorbs
  <2> QED  BY <1>3, <2>1
<1> HIDE DEF h1
<1>5. HmacAbsorbed(h2, key, a \o b)  BY <1>1, <1>4, HmacWriteAbsorbs
<1> HIDE DEF h2
<1>6. a \o b \in Data /\ (a \o b) \o c = m
  <2> DEFINE e == a \o b
  <2>1. e \in Data  BY ONLY a \in Data, b \in Data, Joined
  <2>2. Associates(a, b, c)  BY ONLY a \in Data, b \in Data, c \in Data, JoinAssociates
  <2> QED  BY ONLY <2>1, <2>2 DEF Associates
<1>7. HmacAbsorbed(h3, key, m)
  <2>1. HmacAbsorbed(h3, key, (a \o b) \o c)  BY <1>1, <1>5, <1>6, HmacWriteAbsorbs
  <2> QED  BY <1>6, <2>1
<1> HIDE DEF h3
<1>8. m \in Data /\ Len(m) = Len(a) + (Len(b) + Len(c))
  <2>1. b \o c \in Data /\ Len(b \o c) = Len(b) + Len(c)  BY Joined
  <2> DEFINE e == b \o c
  <2>2. m = a \o e  OBVIOUS
  <2> HIDE DEF e, m
  <2>3. IsJoin(m, a, e, Len(a), Len(e))  BY <2>1, <2>2, JoinedAt DEF e
  <2> QED  BY <2>1, <2>3 DEF IsJoin, e
<1> HIDE DEF m
<1>9. hmac_finalize(h3) = StdHmac(key, m)  BY <1>1, <1>7, <1>8, HmacFinalizeIsStandard
<1>10. StdHmac(key, m) \in Data32  BY <1>1, <1>8, StdHmacType
<1> QED  BY <1>9, <1>10 DEF Hmac3, h3, h2, h1, h, m

\* The code of a message in three parts, by its name.
IsHmac3(key, a, b, c) ==
    /\ Hmac3(key, a, b, c) = StdHmac(key, a \o (b \o c))
    /\ StdHmac(key, a \o (b \o c)) \in Data32
FitsHmac3(a, b, c) == IsShort(64 + (Len(a) + (Len(b) + Len(c))))

\* The generator's keyed hash of three parts is the standard's.
LEMMA Hmac3Is ==
    ASSUME EightWords, NEW key \in Data32, NEW a \in Data, NEW b \in Data, NEW c \in Data,
           FitsHmac3(a, b, c)
    PROVE  IsHmac3(key, a, b, c)
BY Hmac3IsStandard DEF IsHmac3, FitsHmac3

\* The generator and the standard have the same K and V.
SameKV(rng, kv) ==
    /\ rng.k = kv.K /\ rng.v = kv.V /\ kv.K \in Data32 /\ kv.V \in Data32
    /\ kv = [K |-> kv.K, V |-> kv.V]

\* New keys of the generator are an update of K and V.
LEMMA RekeyIsUpdate ==
    ASSUME EightWords, NEW rng, NEW kv, SameKV(rng, kv), NEW x \in Byte, NEW key \in Data,
           Len(key) <= 200
    PROVE  /\ SameKV(Rekey(rng, x, key), StdUpdate(kv, <<x>> \o key))
           /\ Rekey(rng, x, key).k \in Data32 /\ Rekey(rng, x, key).v \in Data32
<1> DEFINE K == kv.K
           V == kv.V
           a == <<x>>
           m == V \o (a \o key)
           K1 == StdHmac(K, m)
           V1 == StdHmac(K1, V)
           f == Rekey(rng, x, key)
           u == StdUpdate(kv, a \o key)
<1>1. K \in Data32 /\ V \in Data32 /\ rng.k = K /\ rng.v = V  BY DEF SameKV
<1>2. a \in Data /\ Len(a) = 1  BY SingleByte
<1>3. V \in Data /\ Len(V) = 32 /\ Len(key) \in Nat  BY <1>1, LenProperties DEF Data32, Data
<1> HIDE DEF a
<1>4. IsShort(64 + (Len(V) + (Len(a) + Len(key)))) /\ IsShort(64 + Len(V))
  BY <1>2, <1>3, SmallIsShort
<1> HIDE DEF K, V
<1>5. Hmac3(K, V, a, key) = K1 /\ K1 \in Data32
  <2>1. FitsHmac3(V, a, key)  BY ONLY <1>4 DEF FitsHmac3
  <2>2. IsHmac3(K, V, a, key)
    BY ONLY EightWords, key \in Data, <1>1, <1>2, <1>3, <2>1, Hmac3Is
  <2> QED  BY ONLY <2>2 DEF IsHmac3
<1> HIDE DEF K1
<1>6. Hmac1(K1, V) = V1 /\ V1 \in Data32  BY <1>3, <1>4, <1>5, Hmac1IsStandard
<1>7. f = [k |-> K1, v |-> V1]  BY <1>1, <1>5, <1>6 DEF Rekey, WithV, a
<1>8. u = [K |-> K1, V |-> V1]  BY DEF StdUpdate, StdV, K1, K, V
<1> HIDE DEF V1, f, u
<1>9. SameKV(f, u)
  <2>1. f.k = K1 /\ f.v = V1 /\ u.K = K1 /\ u.V = V1  BY <1>7, <1>8
  <2> QED  BY <1>5, <1>6, <1>8, <2>1 DEF SameKV
<1> QED  BY <1>9 DEF SameKV, f, u, a

\* Every generator that the code has.
Generators == [v : Data32, k : Data32, retry : BOOLEAN, out : Data]

\* The start of the generator is the start of the standard.
LEMMA InitializeIsStart ==
    ASSUME EightWords, NEW key \in Data, Len(key) <= 200
    PROVE  /\ SameKV(rfc6979_initialize(key), StdStart(key))
           /\ rfc6979_initialize(key) \in Generators
           /\ rfc6979_initialize(key).retry = FALSE
<1> DEFINE kv == [K |-> Repeat(0, 32), V |-> Repeat(1, 32)]
           kv1 == StdUpdate(kv, <<0>> \o key)
           kv2 == StdUpdate(kv1, <<1>> \o key)
           rng1 == Rekey(Fresh, 0, key)
           rng2 == Rekey(rng1, 1, key)
           f == rfc6979_initialize(key)
<1>1. 0 \in Byte /\ 1 \in Byte  BY DEF Byte
<1>2. Repeat(0, 32) \in Data32 /\ Repeat(1, 32) \in Data32
  <2>1. 32 \in Nat /\ Repeat(0, 32) \in [1 .. 32 -> Byte] /\ Repeat(1, 32) \in [1 .. 32 -> Byte]
    BY <1>1 DEF Repeat
  <2>2. Repeat(0, 32) \in Data /\ Len(Repeat(0, 32)) = 32  BY <2>1, FunctionData
  <2>3. Repeat(1, 32) \in Data /\ Len(Repeat(1, 32)) = 32  BY <2>1, FunctionData
  <2> QED  BY <2>2, <2>3 DEF Data32
<1>3. SameKV(Fresh, kv)  BY <1>2 DEF SameKV, Fresh
<1>4. StdStart(key) = kv2  BY DEF StdStart
<1>5. f = [v |-> rng2.v, k |-> rng2.k, retry |-> FALSE, out |-> <<>>]
  BY DEF rfc6979_initialize, Retry
<1> HIDE DEF kv, f, kv2, rng2
<1>6. SameKV(rng1, kv1)  BY <1>1, <1>3, RekeyIsUpdate
<1> HIDE DEF kv1, rng1
<1>7. SameKV(rng2, kv2) /\ rng2.k \in Data32 /\ rng2.v \in Data32
  BY <1>1, <1>6, RekeyIsUpdate DEF kv2, rng2
<1>8. SameKV(f, kv2)
  <2>1. f.k = rng2.k /\ f.v = rng2.v  BY <1>5
  <2> QED  BY <1>7, <2>1 DEF SameKV
<1>9. <<>> \in Data  BY EmptySeq DEF Data
<1>10. f \in Generators /\ f.retry = FALSE  BY <1>5, <1>7, <1>9 DEF Generators
<1> QED  BY <1>4, <1>8, <1>10 DEF f

\* The generator notes whether it was asked before.
NotesRetry(retry, n) == (n = 0 => retry = FALSE) /\ (n # 0 => retry = TRUE)

\* A retry replaces K and V.
LEMMA ReadyIsUpdate ==
    ASSUME EightWords, NEW rng \in Generators, NEW kv, SameKV(rng, kv),
           NEW n, NotesRetry(rng.retry, n)
    PROVE  /\ SameKV(Ready(rng), IF n = 0 THEN kv ELSE StdUpdate(kv, <<0>>))
           /\ Ready(rng) \in Generators
<1>1. CASE n = 0
  <2>1. Ready(rng) = rng  BY <1>1 DEF Ready, NotesRetry
  <2> QED  BY <1>1, <2>1
<1>2. CASE n # 0
  <2> DEFINE f == Ready(rng)
             a == Rekey(rng, 0, <<>>)
             u == StdUpdate(kv, <<0>>)
  <2>1. f = [v |-> a.v, k |-> a.k, retry |-> TRUE, out |-> <<>>]
    BY <1>2 DEF Ready, Retry, NotesRetry
  <2>2. 0 \in Byte  BY DEF Byte
  <2>3. <<0>> \in Data  BY <2>2, SingleByte
  <2>4. <<>> \in Data /\ Len(<<>>) = 0 /\ Len(<<>>) <= 200 /\ <<0>> \o <<>> = <<0>>
    BY <2>3, JoinEmpty
  <2>5. SameKV(a, u) /\ a.k \in Data32 /\ a.v \in Data32
    <3>1. SameKV(a, StdUpdate(kv, <<0>> \o <<>>)) /\ a.k \in Data32 /\ a.v \in Data32
      BY <2>2, <2>4, RekeyIsUpdate
    <3> QED  BY <2>4, <3>1
  <2> HIDE DEF f, a, u
  <2>6. f.k = a.k /\ f.v = a.v /\ f \in Generators  BY <2>1, <2>4, <2>5 DEF Generators
  <2>7. SameKV(f, u)  BY <2>5, <2>6 DEF SameKV
  <2> QED  BY <1>2, <2>6, <2>7 DEF f, u
<1> QED  BY <1>1, <1>2

\* What follows a recursion step by step has its values.
LEMMA RecursionType ==
    ASSUME NEW T, NEW b \in T, NEW m \in Nat, NEW H \in [T \X (1 .. m) -> T], NEW f, f[0] = b,
           \A n \in 1 .. m : f[n-1] \in T => f[n] = H[<<f[n-1], n>>]
    PROVE  \A n \in 0 .. m : f[n] \in T
<1> DEFINE U == {n \in 0 .. m : f[n] \notin T}
<1> SUFFICES ASSUME U # {} PROVE FALSE  OBVIOUS
<1>1. PICK k \in U : \A j \in U : k <= j
  <2>1. U \in SUBSET Nat  OBVIOUS
  <2> HIDE DEF U
  <2> QED  BY <2>1, LeastElement
<1>2. k \in 0 .. m /\ f[k] \notin T  OBVIOUS
<1>3. k # 0  BY <1>2
<1>4. k \in 1 .. m /\ k - 1 \in 0 .. m /\ k - 1 \notin U
  <2>1. k \in 1 .. m /\ k - 1 \in 0 .. m  BY <1>2, <1>3
  <2> SUFFICES ASSUME k - 1 \in U PROVE FALSE  BY <2>1
  <2>2. k <= k - 1  BY <1>1
  <2> QED  BY <2>1, <2>2
<1>5. f[k-1] \in T  BY <1>4
<1>6. f[k] = H[<<f[k-1], k>>]  BY <1>4, <1>5
<1> QED  BY <1>2, <1>4, <1>5, <1>6

\* The loop of secp256k1_rfc6979_hmac_sha256_generate.
Emissions == [v : Data32, out : Data]
NumRounds(outlen) == (outlen + 31) \div 32
IsEmitted(f, rng, outlen) ==
    f = [i \in 0 .. (outlen + 31) \div 32 |->
            IF i = 0 THEN [v |-> rng.v, out |-> <<>>] ELSE Emit(f[i-1], rng.k, outlen - 32 * (i-1))]
Emitted(rng, outlen) == CHOOSE f : IsEmitted(f, rng, outlen)

\* The loop over rounds, as a function by recursion.
LEMMA GeneratedIs ==
    ASSUME NEW rng, NEW outlen
    PROVE  LET g == Emitted(rng, outlen)[NumRounds(outlen)]
           IN  Generated(rng, outlen) = [v |-> g.v, k |-> rng.k, retry |-> TRUE, out |-> g.out]
BY DEF Generated, Emitted, IsEmitted, NumRounds

IsEmission(f, g, k, d) ==
    f = [v |-> StdHmac(k, g.v), out |-> g.out \o SubSeq(StdHmac(k, g.v), 1, d)]

\* A round emits a part of V.
LEMMA EmitType ==
    ASSUME EightWords, NEW g \in Emissions, NEW k \in Data32, NEW left \in Nat, left >= 1,
           NEW d, d = (IF left > 32 THEN 32 ELSE left)
    PROVE  IsEmission(Emit(g, k, left), g, k, d) /\ Emit(g, k, left) \in Emissions
<1> DEFINE u == g.v
           v == StdHmac(k, u)
           w == SubSeq(v, 1, d)
<1>1. u \in Data32 /\ g.out \in Data  BY DEF Emissions
<1>2. u \in Data /\ Len(u) = 32  BY <1>1 DEF Data32
<1> HIDE DEF u
<1>3. Hmac1(k, u) = v /\ v \in Data32
  <2>1. IsShort(64 + Len(u))  BY <1>2, SmallIsShort
  <2> QED  BY <1>2, <2>1, Hmac1IsStandard
<1>4. d \in Nat /\ 0 + d <= 32 /\ 1 = 0 + 1 /\ d = 0 + d /\ 0 \in Nat  OBVIOUS
<1> HIDE DEF v
<1>5. v \in Data /\ Len(v) = 32  BY <1>3 DEF Data32
<1>6. IsPart(w, v, 0, d)  BY <1>4, <1>5, PartOf
<1>7. Emit(g, k, left) = [v |-> v, out |-> g.out \o w]  BY <1>3 DEF Emit, u
<1> HIDE DEF w
<1>8. g.out \o w \in Data  BY <1>1, <1>6, Joined DEF IsPart
<1>9. Emit(g, k, left) \in Emissions  BY <1>3, <1>7, <1>8 DEF Emissions
<1> QED  BY <1>7, <1>9 DEF IsEmission, w, v, u

LEMMA EmittedDefined ==
    ASSUME EightWords, NEW rng \in Generators, NEW outlen \in Nat
    PROVE  LET e == Emitted(rng, outlen)
               m == NumRounds(outlen)
           IN  /\ e[0] = [v |-> rng.v, out |-> <<>>]
               /\ \A i \in 1 .. m : e[i] = Emit(e[i-1], rng.k, outlen - 32 * (i-1))
               /\ \A i \in 0 .. m : e[i] \in Emissions
<1> DEFINE m == NumRounds(outlen)
           k == rng.k
           b == [v |-> rng.v, out |-> <<>>]
           S(g, i) == Emit(g, k, outlen - 32 * (i-1))
           H == [p \in Emissions \X (1 .. m) |-> S(p[1], p[2])]
<1>1. m \in Nat /\ \A i \in 1 .. m : outlen - 32 * (i-1) \in Nat /\ outlen - 32 * (i-1) >= 1
  BY DEF NumRounds
<1>2. b \in Emissions /\ k \in Data32
  <2>1. <<>> \in Data  BY EmptySeq DEF Data
  <2> QED  BY <2>1 DEF Emissions, Generators
<1> HIDE DEF m, k, b
<1>3. \A g \in Emissions, i \in 1 .. m : S(g, i) \in Emissions  BY <1>1, <1>2, EmitType
<1> HIDE DEF S
<1>4. /\ H \in [Emissions \X (1 .. m) -> Emissions]
      /\ \A g \in Emissions, i \in 1 .. m : H[<<g, i>>] = S(g, i)
  BY <1>3
<1> HIDE DEF H
<1>5. PICK f : IsRecursion(f, Emissions, b, m, H)  BY <1>1, <1>2, <1>4, RecursionDefined
<1> DEFINE E(g, i) == IF i = 0 THEN b ELSE S(g[i-1], i)
<1>6. ASSUME NEW n \in 0 .. m PROVE f[n] = E(f, n)
  <2>1. CASE n = 0  BY <1>5, <2>1 DEF IsRecursion
  <2>2. CASE n # 0
    <3>1. n \in 1 .. m /\ n - 1 \in 0 .. m  BY <1>1, <2>2
    <3> QED  BY <1>4, <1>5, <2>2, <3>1 DEF IsRecursion
  <2> QED  BY <2>1, <2>2
<1> HIDE DEF E
<1>7. f = [n \in 0 .. m |-> E(f, n)]  BY <1>5, <1>6 DEF IsRecursion
<1>8. IsEmitted(f, rng, outlen)  BY <1>7 DEF IsEmitted, E, S, b, k, m, NumRounds
<1> DEFINE c == Emitted(rng, outlen)
<1>9. IsEmitted(c, rng, outlen)
  <2>1. \E g : IsEmitted(g, rng, outlen)  BY <1>8
  <2> QED  BY <2>1 DEF Emitted
<1> HIDE DEF c
<1>10. c = [n \in 0 .. m |-> E(c, n)]  BY <1>9 DEF IsEmitted, E, S, b, k, m, NumRounds
<1>11. \A n \in 0 .. m : c[n] = E(c, n)  BY <1>10
<1>12. c[0] = b  BY <1>1, <1>11 DEF E
<1>13. \A n \in 1 .. m : c[n] = S(c[n-1], n)  BY <1>1, <1>11 DEF E
<1>14. \A n \in 0 .. m : c[n] \in Emissions
  <2>1. \A n \in 1 .. m : c[n-1] \in Emissions => c[n] = H[<<c[n-1], n>>]  BY <1>4, <1>13
  <2> QED  BY ONLY <1>1, <1>2, <1>4, <1>12, <2>1, RecursionType
<1> QED  BY <1>12, <1>13, <1>14 DEF c, m, b, S, k

\* The loop of the standard.
Rounds == [V : Data32, T : Data]
IsRounds(f, kv, qlen) ==
    f = [i \in 0 .. qlen |-> IF i = 0 THEN [V |-> kv.V, T |-> <<>>] ELSE StdRound(kv, f[i-1])]
RoundsOf(kv, qlen) == CHOOSE f : IsRounds(f, kv, qlen)

\* The loop of the standard, as a function by recursion.
LEMMA StdTIs ==
    ASSUME NEW kv, NEW qlen
    PROVE  LET f == RoundsOf(kv, qlen)
               last == CHOOSE i \in 0 .. qlen :
                           Len(f[i].T) >= qlen /\ \A j \in 0 .. i - 1 : Len(f[j].T) < qlen
           IN  StdT(kv, qlen) = [kv |-> [K |-> kv.K, V |-> f[last].V],
                                 T |-> SubSeq(f[last].T, 1, qlen)]
BY DEF StdT, RoundsOf, IsRounds

LEMMA RoundType ==
    ASSUME EightWords, NEW kv, kv.K \in Data32, NEW t \in Rounds
    PROVE  /\ StdRound(kv, t) \in Rounds
           /\ StdRound(kv, t).V = StdHmac(kv.K, t.V)
           /\ StdRound(kv, t).T = t.T \o StdHmac(kv.K, t.V)
           /\ StdHmac(kv.K, t.V) \in Data32
<1> DEFINE v == StdHmac(kv.K, t.V)
           f == StdRound(kv, t)
<1>1. t.V \in Data /\ t.T \in Data  BY DEF Rounds, Data32
<1>2. v \in Data32  BY <1>1, Data32Short, StdHmacType
<1>3. f = [V |-> v, T |-> t.T \o v]  BY DEF StdRound
<1> HIDE DEF v, f
<1>4. t.T \o v \in Data  BY <1>1, <1>2, Joined DEF Data32
<1>5. f \in Rounds /\ f.V = v /\ f.T = t.T \o v  BY <1>2, <1>3, <1>4 DEF Rounds
<1> QED  BY <1>2, <1>5 DEF f, v

LEMMA RoundsDefined ==
    ASSUME EightWords, NEW kv, kv.K \in Data32, kv.V \in Data32, NEW qlen \in Nat
    PROVE  LET f == RoundsOf(kv, qlen)
           IN  /\ f[0] = [V |-> kv.V, T |-> <<>>]
               /\ \A i \in 1 .. qlen : f[i] = StdRound(kv, f[i-1])
               /\ \A i \in 0 .. qlen : f[i] \in Rounds /\ Len(f[i].T) = 32 * i
<1> DEFINE b == [V |-> kv.V, T |-> <<>>]
           S(t) == StdRound(kv, t)
           H == [p \in Rounds \X (1 .. qlen) |-> S(p[1])]
<1>1. b \in Rounds
  <2>1. <<>> \in Data  BY EmptySeq DEF Data
  <2> QED  BY <2>1 DEF Rounds
<1>2. \A t \in Rounds : S(t) \in Rounds  BY RoundType
<1> HIDE DEF S, b
<1>3. /\ H \in [Rounds \X (1 .. qlen) -> Rounds]
      /\ \A t \in Rounds, i \in 1 .. qlen : H[<<t, i>>] = S(t)
  BY <1>2
<1> HIDE DEF H
<1>4. PICK f : IsRecursion(f, Rounds, b, qlen, H)  BY <1>1, <1>3, RecursionDefined
<1> DEFINE E(g, i) == IF i = 0 THEN b ELSE S(g[i-1])
<1>5. ASSUME NEW n \in 0 .. qlen PROVE f[n] = E(f, n)
  <2>1. CASE n = 0  BY <1>4, <2>1 DEF IsRecursion
  <2>2. CASE n # 0
    <3>1. n \in 1 .. qlen /\ n - 1 \in 0 .. qlen  BY <2>2
    <3> QED  BY <1>3, <1>4, <2>2, <3>1 DEF IsRecursion
  <2> QED  BY <2>1, <2>2
<1> HIDE DEF E
<1>6. f = [n \in 0 .. qlen |-> E(f, n)]  BY <1>4, <1>5 DEF IsRecursion
<1>7. IsRounds(f, kv, qlen)  BY <1>6 DEF IsRounds, E, S, b
<1> DEFINE c == RoundsOf(kv, qlen)
<1>8. IsRounds(c, kv, qlen)
  <2>1. \E g : IsRounds(g, kv, qlen)  BY <1>7
  <2> QED  BY <2>1 DEF RoundsOf
<1> HIDE DEF c
<1>9. c = [n \in 0 .. qlen |-> E(c, n)]  BY <1>8 DEF IsRounds, E, S, b
<1>10. \A n \in 0 .. qlen : c[n] = E(c, n)  BY <1>9
<1>11. c[0] = b  BY <1>10 DEF E
<1>12. \A n \in 1 .. qlen : c[n] = S(c[n-1])  BY <1>10 DEF E
<1>13. \A n \in 0 .. qlen : c[n] \in Rounds
  <2>1. \A n \in 1 .. qlen : c[n-1] \in Rounds => c[n] = H[<<c[n-1], n>>]  BY <1>3, <1>12
  <2> QED  BY <1>1, <1>3, <1>11, <2>1, RecursionType
<1>14. \A n \in 0 .. qlen : Len(c[n].T) = 32 * n
  <2> DEFINE U == {n \in 0 .. qlen : Len(c[n].T) # 32 * n}
  <2> SUFFICES ASSUME U # {} PROVE FALSE  OBVIOUS
  <2>1. PICK k \in U : \A j \in U : k <= j
    <3>1. U \in SUBSET Nat  OBVIOUS
    <3> HIDE DEF U
    <3> QED  BY <3>1, LeastElement
  <2>2. k \in 0 .. qlen /\ Len(c[k].T) # 32 * k  OBVIOUS
  <2>3. c[0].T = <<>> /\ Len(<<>>) = 0  BY <1>11, EmptySeq DEF b
  <2>4. k # 0  BY <2>2, <2>3
  <2>5. k \in 1 .. qlen /\ k - 1 \in 0 .. qlen /\ k - 1 \notin U
    <3>1. k \in 1 .. qlen /\ k - 1 \in 0 .. qlen  BY <2>2, <2>4
    <3> SUFFICES ASSUME k - 1 \in U PROVE FALSE  BY <3>1
    <3>2. k <= k - 1  BY <2>1
    <3> QED  BY <3>1, <3>2
  <2>6. Len(c[k-1].T) = 32 * (k - 1)  BY <2>5
  <2> DEFINE t == c[k-1]
             v == StdHmac(kv.K, t.V)
  <2>7. t \in Rounds /\ c[k] = StdRound(kv, t)  BY <1>12, <1>13, <2>5 DEF S
  <2> HIDE DEF t
  <2>8. c[k].T = t.T \o v /\ v \in Data32  BY <2>7, RoundType
  <2> HIDE DEF v
  <2>9. t.T \in Data /\ v \in Data /\ Len(v) = 32  BY <2>7, <2>8 DEF Rounds, Data32
  <2>10. Len(t.T \o v) = Len(t.T) + Len(v)  BY <2>9, Joined
  <2>11. Len(c[k].T) = 32 * (k - 1) + 32  BY <2>6, <2>8, <2>9, <2>10 DEF t
  <2> QED  BY <2>2, <2>5, <2>11
<1> QED  BY <1>11, <1>12, <1>13, <1>14 DEF c, b, S

\* What a and the first k bytes of d are together.
IsExtended(u, a, d, k) == u = a \o SubSeq(d, 1, k)

\* A prefix of two joined sequences that ends in the second.
LEMMA JoinPrefix ==
    ASSUME NEW a \in Data, NEW d \in Data, NEW k \in Nat, k <= Len(d), NEW n, n = Len(a) + k
    PROVE  IsExtended(SubSeq(a \o d, 1, n), a, d, k)
<1> DEFINE c == a \o d
           u == SubSeq(c, 1, n)
           v == SubSeq(d, 1, k)
           w == a \o v
           L == Len(a)
<1>1. /\ L \in Nat /\ Len(d) \in Nat /\ 0 \in Nat /\ 1 = 0 + 1 /\ k = 0 + k /\ n = 0 + n
      /\ n \in Nat /\ 0 + k <= Len(d) /\ 0 + n <= L + Len(d)
  BY LenProperties DEF Data
<1> HIDE DEF c, L
<1>2. IsJoin(c, a, d, L, Len(d))  BY <1>1, JoinedAt DEF c, L
<1>3. c \in Data /\ Len(c) = L + Len(d)  BY <1>2 DEF IsJoin
<1>4. IsPart(u, c, 0, n)  BY <1>1, <1>3, PartOf
<1>5. IsPart(v, d, 0, k)  BY <1>1, PartOf
<1> HIDE DEF u, v, w
<1>6. IsJoin(w, a, v, L, k)  BY <1>5, JoinedAt DEF IsPart, w, L
<1>7. ASSUME NEW i \in 1 .. n PROVE u[i] = w[i]
  <2>1. 0 + i = i  OBVIOUS
  <2>2. u[i] = c[i]  BY <1>4, <2>1 DEF IsPart
  <2>3. CASE i <= L
    <3>1. i \in 1 .. L  BY <1>1, <2>3
    <3> QED  BY <1>2, <1>6, <2>2, <3>1 DEF IsJoin
  <2>4. CASE i > L
    <3>1. i - L \in 1 .. k /\ i - L \in 1 .. Len(d) /\ L + (i - L) = i /\ 0 + (i - L) = i - L
      <4>1. n = L + k  BY DEF L
      <4> QED  BY <1>1, <2>4, <4>1
    <3>2. c[L + (i - L)] = d[i - L]  BY <1>2, <3>1 DEF IsJoin
    <3>3. w[L + (i - L)] = v[i - L]  BY <1>6, <3>1 DEF IsJoin
    <3>4. v[i - L] = d[0 + (i - L)]  BY <1>5, <3>1 DEF IsPart
    <3> QED  BY <2>2, <3>1, <3>2, <3>3, <3>4
  <2>5. i <= L \/ i > L  BY <1>1
  <2> QED  BY <2>3, <2>4, <2>5
<1>8. u \in Data /\ w \in Data /\ Len(u) = n /\ Len(w) = n
  <2>1. n = L + k  BY DEF L
  <2> QED  BY <1>4, <1>6, <2>1 DEF IsPart, IsJoin
<1>9. u = w  BY <1>7, <1>8, SameData
<1> QED  BY <1>9 DEF u, w, v, c, IsExtended

\* A sequence is a part of itself.
LEMMA WholeIsItself ==
    ASSUME NEW d \in Data, NEW n, n = Len(d)
    PROVE  SubSeq(d, 1, n) = d
<1>1. n \in Nat  BY LenProperties DEF Data
<1>2. 0 \in Nat /\ 1 = 0 + 1 /\ n = 0 + n /\ 0 + n <= Len(d)  BY <1>1
<1> DEFINE a == SubSeq(d, 1, n)
<1>3. IsPart(a, d, 0, n)  BY <1>1, <1>2, PartOf
<1> HIDE DEF a
<1>4. ASSUME NEW i \in 1 .. n PROVE a[i] = d[i]
  <2>1. 0 + i = i  OBVIOUS
  <2> QED  BY <1>3, <2>1 DEF IsPart
<1>5. a = d  BY <1>3, <1>4, SameData DEF IsPart
<1> QED  BY <1>5 DEF a

\* Until its last round, the loop of the code has what the standard has.
LEMMA EmissionsAreRounds ==
    ASSUME EightWords, NEW rng \in Generators, NEW kv, SameKV(rng, kv), NEW outlen \in Nat,
           NEW i \in 0 .. NumRounds(outlen) - 1
    PROVE  /\ Emitted(rng, outlen)[i].v = RoundsOf(kv, outlen)[i].V
           /\ Emitted(rng, outlen)[i].out = RoundsOf(kv, outlen)[i].T
<1> DEFINE e == Emitted(rng, outlen)
           t == RoundsOf(kv, outlen)
           m == NumRounds(outlen)
           U == {n \in 0 .. m - 1 : ~(e[n].v = t[n].V /\ e[n].out = t[n].T)}
<1>1. SUFFICES ASSUME U # {} PROVE FALSE  OBVIOUS
<1>2. PICK k \in U : \A j \in U : k <= j
  <2>1. m \in Nat  BY DEF NumRounds
  <2> HIDE DEF m
  <2>2. U \in SUBSET Nat  BY <2>1
  <2> HIDE DEF U
  <2> QED  BY <1>1, <2>2, LeastElement
<1>3. k \in 0 .. m - 1 /\ ~(e[k].v = t[k].V /\ e[k].out = t[k].T)  OBVIOUS
<1>4. m \in Nat /\ \A n \in 0 .. m - 1 : outlen > 32 * n /\ n \in 0 .. outlen  BY DEF NumRounds
<1>5. /\ kv.K \in Data32 /\ kv.V \in Data32 /\ rng.k = kv.K /\ rng.v = kv.V  BY DEF SameKV
<1>6. /\ e[0] = [v |-> rng.v, out |-> <<>>]
      /\ \A n \in 1 .. m : e[n] = Emit(e[n-1], rng.k, outlen - 32 * (n-1))
      /\ \A n \in 0 .. m : e[n] \in Emissions
  BY EmittedDefined
<1>7. /\ t[0] = [V |-> kv.V, T |-> <<>>]
      /\ \A n \in 1 .. outlen : t[n] = StdRound(kv, t[n-1])
      /\ \A n \in 0 .. outlen : t[n] \in Rounds /\ Len(t[n].T) = 32 * n
  BY <1>5, RoundsDefined
<1> HIDE DEF e, t, m
<1>8. k # 0  BY <1>3, <1>5, <1>6, <1>7
<1>9. /\ k \in 1 .. m /\ k \in 1 .. outlen
      /\ k - 1 \in 0 .. m /\ k - 1 \in 0 .. m - 1 /\ k - 1 \in 0 .. outlen
  BY <1>3, <1>4, <1>8
<1>10. k - 1 \notin U
  <2> SUFFICES ASSUME k - 1 \in U PROVE FALSE  OBVIOUS
  <2>1. k <= k - 1  BY <1>2
  <2> QED  BY <1>9, <2>1
<1>11. e[k-1].v = t[k-1].V /\ e[k-1].out = t[k-1].T  BY <1>9, <1>10
<1> HIDE DEF U
<1> DEFINE left == outlen - 32 * (k-1)
           d == IF left > 32 THEN 32 ELSE left
           g == e[k-1]
           y == t[k-1]
           v == StdHmac(kv.K, y.V)
<1>12. left \in Nat /\ left >= 1 /\ left > 32
  <2>1. outlen > 32 * k /\ k \in Nat  BY <1>3, <1>4
  <2> QED  BY <2>1
<1>13. g \in Emissions /\ y \in Rounds /\ e[k] = Emit(g, kv.K, left) /\ t[k] = StdRound(kv, y)
       /\ g.v = y.V /\ g.out = y.T
  BY <1>5, <1>6, <1>7, <1>9, <1>11
<1> HIDE DEF left, g, y
<1>14. d = 32  BY <1>12
<1>15. t[k].V = v /\ t[k].T = y.T \o v /\ v \in Data32
  <2> DEFINE x == StdRound(kv, y)
  <2>1. x.V = v /\ x.T = y.T \o v /\ v \in Data32  BY ONLY EightWords, <1>5, <1>13, RoundType
  <2>2. t[k] = x  BY ONLY <1>13
  <2> HIDE DEF x, v
  <2> QED  BY ONLY <2>1, <2>2
<1>16. e[k] = [v |-> StdHmac(kv.K, g.v), out |-> g.out \o SubSeq(StdHmac(kv.K, g.v), 1, d)]
  <2> DEFINE K == kv.K
  <2>1. g \in Emissions /\ K \in Data32 /\ e[k] = Emit(g, K, left) /\ left \in Nat /\ left >= 1
    BY <1>5, <1>12, <1>13
  <2>2. d = IF left > 32 THEN 32 ELSE left  OBVIOUS
  <2> HIDE DEF v, K, d
  <2>3. IsEmission(Emit(g, K, left), g, K, d)  BY <2>1, <2>2, EmitType
  <2> QED  BY <2>1, <2>3 DEF K, IsEmission
<1>17. e[k] = [v |-> v, out |-> y.T \o SubSeq(v, 1, 32)]  BY <1>13, <1>14, <1>16
<1> HIDE DEF v
<1>18. SubSeq(v, 1, 32) = v  BY <1>15, WholeIsItself DEF Data32
<1> DEFINE w == y.T \o v
<1>19. e[k].v = t[k].V /\ e[k].out = t[k].T
  <2>1. t[k].V = v /\ t[k].T = w  BY <1>15
  <2>2. e[k] = [v |-> v, out |-> w]  BY <1>17, <1>18
  <2> HIDE DEF w
  <2> QED  BY <2>1, <2>2
<1> QED  BY <1>3, <1>19

\* The standard stops after as many rounds as the code.
LEMMA LastRound ==
    ASSUME EightWords, NEW kv, kv.K \in Data32, kv.V \in Data32, NEW qlen \in Nat
    PROVE  LET t == RoundsOf(kv, qlen)
               m == NumRounds(qlen)
           IN  StdT(kv, qlen) = [kv |-> [K |-> kv.K, V |-> t[m].V], T |-> SubSeq(t[m].T, 1, qlen)]
<1> DEFINE t == RoundsOf(kv, qlen)
           m == NumRounds(qlen)
           Ends(i) == Len(t[i].T) >= qlen /\ \A j \in 0 .. i - 1 : Len(t[j].T) < qlen
<1>1. \A n \in 0 .. qlen : Len(t[n].T) = 32 * n  BY RoundsDefined
<1>2. m \in 0 .. qlen /\ 32 * m >= qlen /\ \A j \in 0 .. m - 1 : 32 * j < qlen
  BY DEF NumRounds
<1> HIDE DEF t, m
<1>3. Ends(m)
  <2>1. Len(t[m].T) >= qlen  BY <1>1, <1>2
  <2>2. ASSUME NEW j \in 0 .. m - 1 PROVE Len(t[j].T) < qlen
    <3>1. j \in 0 .. qlen  BY <1>2
    <3> QED  BY <1>1, <1>2, <3>1
  <2> QED  BY <2>1, <2>2
<1>4. ASSUME NEW i \in 0 .. qlen, Ends(i) PROVE i = m
  <2>1. CASE i < m
    <3>1. i \in 0 .. m - 1  BY <1>2, <2>1
    <3>2. Len(t[i].T) = 32 * i /\ 32 * i < qlen  BY <1>1, <1>2, <3>1
    <3> QED  BY <1>4, <3>2
  <2>2. CASE i > m
    <3>1. m \in 0 .. i - 1  BY <1>2, <2>2
    <3>2. Len(t[m].T) < qlen /\ Len(t[m].T) = 32 * m  BY <1>1, <1>2, <1>4, <3>1
    <3> QED  BY <1>2, <3>2
  <2>3. i = m \/ i < m \/ i > m  BY <1>2
  <2> QED  BY <2>1, <2>2, <2>3
<1> DEFINE last == CHOOSE i \in 0 .. qlen : Ends(i)
<1>5. StdT(kv, qlen) = [kv |-> [K |-> kv.K, V |-> t[last].V], T |-> SubSeq(t[last].T, 1, qlen)]
  BY StdTIs DEF t
<1> HIDE DEF Ends
<1>6. last = m  BY <1>2, <1>3, <1>4
<1> QED  BY <1>5, <1>6 DEF t, m

\* The generator has answered a request as the standard does.
Answers(rng, w) == rng \in Generators /\ rng.retry = TRUE /\ SameKV(rng, w.kv) /\ rng.out = w.T

\* The bytes of one request: the whole of all rounds but the last, of which
\* as many as are still missing.
LEMMA GeneratedIsStandard ==
    ASSUME EightWords, NEW rng \in Generators, NEW kv, SameKV(rng, kv), NEW outlen \in Nat
    PROVE  Answers(Generated(rng, outlen), StdT(kv, outlen))
<1> DEFINE e == Emitted(rng, outlen)
           t == RoundsOf(kv, outlen)
           m == NumRounds(outlen)
           f == Generated(rng, outlen)
           w == StdT(kv, outlen)
           want == SubSeq(t[m].T, 1, outlen)
<1>1. kv.K \in Data32 /\ kv.V \in Data32 /\ rng.k = kv.K /\ rng.v = kv.V  BY DEF SameKV
<1>2. f = [v |-> e[m].v, k |-> rng.k, retry |-> TRUE, out |-> e[m].out]  BY GeneratedIs
<1>3. w = [kv |-> [K |-> kv.K, V |-> t[m].V], T |-> want]  BY <1>1, LastRound
<1>4. /\ e[0] = [v |-> rng.v, out |-> <<>>]
      /\ \A n \in 1 .. m : e[n] = Emit(e[n-1], rng.k, outlen - 32 * (n-1))
      /\ \A n \in 0 .. m : e[n] \in Emissions
  BY EmittedDefined
<1>5. /\ t[0] = [V |-> kv.V, T |-> <<>>]
      /\ \A n \in 1 .. outlen : t[n] = StdRound(kv, t[n-1])
      /\ \A n \in 0 .. outlen : t[n] \in Rounds /\ Len(t[n].T) = 32 * n
  BY <1>1, RoundsDefined
<1>6. m \in 0 .. outlen  BY DEF NumRounds
<1>7. e[m].v = t[m].V /\ e[m].out = want
  <2>1. CASE m = 0
    <3>1. outlen = 0  BY <2>1 DEF NumRounds
    <3> HIDE DEF e, t, m
    <3>2. t[m].T = <<>> /\ e[m].out = <<>> /\ e[m].v = t[m].V  BY <1>1, <1>4, <1>5, <2>1
    <3>3. <<>> \in Data /\ Len(<<>>) = 0  BY EmptySeq DEF Data
    <3>4. SubSeq(<<>>, 1, 0) = <<>>  BY <3>3, WholeIsItself
    <3> QED  BY <3>1, <3>2, <3>4
  <2>2. CASE m # 0
    <3> DEFINE left == outlen - 32 * (m-1)
               g == e[m-1]
               y == t[m-1]
               K == kv.K
               v == StdHmac(K, y.V)
               rest == SubSeq(v, 1, left)
    <3>1. /\ m \in 1 .. m /\ m \in 1 .. outlen /\ m - 1 \in 0 .. m /\ m - 1 \in 0 .. m - 1
          /\ m - 1 \in 0 .. outlen
      BY <1>6, <2>2
    <3>2. left \in Nat /\ left >= 1 /\ left <= 32 /\ 32 * (m - 1) + left = outlen
      BY <2>2 DEF NumRounds
    <3>3. g.v = y.V /\ g.out = y.T  BY <3>1, EmissionsAreRounds
    <3> HIDE DEF e, t, m
    <3>4. /\ g \in Emissions /\ y \in Rounds /\ e[m] = Emit(g, K, left) /\ t[m] = StdRound(kv, y)
          /\ K \in Data32 /\ Len(y.T) = 32 * (m - 1)
      BY <1>1, <1>4, <1>5, <3>1
    <3>5. left = IF left > 32 THEN 32 ELSE left  BY <3>2
    <3> HIDE DEF left, g, y, v, rest
    <3>6. t[m].V = v /\ t[m].T = y.T \o v /\ v \in Data32  BY <3>4, RoundType DEF v, K
    <3> HIDE DEF K
    <3>7. IsEmission(Emit(g, K, left), g, K, left)  BY <3>2, <3>4, <3>5, EmitType
    <3>8. e[m] = [v |-> v, out |-> y.T \o rest]  BY <3>3, <3>4, <3>7 DEF v, rest, IsEmission
    <3> DEFINE c == y.T \o rest
    <3>9. e[m].v = v /\ e[m].out = c
      <4>1. e[m] = [v |-> v, out |-> c]  BY <3>8
      <4> HIDE DEF c
      <4> QED  BY <4>1
    <3>10. want = c
      <4>1. y.T \in Data /\ v \in Data /\ left <= Len(v) /\ outlen = Len(y.T) + left
        BY <3>2, <3>4, <3>6 DEF Rounds, Data32
      <4> DEFINE a == y.T
      <4>2. a \in Data /\ v \in Data /\ left \in Nat /\ left <= Len(v) /\ outlen = Len(a) + left
        BY <3>2, <4>1
      <4> HIDE DEF a, c
      <4>3. IsExtended(SubSeq(a \o v, 1, outlen), a, v, left)  BY <4>2, JoinPrefix
      <4> QED  BY <3>6, <4>3 DEF rest, want, a, c, IsExtended
    <3> QED  BY <3>6, <3>9, <3>10
  <2> QED  BY <2>1, <2>2
<1> HIDE DEF e, t, m, f, w, want
<1>8. e[m] \in Emissions  BY <1>4, <1>6
<1>9. f \in Generators /\ f.retry = TRUE  BY <1>1, <1>2, <1>8 DEF Generators, Emissions
<1>10. SameKV(f, w.kv)
  <2>1. f.k = kv.K /\ f.v = t[m].V /\ w.kv = [K |-> kv.K, V |-> t[m].V]  BY <1>1, <1>2, <1>3, <1>7
  <2>2. t[m].V \in Data32  BY <1>7, <1>8 DEF Emissions
  <2> QED  BY <1>1, <2>1, <2>2 DEF SameKV
<1>11. f.out = w.T  BY <1>2, <1>3, <1>7
<1> QED  BY <1>9, <1>10, <1>11 DEF f, w, Answers

\* secp256k1_rfc6979_hmac_sha256_generate: one request of the standard.
LEMMA GenerateIsStandard ==
    ASSUME EightWords, NEW rng \in Generators, NEW kv, SameKV(rng, kv),
           NEW n, NotesRetry(rng.retry, n),
           NEW len \in Nat
    PROVE  Answers(rfc6979_generate(rng, len), StdNext(kv, n, len))
<1> DEFINE u == IF n = 0 THEN kv ELSE StdUpdate(kv, <<0>>)
           f == Ready(rng)
<1>1. f \in Generators /\ SameKV(f, u)  BY ReadyIsUpdate
<1>2. rfc6979_generate(rng, len) = Generated(f, len)  BY DEF rfc6979_generate
<1>3. StdNext(kv, n, len) = StdT(u, len)  BY DEF StdNext
<1> HIDE DEF u, f
<1> QED  BY <1>1, <1>2, <1>3, GeneratedIsStandard

\* Requests one after the other, each for the bytes of a nonce.
LEMMA GenerateType ==
    ASSUME EightWords, NEW rng \in Generators, NEW len \in Nat
    PROVE  rfc6979_generate(rng, len) \in Generators
<1> DEFINE kv == [K |-> rng.k, V |-> rng.v]
<1>1. SameKV(rng, kv)  BY DEF SameKV, Generators
<1>2. \E n : NotesRetry(rng.retry, n)
  <2>1. rng.retry = TRUE \/ rng.retry = FALSE  BY DEF Generators
  <2>2. CASE rng.retry = TRUE
    <3>1. NotesRetry(rng.retry, 1)  BY <2>2 DEF NotesRetry
    <3> QED  BY <3>1
  <2>3. CASE rng.retry = FALSE
    <3>1. NotesRetry(rng.retry, 0)  BY <2>3 DEF NotesRetry
    <3> QED  BY <3>1
  <2> QED  BY <2>1, <2>2, <2>3
<1>3. PICK n : NotesRetry(rng.retry, n)  BY <1>2
<1> HIDE DEF kv
<1>4. Answers(rfc6979_generate(rng, len), StdNext(kv, n, len))  BY <1>1, <1>3, GenerateIsStandard
<1> QED  BY <1>4 DEF Answers

IsAsked(f, rng, c) ==
    f = [i \in 0 .. c |-> rfc6979_generate(IF i = 0 THEN rng ELSE f[i-1], 32)]
Asked(rng, c) == CHOOSE f : IsAsked(f, rng, c)

\* The nonce is the answer to the last request.
LEMMA CountedIs ==
    ASSUME NEW rng, NEW c
    PROVE  Counted(rng, c) = Asked(rng, c)[c].out
BY DEF Counted, Asked, IsAsked

LEMMA AskedDefined ==
    ASSUME EightWords, NEW rng \in Generators, NEW c \in Nat
    PROVE  LET a == Asked(rng, c)
           IN  /\ a[0] = rfc6979_generate(rng, 32)
               /\ \A i \in 1 .. c : a[i] = rfc6979_generate(a[i-1], 32)
<1> DEFINE S(g) == rfc6979_generate(g, 32)
           b == S(rng)
           H == [p \in Generators \X (1 .. c) |-> S(p[1])]
<1>1. \A g \in Generators : S(g) \in Generators
  <2>1. 32 \in Nat  OBVIOUS
  <2> QED  BY <2>1, GenerateType
<1> HIDE DEF S
<1>2. b \in Generators  BY <1>1
<1>3. /\ H \in [Generators \X (1 .. c) -> Generators]
      /\ \A g \in Generators, i \in 1 .. c : H[<<g, i>>] = S(g)
  BY <1>1
<1> HIDE DEF b, H
<1>4. PICK f : IsRecursion(f, Generators, b, c, H)  BY <1>2, <1>3, RecursionDefined
<1> DEFINE E(g, i) == S(IF i = 0 THEN rng ELSE g[i-1])
<1>5. ASSUME NEW n \in 0 .. c PROVE f[n] = E(f, n)
  <2>1. CASE n = 0  BY <1>4, <2>1 DEF IsRecursion, b
  <2>2. CASE n # 0
    <3>1. n \in 1 .. c /\ n - 1 \in 0 .. c  BY <2>2
    <3> QED  BY <1>3, <1>4, <2>2, <3>1 DEF IsRecursion
  <2> QED  BY <2>1, <2>2
<1> HIDE DEF E
<1>6. f = [n \in 0 .. c |-> E(f, n)]  BY <1>4, <1>5 DEF IsRecursion
<1>7. IsAsked(f, rng, c)  BY <1>6 DEF IsAsked, E, S
<1> DEFINE a == Asked(rng, c)
<1>8. IsAsked(a, rng, c)
  <2>1. \E g : IsAsked(g, rng, c)  BY <1>7
  <2> QED  BY <2>1 DEF Asked
<1> HIDE DEF a
<1>9. a = [n \in 0 .. c |-> E(a, n)]  BY <1>8 DEF IsAsked, E, S
<1>10. \A n \in 0 .. c : a[n] = E(a, n)  BY <1>9
<1>11. a[0] = b  BY <1>10 DEF E, b
<1>12. \A n \in 1 .. c : a[n] = S(a[n-1])  BY <1>10 DEF E
<1> QED  BY <1>11, <1>12 DEF a, b, S

\* One more request goes on where the others stopped.
LEMMA AskedNext ==
    ASSUME EightWords, NEW rng \in Generators, NEW c \in Nat, NEW c1, c1 = c + 1
    PROVE  Asked(rng, c1)[c1] = rfc6979_generate(Asked(rng, c)[c], 32)
<1> DEFINE a == Asked(rng, c)
           d == Asked(rng, c1)
           U == {n \in 0 .. c : a[n] # d[n]}
           S(g) == rfc6979_generate(g, 32)
<1>1. a[0] = S(rng) /\ \A i \in 1 .. c : a[i] = S(a[i-1])  BY AskedDefined
<1>2. c1 \in Nat  OBVIOUS
<1>3. d[0] = S(rng) /\ \A i \in 1 .. c1 : d[i] = S(d[i-1])  BY <1>2, AskedDefined
<1> HIDE DEF a, d, S
<1>4. U = {}
  <2> SUFFICES ASSUME U # {} PROVE FALSE  OBVIOUS
  <2>1. PICK k \in U : \A j \in U : k <= j
    <3>1. U \in SUBSET Nat  OBVIOUS
    <3> HIDE DEF U
    <3> QED  BY <3>1, LeastElement
  <2>2. k \in 0 .. c /\ a[k] # d[k]  OBVIOUS
  <2>3. k # 0  BY <1>1, <1>3, <2>2
  <2>4. k \in 1 .. c /\ k \in 1 .. c1 /\ k - 1 \in 0 .. c /\ k - 1 \notin U
    <3>1. k \in 1 .. c /\ k \in 1 .. c1 /\ k - 1 \in 0 .. c  BY <2>2, <2>3
    <3> SUFFICES ASSUME k - 1 \in U PROVE FALSE  BY <3>1
    <3>2. k <= k - 1  BY <2>1
    <3> QED  BY <3>1, <3>2
  <2>5. a[k-1] = d[k-1]  BY <2>4
  <2> QED  BY <1>1, <1>3, <2>2, <2>4, <2>5
<1>5. a[c] = d[c]
  <2>1. c \in 0 .. c  OBVIOUS
  <2> QED  BY <1>4, <2>1
<1>6. d[c1] = S(d[c])
  <2>1. c1 \in 1 .. c1 /\ c1 - 1 = c  OBVIOUS
  <2>2. d[c1] = S(d[c1 - 1])  BY <1>3, <2>1
  <2> QED  BY <2>1, <2>2
<1> QED  BY <1>5, <1>6 DEF a, d, S

\* Two parts that follow each other.
LEMMA PartsJoin ==
    ASSUME NEW d \in Data, NEW k \in Nat, NEW n \in Nat, k <= n, n <= Len(d), NEW p, p = k + 1
    PROVE  SubSeq(d, 1, k) \o SubSeq(d, p, n) = SubSeq(d, 1, n)
<1> DEFINE a == SubSeq(d, 1, k)
           b == SubSeq(d, p, n)
           c == SubSeq(d, 1, n)
           e == a \o b
           j == n - k
<1>1. /\ 0 \in Nat /\ 1 = 0 + 1 /\ k = 0 + k /\ n = 0 + n /\ 0 + k <= Len(d) /\ 0 + n <= Len(d)
      /\ j \in Nat /\ n = k + j /\ k + j <= Len(d)
  BY LenProperties DEF Data
<1> HIDE DEF j
<1>2. IsPart(a, d, 0, k)  BY <1>1, PartOf
<1>3. IsPart(b, d, k, j)  BY <1>1, PartOf
<1>4. IsPart(c, d, 0, n)  BY <1>1, PartOf
<1> HIDE DEF a, b, c, e
<1>5. IsJoin(e, a, b, k, j)  BY <1>2, <1>3, JoinedAt DEF IsPart, e
<1>6. ASSUME NEW i \in 1 .. n PROVE e[i] = c[i]
  <2>1. 0 + i = i  OBVIOUS
  <2>2. c[i] = d[i]  BY <1>4, <2>1 DEF IsPart
  <2>3. CASE i <= k
    <3>1. i \in 1 .. k  BY <2>3
    <3>2. e[i] = a[i] /\ a[i] = d[0 + i]  BY <1>2, <1>5, <3>1 DEF IsJoin, IsPart
    <3> QED  BY <2>1, <2>2, <3>2
  <2>4. CASE i > k
    <3>1. i - k \in 1 .. j /\ k + (i - k) = i  BY <1>1, <2>4
    <3>2. e[k + (i - k)] = b[i - k] /\ b[i - k] = d[k + (i - k)]
      BY <1>3, <1>5, <3>1 DEF IsJoin, IsPart
    <3> QED  BY <2>2, <3>1, <3>2
  <2> QED  BY <2>3, <2>4
<1>7. e \in Data /\ c \in Data /\ Len(e) = n /\ Len(c) = n  BY <1>1, <1>4, <1>5 DEF IsJoin, IsPart
<1>8. e = c  BY <1>6, <1>7, SameData
<1> QED  BY <1>8 DEF e, c, b, a

\* The seed of the nonce function is what its arguments are together.
LEMMA SeedOfParts ==
    ASSUME NEW d \in Data, Len(d) = 112
    PROVE  KeyData(SubSeq(d, 1, 32), SubSeq(d, 33, 64), SubSeq(d, 65, 96), SubSeq(d, 97, 112)) = d
<1>1. SubSeq(d, 1, 32) \o SubSeq(d, 33, 64) = SubSeq(d, 1, 64)
  <2>1. 32 \in Nat /\ 64 \in Nat /\ 32 <= 64 /\ 64 <= Len(d) /\ 33 = 32 + 1  OBVIOUS
  <2> QED  BY <2>1, PartsJoin
<1>2. SubSeq(d, 1, 64) \o SubSeq(d, 65, 96) = SubSeq(d, 1, 96)
  <2>1. 96 \in Nat /\ 64 \in Nat /\ 64 <= 96 /\ 96 <= Len(d) /\ 65 = 64 + 1  OBVIOUS
  <2> QED  BY <2>1, PartsJoin
<1>3. SubSeq(d, 1, 96) \o SubSeq(d, 97, 112) = SubSeq(d, 1, 112)
  <2>1. 96 \in Nat /\ 112 \in Nat /\ 96 <= 112 /\ 112 <= Len(d) /\ 97 = 96 + 1  OBVIOUS
  <2> QED  BY <2>1, PartsJoin
<1>4. SubSeq(d, 1, 112) = d  BY WholeIsItself
<1> QED  BY <1>1, <1>2, <1>3, <1>4 DEF KeyData

\* A generator that so far was asked for nonces only.
IsAskedFor(key, rng, n) ==
    IF n = 0 THEN rng = rfc6979_initialize(key)
             ELSE rng = Asked(rfc6979_initialize(key), n - 1)[n - 1]

\* One more request for a nonce.
LEMMA AskedAgain ==
    ASSUME EightWords, NEW key \in Data, Len(key) <= 200, NEW n \in Nat, NEW rng,
           IsAskedFor(key, rng, n), NEW n1, n1 = n + 1
    PROVE  IsAskedFor(key, rfc6979_generate(rng, 32), n1)
<1> DEFINE f == rfc6979_initialize(key)
           g == rfc6979_generate(rng, 32)
<1>1. f \in Generators  BY InitializeIsStart
<1>2. n1 # 0 /\ n1 - 1 = n  OBVIOUS
<1>3. CASE n = 0
  <2>1. rng = f  BY <1>3 DEF IsAskedFor
  <2> HIDE DEF f
  <2>2. 0 \in Nat  OBVIOUS
  <2>3. Asked(f, 0)[0] = rfc6979_generate(f, 32)  BY <1>1, <2>2, AskedDefined
  <2> QED  BY <1>2, <1>3, <2>1, <2>3 DEF IsAskedFor, f
<1>4. CASE n # 0
  <2> DEFINE c == n - 1
  <2>1. rng = Asked(f, c)[c]  BY <1>4 DEF IsAskedFor
  <2>2. c \in Nat /\ n = c + 1  BY <1>4
  <2> HIDE DEF f, c
  <2>3. Asked(f, n)[n] = rfc6979_generate(Asked(f, c)[c], 32)  BY <1>1, <2>2, AskedNext
  <2> QED  BY <1>2, <2>1, <2>3 DEF IsAskedFor, f
<1> QED  BY <1>3, <1>4

IsRng(x) ==
    /\ x.key \in Data /\ Len(x.key) <= 200 /\ x.n \in Nat
    /\ x.rng \in Generators /\ NotesRetry(x.rng.retry, x.n)
    /\ SameKV(x.rng, x.kv) /\ x.out = x.want
    /\ x.nonces => IsAskedFor(x.key, x.rng, x.n)
    /\ x.n > 0 => x.out = x.rng.out

(***************************************************************************)
(* The invariant of the generator: K and V are those of the standard, and  *)
(* as long as only nonces were asked for, its state is what the nonce      *)
(* function reaches with as many requests.                                 *)
(***************************************************************************)
RngInv == st.unit = "rfc6979" => IsRng(st)

\* A register with a generator is as the invariant says.
LEMMA RngRegIs ==
    ASSUME NEW key \in Data, Len(key) <= 200, NEW n \in Nat, NEW rng \in Generators,
           NotesRetry(rng.retry, n), NEW kv, SameKV(rng, kv),
           NEW out, NEW want, out = want, NEW nonces,
           nonces => IsAskedFor(key, rng, n), n > 0 => out = rng.out
    PROVE  IsRng(RngReg(key, rng, kv, out, want, n, nonces))
<1> DEFINE x == RngReg(key, rng, kv, out, want, n, nonces)
<1>1. /\ x.key = key /\ x.rng = rng /\ x.kv = kv /\ x.out = out /\ x.want = want /\ x.n = n
      /\ x.nonces = nonces
  BY DEF RngReg
<1> HIDE DEF x
<1> QED  BY <1>1 DEF IsRng, x

\* The invariant holds at the start, after every step, and gives the property.
LEMMA RngStarts ==
    ASSUME EightWords, HashInit
    PROVE  RngInv
<1>1. ASSUME NEW len \in {64, 80, 96, 112},
             st = RngReg(SeedOf(len), rfc6979_initialize(SeedOf(len)),
                         StdStart(SeedOf(len)), <<>>, <<>>, 0, TRUE)
      PROVE  RngInv
  <2> DEFINE key == SeedOf(len)
             rng == rfc6979_initialize(key)
             kv == StdStart(key)
  <2>1. key \in Data /\ Len(key) <= 200
    <3> DEFINE from == 3000
    <3>1. from \in Nat /\ len \in Nat /\ len <= 200 /\ key = Message(from, len)  BY DEF SeedOf
    <3> HIDE DEF from, key
    <3>2. key \in Data /\ Len(key) = len  BY <3>1, MessageType
    <3> QED  BY <3>1, <3>2
  <2> HIDE DEF key
  <2>2. SameKV(rng, kv) /\ rng \in Generators /\ rng.retry = FALSE  BY <2>1, InitializeIsStart
  <2>3. IsAskedFor(key, rng, 0)  BY DEF IsAskedFor
  <2>4. st = RngReg(key, rng, kv, <<>>, <<>>, 0, TRUE)  BY <1>1 DEF key
  <2>5. 0 \in Nat /\ NotesRetry(rng.retry, 0) /\ ~(0 > 0)  BY <2>2 DEF NotesRetry
  <2> HIDE DEF rng, kv
  <2>6. IsRng(st)  BY <2>1, <2>2, <2>3, <2>4, <2>5, RngRegIs
  <2> QED  BY <2>6 DEF RngInv
<1>2. ASSUME NEW h, NEW m, NEW done, NEW out, st = HashReg(h, m, done, out) PROVE RngInv
  BY <1>2 DEF HashReg, RngInv
<1>3. ASSUME NEW k, NEW h, NEW m, NEW done, NEW out, st = HmacReg(k, h, m, done, out) PROVE RngInv
  BY <1>3 DEF HmacReg, RngInv
<1>4. CASE st = HashReg(initialize, <<>>, FALSE, <<>>)  BY <1>2, <1>4
<1>5. CASE st = HashReg(initialize_midstate(64, Blocks(InitialState, TagBlock)), TagBlock,
                        FALSE, <<>>)
  BY <1>2, <1>5
<1>6. CASE st = HashReg(initialize_tagged(Tag), TagBlock, FALSE, <<>>)  BY <1>2, <1>6
<1>7. CASE \E len \in KeyLengths :
             st = HmacReg(KeyOf(len), hmac_initialize(KeyOf(len)), <<>>, FALSE, <<>>)
  BY <1>3, <1>7
<1>8. CASE \E len \in {64, 80, 96, 112} :
             st = RngReg(SeedOf(len), rfc6979_initialize(SeedOf(len)),
                         StdStart(SeedOf(len)), <<>>, <<>>, 0, TRUE)
  BY <1>1, <1>8
<1> QED  BY <1>4, <1>5, <1>6, <1>7, <1>8 DEF HashInit

LEMMA RngSteps ==
    ASSUME EightWords, RngInv, HashNext
    PROVE  RngInv'
<1>1. CASE RngGenerate
  <2>1. PICK len \in Outputs :
            /\ st.unit = "rfc6979" /\ st.n < MaxGenerated
            /\ LET rng  == rfc6979_generate(st.rng, len)
                   want == StdNext(st.kv, st.n, len)
               IN  st' = RngReg(st.key, rng, want.kv, rng.out, want.T, st.n + 1,
                                st.nonces /\ len = 32)
    BY <1>1 DEF RngGenerate
  <2> DEFINE key == st.key
             rng == st.rng
             kv == st.kv
             n == st.n
             n1 == n + 1
             f == rfc6979_generate(rng, len)
             w == StdNext(kv, n, len)
             nonces == st.nonces /\ len = 32
  <2>2. /\ key \in Data /\ Len(key) <= 200 /\ n \in Nat
        /\ rng \in Generators /\ NotesRetry(rng.retry, n) /\ SameKV(rng, kv)
        /\ (st.nonces => IsAskedFor(key, rng, n))
    BY <2>1 DEF RngInv, IsRng
  <2>3. st' = RngReg(key, f, w.kv, f.out, w.T, n1, nonces)  BY <2>1
  <2>4. len \in Nat
    <3>1. Outputs \subseteq Nat  BY Sha256Assumption
    <3> QED  BY <3>1
  <2> HIDE DEF key, rng, kv, n
  <2>5. Answers(f, w)  BY <2>2, <2>4, GenerateIsStandard
  <2>6. n1 \in Nat /\ n1 # 0  BY <2>2
  <2>7. nonces => IsAskedFor(key, f, n1)
    <3> SUFFICES ASSUME nonces PROVE IsAskedFor(key, f, n1)  OBVIOUS
    <3>1. f = rfc6979_generate(rng, 32)  OBVIOUS
    <3>2. IsAskedFor(key, rng, n)  BY <2>2
    <3>3. n1 = n + 1  OBVIOUS
    <3> HIDE DEF f, n1
    <3>4. IsAskedFor(key, rfc6979_generate(rng, 32), n1)  BY <2>2, <3>2, <3>3, AskedAgain
    <3> QED  BY <3>1, <3>4
  <2> HIDE DEF f, w, n1, nonces
  <2>8. f \in Generators /\ NotesRetry(f.retry, n1) /\ SameKV(f, w.kv) /\ f.out = w.T
    BY <2>5, <2>6 DEF Answers, NotesRetry
  <2>9. IsRng(RngReg(key, f, w.kv, f.out, w.T, n1, nonces))
    <3> DEFINE out == f.out
               want == w.T
               kv1 == w.kv
    <3>1. SameKV(f, kv1) /\ out = want /\ (n1 > 0 => out = f.out)  BY <2>8
    <3> HIDE DEF out, want, kv1
    <3>2. IsRng(RngReg(key, f, kv1, out, want, n1, nonces))
      BY <2>2, <2>6, <2>7, <2>8, <3>1, RngRegIs
    <3> QED  BY <3>2 DEF out, want, kv1
  <2>10. IsRng(st')  BY <2>3, <2>9
  <2> QED  BY <2>10 DEF RngInv
<1>2. ASSUME NEW h, NEW m, NEW done, NEW out, st' = HashReg(h, m, done, out) PROVE RngInv'
  BY <1>2 DEF HashReg, RngInv
<1>3. ASSUME NEW k, NEW h, NEW m, NEW done, NEW out, st' = HmacReg(k, h, m, done, out) PROVE RngInv'
  BY <1>3 DEF HmacReg, RngInv
<1>4. CASE HashWrite  BY <1>2, <1>4 DEF HashWrite
<1>5. CASE HashFinalize  BY <1>2, <1>5 DEF HashFinalize
<1>6. CASE HmacWrite  BY <1>3, <1>6 DEF HmacWrite
<1>7. CASE HmacFinalize  BY <1>3, <1>7 DEF HmacFinalize
<1> QED  BY <1>1, <1>4, <1>5, <1>6, <1>7 DEF HashNext

LEMMA NoncesAreRequests ==
    ASSUME EightWords, RngInv
    PROVE  FollowsRfc6979
<1> SUFFICES ASSUME st.unit = "rfc6979"
             PROVE  /\ st.out = st.want
                    /\ st.rng.k = st.kv.K /\ st.rng.v = st.kv.V
                    /\ OnlyNonces => NonceOf(st.n - 1) = st.out
  BY DEF FollowsRfc6979
<1>1. IsRng(st)  BY DEF RngInv
<1>2. st.out = st.want /\ st.rng.k = st.kv.K /\ st.rng.v = st.kv.V  BY <1>1 DEF IsRng, SameKV
<1>3. ASSUME OnlyNonces PROVE NonceOf(st.n - 1) = st.out
  <2> DEFINE key == st.key
             c == st.n - 1
             f == rfc6979_initialize(key)
  <2>1. /\ key \in Data /\ Len(key) = 112 /\ st.n \in Nat /\ st.n > 0 /\ st.nonces
        /\ st.out = st.rng.out /\ IsAskedFor(key, st.rng, st.n)
    BY <1>1, <1>3 DEF IsRng, OnlyNonces
  <2>2. st.n # 0  BY <2>1
  <2>3. st.rng = Asked(f, c)[c]  BY <2>1, <2>2 DEF IsAskedFor
  <2>4. KeyData(Part(1, 32), Part(33, 64), Part(65, 96), Part(97, 112)) = key
    BY <2>1, SeedOfParts DEF Part
  <2> HIDE DEF c, f
  <2>5. Counted(f, c) = Asked(f, c)[c].out  BY CountedIs
  <2>6. NonceOf(c) = Counted(f, c)  BY <2>4 DEF NonceOf, nonce_function_rfc6979, f
  <2> QED  BY <2>1, <2>3, <2>5, <2>6 DEF c
<1> QED  BY <1>2, <1>3

(***************************************************************************)
(* Whatever the compression function, the seed and the lengths that are    *)
(* asked for: the generator gives the bytes of RFC 6979, and the nonce of  *)
(* attempt n, made by a new generator, is what request n of one generator  *)
(* gives (hash_impl.h, nonce_function_rfc6979_impl of secp256k1.c).        *)
(***************************************************************************)
THEOREM GeneratorIsStandard ==
    ASSUME EightWords
    PROVE  HashSpec => []FollowsRfc6979
<1>1. HashInit => RngInv  BY RngStarts
<1>2. RngInv /\ [HashNext]_st => RngInv'
  <2>1. ASSUME RngInv, HashNext PROVE RngInv'  BY <2>1, RngSteps
  <2>2. ASSUME RngInv, UNCHANGED st PROVE RngInv'  BY <2>2 DEF RngInv, IsRng
  <2> QED  BY <2>1, <2>2
<1>3. RngInv => FollowsRfc6979  BY NoncesAreRequests
<1> QED  BY <1>1, <1>2, <1>3, PTL DEF HashSpec

-----------------------------------------------------------------------------
(* Encodings *)

\* Sequences of bytes hold bytes.
LEMMA BytesOf ==
    ASSUME NEW d \in Data
    PROVE  Len(d) \in Nat /\ \A i \in 1 .. Len(d) : d[i] \in Nat /\ d[i] < 256
<1> DEFINE m == Len(d)
<1>1. m \in Nat /\ d \in [1 .. m -> Byte]  BY LenProperties DEF Data
<1> HIDE DEF m
<1>2. \A i \in 1 .. m : d[i] \in Byte  BY <1>1
<1>3. \A a \in Byte : a \in Nat /\ a < 256  BY DEF Byte
<1> QED  BY <1>1, <1>2, <1>3 DEF m

\* d is in e from position p on.
IsAt(e, p, d) ==
    /\ p \in Nat /\ p >= 1 /\ p + Len(d) <= Len(e) + 1
    /\ \A i \in 1 .. Len(d) : e[p + i - 1] = d[i]

\* What is at a place is there part by part.
LEMMA AtJoin ==
    ASSUME NEW e, NEW a \in Data, NEW b \in Data, NEW p \in Nat, NEW q, q = p + Len(a)
    PROVE  (Len(e) \in Nat) => (IsAt(e, p, a \o b) <=> (IsAt(e, p, a) /\ IsAt(e, q, b)))
<1> DEFINE c == a \o b
           k == Len(a)
           n == Len(b)
<1> SUFFICES ASSUME Len(e) \in Nat PROVE IsAt(e, p, c) <=> (IsAt(e, p, a) /\ IsAt(e, q, b))
  OBVIOUS
<1>1. k \in Nat /\ n \in Nat  BY LenProperties DEF Data
<1>2. q = p + k  OBVIOUS
<1> HIDE DEF c, k, n
<1>3. IsJoin(c, a, b, k, n)  BY JoinedAt DEF c, k, n
<1>4. ASSUME IsAt(e, p, c) PROVE IsAt(e, p, a) /\ IsAt(e, q, b)
  <2>1. Len(c) = k + n  BY <1>3 DEF IsJoin
  <2>2. p >= 1 /\ p + k + n <= Len(e) + 1 /\ \A i \in 1 .. k + n : e[p + i - 1] = c[i]
    BY <1>1, <1>4, <2>1 DEF IsAt
  <2>3. ASSUME NEW i \in 1 .. k PROVE e[p + i - 1] = a[i]
    <3>1. i \in 1 .. k + n  BY <1>1
    <3> QED  BY <1>3, <2>2, <3>1 DEF IsJoin
  <2>4. ASSUME NEW i \in 1 .. n PROVE e[q + i - 1] = b[i]
    <3>1. k + i \in 1 .. k + n /\ p + (k + i) - 1 = q + i - 1  BY <1>1, <1>2
    <3>2. e[p + (k + i) - 1] = c[k + i] /\ c[k + i] = b[i]  BY <1>3, <2>2, <3>1 DEF IsJoin
    <3> QED  BY <3>1, <3>2
  <2>5. IsAt(e, p, a)  BY <1>1, <2>2, <2>3 DEF IsAt, k
  <2>6. q \in Nat /\ q >= 1 /\ q + n <= Len(e) + 1  BY <1>1, <1>2, <2>2
  <2>7. IsAt(e, q, b)  BY <2>4, <2>6 DEF IsAt, n
  <2> QED  BY <2>5, <2>7
<1>5. ASSUME IsAt(e, p, a), IsAt(e, q, b) PROVE IsAt(e, p, c)
  <2>1. p >= 1 /\ \A i \in 1 .. k : e[p + i - 1] = a[i]  BY <1>5 DEF IsAt, k
  <2>2. q + n <= Len(e) + 1 /\ \A i \in 1 .. n : e[q + i - 1] = b[i]  BY <1>5 DEF IsAt, n
  <2>3. ASSUME NEW i \in 1 .. k + n PROVE e[p + i - 1] = c[i]
    <3>1. CASE i <= k
      <4>1. i \in 1 .. k  BY <1>1, <3>1
      <4> QED  BY <1>3, <2>1, <4>1 DEF IsJoin
    <3>2. CASE i > k
      <4>1. i - k \in 1 .. n /\ q + (i - k) - 1 = p + i - 1 /\ k + (i - k) = i
        BY <1>1, <1>2, <3>2
      <4>2. e[q + (i - k) - 1] = b[i - k] /\ c[k + (i - k)] = b[i - k]
        BY <1>3, <2>2, <4>1 DEF IsJoin
      <4> QED  BY <4>1, <4>2
    <3> QED  BY <1>1, <3>1, <3>2
  <2>4. p + (k + n) <= Len(e) + 1  BY <1>1, <1>2, <2>2
  <2>5. Len(c) = k + n  BY <1>3 DEF IsJoin
  <2> QED  BY <2>1, <2>3, <2>4, <2>5 DEF IsAt
<1> QED  BY <1>4, <1>5

\* What is at the start and as long is the whole.
LEMMA AtWhole ==
    ASSUME NEW e \in Data, NEW d \in Data
    PROVE  (IsAt(e, 1, d) /\ Len(d) = Len(e)) <=> e = d
<1>1. Len(e) \in Nat  BY LenProperties DEF Data
<1>2. ASSUME IsAt(e, 1, d), Len(d) = Len(e) PROVE e = d
  <2>1. ASSUME NEW i \in 1 .. Len(e) PROVE e[i] = d[i]
    <3>1. 1 + i - 1 = i  OBVIOUS
    <3> QED  BY <1>2, <3>1 DEF IsAt
  <2> QED  BY <1>2, <2>1, SameData
<1>3. ASSUME e = d PROVE IsAt(e, 1, d) /\ Len(d) = Len(e)
  <2>1. ASSUME NEW i \in 1 .. Len(e) PROVE e[1 + i - 1] = d[i]
    <3>1. 1 + i - 1 = i  OBVIOUS
    <3> QED  BY <1>3, <3>1
  <2> QED  BY <1>1, <1>3, <2>1 DEF IsAt
<1> QED  BY <1>2, <1>3

\* What is at a place is a part of the whole.
LEMMA AtIsPart ==
    ASSUME NEW e \in Data, NEW d \in Data, NEW p, IsAt(e, p, d), NEW q, q = p + Len(d) - 1
    PROVE  SubSeq(e, p, q) = d
<1> DEFINE a == SubSeq(e, p, q)
           n == Len(d)
           k == p - 1
<1>1. /\ n \in Nat /\ k \in Nat /\ p = k + 1 /\ q = k + n /\ k + n <= Len(e) /\ Len(e) \in Nat
      /\ p \in Nat
  BY LenProperties DEF Data, IsAt
<1>2. \A i \in 1 .. n : e[p + i - 1] = d[i]  BY DEF IsAt
<1> HIDE DEF n, k
<1>3. IsPart(a, e, k, n)  BY <1>1, PartOf
<1> HIDE DEF a
<1>4. ASSUME NEW i \in 1 .. n PROVE a[i] = d[i]
  <2>1. k + i = p + i - 1  BY <1>1
  <2> QED  BY <1>2, <1>3, <2>1 DEF IsPart
<1>5. a = d  BY <1>3, <1>4, SameData DEF IsPart, n
<1> QED  BY <1>5 DEF a

\* d is cut out of e; d is the n bytes of e from position p on.
IsCut(d, e, p, q)   == d = SubSeq(e, p, q)
IsPiece(d, e, p, n) == d \in Data /\ Len(d) = n /\ IsAt(e, p, d)

\* A part of a whole is in it.
LEMMA PartIsAt ==
    ASSUME NEW e \in Data, NEW p \in Nat, p >= 1, NEW n \in Nat, p + n <= Len(e) + 1,
           NEW q, q = p + n - 1, NEW d, IsCut(d, e, p, q)
    PROVE  IsPiece(d, e, p, n)
<1> DEFINE k == p - 1
<1>1. k \in Nat /\ p = k + 1 /\ q = k + n /\ k + n <= Len(e)
  BY LenProperties DEF Data
<1> HIDE DEF k
<1>2. IsPart(d, e, k, n)  BY <1>1, PartOf DEF IsCut
<1>3. ASSUME NEW i \in 1 .. n PROVE e[p + i - 1] = d[i]
  <2>1. k + i = p + i - 1  BY <1>1
  <2> QED  BY <1>2, <2>1 DEF IsPart
<1>4. d \in Data /\ Len(d) = n  BY <1>2 DEF IsPart
<1>5. IsAt(e, p, d)  BY <1>3, <1>4 DEF IsAt
<1> QED  BY <1>4, <1>5 DEF IsPiece

\* One, two or three bytes at a place.
OneAt(e, p, a)       == p <= Len(e) /\ e[p] = a
TwoAt(e, p, a, b)    == p + 1 <= Len(e) /\ e[p] = a /\ e[p + 1] = b
ThreeAt(e, p, a, b, c) == p + 2 <= Len(e) /\ e[p] = a /\ e[p + 1] = b /\ e[p + 2] = c

\* One byte is at a place if it is the byte there.
LEMMA AtOne ==
    ASSUME NEW e \in Data, NEW p \in Nat, p >= 1, NEW a, NEW d, d = <<a>>
    PROVE  IsAt(e, p, d) <=> OneAt(e, p, a)
<1>1. Len(e) \in Nat /\ p + 1 - 1 = p  BY LenProperties DEF Data
<1>2. Len(d) = 1 /\ d[1] = a /\ 1 .. 1 = {1}  OBVIOUS
<1>3. (\A i \in 1 .. Len(d) : e[p + i - 1] = d[i]) <=> e[p] = a  BY <1>1, <1>2
<1>4. p + Len(d) <= Len(e) + 1 <=> p <= Len(e)  BY <1>1, <1>2
<1> QED  BY <1>3, <1>4 DEF IsAt, OneAt

\* Two bytes are at a place if they are the bytes from there on.
LEMMA AtTwo ==
    ASSUME NEW e \in Data, NEW p \in Nat, p >= 1, NEW a, NEW b, NEW d, d = <<a, b>>
    PROVE  IsAt(e, p, d) <=> TwoAt(e, p, a, b)
<1>1. Len(e) \in Nat /\ p + 1 - 1 = p /\ p + 2 - 1 = p + 1  BY LenProperties DEF Data
<1>2. Len(d) = 2 /\ d[1] = a /\ d[2] = b /\ 1 .. 2 = {1, 2}  OBVIOUS
<1>3. (\A i \in 1 .. Len(d) : e[p + i - 1] = d[i]) <=> (e[p] = a /\ e[p + 1] = b)
  BY <1>1, <1>2
<1>4. p + Len(d) <= Len(e) + 1 <=> p + 1 <= Len(e)  BY <1>1, <1>2
<1> QED  BY <1>3, <1>4 DEF IsAt, TwoAt

\* So are three.
LEMMA AtThree ==
    ASSUME NEW e \in Data, NEW p \in Nat, p >= 1, NEW a, NEW b, NEW c, NEW d, d = <<a, b, c>>
    PROVE  IsAt(e, p, d) <=> ThreeAt(e, p, a, b, c)
<1>1. Len(e) \in Nat /\ p + 1 - 1 = p /\ p + 2 - 1 = p + 1 /\ p + 3 - 1 = p + 2
  BY LenProperties DEF Data
<1>2. Len(d) = 3 /\ d[1] = a /\ d[2] = b /\ d[3] = c /\ 1 .. 3 = {1, 2, 3}  OBVIOUS
<1>3. (\A i \in 1 .. Len(d) : e[p + i - 1] = d[i]) <=> (e[p] = a /\ e[p + 1] = b /\ e[p + 2] = c)
  BY <1>1, <1>2
<1>4. p + Len(d) <= Len(e) + 1 <=> p + 2 <= Len(e)  BY <1>1, <1>2
<1> QED  BY <1>3, <1>4 DEF IsAt, ThreeAt

\* The length so far, after n bytes.
IsRead(f, bytes) ==
    f = [n \in 0 .. Len(bytes) |->
            IF n = 0 THEN 0 ELSE IF f[n-1] >= 65536 THEN 16777216 ELSE f[n-1] * 256 + bytes[n]]
Reading(bytes) == CHOOSE f : IsRead(f, bytes)

\* ReadBE is the last of the numbers that the loop goes through.
LEMMA ReadBEIs ==
    ASSUME NEW bytes
    PROVE  ReadBE(bytes) = Reading(bytes)[Len(bytes)]
BY DEF ReadBE, Reading, IsRead

\* The loop over the bytes of a length, as a function by recursion.
LEMMA ReadingDefined ==
    ASSUME NEW bytes \in Data
    PROVE  LET f == Reading(bytes)
           IN  /\ f[0] = 0
               /\ \A n \in 0 .. Len(bytes) : f[n] \in Nat
               /\ \A n \in 1 .. Len(bytes) :
                     f[n] = IF f[n-1] >= 65536 THEN 16777216 ELSE f[n-1] * 256 + bytes[n]
<1> DEFINE m == Len(bytes)
           S(x, n) == IF x >= 65536 THEN 16777216 ELSE x * 256 + bytes[n]
           H == [p \in Nat \X (1 .. m) |-> S(p[1], p[2])]
<1>1. m \in Nat /\ \A n \in 1 .. m : bytes[n] \in Nat  BY BytesOf
<1> HIDE DEF m
<1>2. \A x \in Nat, n \in 1 .. m : S(x, n) \in Nat  BY <1>1
<1> HIDE DEF S
<1>3. /\ H \in [Nat \X (1 .. m) -> Nat]
      /\ \A x \in Nat, n \in 1 .. m : H[<<x, n>>] = S(x, n)
  BY <1>2
<1> HIDE DEF H
<1>4. PICK f : IsRecursion(f, Nat, 0, m, H)
  <2>1. 0 \in Nat  OBVIOUS
  <2> QED  BY <1>1, <1>3, <2>1, RecursionDefined
<1> DEFINE E(g, n) == IF n = 0 THEN 0 ELSE S(g[n-1], n)
<1>5. ASSUME NEW n \in 0 .. m PROVE f[n] = E(f, n)
  <2>1. CASE n = 0  BY <1>4, <2>1 DEF IsRecursion
  <2>2. CASE n # 0
    <3>1. n \in 1 .. m /\ n - 1 \in 0 .. m  BY <1>1, <2>2
    <3> QED  BY <1>3, <1>4, <2>2, <3>1 DEF IsRecursion
  <2> QED  BY <2>1, <2>2
<1> HIDE DEF E
<1>6. f = [n \in 0 .. m |-> E(f, n)]  BY <1>4, <1>5 DEF IsRecursion
<1>7. IsRead(f, bytes)  BY ONLY <1>6 DEF IsRead, E, S, m
<1> DEFINE a == Reading(bytes)
<1>8. IsRead(a, bytes)
  <2>1. \E g : IsRead(g, bytes)  BY <1>7
  <2> QED  BY <2>1 DEF Reading
<1> HIDE DEF a
<1>9. a = [n \in 0 .. m |-> E(a, n)]  BY ONLY <1>8 DEF IsRead, E, S, m
<1>10. \A n \in 0 .. m : a[n] = E(a, n)  BY <1>9
<1>11. a[0] = 0  BY <1>1, <1>10 DEF E
<1>12. \A n \in 1 .. m : a[n] = S(a[n-1], n)  BY <1>1, <1>10 DEF E
<1>13. \A n \in 0 .. m : a[n] \in Nat
  <2> DEFINE U == {n \in 0 .. m : a[n] \notin Nat}
  <2> SUFFICES ASSUME U # {} PROVE FALSE  OBVIOUS
  <2>1. PICK k \in U : \A j \in U : k <= j
    <3>1. U \in SUBSET Nat  OBVIOUS
    <3> HIDE DEF U
    <3> QED  BY <3>1, LeastElement
  <2>2. k \in 0 .. m /\ a[k] \notin Nat  OBVIOUS
  <2>3. k # 0  BY <1>11, <2>2
  <2>4. k \in 1 .. m /\ k - 1 \in 0 .. m /\ k - 1 \notin U
    <3>1. k \in 1 .. m /\ k - 1 \in 0 .. m  BY <1>1, <2>2, <2>3
    <3> SUFFICES ASSUME k - 1 \in U PROVE FALSE  BY <3>1
    <3>2. k <= k - 1  BY <2>1
    <3> QED  BY <3>1, <3>2
  <2>5. a[k-1] \in Nat  BY <2>4
  <2>6. a[k] = S(a[k-1], k)  BY <1>12, <2>4
  <2> QED  BY <1>2, <2>2, <2>4, <2>5, <2>6
<1> QED  BY <1>11, <1>12, <1>13 DEF a, S, m

\* Lengths of one and of two bytes are read; longer ones are large.
IsValue(len, d) ==
    /\ len \in Nat
    /\ Len(d) = 1 => len = d[1]
    /\ Len(d) = 2 => len = d[1] * 256 + d[2]
    /\ (Len(d) >= 3 /\ d[1] # 0) => len >= 65536

\* One byte is its value, two bytes are what they say, and three are more
\* than any input is long.
LEMMA ReadBEValue ==
    ASSUME NEW bytes \in Data, Len(bytes) >= 1
    PROVE  IsValue(ReadBE(bytes), bytes)
<1> DEFINE f == Reading(bytes)
           m == Len(bytes)
<1>1. m \in Nat /\ m >= 1 /\ \A n \in 1 .. m : bytes[n] \in Nat /\ bytes[n] < 256  BY BytesOf
<1>2. /\ f[0] = 0
      /\ \A n \in 0 .. m : f[n] \in Nat
      /\ \A n \in 1 .. m : f[n] = IF f[n-1] >= 65536 THEN 16777216 ELSE f[n-1] * 256 + bytes[n]
  BY ReadingDefined
<1>3. ReadBE(bytes) = f[m]  BY ReadBEIs
<1> HIDE DEF f, m
<1>4. f[1] = bytes[1]
  <2>1. 1 \in 1 .. m /\ 1 - 1 = 0  BY <1>1
  <2>2. bytes[1] \in Nat  BY <1>1, <2>1
  <2>3. f[1] = IF f[0] >= 65536 THEN 16777216 ELSE f[0] * 256 + bytes[1]  BY <1>2, <2>1
  <2>4. f[1] = 0 * 256 + bytes[1]  BY <1>2, <2>3
  <2> QED  BY <2>2, <2>4
<1>5. m >= 2 => f[2] = bytes[1] * 256 + bytes[2]
  <2> SUFFICES ASSUME m >= 2 PROVE f[2] = bytes[1] * 256 + bytes[2]  OBVIOUS
  <2>1. 2 \in 1 .. m /\ 1 \in 1 .. m /\ 2 - 1 = 1  BY <1>1
  <2>2. bytes[1] \in Nat /\ bytes[1] < 65536  BY <1>1, <2>1
  <2>3. f[2] = IF f[1] >= 65536 THEN 16777216 ELSE f[1] * 256 + bytes[2]  BY <1>2, <2>1
  <2> QED  BY <1>4, <2>2, <2>3
<1>6. (m >= 3 /\ bytes[1] # 0) => f[m] >= 65536
  <2> SUFFICES ASSUME m >= 3, bytes[1] # 0 PROVE f[m] >= 65536  OBVIOUS
  <2>1. ASSUME NEW n \in 1 .. m, n >= 2, f[n-1] \in Nat, f[n-1] >= 256 PROVE f[n] >= 65536
    <3>1. bytes[n] \in Nat  BY <1>1
    <3>2. CASE f[n-1] >= 65536
      <4>1. f[n] = 16777216  BY <1>2, <3>2
      <4> QED  BY <4>1
    <3>3. CASE ~(f[n-1] >= 65536)
      <4>1. f[n] = f[n-1] * 256 + bytes[n]  BY <1>2, <3>3
      <4>2. f[n-1] * 256 >= 65536  BY <2>1
      <4> QED  BY <2>1, <3>1, <4>1, <4>2
    <3> QED  BY <3>2, <3>3
  <2>2. f[2] >= 256 /\ f[2] \in Nat
    <3>1. 1 \in 1 .. m /\ 2 \in 1 .. m  BY <1>1
    <3> DEFINE a == bytes[1]
               b == bytes[2]
    <3>2. a \in Nat /\ b \in Nat /\ a # 0 /\ f[2] = a * 256 + b  BY <1>1, <1>5, <3>1
    <3> HIDE DEF a, b
    <3> QED  BY <3>2
  <2> DEFINE U == {n \in 3 .. m : ~(f[n] >= 65536)}
  <2>3. U = {}
    <3> SUFFICES ASSUME U # {} PROVE FALSE  OBVIOUS
    <3>1. PICK k \in U : \A j \in U : k <= j
      <4>1. U \in SUBSET Nat  OBVIOUS
      <4> HIDE DEF U
      <4> QED  BY <4>1, LeastElement
    <3>2. k \in 3 .. m /\ ~(f[k] >= 65536) /\ k \in 1 .. m /\ k - 1 \in 0 .. m  BY <1>1
    <3>3. f[k-1] >= 256
      <4>1. CASE k = 3  BY <2>2, <4>1
      <4>2. CASE k # 3
        <5>1. k - 1 \in 3 .. m /\ ~(k <= k - 1)  BY <1>1, <3>2, <4>2
        <5>2. f[k-1] >= 65536  BY <3>1, <5>1
        <5>3. f[k-1] \in Nat  BY <1>2, <3>2
        <5> QED  BY <5>2, <5>3
      <4> QED  BY <4>1, <4>2
    <3>4. f[k-1] \in Nat  BY <1>2, <3>2
    <3>5. k >= 2  BY <3>2
    <3> HIDE DEF U
    <3> QED  BY <2>1, <3>2, <3>3, <3>4, <3>5
  <2>4. m \in 3 .. m  BY <1>1
  <2> QED  BY <2>3, <2>4
<1>7. f[m] \in Nat
  <2>1. m \in 0 .. m  BY <1>1
  <2> QED  BY <1>2, <2>1
<1>8. /\ f[m] \in Nat
      /\ m = 1 => f[m] = bytes[1]
      /\ m = 2 => f[m] = bytes[1] * 256 + bytes[2]
      /\ (m >= 3 /\ bytes[1] # 0) => f[m] >= 65536
  <2>1. m = 1 => f[m] = bytes[1]  BY <1>4
  <2>2. m = 2 => f[m] = bytes[1] * 256 + bytes[2]
    <3> SUFFICES ASSUME m = 2 PROVE f[m] = bytes[1] * 256 + bytes[2]  OBVIOUS
    <3>1. m >= 2  BY <1>1
    <3> QED  BY <1>5, <3>1
  <2> QED  BY <1>6, <1>7, <2>1, <2>2
<1> QED  BY <1>3, <1>8 DEF m, IsValue

-----------------------------------------------------------------------------
(* Lengths *)

\* The forms of a length below 2^16.
LEMMA LengthForms ==
    ASSUME NEW len \in Nat, len < 65536
    PROVE  /\ DerLength(len) \in Data
           /\ len < 128 => (DerLength(len) = <<len>> /\ Len(DerLength(len)) = 1)
           /\ (len >= 128 /\ len < 256) =>
                  (DerLength(len) = <<129, len>> /\ Len(DerLength(len)) = 2)
           /\ len >= 256 => (DerLength(len) = <<130, len \div 256, len % 256>>
                             /\ Len(DerLength(len)) = 3)
<1>1. ASSUME len < 128
      PROVE  DerLength(len) \in Data /\ DerLength(len) = <<len>> /\ Len(DerLength(len)) = 1
  <2>1. len \in Byte  BY <1>1 DEF Byte
  <2>2. DerLength(len) = <<len>>  BY <1>1 DEF DerLength
  <2> QED  BY <2>1, <2>2 DEF Data
<1>2. ASSUME len >= 128, len < 256
      PROVE  DerLength(len) \in Data /\ DerLength(len) = <<129, len>> /\ Len(DerLength(len)) = 2
  <2>1. len \in Byte /\ 129 \in Byte  BY <1>2 DEF Byte
  <2>2. DerLength(len) = <<129, len>>  BY <1>2 DEF DerLength
  <2> QED  BY <2>1, <2>2 DEF Data
<1>3. ASSUME len >= 256
      PROVE  /\ DerLength(len) \in Data
             /\ DerLength(len) = <<130, len \div 256, len % 256>> /\ Len(DerLength(len)) = 3
  <2> DEFINE a == len \div 256
             b == len % 256
  <2>1. a \in Byte /\ b \in Byte /\ 130 \in Byte  BY <1>3 DEF Byte
  <2>2. DerLength(len) = <<130, a, b>>  BY <1>3 DEF DerLength
  <2> HIDE DEF a, b
  <2>3. <<130, a, b>> \in Data /\ Len(<<130, a, b>>) = 3  BY <2>1 DEF Data
  <2> QED  BY <2>2, <2>3 DEF a, b
<1>4. len < 128 \/ (len >= 128 /\ len < 256) \/ len >= 256  OBVIOUS
<1> QED  BY <1>1, <1>2, <1>3, <1>4

\* An answer of the parser: the length len and the position behind its bytes.
IsLength(l, p, len) == l = Length(len, p + Len(DerLength(len)))

\* What the long form was checked for.
LEMMA LongFormIs ==
    ASSUME NEW e, NEW q \in Nat, NEW k \in Nat, LongForm(e, q, k).ret, NEW z, z = q + k,
           NEW d, d = SubSeq(e, q, q + k - 1), NEW len, len = ReadBE(d)
    PROVE  /\ ~(k > Left(e, q)) /\ e[q] # 0 /\ ~(k > 8)
           /\ LongForm(e, q, k) = Length(len, z)
           /\ ~(len > Left(e, z)) /\ ~(len < 128)
<1>0. NoLength.ret = FALSE  BY DEF NoLength
<1>1. ~(k > Left(e, q))
  <2> SUFFICES ASSUME k > Left(e, q) PROVE FALSE  OBVIOUS
  <2> QED  BY <1>0 DEF LongForm
<1>2. ~(e[q] = 0 \/ k > 8)
  <2> SUFFICES ASSUME e[q] = 0 \/ k > 8 PROVE FALSE  OBVIOUS
  <2> QED  BY <1>0, <1>1 DEF LongForm
<1>3. LongForm(e, q, k) = Long(e, z, len)
  <2>1. LongForm(e, q, k) = Long(e, q + k, ReadBE(SubSeq(e, q, q + k - 1)))
    BY ONLY <1>1, <1>2 DEF LongForm
  <2>2. ReadBE(SubSeq(e, q, q + k - 1)) = len  OBVIOUS
  <2> QED  BY <2>1, <2>2, Zenon
<1>4. ~(len > Left(e, z) \/ len < 128)
  <2> SUFFICES ASSUME len > Left(e, z) \/ len < 128 PROVE FALSE  OBVIOUS
  <2>1. Long(e, z, len) = NoLength  BY DEF Long
  <2> QED  BY <1>0, <1>3, <2>1
<1>5. Long(e, z, len) = Length(len, z)  BY <1>4 DEF Long
<1> QED  BY <1>1, <1>2, <1>3, <1>4, <1>5

\* secp256k1_der_read_len accepts the shortest form of a length only.
LEMMA LengthIsThere ==
    ASSUME NEW e \in Data, Len(e) < 65536, NEW p \in Nat, p >= 1, der_read_len(e, p).ret
    PROVE  \E len \in Nat : /\ len < 65536 /\ IsAt(e, p, DerLength(len))
                            /\ IsLength(der_read_len(e, p), p, len)
<1> DEFINE l == der_read_len(e, p)
           x == e[p]
           k == x - 128
<1>0. NoLength.ret = FALSE  BY DEF NoLength
<1>1. Len(e) \in Nat /\ \A i \in 1 .. Len(e) : e[i] \in Nat /\ e[i] < 256  BY BytesOf
<1>2. p <= Len(e) /\ x # 255 /\ x # 128  BY <1>0, <1>1 DEF der_read_len
<1>3. x \in Nat /\ x < 256  BY <1>1, <1>2
<1>4. l = IF x < 128 THEN Length(x, p + 1) ELSE LongForm(e, p + 1, k)
  BY <1>1, <1>2 DEF der_read_len
<1>5. l.ret  OBVIOUS
<1> HIDE DEF l
<1>6. CASE x < 128
  <2>1. DerLength(x) = <<x>> /\ Len(DerLength(x)) = 1 /\ x < 65536  BY <1>3, <1>6, LengthForms
  <2>2. IsAt(e, p, DerLength(x))
    <3>1. OneAt(e, p, x)  BY <1>2 DEF OneAt
    <3> QED  BY <2>1, <3>1, AtOne
  <2>3. IsLength(l, p, x)  BY <1>4, <1>6, <2>1 DEF IsLength
  <2> QED  BY <1>3, <2>1, <2>2, <2>3 DEF l
<1>7. CASE x >= 128
  <2>0. k \in Nat /\ k >= 1 /\ x = 128 + k  BY <1>2, <1>3, <1>7
  <2> HIDE DEF k
  <2> DEFINE q == p + 1
             z == q + k
             d == SubSeq(e, q, q + k - 1)
             len == ReadBE(d)
  <2>1. l = LongForm(e, q, k)  BY <1>3, <1>4, <1>7
  <2>2. /\ ~(k > Left(e, q)) /\ e[q] # 0 /\ ~(k > 8)
        /\ l = Length(len, z) /\ ~(len > Left(e, z)) /\ ~(len < 128)
    <3>1. LongForm(e, q, k).ret /\ q \in Nat /\ k \in Nat  BY <1>5, <2>0, <2>1
    <3> HIDE DEF q
    <3>2. /\ ~(k > Left(e, q)) /\ e[q] # 0 /\ ~(k > 8)
          /\ LongForm(e, q, k) = Length(len, z)
          /\ ~(len > Left(e, z)) /\ ~(len < 128)
      BY ONLY <3>1, LongFormIs DEF z, d, len
    <3> QED  BY <2>1, <3>2
  <2> HIDE DEF len, d
  <2>3. q + k <= Len(e) + 1 /\ q \in Nat /\ q >= 1 /\ q <= Len(e)
    BY <1>1, <2>0, <2>2 DEF Left
  <2>4. z \in Nat /\ z = p + 1 + k  BY <2>0
  <2> HIDE DEF z, q
  <2>5. IsPiece(d, e, q, k)
    <3> DEFINE h == q + k - 1
    <3>1. IsCut(d, e, q, h) /\ h = q + k - 1  BY DEF d, IsCut
    <3> HIDE DEF h
    <3> QED  BY <2>0, <2>3, <3>1, PartIsAt
  <2>6. \A i \in 1 .. k : e[q + i - 1] = d[i]  BY <2>5 DEF IsPiece, IsAt
  <2>7. 1 \in 1 .. k /\ q + 1 - 1 = q  BY <2>0, <2>3
  <2>8. d[1] = e[q]  BY <2>6, <2>7
  <2>9. len \in Nat /\ (k = 1 => len = d[1]) /\ (k = 2 => len = d[1] * 256 + d[2])
        /\ (k >= 3 => len >= 65536)
    <3>1. d \in Data /\ Len(d) = k  BY <2>5 DEF IsPiece
    <3>2. IsValue(len, d)  BY <2>0, <3>1, ReadBEValue DEF len
    <3> QED  BY <2>2, <2>8, <3>1, <3>2 DEF IsValue
  <2>10. l = Length(len, z) /\ len <= Len(e) - z + 1 /\ len >= 128
    BY <1>1, <2>2, <2>4, <2>9 DEF Left
  <2>11. len < 65536  BY <1>1, <2>0, <2>4, <2>9, <2>10
  <2>12. k = 1 \/ k = 2  BY <2>0, <2>9, <2>11
  <2>13. d[1] \in Nat /\ d[1] < 256  BY <1>1, <2>3, <2>8
  <2>14. CASE k = 1
    <3>1. DerLength(len) = <<129, len>> /\ Len(DerLength(len)) = 2
      BY <2>9, <2>10, <2>11, <2>13, <2>14, LengthForms
    <3>2. IsAt(e, p, DerLength(len))
      <4>1. TwoAt(e, p, 129, len)  BY <2>0, <2>3, <2>8, <2>9, <2>14 DEF q, TwoAt
      <4> QED  BY <3>1, <4>1, AtTwo
    <3>3. z = p + 2  BY <2>4, <2>14
    <3>4. IsLength(l, p, len)  BY <2>10, <3>1, <3>3 DEF IsLength
    <3> QED  BY <2>9, <2>11, <3>1, <3>2, <3>4 DEF l
  <2>15. CASE k = 2
    <3> DEFINE a == d[1]
               b == d[2]
    <3>1. 2 \in 1 .. k /\ q + 2 - 1 = p + 2 /\ p + 2 \in 1 .. Len(e)  BY <1>1, <2>3, <2>15 DEF q
    <3>2. e[p + 2] = b  BY <2>6, <3>1
    <3>3. b \in Nat /\ b < 256 /\ a \in Nat /\ a < 256 /\ a # 0
      BY <1>1, <2>2, <2>8, <2>13, <3>1, <3>2
    <3>4. len = a * 256 + b  BY <2>9, <2>15
    <3> HIDE DEF a, b
    <3>5. len >= 256 /\ len \div 256 = a /\ len % 256 = b  BY <3>3, <3>4
    <3>6. DerLength(len) = <<130, a, b>> /\ Len(DerLength(len)) = 3
      BY <2>9, <2>11, <3>5, LengthForms
    <3>7. IsAt(e, p, DerLength(len))
      <4>1. e[p + 1] = a /\ p + 2 <= Len(e) /\ e[p] = 130
        BY <2>0, <2>8, <2>15, <3>1 DEF a, q
      <4>2. ThreeAt(e, p, 130, a, b)  BY <3>2, <4>1 DEF ThreeAt
      <4> QED  BY <3>6, <4>2, AtThree
    <3>8. z = p + 3  BY <2>4, <2>15
    <3>9. IsLength(l, p, len)  BY <2>10, <3>6, <3>8 DEF IsLength
    <3> QED  BY <2>9, <2>11, <3>6, <3>7, <3>9 DEF l
  <2> QED  BY <2>12, <2>14, <2>15
<1> QED  BY <1>3, <1>6, <1>7

\* What the code sees of a length of two or three bytes: how many follow, and
\* their number.
IsLong(e, p, k, len) ==
    /\ k \in Nat /\ k >= 1 /\ k <= 2
    /\ e[p] = 128 + k /\ p + 1 + k <= Len(e) + 1 /\ e[p + 1] # 0 /\ Len(DerLength(len)) = 1 + k

\* The bytes that follow are the length.
HasValue(e, q, k, len) == \A d : IsPiece(d, e, q, k) => ReadBE(d) = len

\* What X.690 writes for a length of 128 or more is a number of bytes, and the
\* bytes of the length.
LEMMA LongLength ==
    ASSUME NEW e \in Data, NEW p \in Nat, p >= 1, NEW len \in Nat, len >= 128, len < 65536,
           IsAt(e, p, DerLength(len))
    PROVE  \E k : IsLong(e, p, k, len) /\ HasValue(e, p + 1, k, len)
<1>1. Len(e) \in Nat  BY BytesOf
<1> DEFINE q == p + 1
<1>2. q \in Nat /\ q >= 1  OBVIOUS
<1>3. CASE len < 256
  <2>1. DerLength(len) = <<129, len>> /\ Len(DerLength(len)) = 1 + 1  BY <1>3, LengthForms
  <2>2. TwoAt(e, p, 129, len)  BY <2>1, AtTwo
  <2>3. e[p] = 128 + 1 /\ p + 1 + 1 <= Len(e) + 1 /\ e[p + 1] # 0 /\ e[q] = len
    BY <1>1, <2>2 DEF TwoAt
  <2>4. IsLong(e, p, 1, len)  BY <2>1, <2>3 DEF IsLong
  <2> HIDE DEF q
  <2>5. ASSUME NEW d, IsPiece(d, e, q, 1) PROVE ReadBE(d) = len
    <3>1. 1 \in 1 .. 1 /\ q + 1 - 1 = q  BY <1>2
    <3>2. d \in Data /\ Len(d) = 1 /\ d[1] = e[q]  BY <2>5, <3>1 DEF IsPiece, IsAt
    <3>3. IsValue(ReadBE(d), d)  BY <3>2, ReadBEValue
    <3> QED  BY <2>3, <3>2, <3>3 DEF IsValue
  <2>6. HasValue(e, q, 1, len)  BY <2>5 DEF HasValue
  <2> QED  BY <2>4, <2>6 DEF q
<1>4. CASE len >= 256
  <2> DEFINE a == len \div 256
             b == len % 256
  <2>1. DerLength(len) = <<130, a, b>> /\ Len(DerLength(len)) = 1 + 2  BY <1>4, LengthForms
  <2>2. len = a * 256 + b /\ a # 0 /\ a \in Nat /\ b \in Nat  BY <1>4
  <2> HIDE DEF a, b
  <2>3. ThreeAt(e, p, 130, a, b)  BY <2>1, AtThree
  <2>4. /\ e[p] = 128 + 2 /\ p + 1 + 2 <= Len(e) + 1 /\ e[p + 1] # 0 /\ e[q] = a
        /\ e[p + 2] = b
    BY <1>1, <2>2, <2>3 DEF ThreeAt
  <2>5. IsLong(e, p, 2, len)  BY <2>1, <2>4 DEF IsLong
  <2>6. q + 2 - 1 = p + 2  OBVIOUS
  <2> HIDE DEF q
  <2>7. ASSUME NEW d, IsPiece(d, e, q, 2) PROVE ReadBE(d) = len
    <3>1. 1 \in 1 .. 2 /\ 2 \in 1 .. 2 /\ q + 1 - 1 = q  BY <1>2
    <3>2. d \in Data /\ Len(d) = 2 /\ d[1] = e[q + 1 - 1] /\ d[2] = e[q + 2 - 1]
      BY <2>7, <3>1 DEF IsPiece, IsAt
    <3>3. d[1] = a /\ d[2] = b  BY <2>4, <2>6, <3>1, <3>2
    <3>4. IsValue(ReadBE(d), d)
      <4>1. Len(d) >= 1  BY ONLY <3>2
      <4> QED  BY ONLY <3>2, <4>1, ReadBEValue
    <3> QED  BY <2>2, <3>2, <3>3, <3>4 DEF IsValue
  <2>8. HasValue(e, q, 2, len)  BY <2>7 DEF HasValue
  <2> QED  BY <2>5, <2>8 DEF q
<1> QED  BY <1>3, <1>4

\* It accepts each of them, if the input is long enough for what it says.
LEMMA LengthIsRead ==
    ASSUME NEW e \in Data, Len(e) < 65536, NEW p \in Nat, p >= 1, NEW len \in Nat, len < 65536,
           IsAt(e, p, DerLength(len)),
           len < 128 \/ p + Len(DerLength(len)) + len <= Len(e) + 1
    PROVE  IsLength(der_read_len(e, p), p, len)
<1>1. Len(e) \in Nat  BY BytesOf
<1>2. CASE len < 128
  <2>1. DerLength(len) = <<len>> /\ Len(DerLength(len)) = 1  BY <1>2, LengthForms
  <2>2. OneAt(e, p, len)
    <3> DEFINE d == DerLength(len)
    <3>1. d = <<len>> /\ IsAt(e, p, d)  BY <2>1
    <3> HIDE DEF d
    <3> QED  BY ONLY e \in Data, p \in Nat, p >= 1, <3>1, AtOne
  <2>3. ~(p > Len(e)) /\ e[p] = len  BY <1>1, <2>2 DEF OneAt
  <2>4. der_read_len(e, p) = Length(len, p + 1)  BY <1>2, <2>3 DEF der_read_len
  <2> QED  BY <2>1, <2>4 DEF IsLength
<1>3. CASE len >= 128
  <2>1. PICK k : IsLong(e, p, k, len) /\ HasValue(e, p + 1, k, len)  BY <1>3, LongLength
  <2> DEFINE q == p + 1
             z == q + k
             d == SubSeq(e, q, q + k - 1)
  <2>2. /\ e[p] = 128 + k /\ k \in Nat /\ k >= 1 /\ k <= 2 /\ q + k <= Len(e) + 1 /\ e[q] # 0
        /\ Len(DerLength(len)) = 1 + k /\ q \in Nat /\ q >= 1
    BY <2>1 DEF IsLong
  <2>3. ReadBE(d) = len
    <3> DEFINE h == q + k - 1
    <3>1. IsCut(d, e, q, h) /\ h = q + k - 1  BY DEF d, IsCut
    <3> HIDE DEF h, d, q
    <3>2. IsPiece(d, e, q, k)  BY <2>2, <3>1, PartIsAt
    <3> QED  BY <2>1, <3>2 DEF q, HasValue
  <2>4. ~(p > Len(e)) /\ e[p] # 255 /\ e[p] # 128 /\ ~(e[p] < 128) /\ e[p] - 128 = k
    BY <1>1, <2>2
  <2>5. der_read_len(e, p) = LongForm(e, q, k)  BY <2>4 DEF der_read_len
  <2>6. z = p + Len(DerLength(len)) /\ z \in Nat  BY <2>2
  <2>7. LongForm(e, q, k) = Long(e, q + k, ReadBE(d))
    <3>1. ~(k > Left(e, q)) /\ ~(e[q] = 0 \/ k > 8)  BY <1>1, <2>2 DEF Left
    <3> HIDE DEF q
    <3> QED  BY ONLY <3>1 DEF LongForm, d
  <2>8. ~(len > Left(e, z) \/ len < 128)  BY <1>1, <1>3, <2>6 DEF Left
  <2>9. Long(e, z, len) = Length(len, z)
    <3> HIDE DEF z
    <3> QED  BY <2>8 DEF Long
  <2> HIDE DEF d
  <2>10. LongForm(e, q, k) = Length(len, z)  BY <2>3, <2>7, <2>9
  <2> QED  BY <2>5, <2>6, <2>10 DEF IsLength
<1> QED  BY <1>2, <1>3

-----------------------------------------------------------------------------
(* Integers *)

IsInteger(c) == c \in Data /\ IsMinimal(c) /\ Len(c) < 65536

\* The position behind an integer with n bytes of contents.
Behind(p, n) == p + 1 + Len(DerLength(n)) + n

\* c is a, and b behind it.
IsJoined(c, a, b) == c = a \o b

\* Two strings of bytes, joined, are as long as both.
LEMMA JoinLength ==
    ASSUME NEW a \in Data, NEW b \in Data, NEW c, IsJoined(c, a, b)
    PROVE  c \in Data /\ Len(c) = Len(a) + Len(b)
<1> DEFINE k == Len(a)
           n == Len(b)
<1>1. IsJoin(c, a, b, k, n)  BY JoinedAt DEF IsJoined
<1> HIDE DEF k, n
<1>2. c \in Data /\ Len(c) = k + n  BY <1>1 DEF IsJoin
<1> QED  BY <1>2 DEF k, n

\* They are at a place if one is there and the other behind it.
LEMMA JoinedIsAt ==
    ASSUME NEW e \in Data, NEW a \in Data, NEW b \in Data, NEW c, IsJoined(c, a, b),
           NEW p \in Nat, NEW q, q = p + Len(a)
    PROVE  IsAt(e, p, c) <=> (IsAt(e, p, a) /\ IsAt(e, q, b))
<1>1. Len(e) \in Nat  BY BytesOf
<1> QED  BY <1>1, AtJoin DEF IsJoined

\* A value has its parts, and their length.
IsTlv(t, c) ==
    /\ DerLength(Len(c)) \in Data /\ Len(DerLength(Len(c))) \in 1 .. 3
    /\ IsJoined(Tlv(t, c), <<t>> \o DerLength(Len(c)), c) /\ Tlv(t, c) \in Data
    /\ Len(Tlv(t, c)) = Size(Len(c))
    /\ Len(Tlv(t, c)) = 1 + Len(DerLength(Len(c))) + Len(c)

\* Every value of less than 2^16 bytes has these parts.
LEMMA TlvIs ==
    ASSUME NEW c \in Data, Len(c) < 65536, NEW t \in Byte
    PROVE  IsTlv(t, c)
<1> DEFINE n == Len(c)
           d == DerLength(n)
           x == <<t>>
           a == x \o d
           b == Tlv(t, c)
<1>1. n \in Nat /\ n < 65536  BY BytesOf
<1>2. d \in Data /\ Len(d) \in 1 .. 3
  <2> HIDE DEF n
  <2>1. n < 128 \/ (n >= 128 /\ n < 256) \/ n >= 256  BY <1>1
  <2> QED  BY <1>1, <2>1, LengthForms
<1>3. x \in Data /\ Len(x) = 1  BY SingleByte
<1>4. IsJoined(b, a, c) /\ IsJoined(a, x, d)  BY DEF Tlv, IsJoined
<1>5. Size(n) = 1 + Len(d) + n  BY DEF Size
<1> HIDE DEF d, n, x, a, b
<1>6. a \in Data /\ Len(a) = Len(x) + Len(d)
  <2>1. d \in Data /\ x \in Data  BY <1>2, <1>3
  <2> QED  BY ONLY <1>4, <2>1, JoinLength
<1>7. b \in Data /\ Len(b) = Len(a) + Len(c)  BY <1>4, <1>6, JoinLength
<1>8. Len(c) = n  BY DEF n
<1>9. Len(b) = 1 + Len(d) + n  BY <1>1, <1>2, <1>3, <1>6, <1>7, <1>8
<1> QED  BY ONLY <1>2, <1>4, <1>5, <1>7, <1>9 DEF IsTlv, a, b, d, n, x

\* A value is its tag, its length and its contents, one after the other.
ArePlaces(p, o, q, c) == o = p + 1 /\ q = o + Len(DerLength(Len(c)))
ArePartsAt(e, p, o, q, t, c) ==
    OneAt(e, p, t) /\ IsAt(e, o, DerLength(Len(c))) /\ IsAt(e, q, c)

\* A value is at a place if its parts are where they belong.
LEMMA TlvAt ==
    ASSUME NEW e \in Data, NEW c \in Data, Len(c) < 65536, NEW t \in Byte, NEW p \in Nat, p >= 1,
           NEW o, NEW q, ArePlaces(p, o, q, c)
    PROVE  IsAt(e, p, Tlv(t, c)) <=> ArePartsAt(e, p, o, q, t, c)
<1> DEFINE d == DerLength(Len(c))
           x == <<t>>
           a == x \o d
           b == Tlv(t, c)
<1>0. o = p + 1 /\ q = o + Len(DerLength(Len(c)))  BY DEF ArePlaces
<1>1. d \in Data /\ Len(d) \in 1 .. 3 /\ IsJoined(b, a, c) /\ IsJoined(a, x, d)
  <2>1. IsTlv(t, c)  BY TlvIs
  <2>2. d \in Data /\ Len(d) \in 1 .. 3 /\ IsJoined(b, a, c)  BY ONLY <2>1 DEF IsTlv
  <2> QED  BY <2>2 DEF IsJoined
<1>2. x \in Data /\ Len(x) = 1  BY SingleByte
<1>3. q = o + Len(d) /\ Len(e) \in Nat  BY <1>0, BytesOf
<1>4. IsAt(e, p, x) <=> OneAt(e, p, t)  BY AtOne
<1> HIDE DEF d, x, a, b
<1>5. d \in Data /\ x \in Data /\ IsJoined(a, x, d)  BY <1>1, <1>2
<1>6. o = p + Len(x)  BY <1>0, <1>2
<1>7. IsAt(e, p, a) <=> (IsAt(e, p, x) /\ IsAt(e, o, d))
  BY ONLY <1>5, <1>6, e \in Data, p \in Nat, JoinedIsAt
<1>10. a \in Data /\ Len(a) = Len(x) + Len(d)  BY ONLY <1>5, JoinLength
<1>11. IsJoined(b, a, c)  BY <1>1
<1>8. q = p + Len(a)  BY <1>1, <1>2, <1>3, <1>6, <1>10
<1>9. IsAt(e, p, b) <=> (IsAt(e, p, a) /\ IsAt(e, q, c))
  BY ONLY e \in Data, c \in Data, p \in Nat, <1>8, <1>10, <1>11, JoinedIsAt
<1> QED  BY <1>4, <1>7, <1>9 DEF ArePartsAt, d, b

-----------------------------------------------------------------------------
(* Numbers *)

\* n zeros lead in b.
IsLeading(n, b) ==
    n \in 0 .. Len(b) /\ (\A i \in 1 .. n : b[i] = 0) /\ (n < Len(b) => b[n + 1] # 0)

\* There is a first byte that is not 0, or none.
LEMMA LeadingExists ==
    ASSUME NEW b \in Data
    PROVE  \E n : IsLeading(n, b)
<1> DEFINE m == Len(b)
           U == {n \in 0 .. m : n < m => b[n + 1] # 0}
<1>1. m \in Nat  BY BytesOf
<1> HIDE DEF m
<1>2. m \in U  BY <1>1
<1>3. U \in SUBSET Nat /\ U # {}  BY <1>2
<1>4. PICK n \in U : \A j \in U : n <= j
  <2> HIDE DEF U
  <2> QED  BY <1>3, LeastElement
<1>5. n \in 0 .. m /\ n \in Nat  BY <1>1
<1>6. ASSUME NEW i \in 1 .. n PROVE b[i] = 0
  <2>1. i - 1 \in 0 .. m /\ i - 1 < m /\ ~(n <= i - 1) /\ (i - 1) + 1 = i  BY <1>1, <1>5
  <2>2. i - 1 \notin U
    <3> HIDE DEF U
    <3> QED  BY <1>4, <2>1
  <2> QED  BY <2>1, <2>2
<1>7. n < m => b[n + 1] # 0  OBVIOUS
<1> QED  BY <1>5, <1>6, <1>7 DEF IsLeading, m

\* And one only.
LEMMA LeadingUnique ==
    ASSUME NEW b \in Data, NEW n, NEW k, IsLeading(n, b), IsLeading(k, b)
    PROVE  n = k
<1> DEFINE m == Len(b)
<1>1. m \in Nat  BY BytesOf
<1>2. /\ n \in 0 .. m /\ (\A i \in 1 .. n : b[i] = 0) /\ (n < m => b[n + 1] # 0)
      /\ k \in 0 .. m /\ (\A i \in 1 .. k : b[i] = 0) /\ (k < m => b[k + 1] # 0)
  BY DEF IsLeading
<1> HIDE DEF m
<1>3. ~(n < k)
  <2> SUFFICES ASSUME n < k PROVE FALSE  OBVIOUS
  <2>1. n + 1 \in 1 .. k /\ n < m  BY <1>1, <1>2
  <2> QED  BY <1>2, <2>1
<1>4. ~(k < n)
  <2> SUFFICES ASSUME k < n PROVE FALSE  OBVIOUS
  <2>1. k + 1 \in 1 .. n /\ k < m  BY <1>1, <1>2
  <2> QED  BY <1>2, <2>1
<1> QED  BY <1>1, <1>2, <1>3, <1>4

\* The loop over the leading zeros finds all of them.
LEMMA LeadingIs ==
    ASSUME NEW b \in Data
    PROVE  IsLeading(LeadingZeros(b), b)
<1>1. PICK n : IsLeading(n, b)  BY LeadingExists
<1>2. \E n0 \in 0 .. Len(b) :
          (\A i \in 1 .. n0 : b[i] = 0) /\ (n0 < Len(b) => b[n0 + 1] # 0)
  BY <1>1 DEF IsLeading
<1> DEFINE k == LeadingZeros(b)
<1>3. k \in 0 .. Len(b) /\ (\A i \in 1 .. k : b[i] = 0) /\ (k < Len(b) => b[k + 1] # 0)
  BY <1>2 DEF LeadingZeros
<1> QED  BY <1>3 DEF IsLeading

\* d is what is behind the first n bytes of b.
IsRest(d, b, n) == IsPart(d, b, n, Len(b) - n)

\* WithoutZeros is what is behind the zeros that lead.
LEMMA RestIs ==
    ASSUME NEW b \in Data, NEW n, IsLeading(n, b)
    PROVE  IsRest(WithoutZeros(b), b, n)
<1> DEFINE m == Len(b)
           p == n + 1
           k == m - n
           d == SubSeq(b, p, m)
<1>1. LeadingZeros(b) = n  BY LeadingIs, LeadingUnique
<1>2. WithoutZeros(b) = d  BY <1>1 DEF WithoutZeros
<1>3. m \in Nat /\ n \in Nat /\ n <= m  BY BytesOf DEF IsLeading
<1>4. k \in Nat /\ n + k <= m /\ m = n + k /\ p = n + 1
  <2> HIDE DEF m
  <2> QED  BY <1>3
<1> HIDE DEF k, p
<1>5. IsPart(d, b, n, k)  BY <1>3, <1>4, PartOf
<1> QED  BY <1>2, <1>5 DEF IsRest, k, m

\* Two strings that are the same part are the same.
LEMMA RestUnique ==
    ASSUME NEW a, NEW d, NEW b, NEW n, IsRest(a, b, n), IsRest(d, b, n)
    PROVE  a = d
<1>1. a \in Data /\ d \in Data /\ Len(a) = Len(d)  BY DEF IsRest, IsPart
<1>2. \A i \in 1 .. Len(a) : a[i] = d[i]  BY DEF IsRest, IsPart
<1> QED  BY <1>1, <1>2, SameData

\* Bytes that start with a byte that is not 0 stay as they are.
LEMMA NoneLeading ==
    ASSUME NEW b \in Data, Len(b) > 0 => b[1] # 0
    PROVE  WithoutZeros(b) = b
<1>1. Len(b) \in Nat  BY BytesOf
<1>2. IsLeading(0, b)  BY <1>1 DEF IsLeading
<1>3. IsRest(WithoutZeros(b), b, 0)  BY <1>2, RestIs
<1>4. IsRest(b, b, 0)
  <2>1. \A i \in 1 .. Len(b) - 0 : b[i] = b[0 + i]  OBVIOUS
  <2>2. Len(b) = Len(b) - 0  BY <1>1
  <2> QED  BY <2>1, <2>2 DEF IsRest, IsPart
<1> QED  BY <1>3, <1>4, RestUnique

\* More zeros in front change nothing.
LEMMA MoreLeading ==
    ASSUME NEW b \in Data, NEW k \in Nat, NEW z, z = Zeros(k), NEW c, IsJoined(c, z, b)
    PROVE  c \in Data /\ WithoutZeros(c) = WithoutZeros(b)
<1> DEFINE m == Len(b)
           n == LeadingZeros(b)
           d == WithoutZeros(b)
           x == k + n
<1>1. z \in Data /\ Len(z) = k /\ \A i \in 1 .. k : z[i] = 0  BY ZerosType
<1>2. IsJoin(c, z, b, k, m)  BY <1>1, JoinedAt DEF IsJoined
<1>3. c \in Data /\ Len(c) = k + m /\ (\A i \in 1 .. k : c[i] = z[i])
      /\ (\A i \in 1 .. m : c[k + i] = b[i])
  BY <1>2 DEF IsJoin
<1>4. IsLeading(n, b)  BY LeadingIs
<1>5. m \in Nat /\ n \in 0 .. m /\ (\A i \in 1 .. n : b[i] = 0) /\ (n < m => b[n + 1] # 0)
  BY <1>4, BytesOf DEF IsLeading
<1>6. IsRest(d, b, n)  BY <1>4, RestIs
<1>7. d \in Data /\ Len(d) = m - n /\ \A i \in 1 .. m - n : d[i] = b[n + i]
  BY <1>6 DEF IsRest, IsPart
<1>8. Len(c) = k + m  BY <1>3
<1> HIDE DEF m, n, d
<1>9. IsLeading(x, c)
  <2>1. ASSUME NEW i \in 1 .. x PROVE c[i] = 0
    <3>1. CASE i <= k
      <4>1. i \in 1 .. k  BY <3>1, <1>5
      <4> QED  BY <1>1, <1>3, <4>1
    <3>2. CASE i > k
      <4>1. i - k \in 1 .. n /\ i - k \in 1 .. m /\ k + (i - k) = i  BY <3>2, <1>5
      <4> QED  BY <1>3, <1>5, <4>1
    <3> QED  BY <1>5, <3>1, <3>2
  <2>2. x \in 0 .. Len(c)  BY <1>5, <1>8
  <2>3. ASSUME x < Len(c) PROVE c[x + 1] # 0
    <3>1. n < m /\ n + 1 \in 1 .. m /\ k + (n + 1) = x + 1  BY <1>5, <1>8, <2>3
    <3> QED  BY <1>3, <1>5, <3>1
  <2> QED  BY <2>1, <2>2, <2>3 DEF IsLeading
<1>10. IsRest(d, c, x)
  <2>1. ASSUME NEW i \in 1 .. m - n PROVE d[i] = c[x + i]
    <3>1. n + i \in 1 .. m /\ k + (n + i) = x + i  BY <1>5
    <3> QED  BY <1>3, <1>7, <3>1
  <2>2. Len(c) - x = m - n  BY <1>5, <1>8
  <2> QED  BY <1>7, <2>1, <2>2 DEF IsRest, IsPart
<1>11. IsRest(WithoutZeros(c), c, x)  BY <1>3, <1>9, RestIs
<1> QED  BY <1>3, <1>10, <1>11, RestUnique DEF d

\* Numbers of 32 bytes.
IsNumber(x) == x \in Data /\ Len(x) = 32

\* A scalar is its digits with zeros in front, 32 bytes in all.
LEMMA ToScalarIs ==
    ASSUME NEW d \in Data, Len(d) <= 32, NEW k, k = 32 - Len(d), NEW z, z = Zeros(k)
    PROVE  /\ k \in Nat /\ z \in Data /\ Len(z) = k
           /\ IsJoined(ToScalar(d), z, d) /\ IsNumber(ToScalar(d))
<1> DEFINE n == Len(d)
           x == ToScalar(d)
<1>1. n \in Nat  BY BytesOf
<1>2. k \in Nat /\ k + n = 32
  <2>1. n <= 32 /\ k = 32 - n  OBVIOUS
  <2> HIDE DEF n
  <2> QED  BY <1>1, <2>1
<1>3. z \in Data /\ Len(z) = k  BY <1>2, ZerosType
<1>4. Tuple(z) = z  BY <1>3, JoinEmpty DEF Tuple
<1>5. x = z \o d  BY <1>4 DEF ToScalar
<1>6. IsJoined(x, z, d)  BY <1>5 DEF IsJoined
<1> HIDE DEF x
<1>7. x \in Data /\ Len(x) = Len(z) + Len(d)  BY ONLY d \in Data, <1>3, <1>6, JoinLength
<1> HIDE DEF n
<1>8. Len(d) = n  BY DEF n
<1>9. Len(x) = 32  BY <1>2, <1>3, <1>7, <1>8
<1> QED  BY <1>2, <1>3, <1>6, <1>7, <1>9 DEF x, IsNumber

\* The scalar 0 is 32 zeros, and in range.
LEMMA ScalarZero ==
    /\ Scalar0 = Zeros(32) /\ IsNumber(Scalar0) /\ InRange(Scalar0)
    /\ \A i \in 1 .. 32 : Scalar0[i] = 0
<1>1. Zeros(32) \in Data /\ Len(Zeros(32)) = 32 /\ \A i \in 1 .. 32 : Zeros(32)[i] = 0
  BY ZerosType
<1>2. Scalar0 = Zeros(32)
  <2> DEFINE z == Zeros(32)
  <2>1. z \in Data  BY <1>1
  <2>2. Scalar0 = z \o <<>>  BY DEF Scalar0, Tuple
  <2> HIDE DEF z
  <2>3. z \o <<>> = z  BY <2>1, JoinEmpty
  <2> QED  BY <2>2, <2>3 DEF z
<1>3. Order[1] = 255  BY DEF Order
<1>4. 1 \in 1 .. 32 /\ 1 .. 1 - 1 = {}  OBVIOUS
<1>5. Scalar0[1] = 0  BY <1>1, <1>2, <1>4
<1>6. InRange(Scalar0)
  <2>1. Scalar0[1] < Order[1]  BY <1>3, <1>5
  <2> HIDE DEF Scalar0, Order
  <2> QED  BY <1>4, <2>1 DEF InRange, Below
<1> QED  BY <1>1, <1>2, <1>6 DEF IsNumber

\* A number is its digits, with zeros in front.
LEMMA DigitsBack ==
    ASSUME NEW x, IsNumber(x)
    PROVE  /\ WithoutZeros(x) \in Data /\ Len(WithoutZeros(x)) <= 32
           /\ ToScalar(WithoutZeros(x)) = x
<1> DEFINE n == LeadingZeros(x)
           d == WithoutZeros(x)
           k == 32 - Len(d)
           z == Zeros(k)
           c == ToScalar(d)
<1>1. x \in Data /\ Len(x) = 32  BY DEF IsNumber
<1>2. IsLeading(n, x)  BY <1>1, LeadingIs
<1>3. n \in 0 .. 32 /\ \A i \in 1 .. n : x[i] = 0  BY <1>1, <1>2 DEF IsLeading
<1>4. IsRest(d, x, n)  BY <1>1, <1>2, RestIs
<1>5. d \in Data /\ Len(d) = 32 - n /\ \A i \in 1 .. 32 - n : d[i] = x[n + i]
  BY <1>1, <1>4 DEF IsRest, IsPart
<1> HIDE DEF d, n
<1>6. Len(d) <= 32 /\ k = n /\ n \in Nat  BY <1>3, <1>5
<1>7. z \in Data /\ Len(z) = n /\ \A i \in 1 .. n : z[i] = 0  BY <1>6, ZerosType
<1>8. IsJoined(c, z, d) /\ IsNumber(c)  BY <1>5, <1>6, ToScalarIs
<1> HIDE DEF z, c
<1>9. IsJoin(c, z, d, n, Len(d))  BY <1>5, <1>7, <1>8, JoinedAt DEF IsJoined
<1>10. (\A i \in 1 .. n : c[i] = z[i]) /\ (\A i \in 1 .. 32 - n : c[n + i] = d[i])
  BY <1>5, <1>9 DEF IsJoin
<1>11. ASSUME NEW i \in 1 .. 32 PROVE c[i] = x[i]
  <2>1. CASE i <= n
    <3>1. i \in 1 .. n  BY <2>1, <1>6
    <3> QED  BY <1>3, <1>7, <1>10, <3>1
  <2>2. CASE i > n
    <3>1. i - n \in 1 .. 32 - n /\ n + (i - n) = i  BY <2>2, <1>6
    <3> QED  BY <1>5, <1>10, <3>1
  <2>3. i <= n \/ i > n  BY <1>6
  <2> QED  BY <2>1, <2>2, <2>3
<1>12. c = x
  <2>1. c \in Data /\ x \in Data /\ Len(c) = 32 /\ Len(x) = 32  BY <1>1, <1>8 DEF IsNumber
  <2>2. Len(c) = Len(x) /\ \A i \in 1 .. Len(c) : c[i] = x[i]  BY ONLY <2>1, <1>11
  <2> QED  BY ONLY <2>1, <2>2, SameData
<1> QED  BY <1>5, <1>6, <1>12 DEF c, d

\* The digits of a scalar are those that it was made from.
LEMMA DigitsOfScalar ==
    ASSUME NEW d \in Data, Len(d) <= 32
    PROVE  WithoutZeros(ToScalar(d)) = WithoutZeros(d)
<1> DEFINE k == 32 - Len(d)
           z == Zeros(k)
<1>1. k \in Nat /\ IsJoined(ToScalar(d), z, d)  BY ToScalarIs
<1> HIDE DEF k
<1> QED  BY <1>1, MoreLeading

\* What the code reads of contents in two's complement.
ReadNumber(c) == IF c[1] >= 128 THEN Scalar0 ELSE Number(Unsigned(c))

\* The minimal contents are those that the code accepts.
LEMMA MinimalIs ==
    ASSUME NEW c \in Data
    PROVE  IsMinimal(c) <=> (Len(c) > 0 /\ ~Padded(c))
<1> DEFINE n == Len(c)
<1>1. n \in Nat /\ \A i \in 1 .. n : c[i] \in Nat /\ c[i] < 256  BY BytesOf
<1> HIDE DEF n
<1>2. CASE n > 1
  <2> DEFINE a == c[1]
             b == c[2]
  <2>1. 1 \in 1 .. n /\ 2 \in 1 .. n  BY <1>1, <1>2
  <2>2. a \in Nat /\ b \in Nat  BY <1>1, <2>1
  <2>3. IsMinimal(c) <=> a # (IF b >= 128 THEN 255 ELSE 0)  BY <1>1, <1>2 DEF IsMinimal, n
  <2>4. Padded(c) <=> ((a = 0 /\ b < 128) \/ (a = 255 /\ b >= 128))  BY <1>2 DEF Padded, n
  <2>5. n > 0  BY <1>1, <1>2
  <2> HIDE DEF a, b
  <2>6. (a # (IF b >= 128 THEN 255 ELSE 0)) <=> ~((a = 0 /\ b < 128) \/ (a = 255 /\ b >= 128))
    <3>1. CASE b >= 128  BY <2>2, <3>1
    <3>2. CASE b < 128  BY <2>2, <3>2
    <3> QED  BY <2>2, <3>1, <3>2
  <2> QED  BY <2>3, <2>4, <2>5, <2>6 DEF n
<1>3. CASE ~(n > 1)
  <2>1. ~Padded(c)  BY <1>3 DEF Padded, n
  <2>2. IsMinimal(c) <=> n > 0  BY <1>3 DEF IsMinimal, n
  <2> QED  BY <2>1, <2>2 DEF n
<1> QED  BY <1>2, <1>3

\* The number in c without the zero that keeps it positive.
IsUnsigned(c, u) ==
    /\ u \in Data
    /\ \/ c[1] # 0 /\ c = u /\ Len(u) > 0 /\ u[1] < 128
       \/ c[1] = 0 /\ IsJoined(c, Zeros(1), u) /\ (Len(u) > 0 => u[1] >= 128)

\* The contents of a number that is not negative are its digits, with a 0 in
\* front if the first would look like a sign.
LEMMA UnsignedForm ==
    ASSUME NEW c, IsInteger(c), c[1] < 128
    PROVE  IsUnsigned(c, Unsigned(c))
<1> DEFINE n == Len(c)
           u == SubSeq(c, 2, n)
           m == n - 1
<1>1. c \in Data /\ n \in Nat /\ n > 0 /\ \A i \in 1 .. n : c[i] \in Nat /\ c[i] < 256
  BY BytesOf DEF IsInteger, IsMinimal
<1>2. n > 1 => c[1] # (IF c[2] >= 128 THEN 255 ELSE 0)  BY DEF IsInteger, IsMinimal
<1>3. Len(c) = n  OBVIOUS
<1> HIDE DEF n
<1>4. CASE c[1] # 0
  <2>1. Unsigned(c) = c  BY <1>4 DEF Unsigned
  <2> QED  BY <1>1, <1>3, <1>4, <2>1 DEF IsUnsigned
<1>5. CASE c[1] = 0
  <2>1. Unsigned(c) = u  BY <1>3, <1>5 DEF Unsigned
  <2>2. 1 \in Nat /\ m \in Nat /\ 1 + m <= Len(c) /\ 2 = 1 + 1 /\ n = 1 + m  BY <1>1, <1>3
  <2> HIDE DEF m
  <2>3. IsPart(u, c, 1, m)  BY <1>1, <2>2, PartOf
  <2> HIDE DEF u
  <2>4. u \in Data /\ Len(u) = m /\ \A i \in 1 .. m : u[i] = c[1 + i]  BY <2>3 DEF IsPart
  <2>5. m > 0 => u[1] >= 128
    <3> SUFFICES ASSUME m > 0 PROVE u[1] >= 128  OBVIOUS
    <3>1. n > 1 /\ 1 \in 1 .. m /\ 1 + 1 = 2 /\ 2 \in 1 .. n  BY <2>2
    <3>2. u[1] = c[2]  BY <2>4, <3>1
    <3>3. c[2] >= 128
      <4> SUFFICES ASSUME ~(c[2] >= 128) PROVE FALSE  OBVIOUS
      <4>1. c[1] # 0  BY <1>2, <3>1
      <4> QED  BY <1>5, <4>1
    <3> QED  BY <3>2, <3>3
  <2> DEFINE z == Zeros(1)
  <2>6. z \in Data /\ Len(z) = 1 /\ \A i \in 1 .. 1 : z[i] = 0  BY ZerosType
  <2>7. IsJoined(c, z, u)
    <3> DEFINE e == z \o u
    <3> HIDE DEF z
    <3>1. IsJoin(e, z, u, 1, m)  BY <2>4, <2>6, JoinedAt
    <3> HIDE DEF e
    <3>2. e \in Data /\ Len(e) = 1 + m /\ (\A i \in 1 .. 1 : e[i] = z[i])
          /\ \A i \in 1 .. m : e[1 + i] = u[i]
      BY <3>1 DEF IsJoin
    <3>3. ASSUME NEW i \in 1 .. n PROVE e[i] = c[i]
      <4>1. CASE i = 1
        <5>1. 1 \in 1 .. 1  OBVIOUS
        <5>2. e[1] = 0  BY <2>6, <3>2, <5>1
        <5> QED  BY <1>5, <4>1, <5>2
      <4>2. CASE i # 1
        <5>1. i - 1 \in 1 .. m /\ 1 + (i - 1) = i  BY <2>2, <4>2
        <5> QED  BY <2>4, <3>2, <5>1
      <4> QED  BY <4>1, <4>2
    <3>4. Len(e) = n /\ Len(c) = n  BY <1>3, <2>2, <3>2
    <3>5. e = c  BY <1>1, <3>2, <3>3, <3>4, SameData
    <3> QED  BY <3>5 DEF IsJoined, e
  <2> QED  BY <1>5, <2>1, <2>4, <2>5, <2>7 DEF IsUnsigned
<1> QED  BY <1>4, <1>5

\* It has no leading zeros.
LEMMA UnsignedIs ==
    ASSUME NEW c, IsInteger(c), c[1] < 128
    PROVE  Unsigned(c) = WithoutZeros(c) /\ Unsigned(c) \in Data
<1> DEFINE u == Unsigned(c)
           z == Zeros(1)
<1>1. IsUnsigned(c, u)  BY UnsignedForm
<1> HIDE DEF u
<1>2. u \in Data  BY <1>1 DEF IsUnsigned
<1>3. CASE c[1] # 0
  <2>1. c = u  BY <1>1, <1>3 DEF IsUnsigned
  <2> QED  BY <1>2, <1>3, <2>1, NoneLeading DEF u
<1>4. CASE c[1] = 0
  <2>1. IsJoined(c, z, u) /\ (Len(u) > 0 => u[1] >= 128)  BY <1>1, <1>4 DEF IsUnsigned
  <2>2. Len(u) > 0 => u[1] # 0
    <3> SUFFICES ASSUME u[1] = 0, u[1] >= 128 PROVE FALSE  BY <2>1
    <3> QED  OBVIOUS
  <2>3. WithoutZeros(u) = u  BY <1>2, <2>2, NoneLeading
  <2>4. WithoutZeros(c) = WithoutZeros(u)
    <3>1. 1 \in Nat  OBVIOUS
    <3> QED  BY ONLY <1>2, <2>1, <3>1, MoreLeading
  <2> QED  BY <1>2, <2>3, <2>4 DEF u
<1> QED  BY <1>3, <1>4

\* Two positive integers that are the same without leading zeros are the same.
LEMMA MinimalUnique ==
    ASSUME NEW a, NEW b, IsInteger(a), IsInteger(b), a[1] < 128, b[1] < 128,
           WithoutZeros(a) = WithoutZeros(b)
    PROVE  a = b
<1> DEFINE u == WithoutZeros(a)
<1>1. IsUnsigned(a, u) /\ IsUnsigned(b, u)  BY UnsignedForm, UnsignedIs
<1> HIDE DEF u
<1>2. ~(Len(u) > 0 /\ u[1] < 128 /\ u[1] >= 128)
  <2>1. u \in Data  BY <1>1 DEF IsUnsigned
  <2>2. Len(u) \in Nat /\ \A i \in 1 .. Len(u) : u[i] \in Nat  BY <2>1, BytesOf
  <2> SUFFICES ASSUME Len(u) > 0, u[1] < 128, u[1] >= 128 PROVE FALSE  OBVIOUS
  <2>3. 1 \in 1 .. Len(u)  BY <2>2
  <2>4. u[1] \in Nat  BY <2>2, <2>3
  <2> QED  BY <2>4
<1>3. CASE a[1] # 0
  <2>1. a = u /\ Len(u) > 0 /\ u[1] < 128  BY <1>1, <1>3 DEF IsUnsigned
  <2>2. b = u  BY <1>1, <1>2, <2>1 DEF IsUnsigned
  <2> QED  BY <2>1, <2>2
<1>4. CASE a[1] = 0
  <2>1. IsJoined(a, Zeros(1), u) /\ (Len(u) > 0 => u[1] >= 128)  BY <1>1, <1>4 DEF IsUnsigned
  <2>2. IsJoined(b, Zeros(1), u)  BY <1>1, <1>2, <2>1 DEF IsUnsigned
  <2> QED  BY <2>1, <2>2 DEF IsJoined
<1> QED  BY <1>3, <1>4

\* Numbers are read as two's complement says.
LEMMA NumberIs ==
    ASSUME NEW c, IsInteger(c)
    PROVE  ReadNumber(c) = StdScalar(c)
<1>1. Len(c) > 0 /\ c \in Data  BY DEF IsInteger, IsMinimal
<1>2. c[1] \in Nat
  <2>1. Len(c) \in Nat /\ \A i \in 1 .. Len(c) : c[i] \in Nat  BY <1>1, BytesOf
  <2>2. 1 \in 1 .. Len(c)  BY <1>1, <2>1
  <2> QED  BY <2>1, <2>2
<1>3. CASE c[1] >= 128
  <2>1. ~(c[1] < 128)  BY <1>2, <1>3
  <2>2. StdScalar(c) = Scalar0  BY <2>1 DEF StdScalar
  <2> QED  BY <1>3, <2>2 DEF ReadNumber
<1>4. CASE c[1] < 128
  <2> DEFINE d == WithoutZeros(c)
  <2>1. Unsigned(c) = d /\ d \in Data  BY <1>4, UnsignedIs
  <2>2. ~(c[1] >= 128)  BY <1>2, <1>4
  <2>3. ReadNumber(c) = Number(d)  BY <2>1, <2>2 DEF ReadNumber
  <2>4. StdScalar(c) = IF Len(d) <= 32 /\ InRange(ToScalar(d)) THEN ToScalar(d) ELSE Scalar0
    BY <1>4 DEF StdScalar
  <2>5. Len(d) \in Nat  BY <2>1, BytesOf
  <2> HIDE DEF d
  <2>6. CASE Len(d) > 32
    <3>1. ~(Len(d) <= 32)  BY <2>5, <2>6
    <3> QED  BY <2>3, <2>4, <2>6, <3>1 DEF Number
  <2>7. CASE ~(Len(d) > 32)
    <3>1. Len(d) <= 32  BY <2>5, <2>7
    <3> QED  BY <2>3, <2>4, <2>7, <3>1 DEF Number
  <2> QED  BY <2>6, <2>7
<1> QED  BY <1>2, <1>3, <1>4

\* What X.690 says of contents is a scalar in range.
LEMMA StdScalarType ==
    ASSUME NEW c, IsInteger(c)
    PROVE  IsNumber(StdScalar(c)) /\ InRange(StdScalar(c))
<1> DEFINE d == WithoutZeros(c)
<1>1. c[1] < 128 => d \in Data  BY UnsignedIs
<1>2. CASE c[1] < 128 /\ Len(d) <= 32 /\ InRange(ToScalar(d))
  <2>1. StdScalar(c) = ToScalar(d)  BY <1>2 DEF StdScalar
  <2>2. IsNumber(ToScalar(d))
    <3> HIDE DEF d
    <3> QED  BY <1>1, <1>2, ToScalarIs
  <2> QED  BY <1>2, <2>1, <2>2
<1>3. CASE ~(c[1] < 128 /\ Len(d) <= 32 /\ InRange(ToScalar(d)))
  <2>1. StdScalar(c) = Scalar0  BY <1>3 DEF StdScalar
  <2> QED  BY <2>1, ScalarZero
<1> QED  BY <1>2, <1>3

\* The integer with contents c, from position p of e on.
IsInt(e, p, c) == IsInteger(c) /\ IsAt(e, p, Tlv(2, c))

\* How it is read: the number, and the position behind it.
IsReadInt(a, p, c) == a = [ret |-> TRUE, r |-> StdScalar(c), p |-> p + Size(Len(c))]

\* Where the contents of a value are.
IsOpened(e, p, t, c, q) ==
    /\ q \in Nat /\ q = p + 1 + Len(DerLength(Len(c))) /\ q + Len(c) = p + Size(Len(c))
    /\ p <= Len(e) /\ e[p] = t /\ q + Len(c) <= Len(e) + 1
    /\ IsAt(e, q, c) /\ der_read_len(e, p + 1) = Length(Len(c), q)

\* A value that is in the input is opened: its tag and its length are read,
\* and its contents are found.
LEMMA ValueIsOpened ==
    ASSUME NEW e \in Data, Len(e) < 65536, NEW p \in Nat, p >= 1, NEW c \in Data, Len(c) < 65536,
           NEW t \in Byte, IsAt(e, p, Tlv(t, c))
    PROVE  \E q : IsOpened(e, p, t, c, q)
<1> DEFINE n == Len(c)
           d == DerLength(n)
           o == p + 1
           q == o + Len(d)
<1>1. d \in Data /\ Len(d) \in Nat /\ Len(Tlv(t, c)) = 1 + Len(d) + n
      /\ Len(Tlv(t, c)) = Size(n)
  <2>1. d \in Data /\ Len(Tlv(t, c)) = 1 + Len(d) + n /\ Len(Tlv(t, c)) = Size(n)
    <3>1. IsTlv(t, c)  BY TlvIs
    <3> QED  BY ONLY <3>1 DEF IsTlv
  <2> HIDE DEF d, n
  <2>2. Len(d) \in Nat  BY <2>1, BytesOf
  <2> QED  BY <2>1, <2>2
<1>2. OneAt(e, p, t) /\ IsAt(e, o, d) /\ IsAt(e, q, c)
  <2>1. ArePlaces(p, o, q, c)  BY DEF ArePlaces
  <2> HIDE DEF o, q
  <2>2. ArePartsAt(e, p, o, q, t, c)  BY <2>1, TlvAt
  <2> QED  BY <2>2 DEF ArePartsAt
<1>3. n \in Nat /\ Len(e) \in Nat  BY BytesOf
<1>4. n < 65536  OBVIOUS
<1>5. q + n <= Len(e) + 1  BY <1>2 DEF IsAt
<1>6. o \in Nat /\ o >= 1 /\ o = p + 1  OBVIOUS
<1>7. p <= Len(e) /\ e[p] = t  BY <1>2 DEF OneAt
<1>8. IsLength(der_read_len(e, o), o, n)
  <2> HIDE DEF n, o
  <2> QED  BY <1>2, <1>3, <1>4, <1>5, <1>6, LengthIsRead
<1>9. der_read_len(e, o) = Length(n, q)
  <2> HIDE DEF n, o
  <2> QED  BY <1>8 DEF IsLength
<1>10. q \in Nat /\ q = p + 1 + Len(d) /\ q + n = p + Size(n)
  <2> HIDE DEF d, n
  <2> QED  BY <1>1, <1>3
<1>11. IsOpened(e, p, t, c, q)
  BY ONLY <1>2, <1>5, <1>6, <1>7, <1>9, <1>10 DEF IsOpened, n, d
<1> QED  BY <1>11

\* secp256k1_der_parse_integer reads every integer with minimal contents.
LEMMA IntegerRead ==
    ASSUME NEW e \in Data, Len(e) < 65536, NEW p \in Nat, p >= 1, NEW c, IsInt(e, p, c)
    PROVE  IsReadInt(der_parse_integer(e, p), p, c)
<1>1. c \in Data /\ IsInteger(c) /\ Len(c) < 65536 /\ IsAt(e, p, Tlv(2, c))
  BY DEF IsInt, IsInteger
<1>2. 2 \in Byte  BY DEF Byte
<1>3. PICK q : IsOpened(e, p, 2, c, q)  BY <1>1, <1>2, ValueIsOpened
<1> DEFINE n == Len(c)
           l == Length(n, q)
           d == SubSeq(e, q, q + n - 1)
           h == q + n
<1>4. n \in Nat /\ Len(e) \in Nat  BY <1>1, BytesOf
<1>5. q \in Nat /\ h = p + Size(n) /\ p <= Len(e) /\ e[p] = 2 /\ h <= Len(e) + 1 /\ IsAt(e, q, c)
      /\ der_read_len(e, p + 1) = l
  BY <1>3 DEF IsOpened
<1>6. l.ret = TRUE /\ l.len = n /\ l.p = q  BY DEF Length
<1>7. d = c
  <2> DEFINE k == q + Len(c) - 1
  <2> HIDE DEF k
  <2>1. k = q + Len(c) - 1  BY DEF k
  <2>2. c \in Data /\ IsAt(e, q, c)  BY ONLY <1>1, <1>5
  <2>3. SubSeq(e, q, k) = c
    <3> HIDE DEF n, l, d, h
    <3> QED  BY ONLY e \in Data, <2>1, <2>2, AtIsPart
  <2> QED  BY ONLY <2>1, <2>3
<1>8. n > 0 /\ ~Padded(c)  BY <1>1, MinimalIs DEF IsInteger
<1> HIDE DEF l, n
<1>9. der_parse_integer(e, p) = Content(e, l)
  <2>1. ~(p > Len(e)) /\ ~(e[p] # 2)  BY <1>4, <1>5
  <2> QED  BY <1>5, <2>1 DEF der_parse_integer
<1>10. Content(e, l) = Integer(d, h)
  <2>1. ~(~l.ret \/ l.len = 0 \/ l.len > Left(e, l.p))  BY <1>4, <1>5, <1>6, <1>8 DEF Left
  <2>2. Content(e, l) = Integer(SubSeq(e, l.p, l.p + l.len - 1), l.p + l.len)
    BY <2>1 DEF Content
  <2> QED  BY <1>6, <2>2
<1>11. Integer(c, h) = [ret |-> TRUE, r |-> ReadNumber(c), p |-> h]
  BY <1>8 DEF Integer, ReadNumber
<1>12. ReadNumber(c) = StdScalar(c)  BY <1>1, NumberIs
<1> HIDE DEF h
<1> QED  BY ONLY <1>5, <1>7, <1>9, <1>10, <1>11, <1>12 DEF IsReadInt, n

\* What there is, if the length was accepted.
IsAccepted(e, p, t, l) ==
    /\ p <= Len(e) /\ e[p] = t /\ l = der_read_len(e, p + 1) /\ l.ret
    /\ l.len = Left(e, l.p) \/ ~(l.len > Left(e, l.p))
IsFound(e, p, t, l, c) ==
    /\ c \in Data /\ Len(c) = l.len /\ Len(c) < 65536 /\ IsAt(e, p, Tlv(t, c))
    /\ IsOpened(e, p, t, c, l.p) /\ IsCut(c, e, l.p, l.p + l.len - 1)

\* What is accepted as a value is one.
LEMMA ValueIsThere ==
    ASSUME NEW e \in Data, Len(e) < 65536, NEW p \in Nat, p >= 1, NEW t \in Byte,
           NEW l, IsAccepted(e, p, t, l)
    PROVE  \E c : IsFound(e, p, t, l, c)
<1>0. /\ p <= Len(e) /\ e[p] = t /\ l = der_read_len(e, p + 1) /\ l.ret
      /\ l.len = Left(e, l.p) \/ ~(l.len > Left(e, l.p))
  BY DEF IsAccepted
<1> DEFINE o == p + 1
<1>1. o \in Nat /\ o >= 1  OBVIOUS
<1>2. PICK n \in Nat : n < 65536 /\ IsAt(e, o, DerLength(n)) /\ IsLength(l, o, n)
  <2> HIDE DEF o
  <2>1. l = der_read_len(e, o) /\ l.ret  BY <1>0 DEF o
  <2> QED  BY <1>1, <2>1, LengthIsThere
<1> DEFINE k == Len(DerLength(n))
           q == o + k
<1>3. k \in Nat
  <2>1. DerLength(n) \in Data  BY <1>2, LengthForms
  <2> QED  BY <2>1, BytesOf
<1>4. l.len = n /\ l.p = q  BY <1>2 DEF IsLength, Length
<1>5. Len(e) \in Nat  BY BytesOf
<1> HIDE DEF k
<1>6. q \in Nat /\ q >= 1 /\ q + n <= Len(e) + 1
  BY <1>0, <1>1, <1>3, <1>4, <1>5 DEF Left
<1> DEFINE h == q + n - 1
           c == SubSeq(e, q, h)
<1>7. IsCut(c, e, q, h) /\ h = q + n - 1  BY DEF IsCut
<1> HIDE DEF c, q, h
<1>8. IsPiece(c, e, q, n)  BY <1>6, <1>7, PartIsAt
<1>9. c \in Data /\ Len(c) = n /\ IsAt(e, q, c)  BY <1>8 DEF IsPiece
<1>10. OneAt(e, p, t)  BY <1>0 DEF OneAt
<1>11. q = o + Len(DerLength(Len(c))) /\ o = p + 1  BY <1>9 DEF q, k
<1>12. IsAt(e, o, DerLength(Len(c)))  BY <1>2, <1>9
<1>13. Len(c) < 65536  BY <1>2, <1>9
<1>14. IsAt(e, p, Tlv(t, c))
  <2>1. ArePlaces(p, o, q, c)  BY <1>11 DEF ArePlaces
  <2>2. ArePartsAt(e, p, o, q, t, c)  BY <1>9, <1>10, <1>12 DEF ArePartsAt
  <2> QED  BY ONLY e \in Data, t \in Byte, p \in Nat, p >= 1, <1>9, <1>13, <2>1, <2>2, TlvAt
<1>15. IsOpened(e, p, t, c, q)
  <2>1. PICK a : IsOpened(e, p, t, c, a)
    BY ONLY e \in Data, Len(e) < 65536, t \in Byte, p \in Nat, p >= 1, <1>9, <1>13, <1>14,
            ValueIsOpened
  <2>2. a = p + 1 + Len(DerLength(Len(c)))  BY <2>1 DEF IsOpened
  <2>3. a = q  BY <1>11, <2>2
  <2> QED  BY <2>1, <2>3
<1>16. IsCut(c, e, l.p, l.p + l.len - 1)  BY ONLY <1>4, <1>7
<1>17. IsOpened(e, p, t, c, l.p)  BY <1>4, <1>15
<1>18. Len(c) = l.len  BY <1>4, <1>9
<1>19. IsFound(e, p, t, l, c)  BY ONLY <1>9, <1>13, <1>14, <1>16, <1>17, <1>18 DEF IsFound
<1> QED  BY ONLY <1>19

\* It reads nothing else.
LEMMA IntegerIsThere ==
    ASSUME NEW e \in Data, Len(e) < 65536, NEW p \in Nat, p >= 1, der_parse_integer(e, p).ret
    PROVE  \E c : IsInt(e, p, c)
<1> DEFINE a == der_parse_integer(e, p)
           l == der_read_len(e, p + 1)
           d == SubSeq(e, l.p, l.p + l.len - 1)
<1>0. FailInt.ret = FALSE  BY DEF FailInt
<1>1. Len(e) \in Nat /\ 2 \in Byte  BY BytesOf DEF Byte
<1>2. a.ret  OBVIOUS
<1>3. ~(p > Len(e)) /\ e[p] = 2 /\ a = Content(e, l)
  BY <1>0, <1>2 DEF der_parse_integer
<1> HIDE DEF a, l
<1>4. ~(~l.ret \/ l.len = 0 \/ l.len > Left(e, l.p))
  <2> SUFFICES ASSUME ~l.ret \/ l.len = 0 \/ l.len > Left(e, l.p) PROVE FALSE  OBVIOUS
  <2>1. Content(e, l) = FailInt  BY DEF Content
  <2> QED  BY <1>0, <1>2, <1>3, <2>1
<1>5. a = Integer(d, l.p + l.len)  BY <1>3, <1>4 DEF Content
<1>6. ~Padded(d)
  <2> HIDE DEF d
  <2> SUFFICES ASSUME Padded(d) PROVE FALSE  OBVIOUS
  <2>1. Integer(d, l.p + l.len) = FailInt  BY DEF Integer
  <2> QED  BY <1>0, <1>2, <1>5, <2>1
<1> HIDE DEF d
<1>10. PICK c : IsFound(e, p, 2, l, c)
  <2>1. l = der_read_len(e, p + 1) /\ p <= Len(e)  BY <1>1, <1>3 DEF l
  <2>2. IsAccepted(e, p, 2, l)  BY <1>3, <1>4, <2>1 DEF IsAccepted
  <2> QED  BY <1>1, <2>2, ValueIsThere
<1>7. c \in Data /\ Len(c) = l.len /\ Len(c) < 65536 /\ IsAt(e, p, Tlv(2, c)) /\ c = d
  BY <1>10 DEF IsFound, IsCut, d
<1>8. Len(c) > 0
  <2>1. Len(c) \in Nat  BY <1>7, BytesOf
  <2> QED  BY <1>4, <1>7, <2>1
<1>9. IsMinimal(c)  BY <1>6, <1>7, <1>8, MinimalIs
<1> QED  BY <1>7, <1>9 DEF IsInt, IsInteger

-----------------------------------------------------------------------------
(* Signatures *)

\* The integers with contents a and b, one behind the other, up to the end.
AreInts(e, p, a, b) ==
    /\ IsInt(e, p, a) /\ IsInt(e, p + Size(Len(a)), b)
    /\ p + Size(Len(a)) + Size(Len(b)) = Len(e) + 1
IsReadPair(z, a, b) == z = [ret |-> TRUE, sig |-> Sig(StdScalar(a), StdScalar(b))]

\* The sizes of an integer in the input.
LEMMA IntSize ==
    ASSUME NEW e, NEW p, NEW c, IsInt(e, p, c)
    PROVE  /\ c \in Data /\ Len(c) < 65536 /\ IsAt(e, p, Tlv(2, c)) /\ IsInteger(c)
           /\ Tlv(2, c) \in Data /\ Size(Len(c)) \in Nat /\ Len(Tlv(2, c)) = Size(Len(c))
<1>1. c \in Data /\ Len(c) < 65536 /\ IsAt(e, p, Tlv(2, c)) /\ IsInteger(c)
  BY DEF IsInt, IsInteger
<1>2. 2 \in Byte  BY DEF Byte
<1>3. IsTlv(2, c)  BY <1>1, <1>2, TlvIs
<1>4. Tlv(2, c) \in Data /\ Len(Tlv(2, c)) = Size(Len(c))  BY ONLY <1>3 DEF IsTlv
<1>5. Len(Tlv(2, c)) \in Nat  BY <1>4, BytesOf
<1> QED  BY <1>1, <1>4, <1>5

\* Both integers of a signature are read, and nothing is left.
LEMMA BothRead ==
    ASSUME NEW e \in Data, Len(e) < 65536, NEW p \in Nat, p >= 1, NEW a, NEW b, AreInts(e, p, a, b)
    PROVE  IsReadPair(First(e, der_parse_integer(e, p)), a, b)
<1> DEFINE i == der_parse_integer(e, p)
           q == p + Size(Len(a))
           j == der_parse_integer(e, q)
<1>1. IsInt(e, p, a) /\ IsInt(e, q, b) /\ q + Size(Len(b)) = Len(e) + 1  BY DEF AreInts
<1>2. q \in Nat /\ q >= 1
  <2>1. Size(Len(a)) \in Nat  BY <1>1, IntSize
  <2> QED  BY <2>1
<1> HIDE DEF q
<1>3. IsReadInt(i, p, a) /\ IsReadInt(j, q, b)  BY <1>1, <1>2, IntegerRead
<1> HIDE DEF i, j
<1>4. i.ret = TRUE /\ i.r = StdScalar(a) /\ i.p = q  BY <1>3 DEF IsReadInt, q
<1>5. j.ret = TRUE /\ j.r = StdScalar(b) /\ j.p = Len(e) + 1  BY <1>1, <1>3 DEF IsReadInt
<1>6. First(e, i) = Second(e, i, j)  BY <1>4 DEF First, j
<1>7. Second(e, i, j) = [ret |-> TRUE, sig |-> Sig(i.r, j.r)]  BY <1>5 DEF Second
<1> QED  BY <1>4, <1>5, <1>6, <1>7 DEF IsReadPair, i

\* If both are read, both are there.
LEMMA BothAreThere ==
    ASSUME NEW e \in Data, Len(e) < 65536, NEW p \in Nat, p >= 1,
           First(e, der_parse_integer(e, p)).ret
    PROVE  \E a, b : AreInts(e, p, a, b)
<1> DEFINE i == der_parse_integer(e, p)
           q == i.p
           j == der_parse_integer(e, q)
<1>0. NoSig.ret = FALSE  BY DEF NoSig
<1>1. First(e, i).ret  OBVIOUS
<1>2. i.ret /\ First(e, i) = Second(e, i, j)
  <2> HIDE DEF i
  <2>1. i.ret  BY <1>0, <1>1 DEF First
  <2> QED  BY <2>1 DEF First
<1>3. j.ret /\ j.p = Len(e) + 1
  <2>1. Second(e, i, j).ret  BY <1>1, <1>2
  <2> HIDE DEF i, j
  <2> QED  BY <1>0, <2>1 DEF Second
<1>4. PICK a : IsInt(e, p, a)  BY <1>2, IntegerIsThere
<1>5. IsReadInt(i, p, a)  BY <1>4, IntegerRead
<1> HIDE DEF i
<1>6. q = p + Size(Len(a)) /\ Size(Len(a)) \in Nat  BY <1>4, <1>5, IntSize DEF IsReadInt
<1>7. q \in Nat /\ q >= 1  BY <1>6
<1> HIDE DEF q
<1>8. PICK b : IsInt(e, q, b)  BY <1>3, <1>7, IntegerIsThere
<1>9. IsReadInt(j, q, b)  BY <1>7, <1>8, IntegerRead
<1> HIDE DEF j
<1>10. j.p = q + Size(Len(b))  BY <1>9 DEF IsReadInt
<1>11. AreInts(e, p, a, b)  BY <1>3, <1>4, <1>6, <1>8, <1>10 DEF AreInts
<1> QED  BY <1>11

\* What is at one place and as long is the same.
LEMMA AtUnique ==
    ASSUME NEW e, NEW p, NEW x \in Data, NEW y \in Data, IsAt(e, p, x), IsAt(e, p, y),
           Len(x) = Len(y)
    PROVE  x = y
<1>1. ASSUME NEW i \in 1 .. Len(x) PROVE x[i] = y[i]
  <2>1. e[p + i - 1] = x[i]  BY DEF IsAt
  <2>2. e[p + i - 1] = y[i]  BY DEF IsAt
  <2> QED  BY <2>1, <2>2
<1> QED  BY <1>1, SameData

\* The signature with the integers a and b.
IsBody(x, a, b) ==
    IsInteger(a) /\ IsInteger(b) /\ IsJoined(x, Tlv(2, a), Tlv(2, b)) /\ Len(x) < 65536
IsPair(e, a, b) == \E x : IsBody(x, a, b) /\ e = Tlv(48, x)

\* The sizes in a signature.
LEMMA BodySize ==
    ASSUME NEW x, NEW a, NEW b, IsBody(x, a, b)
    PROVE  /\ x \in Data /\ Len(x) < 65536 /\ Len(x) = Size(Len(a)) + Size(Len(b))
           /\ Tlv(2, a) \in Data /\ Len(Tlv(2, a)) = Size(Len(a)) /\ Size(Len(a)) \in Nat
           /\ Tlv(2, b) \in Data /\ Len(Tlv(2, b)) = Size(Len(b)) /\ Size(Len(b)) \in Nat
<1> DEFINE v == Tlv(2, a)
           w == Tlv(2, b)
<1>1. 2 \in Byte /\ a \in Data /\ b \in Data /\ Len(a) < 65536 /\ Len(b) < 65536
  BY DEF Byte, IsBody, IsInteger
<1>2. IsTlv(2, a) /\ IsTlv(2, b)  BY <1>1, TlvIs
<1>3. v \in Data /\ Len(v) = Size(Len(a)) /\ w \in Data /\ Len(w) = Size(Len(b))
  BY ONLY <1>2 DEF IsTlv
<1>4. IsJoined(x, v, w) /\ Len(x) < 65536  BY DEF IsBody
<1> HIDE DEF v, w
<1>5. x \in Data /\ Len(x) = Len(v) + Len(w)  BY ONLY <1>3, <1>4, JoinLength
<1>6. Len(v) \in Nat /\ Len(w) \in Nat  BY <1>3, BytesOf
<1> QED  BY <1>3, <1>4, <1>5, <1>6 DEF v, w

\* Its integers are behind its tag and its length.
LEMMA PairIsOpened ==
    ASSUME NEW e \in Data, Len(e) < 65536, NEW a, NEW b, IsPair(e, a, b)
    PROVE  \E q, x : /\ q >= 1 /\ IsOpened(e, 1, 48, x, q)
                     /\ AreInts(e, q, a, b) /\ Len(x) = Left(e, q)
<1>1. PICK x : IsBody(x, a, b) /\ e = Tlv(48, x)  BY DEF IsPair
<1>2. /\ x \in Data /\ Len(x) < 65536 /\ Len(x) = Size(Len(a)) + Size(Len(b))
      /\ Tlv(2, a) \in Data /\ Len(Tlv(2, a)) = Size(Len(a)) /\ Size(Len(a)) \in Nat
      /\ Tlv(2, b) \in Data /\ Len(Tlv(2, b)) = Size(Len(b)) /\ Size(Len(b)) \in Nat
  BY <1>1, BodySize
<1>3. 48 \in Byte /\ 1 \in Nat /\ 1 >= 1  BY DEF Byte
<1> DEFINE z == Tlv(48, x)
<1>4. z \in Data /\ Len(z) = Size(Len(x))
  <2>1. IsTlv(48, x)  BY <1>2, <1>3, TlvIs
  <2> QED  BY ONLY <2>1 DEF IsTlv
<1>5. e = z  BY <1>1
<1> HIDE DEF z
<1>6. IsAt(e, 1, z)  BY <1>4, <1>5, AtWhole
<1>7. PICK q : IsOpened(e, 1, 48, x, q)
  BY ONLY e \in Data, Len(e) < 65536, <1>2, <1>3, <1>6, ValueIsOpened DEF z
<1>8. q \in Nat /\ q + Len(x) = 1 + Size(Len(x)) /\ IsAt(e, q, x) /\ q >= 1
  <2>1. q \in Nat /\ q + Len(x) = 1 + Size(Len(x)) /\ IsAt(e, q, x)  BY <1>7 DEF IsOpened
  <2> QED  BY <2>1 DEF IsAt
<1>9. Len(e) = Size(Len(x)) /\ Len(x) \in Nat /\ Len(e) \in Nat  BY <1>2, <1>4, <1>5, BytesOf
<1> DEFINE v == Tlv(2, a)
           w == Tlv(2, b)
           o == q + Size(Len(a))
<1>10. IsJoined(x, v, w) /\ IsInteger(a) /\ IsInteger(b)  BY <1>1 DEF IsBody
<1>11. IsAt(e, q, v) /\ IsAt(e, o, w)
  <2>1. v \in Data /\ w \in Data /\ o = q + Len(v)  BY <1>2
  <2> HIDE DEF v, w, o
  <2> QED  BY ONLY e \in Data, <1>8, <1>10, <2>1, JoinedIsAt
<1>12. o + Size(Len(b)) = Len(e) + 1
  <2> DEFINE k == Size(Len(a))
             n == Size(Len(b))
             m == Size(Len(x))
  <2>1. Len(x) = k + n /\ k \in Nat /\ n \in Nat  BY <1>2
  <2>2. q + Len(x) = 1 + m /\ Len(e) = m  BY <1>8, <1>9
  <2> HIDE DEF k, n, m
  <2>3. q + k + n = Len(e) + 1  BY <1>8, <1>9, <2>1, <2>2
  <2> QED  BY <2>3 DEF k, n
<1>13. AreInts(e, q, a, b)  BY <1>10, <1>11, <1>12 DEF AreInts, IsInt
<1>14. Len(x) = Left(e, q)
  <2> DEFINE m == Size(Len(x))
  <2>1. q + Len(x) = 1 + m /\ Len(e) = m  BY <1>8, <1>9
  <2> HIDE DEF m
  <2>2. Len(x) = Len(e) - q + 1  BY <1>8, <1>9, <2>1
  <2> QED  BY <2>2 DEF Left
<1> QED  BY ONLY <1>7, <1>8, <1>13, <1>14

\* The strict parser reads every signature that X.690 allows ...
LEMMA PairRead ==
    ASSUME NEW e \in Data, Len(e) < 65536, NEW a, NEW b, IsPair(e, a, b)
    PROVE  IsReadPair(signature_parse_der(e), a, b)
<1>1. PICK q, x : q >= 1 /\ IsOpened(e, 1, 48, x, q) /\ AreInts(e, q, a, b) /\ Len(x) = Left(e, q)
  BY PairIsOpened
<1> DEFINE l == Length(Len(x), q)
<1>2. q \in Nat /\ 1 <= Len(e) /\ e[1] = 48 /\ der_read_len(e, 2) = l
  <2>1. 1 + 1 = 2  OBVIOUS
  <2> QED  BY <1>1, <2>1 DEF IsOpened
<1>3. l.ret = TRUE /\ l.len = Left(e, l.p) /\ l.p = q  BY <1>1 DEF Length
<1> HIDE DEF l
<1>4. signature_parse_der(e) = Body(e, l)
  <2>1. Len(e) # 0 /\ ~(e[1] # 48)  BY <1>2
  <2> QED  BY <1>2, <2>1 DEF signature_parse_der
<1>5. Body(e, l) = First(e, der_parse_integer(e, q))  BY <1>3 DEF Body
<1>6. IsReadPair(First(e, der_parse_integer(e, q)), a, b)
  BY ONLY e \in Data, Len(e) < 65536, <1>1, <1>2, BothRead
<1> QED  BY <1>4, <1>5, <1>6

\* ... and nothing else.
LEMMA PairIsThere ==
    ASSUME NEW e \in Data, Len(e) < 65536, signature_parse_der(e).ret
    PROVE  \E a, b : IsPair(e, a, b)
<1> DEFINE l == der_read_len(e, 2)
           q == l.p
<1>0. NoSig.ret = FALSE  BY DEF NoSig
<1>1. Len(e) \in Nat /\ 48 \in Byte /\ 1 \in Nat /\ 1 + 1 = 2  BY BytesOf DEF Byte
<1>2. Len(e) # 0 /\ e[1] = 48 /\ signature_parse_der(e) = Body(e, l)
  BY <1>0 DEF signature_parse_der
<1>3. l.ret /\ l.len = Left(e, q) /\ Body(e, l) = First(e, der_parse_integer(e, q))
  <2>1. Body(e, l).ret  BY <1>2
  <2> HIDE DEF l
  <2>2. l.ret /\ l.len = Left(e, l.p)  BY <1>0, <2>1 DEF Body
  <2> QED  BY <2>2 DEF Body
<1>4. IsAccepted(e, 1, 48, l)
  <2>1. 1 <= Len(e) /\ l = der_read_len(e, 1 + 1)  BY <1>1, <1>2
  <2> QED  BY ONLY <1>2, <1>3, <2>1 DEF IsAccepted
<1> HIDE DEF l
<1>5. PICK x : IsFound(e, 1, 48, l, x)
  <2>1. 1 >= 1  OBVIOUS
  <2> QED  BY ONLY e \in Data, Len(e) < 65536, <1>1, <1>4, <2>1, ValueIsThere
<1>6. x \in Data /\ Len(x) = l.len /\ Len(x) < 65536 /\ IsAt(e, 1, Tlv(48, x))
      /\ IsOpened(e, 1, 48, x, q)
  BY <1>5 DEF IsFound
<1>7. q \in Nat /\ q + Len(x) = 1 + Size(Len(x)) /\ IsAt(e, q, x) /\ Len(x) \in Nat
  BY <1>6, BytesOf DEF IsOpened
<1>8. q >= 1  BY <1>7 DEF IsAt
<1>9. q + Len(x) = Len(e) + 1
  <2>1. Len(x) = Len(e) - q + 1  BY <1>3, <1>6 DEF Left
  <2> QED  BY <1>1, <1>7, <2>1
<1> HIDE DEF q
<1>10. PICK a, b : AreInts(e, q, a, b)
  <2>1. First(e, der_parse_integer(e, q)).ret  BY <1>2, <1>3
  <2> QED  BY <1>7, <1>8, <2>1, BothAreThere
<1>11. IsInt(e, q, a) /\ IsInt(e, q + Size(Len(a)), b)
       /\ q + Size(Len(a)) + Size(Len(b)) = Len(e) + 1
  BY <1>10 DEF AreInts
<1> DEFINE v == Tlv(2, a)
           w == Tlv(2, b)
           o == q + Size(Len(a))
           y == v \o w
           z == Tlv(48, x)
<1>12. v \in Data /\ Len(v) = Size(Len(a)) /\ Size(Len(a)) \in Nat /\ IsAt(e, q, v)
       /\ w \in Data /\ Len(w) = Size(Len(b)) /\ Size(Len(b)) \in Nat /\ IsAt(e, o, w)
       /\ IsInteger(a) /\ IsInteger(b)
  BY ONLY <1>11, IntSize
<1>13. IsJoined(y, v, w)  BY DEF IsJoined
<1>14. y \in Data /\ Len(y) = Len(v) + Len(w) /\ IsAt(e, q, y)
  <2>1. o = q + Len(v)  BY <1>12
  <2> HIDE DEF v, w, y, o
  <2>2. y \in Data /\ Len(y) = Len(v) + Len(w)  BY ONLY <1>12, <1>13, JoinLength
  <2>3. IsAt(e, q, y)  BY ONLY e \in Data, <1>7, <1>12, <1>13, <2>1, JoinedIsAt
  <2> QED  BY <2>2, <2>3
<1>15. Len(y) = Len(x)
  <2> DEFINE k == Size(Len(a))
             n == Size(Len(b))
  <2>1. Len(y) = k + n /\ k \in Nat /\ n \in Nat /\ q + k + n = Len(e) + 1
    BY <1>11, <1>12, <1>14
  <2> HIDE DEF k, n, y
  <2> QED  BY <1>1, <1>7, <1>9, <2>1
<1> HIDE DEF y
<1>16. x = y  BY <1>6, <1>7, <1>14, <1>15, AtUnique
<1>17. IsBody(x, a, b)  BY <1>6, <1>12, <1>13, <1>16 DEF IsBody
<1>18. e = z
  <2>1. IsTlv(48, x)  BY <1>1, <1>6, TlvIs
  <2>2. z \in Data /\ Len(z) = Size(Len(x))  BY ONLY <2>1 DEF IsTlv
  <2> DEFINE m == Size(Len(x))
  <2>3. Len(z) = m /\ q + Len(x) = 1 + m  BY <1>7, <2>2
  <2>4. m \in Nat  BY <2>2, BytesOf
  <2> HIDE DEF m
  <2>5. Len(z) = Len(e)  BY <1>1, <1>7, <1>9, <2>3, <2>4
  <2>6. IsAt(e, 1, z)  BY <1>6
  <2> HIDE DEF z
  <2> QED  BY <2>2, <2>5, <2>6, AtWhole
<1> QED  BY <1>17, <1>18 DEF IsPair

\* What is cut out of an input is a part of it.
LEMMA CutIsPart ==
    ASSUME NEW e \in Data, NEW k \in Nat, NEW n \in Nat, k + n <= Len(e),
           NEW p, NEW q, p = k + 1, q = k + n, NEW a, IsCut(a, e, p, q)
    PROVE  IsPart(a, e, k, n)
BY PartOf DEF IsCut

\* What is at a place is what is cut out there.
LEMMA AtIsCut ==
    ASSUME NEW e \in Data, NEW d \in Data, NEW p, IsAt(e, p, d), NEW q, q = p + Len(d) - 1
    PROVE  IsCut(d, e, p, q)
<1>1. SubSeq(e, p, q) = d  BY AtIsPart
<1> QED  BY <1>1 DEF IsCut

\* An integer that ends e, in the words of the module's definition.
IsLast(e, c) ==
    /\ IsInteger(c) /\ Size(Len(c)) <= Len(e)
    /\ Without(e, c) \in Data /\ Len(Without(e, c)) = Len(e) - Size(Len(c))

\* The integers that may end an input end it.
LEMMA LastIs ==
    ASSUME NEW e \in Data, Len(e) < 65536, NEW c \in LastIntegers(e)
    PROVE  IsLast(e, c)
<1> DEFINE m == Len(e)
           n == Size(Len(c))
           x == m - n
<1>1. m \in Nat  BY BytesOf
<1>2. PICK k \in 2 .. m : IsCut(c, e, k, m)  BY DEF LastIntegers, IsCut
<1>3. IsMinimal(c) /\ n <= m  BY DEF LastIntegers
<1>4. c \in Data /\ Len(c) <= m
  <2> DEFINE h == k - 1
             j == m - h
  <2>1. h \in Nat /\ j \in Nat /\ h + j <= Len(e) /\ k = h + 1 /\ m = h + j /\ j <= m
    <3> HIDE DEF m
    <3>1. m <= Len(e)  BY <1>1 DEF m
    <3> QED  BY <1>1, <3>1
  <2> HIDE DEF h, j, m
  <2>2. IsPart(c, e, h, j)  BY ONLY e \in Data, <1>2, <2>1, CutIsPart
  <2> QED  BY <2>1, <2>2 DEF IsPart
<1>5. Len(c) < 65536
  <2>1. Len(c) \in Nat /\ m < 65536  BY <1>4, BytesOf
  <2> HIDE DEF m
  <2> QED  BY <1>1, <1>4, <2>1
<1>6. n \in Nat
  <2>1. 2 \in Byte  BY DEF Byte
  <2>2. IsTlv(2, c)  BY <1>4, <1>5, <2>1, TlvIs
  <2>3. Tlv(2, c) \in Data /\ Len(Tlv(2, c)) = n  BY ONLY <2>2 DEF IsTlv
  <2>4. Len(Tlv(2, c)) \in Nat  BY <2>3, BytesOf
  <2> QED  BY <2>3, <2>4
<1> DEFINE d == SubSeq(e, 1, x)
<1>7. Without(e, c) = d  BY DEF Without
<1>8. d \in Data /\ Len(d) = x
  <2>1. x \in Nat /\ 0 \in Nat /\ 1 = 0 + 1 /\ x = 0 + x /\ x <= m
    <3> HIDE DEF m, n
    <3> QED  BY <1>1, <1>3, <1>6
  <2>2. 0 + x <= Len(e)  BY <2>1
  <2>3. IsCut(d, e, 1, x)  BY DEF IsCut
  <2> HIDE DEF x, d
  <2>4. IsPart(d, e, 0, x)  BY ONLY e \in Data, <2>1, <2>2, <2>3, CutIsPart
  <2> QED  BY <2>4 DEF IsPart
<1>9. IsInteger(c)  BY <1>3, <1>4, <1>5 DEF IsInteger
<1> HIDE DEF d
<1> QED  BY <1>3, <1>7, <1>8, <1>9 DEF IsLast

\* An integer that ends an input is one of them, and the rest is before it.
LEMMA LastIsIn ==
    ASSUME NEW z \in Data, NEW c, IsInteger(c), NEW e, Len(e) < 65536, IsJoined(e, z, Tlv(2, c))
    PROVE  c \in LastIntegers(e) /\ Without(e, c) = z
<1> DEFINE w == Tlv(2, c)
           n == Len(c)
           d == DerLength(n)
           m == Len(e)
           size == Size(n)
           p == m - size + 1
           o == p + 1
           q == o + Len(d)
<1>1. c \in Data /\ n < 65536 /\ n \in Nat /\ n > 0 /\ IsMinimal(c)
  BY BytesOf DEF IsInteger, IsMinimal
<1>2. 2 \in Byte  BY DEF Byte
<1>3. w \in Data /\ Len(w) = size /\ Len(w) = 1 + Len(d) + n /\ Len(d) \in Nat
  <2>1. IsTlv(2, c)  BY <1>1, <1>2, TlvIs
  <2>2. w \in Data /\ Len(w) = size /\ Len(w) = 1 + Len(d) + n /\ d \in Data
    BY ONLY <2>1 DEF IsTlv
  <2>3. Len(d) \in Nat  BY <2>2, BytesOf
  <2> QED  BY <2>2, <2>3
<1>4. IsJoined(e, z, w)  OBVIOUS
<1> HIDE DEF w
<1>5. e \in Data /\ Len(e) = Len(z) + Len(w)  BY ONLY z \in Data, <1>3, <1>4, JoinLength
<1>6. m \in Nat /\ Len(z) \in Nat /\ Len(w) \in Nat  BY <1>3, <1>5, BytesOf
<1>7. m = Len(z) + size /\ size = 1 + Len(d) + n  BY <1>3, <1>5
<1>8. m < 65536  OBVIOUS
<1> DEFINE k == Len(z)
<1>9. k \in Nat /\ m = k + size  BY <1>6, <1>7
<1> HIDE DEF m, size, k
<1>10. /\ size \in Nat /\ size <= m /\ p \in Nat /\ p >= 1 /\ p = 1 + k /\ m - size = k
       /\ q = m - n + 1
  BY <1>1, <1>3, <1>7, <1>9
<1>11. IsAt(e, 1, z) /\ IsAt(e, p, w)
  <2>1. IsAt(e, 1, e)  BY <1>5, AtWhole
  <2>2. p = 1 + Len(z) /\ 1 \in Nat  BY <1>10 DEF k
  <2> HIDE DEF p
  <2> QED  BY ONLY z \in Data, <1>3, <1>4, <1>5, <2>1, <2>2, JoinedIsAt
<1>12. IsCut(w, e, p, m)
  <2>1. m = p + Len(w) - 1  BY <1>3, <1>9, <1>10
  <2> HIDE DEF p
  <2> QED  BY ONLY <1>3, <1>5, <1>11, <2>1, AtIsCut
<1>13. IsCut(z, e, 1, k)
  <2>1. k = 1 + Len(z) - 1  BY <1>9 DEF k
  <2> QED  BY ONLY z \in Data, <1>5, <1>11, <2>1, AtIsCut
<1>14. IsAt(e, q, c)
  <2>1. ArePlaces(p, o, q, c)  BY DEF ArePlaces
  <2> HIDE DEF p, o, q
  <2>2. IsAt(e, p, Tlv(2, c))  BY <1>11 DEF w
  <2>3. ArePartsAt(e, p, o, q, 2, c)
    <3>1. n < 65536  BY <1>1
    <3> QED  BY ONLY <1>1, <1>2, <1>5, <1>10, <2>1, <2>2, <3>1, TlvAt DEF n
  <2> QED  BY ONLY <2>3 DEF ArePartsAt
<1>15. IsCut(c, e, q, m) /\ q \in 2 .. m
  <2>1. m = q + Len(c) - 1  BY <1>1, <1>9, <1>10
  <2>2. q \in 2 .. m  BY <1>1, <1>3, <1>9, <1>10
  <2> HIDE DEF q
  <2>3. IsCut(c, e, q, m)  BY ONLY <1>1, <1>5, <1>14, <2>1, AtIsCut
  <2> QED  BY <2>2, <2>3
<1>16. Without(e, c) = z  BY ONLY <1>10, <1>13 DEF Without, IsCut, m, size, n
<1>17. c \in LastIntegers(e)
  <2> HIDE DEF q
  <2>1. c \in {SubSeq(e, i, Len(e)) : i \in 2 .. Len(e)}  BY ONLY <1>15 DEF IsCut, m
  <2>2. SubSeq(e, Len(e) - Size(Len(c)) + 1, Len(e)) = Tlv(2, c)
    BY ONLY <1>12 DEF IsCut, p, m, w, size, n
  <2>3. Size(Len(c)) <= Len(e)  BY ONLY <1>10 DEF m, size, n
  <2>4. IsMinimal(c)  BY <1>1
  <2> QED  BY ONLY <2>1, <2>2, <2>3, <2>4, Zenon DEF LastIntegers
<1> QED  BY ONLY <1>16, <1>17

\* The pairs of the definition are the signatures.
LEMMA PairIsSignature ==
    ASSUME NEW e \in Data, Len(e) < 65536, NEW c \in PairsIn(e)
    PROVE  \E a, b : c = <<a, b>> /\ IsPair(e, a, b)
<1>1. PICK b \in LastIntegers(e) : c \in {<<a, b>> : a \in LastIntegers(Without(e, b))}
  BY DEF PairsIn
<1> DEFINE z == Without(e, b)
<1>2. PICK a \in LastIntegers(z) : c = <<a, b>>  BY <1>1
<1> DEFINE v == Tlv(2, a)
           w == Tlv(2, b)
           x == v \o w
<1>3. e = Tlv(48, x)
  <2>1. e = Tlv(48, Tlv(2, c[1]) \o Tlv(2, c[2]))  BY DEF PairsIn
  <2>2. c[1] = a /\ c[2] = b  BY <1>2
  <2> QED  BY ONLY <2>1, <2>2
<1>4. IsLast(e, b)  BY LastIs
<1> DEFINE k == Size(Len(a))
           n == Size(Len(b))
<1>5. IsInteger(b) /\ n <= Len(e) /\ z \in Data /\ Len(z) = Len(e) - n  BY <1>4 DEF IsLast
<1>6. Len(z) \in Nat /\ Len(e) \in Nat  BY <1>5, BytesOf
<1>7. 2 \in Byte /\ b \in Data /\ Len(b) < 65536  BY <1>5 DEF Byte, IsInteger
<1>8. w \in Data /\ Len(w) = n
  <2>1. IsTlv(2, b)  BY <1>7, TlvIs
  <2> QED  BY ONLY <2>1 DEF IsTlv
<1>9. n \in Nat /\ Len(z) < 65536
  <2>1. Len(w) \in Nat  BY <1>8, BytesOf
  <2> HIDE DEF n, w, z
  <2> QED  BY <1>5, <1>6, <1>8, <2>1
<1>10. IsLast(z, a)
  <2> HIDE DEF z
  <2> QED  BY <1>5, <1>9, LastIs
<1>11. IsInteger(a) /\ k <= Len(z)  BY <1>10 DEF IsLast
<1>12. a \in Data /\ Len(a) < 65536  BY <1>11 DEF IsInteger
<1>13. v \in Data /\ Len(v) = k
  <2>1. IsTlv(2, a)  BY <1>7, <1>12, TlvIs
  <2> QED  BY ONLY <2>1 DEF IsTlv
<1>14. IsJoined(x, v, w)  BY DEF IsJoined
<1>15. Len(x) < 65536
  <2>1. Len(v) \in Nat  BY <1>13, BytesOf
  <2> HIDE DEF v, w, x
  <2>2. Len(x) = Len(v) + Len(w)  BY ONLY <1>8, <1>13, <1>14, JoinLength
  <2> HIDE DEF k, n, z
  <2> QED  BY <1>5, <1>6, <1>8, <1>9, <1>11, <1>13, <2>1, <2>2
<1>16. IsBody(x, a, b)  BY ONLY <1>5, <1>11, <1>14, <1>15 DEF IsBody
<1> HIDE DEF x
<1>17. IsPair(e, a, b)  BY <1>3, <1>16 DEF IsPair
<1> QED  BY <1>2, <1>17

\* Every signature with two integers is such a pair.
LEMMA SignatureIsPair ==
    ASSUME NEW e \in Data, Len(e) < 65536, NEW a, NEW b, IsPair(e, a, b)
    PROVE  <<a, b>> \in PairsIn(e)
<1>1. PICK x : IsBody(x, a, b) /\ e = Tlv(48, x)  BY DEF IsPair
<1> DEFINE v == Tlv(2, a)
           w == Tlv(2, b)
           d == DerLength(Len(x))
           y == <<48>> \o d
           z == y \o v
<1>2. IsInteger(a) /\ IsInteger(b) /\ IsJoined(x, v, w)  BY <1>1 DEF IsBody
<1>3. x \in Data /\ Len(x) < 65536 /\ v \in Data /\ w \in Data  BY <1>1, BodySize
<1>4. 48 \in Byte  BY DEF Byte
<1>5. d \in Data /\ IsJoined(e, y, x)
  <2>1. IsTlv(48, x)  BY <1>3, <1>4, TlvIs
  <2>2. d \in Data /\ IsJoined(Tlv(48, x), y, x)  BY ONLY <2>1 DEF IsTlv
  <2> QED  BY <1>1, <2>2
<1>6. y \in Data
  <2> DEFINE u == <<48>>
  <2>1. u \in Data  BY <1>4, SingleByte
  <2>2. IsJoined(y, u, d)  BY DEF IsJoined
  <2> HIDE DEF u, y, d
  <2> QED  BY ONLY <1>5, <2>1, <2>2, JoinLength
<1> HIDE DEF y, v, w, d
<1>7. IsJoined(z, y, v) /\ IsJoined(e, z, w)
  <2>1. e = y \o (v \o w)  BY ONLY <1>2, <1>5 DEF IsJoined
  <2>2. Associates(y, v, w)  BY ONLY <1>3, <1>6, JoinAssociates
  <2> QED  BY ONLY <2>1, <2>2 DEF IsJoined, Associates
<1> HIDE DEF z
<1>8. z \in Data  BY ONLY <1>3, <1>6, <1>7, JoinLength
<1>9. b \in LastIntegers(e) /\ Without(e, b) = z
  BY ONLY Len(e) < 65536, <1>2, <1>7, <1>8, LastIsIn DEF w
<1>10. Len(z) < 65536
  <2>1. Len(e) = Len(z) + Len(w)  BY ONLY <1>3, <1>7, <1>8, JoinLength
  <2>2. Len(e) \in Nat /\ Len(z) \in Nat /\ Len(w) \in Nat  BY <1>3, <1>8, BytesOf
  <2> QED  BY <2>1, <2>2
<1>11. a \in LastIntegers(z)  BY ONLY <1>2, <1>6, <1>7, <1>10, LastIsIn DEF v
<1>12. <<a, b>> \in UNION {{<<c1, c2>> : c1 \in LastIntegers(Without(e, c2))} :
                               c2 \in LastIntegers(e)}
  <2>1. <<a, b>> \in {<<c1, b>> : c1 \in LastIntegers(Without(e, b))}  BY <1>9, <1>11
  <2> QED  BY ONLY <1>9, <2>1
<1>13. e = Tlv(48, Tlv(2, a) \o Tlv(2, b))  BY ONLY <1>1, <1>2 DEF IsJoined, v, w
<1> DEFINE c == <<a, b>>
<1>14. c[1] = a /\ c[2] = b  OBVIOUS
<1>15. e = Tlv(48, Tlv(2, c[1]) \o Tlv(2, c[2]))  BY ONLY <1>13, <1>14
<1> HIDE DEF c
<1>16. c \in PairsIn(e)  BY ONLY <1>12, <1>15, Zenon DEF PairsIn, c
<1> QED  BY <1>16 DEF c

\* The parser accepts what X.690 says, and reads the numbers that it says.
LEMMA StrictIsRight ==
    ASSUME NEW e \in Data, Len(e) < 65536
    PROVE  StrictIsX690(e, signature_parse_der(e))
<1> DEFINE z == signature_parse_der(e)
<1>1. ASSUME z.ret PROVE PairsIn(e) # {}
  <2>1. PICK a, b : IsPair(e, a, b)  BY <1>1, PairIsThere
  <2>2. <<a, b>> \in PairsIn(e)  BY <2>1, SignatureIsPair
  <2> QED  BY <2>2
<1>2. ASSUME NEW c \in PairsIn(e) PROVE z.sig = Sig(StdScalar(c[1]), StdScalar(c[2]))
  <2>1. PICK a, b : c = <<a, b>> /\ IsPair(e, a, b)  BY PairIsSignature
  <2>2. IsReadPair(z, a, b)  BY <2>1, PairRead
  <2>3. c[1] = a /\ c[2] = b  BY <2>1
  <2> HIDE DEF z
  <2> QED  BY <2>2, <2>3 DEF IsReadPair
<1>3. ASSUME NEW c \in PairsIn(e) PROVE z.ret
  <2>1. PICK a, b : IsPair(e, a, b)  BY PairIsSignature
  <2>2. IsReadPair(z, a, b)  BY <2>1, PairRead
  <2> HIDE DEF z
  <2> QED  BY <2>2 DEF IsReadPair
<1> HIDE DEF z
<1>4. z.ret <=> PairsIn(e) # {}
  <2> DEFINE C == PairsIn(e)
  <2>1. z.ret => C # {}  BY <1>1
  <2>2. \A c \in C : z.ret  BY ONLY <1>3
  <2> HIDE DEF C
  <2>3. C # {} => z.ret  BY ONLY <2>2
  <2> QED  BY ONLY <2>1, <2>3 DEF C
<1>5. StrictIsX690(e, z)  BY ONLY <1>2, <1>4, Zenon DEF StrictIsX690
<1> QED  BY <1>5 DEF z

-----------------------------------------------------------------------------
(* Writing *)

IsScalar(x) == IsNumber(x) /\ InRange(x)

\* The contents that the code writes for x.
IsContents(d, x) ==
    /\ IsInteger(d) /\ Len(d) <= 33 /\ d[1] < 128
    /\ StdScalar(d) = x /\ WithoutZeros(d) = WithoutZeros(x)

\* One byte 0 is one zero.
LEMMA OneZero == <<0>> = Zeros(1)
<1> DEFINE a == <<0>>
           z == Zeros(1)
<1>1. 0 \in Byte  BY DEF Byte
<1>2. a \in Data /\ Len(a) = 1 /\ a[1] = 0  BY <1>1, SingleByte
<1>3. z \in Data /\ Len(z) = 1 /\ \A i \in 1 .. 1 : z[i] = 0  BY ZerosType
<1> HIDE DEF a, z
<1>4. \A i \in 1 .. Len(a) : a[i] = z[i]  BY <1>2, <1>3
<1>5. a = z  BY <1>2, <1>3, <1>4, SameData
<1> QED  BY <1>5 DEF a, z

\* Bytes are dropped while the next one starts with 0.
LEMMA DroppedIs ==
    ASSUME NEW b \in Data, NEW n, n = Dropped(b)
    PROVE  n \in 0 .. Len(b) /\ (\A i \in 1 .. n : Needless(b, i)) /\ ~Needless(b, n + 1)
<1> DEFINE m == Len(b)
           U == {k \in 0 .. m : ~Needless(b, k + 1)}
<1>1. m \in Nat  BY BytesOf
<1>2. ~Needless(b, m + 1)
  <2>1. Needless(b, m + 1) => m + 1 < m  BY DEF Needless
  <2> HIDE DEF m
  <2> QED  BY <1>1, <2>1
<1> HIDE DEF m
<1>3. m \in U /\ U \in SUBSET Nat  BY <1>1, <1>2
<1>4. PICK k \in U : \A j \in U : k <= j
  <2> HIDE DEF U
  <2> QED  BY <1>3, LeastElement
<1>5. k \in 0 .. m /\ ~Needless(b, k + 1)  OBVIOUS
<1>6. ASSUME NEW i \in 1 .. k PROVE Needless(b, i)
  <2>1. i - 1 \in 0 .. m /\ ~(k <= i - 1) /\ (i - 1) + 1 = i  BY <1>1, <1>5
  <2>2. i - 1 \notin U
    <3> HIDE DEF U
    <3> QED  BY <1>4, <2>1
  <2> QED  BY <2>1, <2>2
<1>7. \E j \in 0 .. Len(b) : (\A i \in 1 .. j : Needless(b, i)) /\ ~Needless(b, j + 1)
  BY <1>5, <1>6 DEF m
<1> QED  BY <1>7, Zenon DEF Dropped

\* The serializer cuts 0 and a scalar to the contents of that scalar.
LEMMA Shortened ==
    ASSUME NEW x, IsScalar(x)
    PROVE  IsContents(Shortest(<<0>> \o x), x)
<1> DEFINE z == Zeros(1)
           b == <<0>> \o x
           n == Dropped(b)
           p == n + 1
           m == 33 - n
           d == SubSeq(b, p, Len(b))
<1>1. x \in Data /\ Len(x) = 32 /\ InRange(x)  BY DEF IsScalar, IsNumber
<1>2. z \in Data /\ Len(z) = 1 /\ z[1] = 0
  <2>1. Zeros(1) \in Data /\ Len(Zeros(1)) = 1 /\ \A i \in 1 .. 1 : Zeros(1)[i] = 0  BY ZerosType
  <2>2. 1 \in 1 .. 1  OBVIOUS
  <2> QED  BY <2>1, <2>2
<1>3. IsJoined(b, z, x)  BY OneZero DEF IsJoined
<1>4. Shortest(b) = d  BY DEF Shortest
<1> HIDE DEF b
<1>5. b \in Data /\ Len(b) = 33
  <2> HIDE DEF z
  <2>1. b \in Data /\ Len(b) = Len(z) + Len(x)  BY ONLY <1>1, <1>2, <1>3, JoinLength
  <2> QED  BY <1>1, <1>2, <2>1
<1>6. b[1] = 0
  <2> HIDE DEF z
  <2>1. IsAt(b, 1, b)  BY <1>5, AtWhole
  <2>2. 1 \in Nat /\ 2 = 1 + Len(z)  BY <1>2
  <2>3. IsAt(b, 1, z)  BY ONLY <1>1, <1>2, <1>3, <1>5, <2>1, <2>2, JoinedIsAt
  <2>4. 1 \in 1 .. Len(z) /\ 1 + 1 - 1 = 1  BY <1>2
  <2>5. b[1] = z[1]  BY <2>3, <2>4 DEF IsAt
  <2> QED  BY <1>2, <2>5
<1>7. \A i \in 1 .. 33 : b[i] \in Nat /\ b[i] < 256  BY <1>5, BytesOf
<1>8. n \in 0 .. 33 /\ (\A i \in 1 .. n : Needless(b, i)) /\ ~Needless(b, p)
  <2> HIDE DEF n
  <2>1. n = Dropped(b)  BY DEF n
  <2> QED  BY <1>5, <2>1, DroppedIs
<1> HIDE DEF n
<1>9. \A i \in 1 .. n : i < 33 /\ b[i] = 0 /\ b[i + 1] < 128  BY <1>5, <1>8 DEF Needless
<1>10. n < 33 /\ n \in Nat /\ m \in Nat /\ m >= 1 /\ m <= 33 /\ p = n + 1 /\ 33 = n + m
  <2>1. n # 33
    <3> SUFFICES ASSUME n = 33 PROVE FALSE  OBVIOUS
    <3>1. 33 \in 1 .. n  OBVIOUS
    <3>2. 33 < 33  BY <1>9, <3>1
    <3> QED  BY <3>2
  <2> QED  BY <1>8, <2>1
<1>11. IsCut(d, b, p, Len(b))  BY DEF IsCut
<1> HIDE DEF d, m
<1>12. IsPart(d, b, n, m)
  <2>1. n + m <= Len(b) /\ Len(b) = n + m  BY <1>5, <1>10
  <2> QED  BY ONLY <1>5, <1>10, <1>11, <2>1, CutIsPart
<1>13. d \in Data /\ Len(d) = m /\ \A i \in 1 .. m : d[i] = b[n + i]  BY <1>12 DEF IsPart
<1>14. d[1] = b[p]
  <2>1. 1 \in 1 .. m /\ n + 1 = p  BY <1>10
  <2> QED  BY <1>13, <2>1
<1>15. d[1] < 128
  <2>1. CASE n = 0
    <3>1. p = 1  BY <2>1
    <3> QED  BY <1>6, <1>14, <3>1
  <2>2. CASE n # 0
    <3>1. n \in 1 .. n  BY <1>10, <2>2
    <3> QED  BY <1>9, <1>14, <3>1
  <2> QED  BY <2>1, <2>2
<1>16. ~Padded(d)
  <2> SUFFICES ASSUME Padded(d) PROVE FALSE  OBVIOUS
  <2>1. m > 1 /\ ((d[1] = 0 /\ d[2] < 128) \/ d[1] = 255)  BY <1>13 DEF Padded
  <2>2. p \in 1 .. 33  BY <1>10
  <2>3. d[1] # 255
    <3> SUFFICES ASSUME d[1] = 255 PROVE FALSE  OBVIOUS
    <3> QED  BY <1>15
  <2>4. 2 \in 1 .. m /\ n + 2 = p + 1 /\ p < 33  BY <1>10, <2>1
  <2>5. d[2] = b[p + 1]  BY <1>13, <2>4
  <2>6. Needless(b, p)  BY <1>5, <1>14, <2>1, <2>3, <2>4, <2>5 DEF Needless
  <2> QED  BY <1>8, <2>6
<1>17. IsMinimal(d)
  <2>1. Len(d) > 0  BY <1>10, <1>13
  <2> QED  BY <1>13, <1>16, <2>1, MinimalIs
<1>18. IsInteger(d) /\ Len(d) <= 33
  <2>1. Len(d) <= 33 /\ Len(d) \in Nat  BY <1>10, <1>13
  <2>2. Len(d) < 65536  BY <2>1
  <2> QED  BY <1>13, <1>17, <2>1, <2>2 DEF IsInteger
<1> DEFINE y == Zeros(n)
<1>19. IsJoined(b, y, d)
  <2>1. y \in Data /\ Len(y) = n /\ \A i \in 1 .. n : y[i] = 0  BY <1>10, ZerosType
  <2> HIDE DEF y
  <2> DEFINE e == y \o d
  <2>2. IsJoin(e, y, d, n, m)  BY <1>13, <2>1, JoinedAt
  <2> HIDE DEF e
  <2>3. e \in Data /\ Len(e) = n + m /\ (\A i \in 1 .. n : e[i] = y[i])
        /\ \A i \in 1 .. m : e[n + i] = d[i]
    BY <2>2 DEF IsJoin
  <2>4. ASSUME NEW i \in 1 .. 33 PROVE e[i] = b[i]
    <3>1. CASE i <= n
      <4>1. i \in 1 .. n  BY <1>10, <3>1
      <4> QED  BY <1>9, <2>1, <2>3, <4>1
    <3>2. CASE i > n
      <4>1. i - n \in 1 .. m /\ n + (i - n) = i  BY <1>10, <3>2
      <4> QED  BY <1>13, <2>3, <4>1
    <3>3. i <= n \/ i > n  BY <1>10
    <3> QED  BY <3>1, <3>2, <3>3
  <2>5. Len(e) = 33  BY <1>10, <2>3
  <2>6. \A i \in 1 .. Len(e) : e[i] = b[i]  BY <2>4, <2>5
  <2>7. e \in Data /\ Len(e) = Len(b)  BY <1>5, <2>3, <2>5
  <2>8. e = b  BY ONLY <1>5, <2>6, <2>7, SameData
  <2> QED  BY <2>8 DEF IsJoined, e
<1>20. WithoutZeros(d) = WithoutZeros(x)
  <2>1. WithoutZeros(b) = WithoutZeros(d)  BY ONLY <1>10, <1>13, <1>19, MoreLeading
  <2>2. WithoutZeros(b) = WithoutZeros(x)
    <3>1. 1 \in Nat  OBVIOUS
    <3> QED  BY ONLY <1>1, <1>3, <3>1, MoreLeading
  <2> QED  BY <2>1, <2>2
<1>21. StdScalar(d) = x
  <2> DEFINE w == WithoutZeros(x)
  <2>1. Len(w) <= 32 /\ ToScalar(w) = x  BY DigitsBack DEF IsScalar
  <2>2. WithoutZeros(d) = w  BY <1>20
  <2> HIDE DEF w
  <2>3. StdScalar(d) = ToScalar(w)  BY ONLY <1>1, <1>15, <2>1, <2>2 DEF StdScalar
  <2> QED  BY <2>1, <2>3
<1>22. IsContents(d, x)  BY ONLY <1>15, <1>18, <1>20, <1>21 DEF IsContents
<1> QED  BY <1>4, <1>22 DEF b

\* Nothing is stripped twice.
LEMMA DigitsStripped ==
    ASSUME NEW c \in Data
    PROVE  WithoutZeros(c) \in Data /\ WithoutZeros(WithoutZeros(c)) = WithoutZeros(c)
<1> DEFINE w == WithoutZeros(c)
           m == Len(c)
<1>1. PICK n : IsLeading(n, c)  BY LeadingExists
<1>2. IsRest(w, c, n)  BY <1>1, RestIs
<1>3. n \in 0 .. m /\ (n < m => c[n + 1] # 0) /\ m \in Nat  BY <1>1, BytesOf DEF IsLeading
<1>4. w \in Data /\ Len(w) = m - n /\ \A i \in 1 .. m - n : w[i] = c[n + i]
  BY <1>2 DEF IsRest, IsPart
<1> HIDE DEF m, w
<1>5. Len(w) > 0 => w[1] # 0
  <2> SUFFICES ASSUME Len(w) > 0 PROVE w[1] # 0  OBVIOUS
  <2>1. n < m /\ 1 \in 1 .. m - n  BY <1>3, <1>4
  <2> QED  BY <1>3, <1>4, <2>1
<1>6. WithoutZeros(w) = w  BY <1>4, <1>5, NoneLeading
<1> QED  BY <1>4, <1>6 DEF w

\* A number that is not 0 was read from these contents.
IsRead32(c, x) ==
    /\ c[1] < 128 /\ Len(WithoutZeros(c)) <= 32 /\ InRange(ToScalar(WithoutZeros(c)))
    /\ x = ToScalar(WithoutZeros(c)) /\ WithoutZeros(x) = WithoutZeros(c)

\* A scalar that is not 0 was read from its own digits.
LEMMA ScalarBack ==
    ASSUME NEW c, IsInteger(c), NEW x, x = StdScalar(c), x # Scalar0
    PROVE  IsRead32(c, x)
<1> DEFINE w == WithoutZeros(c)
<1>1. c[1] < 128 /\ Len(w) <= 32 /\ InRange(ToScalar(w))
  <2> SUFFICES ASSUME ~(c[1] < 128 /\ Len(w) <= 32 /\ InRange(ToScalar(w))) PROVE FALSE
    OBVIOUS
  <2>1. StdScalar(c) = Scalar0  BY DEF StdScalar
  <2> QED  BY <2>1
<1>2. x = ToScalar(w)  BY <1>1 DEF StdScalar
<1>3. c \in Data  BY DEF IsInteger
<1>4. w \in Data /\ WithoutZeros(w) = w  BY <1>3, DigitsStripped
<1> HIDE DEF w
<1>5. WithoutZeros(ToScalar(w)) = WithoutZeros(w)  BY <1>1, <1>4, DigitsOfScalar
<1>6. WithoutZeros(x) = w  BY <1>2, <1>4, <1>5
<1> QED  BY ONLY <1>1, <1>2, <1>6 DEF IsRead32, w

\* It is written with the same contents.
LEMMA ContentsUnique ==
    ASSUME NEW c, IsInteger(c), NEW x, x = StdScalar(c), x # Scalar0, NEW d, IsContents(d, x)
    PROVE  d = c
<1>1. IsRead32(c, x)  BY ScalarBack
<1>2. c[1] < 128 /\ WithoutZeros(x) = WithoutZeros(c)  BY <1>1 DEF IsRead32
<1>3. IsInteger(d) /\ d[1] < 128 /\ WithoutZeros(d) = WithoutZeros(x)  BY DEF IsContents
<1>4. WithoutZeros(d) = WithoutZeros(c)  BY <1>2, <1>3
<1> QED  BY ONLY IsInteger(c), <1>2, <1>3, <1>4, MinimalUnique

\* What is written, in short form.
Short(a, b) ==
    <<48, 4 + Len(a) + Len(b), 2, Len(a)>> \o a \o <<2, Len(b)>> \o b
IsWritten(e, a, b) ==
    e \in Data /\ Len(e) = 6 + Len(a) + Len(b) /\ Len(e) <= 72 /\ e = Short(a, b) /\ IsPair(e, a, b)

\* Bytes next to each other are a string of two bytes.
LEMMA TwoBytes ==
    ASSUME NEW a \in Byte, NEW b \in Byte
    PROVE  <<a>> \o <<b>> = <<a, b>> /\ <<a, b>> \in Data
<1>1. <<a>> \in Seq(Byte) /\ <<b>> \in Seq(Byte) /\ <<a, b>> \in Seq(Byte)  OBVIOUS
<1> DEFINE x == <<a>>
           y == <<b>>
           c == x \o y
           d == <<a, b>>
<1>2. x \in Data /\ Len(x) = 1 /\ y \in Data /\ Len(y) = 1 /\ x[1] = a /\ y[1] = b
  BY <1>1 DEF Data
<1>3. d \in Data /\ Len(d) = 2 /\ d[1] = a /\ d[2] = b  BY <1>1 DEF Data
<1> HIDE DEF x, y, d
<1>4. IsJoin(c, x, y, 1, 1)  BY <1>2, JoinedAt
<1> HIDE DEF c
<1>5. c \in Data /\ Len(c) = 2 /\ c[1] = a /\ c[2] = b
  <2>1. c \in Data /\ Len(c) = 1 + 1 /\ (\A i \in 1 .. 1 : c[i] = x[i])
        /\ \A i \in 1 .. 1 : c[1 + i] = y[i]
    BY <1>4 DEF IsJoin
  <2>2. 1 \in 1 .. 1 /\ 1 + 1 = 2  OBVIOUS
  <2>3. c[1] = x[1] /\ c[1 + 1] = y[1]  BY <2>1, <2>2
  <2> QED  BY <1>2, <2>1, <2>2, <2>3
<1>6. \A i \in 1 .. Len(c) : c[i] = d[i]
  <2>1. \A i \in 1 .. 2 : i = 1 \/ i = 2  OBVIOUS
  <2> QED  BY <1>3, <1>5, <2>1
<1>7. c = d  BY <1>3, <1>5, <1>6, SameData
<1> QED  BY <1>3, <1>7 DEF c, d, x, y

\* Two strings of two bytes are a string of four.
LEMMA FourBytes ==
    ASSUME NEW a \in Byte, NEW b \in Byte, NEW c \in Byte, NEW d \in Byte
    PROVE  <<a, b>> \o <<c, d>> = <<a, b, c, d>> /\ <<a, b, c, d>> \in Data
<1> DEFINE x == <<a, b>>
           y == <<c, d>>
           e == x \o y
           f == <<a, b, c, d>>
<1>1. x \in Data /\ Len(x) = 2 /\ x[1] = a /\ x[2] = b  BY DEF Data
<1>2. y \in Data /\ Len(y) = 2 /\ y[1] = c /\ y[2] = d  BY DEF Data
<1>3. f \in Data /\ Len(f) = 4 /\ f[1] = a /\ f[2] = b /\ f[3] = c /\ f[4] = d  BY DEF Data
<1> HIDE DEF x, y, f
<1>4. IsJoin(e, x, y, 2, 2)  BY <1>1, <1>2, JoinedAt
<1> HIDE DEF e
<1>5. e \in Data /\ Len(e) = 2 + 2 /\ (\A i \in 1 .. 2 : e[i] = x[i])
      /\ \A i \in 1 .. 2 : e[2 + i] = y[i]
  BY <1>4 DEF IsJoin
<1>6. 1 \in 1 .. 2 /\ 2 \in 1 .. 2 /\ 2 + 1 = 3 /\ 2 + 2 = 4  OBVIOUS
<1>7. e[1] = x[1] /\ e[2] = x[2] /\ e[2 + 1] = y[1] /\ e[2 + 2] = y[2]  BY <1>5, <1>6
<1>8. \A i \in 1 .. Len(e) : e[i] = f[i]
  <2>1. \A i \in 1 .. 4 : i = 1 \/ i = 2 \/ i = 3 \/ i = 4  OBVIOUS
  <2> QED  BY <1>1, <1>2, <1>3, <1>5, <1>6, <1>7, <2>1
<1>9. Len(e) = Len(f)  BY <1>3, <1>5, <1>6
<1>10. e = f  BY <1>3, <1>5, <1>8, <1>9, SameData
<1> QED  BY <1>3, <1>10 DEF e, f, x, y

\* A value with less than 128 bytes has a length of one byte.
LEMMA ShortTlv ==
    ASSUME NEW c \in Data, Len(c) < 128, NEW t \in Byte
    PROVE  Tlv(t, c) = <<t, Len(c)>> \o c /\ Size(Len(c)) = 2 + Len(c) /\ <<t, Len(c)>> \in Data
<1> DEFINE n == Len(c)
           h == <<t, n>>
<1>1. n \in Nat /\ n < 128  BY BytesOf
<1> HIDE DEF n
<1>2. n \in Byte  BY <1>1 DEF Byte
<1>3. DerLength(n) = <<n>> /\ Len(DerLength(n)) = 1
  <2>1. n < 65536  BY <1>1
  <2> QED  BY <1>1, <2>1, LengthForms
<1>4. <<t>> \o <<n>> = h /\ h \in Data  BY <1>2, TwoBytes
<1>5. Tlv(t, c) = (<<t>> \o <<n>>) \o c  BY ONLY <1>3 DEF Tlv, n
<1>6. Size(n) = 2 + n  BY <1>1, <1>3 DEF Size
<1>7. Tlv(t, c) = h \o c  BY ONLY <1>4, <1>5
<1> QED  BY ONLY <1>4, <1>6, <1>7 DEF n

\* The serializer writes the DER of both integers.
LEMMA WrittenIs ==
    ASSUME NEW a, NEW b, IsInteger(a), IsInteger(b), Len(a) <= 33, Len(b) <= 33
    PROVE  IsWritten(Short(a, b), a, b)
<1> DEFINE k == Len(a)
           n == Len(b)
           B == <<2, k>>
           C == <<2, n>>
           v == Tlv(2, a)
           w == Tlv(2, b)
           x == v \o w
           len == 4 + k + n
           A == <<48, len>>
           e == Tlv(48, x)
           h == <<48, len, 2, k>>
<1>1. a \in Data /\ b \in Data /\ k \in Nat /\ n \in Nat /\ k <= 33 /\ n <= 33
  BY BytesOf DEF IsInteger
<1>2. 2 \in Byte /\ 48 \in Byte  BY DEF Byte
<1>3. v = B \o a /\ Size(k) = 2 + k /\ B \in Data
  <2>1. Len(a) < 128  BY <1>1
  <2> QED  BY ONLY <1>1, <1>2, <2>1, ShortTlv
<1>4. w = C \o b /\ Size(n) = 2 + n /\ C \in Data
  <2>1. Len(b) < 128  BY <1>1
  <2> QED  BY ONLY <1>1, <1>2, <2>1, ShortTlv
<1>5. h = A \o B
  <2> HIDE DEF k, n
  <2>1. k \in Byte /\ len \in Byte  BY <1>1 DEF Byte
  <2> HIDE DEF len
  <2> QED  BY ONLY <1>2, <2>1, FourBytes
<1>6. v \in Data /\ Len(v) = 2 + k /\ w \in Data /\ Len(w) = 2 + n
  <2>1. Len(a) < 65536 /\ Len(b) < 65536  BY DEF IsInteger
  <2>2. IsTlv(2, a) /\ IsTlv(2, b)  BY ONLY <1>1, <1>2, <2>1, TlvIs
  <2>3. v \in Data /\ Len(v) = Size(k) /\ w \in Data /\ Len(w) = Size(n)  BY ONLY <2>2 DEF IsTlv
  <2> HIDE DEF v, w, k, n
  <2> QED  BY ONLY <1>3, <1>4, <2>3
<1>7. IsJoined(x, v, w)  BY DEF IsJoined
<1> HIDE DEF v, w
<1>8. x \in Data /\ Len(x) = Len(v) + Len(w)  BY ONLY <1>6, <1>7, JoinLength
<1>9. Len(x) = len /\ len < 128 /\ len \in Nat
  <2> HIDE DEF x, k, n
  <2> QED  BY ONLY <1>1, <1>6, <1>8 DEF len
<1>10. e = A \o x /\ A \in Data /\ Size(len) = 2 + len
  <2> HIDE DEF x, len
  <2>1. Len(x) < 128  BY <1>9
  <2> QED  BY ONLY <1>2, <1>8, <1>9, <2>1, ShortTlv
<1>11. IsTlv(48, x)
  <2> HIDE DEF x
  <2>1. Len(x) < 65536  BY <1>9
  <2> QED  BY ONLY <1>2, <1>8, <2>1, TlvIs
<1>12. e \in Data /\ Len(e) = 2 + len
  <2>1. e \in Data /\ Len(e) = Size(Len(x))  BY ONLY <1>11 DEF IsTlv
  <2> HIDE DEF e, x, len
  <2> QED  BY ONLY <1>9, <1>10, <2>1
<1>13. IsBody(x, a, b)
  <2> HIDE DEF x
  <2>1. Len(x) < 65536  BY <1>9
  <2> QED  BY <1>7, <2>1 DEF IsBody, v, w
<1>14. IsPair(e, a, b)
  <2> HIDE DEF x
  <2> QED  BY <1>13 DEF IsPair
<1>15. e = Short(a, b)
  <2>1. Short(a, b) = ((h \o a) \o C) \o b  BY DEF Short
  <2> HIDE DEF A, B, C, h, e
  <2>2. e = A \o (v \o w)  BY ONLY <1>10
  <2>3. (A \o v) \o w = A \o (v \o w)  BY ONLY <1>6, <1>10, JoinAssociative
  <2>4. (A \o B) \o a = A \o (B \o a)  BY ONLY <1>1, <1>3, <1>10, JoinAssociative
  <2> DEFINE y == A \o v
  <2>5. y = h \o a  BY ONLY <1>3, <1>5, <2>4
  <2>6. IsJoined(y, A, v)  BY DEF IsJoined
  <2>7. e = y \o w  BY ONLY <2>2, <2>3
  <2> HIDE DEF y
  <2>8. y \in Data  BY ONLY <1>6, <1>10, <2>6, JoinLength
  <2>9. (y \o C) \o b = y \o (C \o b)  BY ONLY <1>1, <1>4, <2>8, JoinAssociative
  <2> QED  BY ONLY <1>4, <2>1, <2>5, <2>7, <2>9
<1>16. Len(e) = 6 + k + n /\ Len(e) <= 72
  <2> HIDE DEF e, k, n
  <2> QED  BY ONLY <1>1, <1>12 DEF len
<1> HIDE DEF e
<1>17. IsWritten(e, a, b)  BY ONLY <1>12, <1>14, <1>15, <1>16 DEF IsWritten, k, n
<1> QED  BY <1>15, <1>17

\* The compact form: both numbers, one behind the other.
LEMMA CompactRead ==
    ASSUME NEW x, NEW y, IsNumber(x), IsNumber(y)
    PROVE  signature_parse_compact(x \o y) =
               IF InRange(x) /\ InRange(y) THEN [ret |-> TRUE, sig |-> Sig(x, y)] ELSE NoSig
<1> DEFINE e == x \o y
<1>1. x \in Data /\ Len(x) = 32 /\ y \in Data /\ Len(y) = 32  BY DEF IsNumber
<1>2. IsJoined(e, x, y)  BY DEF IsJoined
<1> HIDE DEF e
<1>3. e \in Data /\ Len(e) = Len(x) + Len(y)  BY ONLY <1>1, <1>2, JoinLength
<1>4. IsAt(e, 1, e)  BY <1>3, AtWhole
<1>5. 1 \in Nat /\ 33 = 1 + Len(x)  BY <1>1
<1>6. IsAt(e, 1, x) /\ IsAt(e, 33, y)
  <2> DEFINE p == 1
             q == 33
  <2>1. p \in Nat /\ q = p + Len(x) /\ IsAt(e, p, e)  BY <1>4, <1>5
  <2> HIDE DEF p, q
  <2>2. IsAt(e, p, x) /\ IsAt(e, q, y)  BY ONLY <1>1, <1>2, <1>3, <2>1, JoinedIsAt
  <2> QED  BY ONLY <2>2 DEF p, q
<1>7. 32 = 1 + Len(x) - 1 /\ 64 = 33 + Len(y) - 1  BY <1>1
<1>8. IsCut(x, e, 1, 32) /\ IsCut(y, e, 33, 64)  BY ONLY <1>1, <1>3, <1>6, <1>7, AtIsCut
<1>9. signature_parse_compact(e) =
          IF InRange(x) /\ InRange(y) THEN [ret |-> TRUE, sig |-> Sig(x, y)] ELSE NoSig
  BY ONLY <1>8 DEF IsCut, signature_parse_compact
<1> QED  BY ONLY <1>9 DEF e

\* The serializer writes if there is room, and always says how much it needs.
LEMMA SerializedIs ==
    ASSUME NEW c, NEW d, NEW n, NEW m, m = 6 + Len(c) + Len(d)
    PROVE  /\ Serialized(c, d, n).size = m
           /\ Serialized(c, d, n).ret <=> n >= m
           /\ n >= m => Serialized(c, d, n).out = Short(c, d)
<1> DEFINE o == Short(c, d)
           z == IF n >= m THEN o ELSE <<>>
           a == Serialized(c, d, n)
<1>1. a = [ret |-> n >= m, size |-> m, out |-> z]  BY Zenon DEF Serialized, Short
<1> HIDE DEF o, a
<1>2. n >= m => z = o  OBVIOUS
<1> HIDE DEF z
<1>3. a.size = m /\ a.out = z  BY ONLY <1>1
<1>4. a.ret <=> n >= m  BY ONLY <1>1
<1> QED  BY ONLY <1>2, <1>3, <1>4 DEF o, a

\* What was read is written back.
LEMMA WrittenBack ==
    ASSUME NEW e \in Data, Len(e) < 65536, NEW x, NEW y, NEW a, NEW b, IsPair(e, a, b),
           x = StdScalar(a), y = StdScalar(b), NEW z, z = Sig(x, y)
    PROVE  WritesBack(e, z)
<1> DEFINE c == Shortest(<<0>> \o x)
           d == Shortest(<<0>> \o y)
           m == 6 + Len(c) + Len(d)
           need == signature_serialize_der(z, 0)
           out == signature_serialize_der(z, need.size)
           o == Short(c, d)
<1>0. IsInteger(a) /\ IsInteger(b)  BY DEF IsPair, IsBody
<1>1. IsScalar(x) /\ IsScalar(y)  BY <1>0, StdScalarType DEF IsScalar
<1>2. IsContents(c, x) /\ IsContents(d, y)  BY <1>1, Shortened
<1>3. z.r = x /\ z.s = y  BY DEF Sig
<1> HIDE DEF c, d
<1>4. \A n : signature_serialize_der(z, n) = Serialized(c, d, n)
  BY <1>3 DEF signature_serialize_der, c, d
<1>5. IsInteger(c) /\ IsInteger(d) /\ Len(c) <= 33 /\ Len(d) <= 33  BY <1>2 DEF IsContents
<1>6. IsWritten(o, c, d)  BY <1>5, WrittenIs
<1> HIDE DEF o
<1>7. Len(c) \in Nat /\ Len(d) \in Nat
  <2>1. c \in Data /\ d \in Data  BY <1>5 DEF IsInteger
  <2> QED  BY <2>1, BytesOf
<1>8. need.size = m /\ ~need.ret
  <2>1. need = Serialized(c, d, 0)  BY <1>4
  <2>2. ~(0 >= m)  BY <1>7
  <2>3. m = 6 + Len(c) + Len(d)  OBVIOUS
  <2> HIDE DEF need, m
  <2>4. Serialized(c, d, 0).size = m /\ (Serialized(c, d, 0).ret <=> 0 >= m)
    BY ONLY <2>3, SerializedIs
  <2> QED  BY ONLY <2>1, <2>2, <2>4
<1>9. out.ret /\ out.out = o
  <2>1. out = Serialized(c, d, m)  BY <1>4, <1>8
  <2>2. m >= m  BY <1>7
  <2>3. m = 6 + Len(c) + Len(d)  OBVIOUS
  <2> HIDE DEF out, m
  <2>4. /\ Serialized(c, d, m).ret <=> m >= m
        /\ m >= m => Serialized(c, d, m).out = Short(c, d)
    BY ONLY <2>3, SerializedIs
  <2> QED  BY ONLY <2>1, <2>2, <2>4 DEF o
<1>10. o \in Data /\ Len(o) = m /\ m <= 72 /\ IsPair(o, c, d)  BY <1>6 DEF IsWritten
<1>11. signature_parse_der(o) = [ret |-> TRUE, sig |-> z]
  <2>1. Len(o) < 65536
    <3>1. m \in Nat  BY <1>7
    <3> HIDE DEF m
    <3> QED  BY <1>10, <3>1
  <2>2. IsReadPair(signature_parse_der(o), c, d)  BY <1>10, <2>1, PairRead
  <2>3. StdScalar(c) = x /\ StdScalar(d) = y  BY <1>2 DEF IsContents
  <2> QED  BY <2>2, <2>3 DEF IsReadPair
<1>12. (x # Scalar0 /\ y # Scalar0) => o = e
  <2> SUFFICES ASSUME x # Scalar0, y # Scalar0 PROVE o = e  OBVIOUS
  <2>1. c = a /\ d = b  BY ONLY <1>0, <1>2, x = StdScalar(a), y = StdScalar(b), x # Scalar0,
                            y # Scalar0, ContentsUnique
  <2>2. PICK v : IsBody(v, a, b) /\ e = Tlv(48, v)  BY DEF IsPair
  <2>3. PICK w : IsBody(w, c, d) /\ o = Tlv(48, w)  BY <1>10 DEF IsPair
  <2>4. v = w  BY <2>1, <2>2, <2>3 DEF IsBody, IsJoined
  <2> QED  BY <2>2, <2>3, <2>4
<1>13. signature_parse_compact(signature_serialize_compact(z)) = [ret |-> TRUE, sig |-> z]
  <2>1. signature_serialize_compact(z) = x \o y  BY <1>3 DEF signature_serialize_compact
  <2> DEFINE v == x \o y
  <2>2. signature_parse_compact(v) = [ret |-> TRUE, sig |-> z]  BY <1>1, CompactRead DEF IsScalar
  <2> HIDE DEF v
  <2>3. signature_serialize_compact(z) = v  BY <2>1 DEF v
  <2> QED  BY <2>2, <2>3
<1> HIDE DEF need, out, m
<1>14. /\ ~need.ret /\ out.ret /\ Len(out.out) = need.size /\ need.size <= 72
       /\ signature_parse_der(out.out) = [ret |-> TRUE, sig |-> z]
       /\ (z.r # Scalar0 /\ z.s # Scalar0) => out.out = e
       /\ signature_parse_compact(signature_serialize_compact(z)) = [ret |-> TRUE, sig |-> z]
  BY ONLY <1>3, <1>8, <1>9, <1>10, <1>11, <1>12, <1>13
<1> QED  BY ONLY <1>14 DEF WritesBack, need, out

-----------------------------------------------------------------------------
(* The lax parser *)

\* It reads the lengths that the strict parser reads.
LEMMA LaxLengthIs ==
    ASSUME NEW e \in Data, NEW p \in Nat, p >= 1, NEW len \in Nat, len < 65536,
           IsAt(e, p, DerLength(len))
    PROVE  IsLength(LaxLength(e, p), p, len)
<1>1. Len(e) \in Nat  BY BytesOf
<1>2. CASE len < 128
  <2>1. DerLength(len) = <<len>> /\ Len(DerLength(len)) = 1  BY <1>2, LengthForms
  <2>2. OneAt(e, p, len)
    <3> DEFINE d == DerLength(len)
    <3>1. d = <<len>> /\ IsAt(e, p, d)  BY <2>1
    <3> HIDE DEF d
    <3> QED  BY ONLY e \in Data, p \in Nat, p >= 1, <3>1, AtOne
  <2>3. ~(p > Len(e)) /\ e[p] = len  BY <1>1, <2>2 DEF OneAt
  <2>4. LaxLength(e, p) = Length(len, p + 1)  BY <1>2, <2>3 DEF LaxLength
  <2> QED  BY <2>1, <2>4 DEF IsLength
<1>3. CASE len >= 128
  <2>1. PICK k : IsLong(e, p, k, len) /\ HasValue(e, p + 1, k, len)  BY <1>3, LongLength
  <2> DEFINE q == p + 1
             z == p + 1 + k
             h == p + k
             d == SubSeq(e, q, h)
  <2>2. /\ e[p] = 128 + k /\ k \in Nat /\ k >= 1 /\ k <= 2 /\ q + k <= Len(e) + 1 /\ e[q] # 0
        /\ Len(DerLength(len)) = 1 + k /\ q \in Nat /\ q >= 1 /\ h = q + k - 1
    BY <2>1 DEF IsLong
  <2>3. IsPiece(d, e, q, k)
    <3>1. IsCut(d, e, q, h)  BY DEF d, IsCut
    <3> HIDE DEF h, d, q
    <3> QED  BY ONLY e \in Data, <2>2, <3>1, PartIsAt
  <2>4. ReadBE(d) = len
    <3> HIDE DEF d, q
    <3> QED  BY <2>1, <2>3 DEF q, HasValue
  <2>5. WithoutZeros(d) = d /\ Len(d) = k
    <3> HIDE DEF d, q, h
    <3>1. d \in Data /\ Len(d) = k /\ IsAt(e, q, d)  BY <2>3 DEF IsPiece
    <3>2. 1 \in 1 .. Len(d) /\ q + 1 - 1 = q  BY <2>2, <3>1
    <3>3. d[1] = e[q]  BY <3>1, <3>2 DEF IsAt
    <3>4. d[1] # 0  BY <2>2, <3>3
    <3>5. WithoutZeros(d) = d  BY <3>1, <3>4, NoneLeading
    <3> QED  BY <3>1, <3>5
  <2>6. ~(p > Len(e)) /\ ~(e[p] < 128) /\ ~(e[p] - 128 > Left(e, p + 1)) /\ p + e[p] - 128 = h
        /\ p + 1 + e[p] - 128 = z
    BY <1>1, <2>2 DEF Left
  <2>7. LaxLength(e, p) = LaxLong(e, z, WithoutZeros(d))
    <3> DEFINE i == p + e[p] - 128
               j == p + 1 + e[p] - 128
    <3>1. LaxLength(e, p) = LaxLong(e, j, WithoutZeros(SubSeq(e, p + 1, i)))
      BY ONLY <2>6 DEF LaxLength
    <3>2. i = h /\ j = z  BY <2>6
    <3> HIDE DEF i, j, h, z
    <3> QED  BY ONLY <3>1, <3>2 DEF d, q
  <2> HIDE DEF d
  <2>8. LaxLong(e, z, d) = Length(len, z)
    <3>1. ~(Len(d) >= 8)  BY <2>2, <2>5
    <3> HIDE DEF z
    <3> QED  BY ONLY <2>4, <3>1 DEF LaxLong
  <2>9. z = p + Len(DerLength(len))  BY <2>2
  <2> HIDE DEF z
  <2> QED  BY ONLY <2>5, <2>7, <2>8, <2>9 DEF IsLength
<1> QED  BY <1>2, <1>3

\* It reads the integers that the strict parser reads, without leading zeros.
IsReadLax(a, p, c) == a = [ret |-> TRUE, bytes |-> WithoutZeros(c), p |-> p + Size(Len(c))]

\* The integer of X.690 is read, without the zeros that lead.
LEMMA LaxIntegerIs ==
    ASSUME NEW e \in Data, Len(e) < 65536, NEW p \in Nat, p >= 1, NEW c, IsInt(e, p, c)
    PROVE  IsReadLax(LaxInteger(e, p), p, c)
<1>1. c \in Data /\ Len(c) < 65536 /\ IsAt(e, p, Tlv(2, c))  BY DEF IsInt, IsInteger
<1>2. 2 \in Byte  BY DEF Byte
<1>3. PICK q : IsOpened(e, p, 2, c, q)  BY <1>1, <1>2, ValueIsOpened
<1> DEFINE n == Len(c)
           l == Length(n, q)
           m == q + n - 1
           d == SubSeq(e, q, m)
           h == q + n
           o == p + 1
<1>4. n \in Nat /\ Len(e) \in Nat  BY <1>1, BytesOf
<1>5. q \in Nat /\ h = p + Size(n) /\ p <= Len(e) /\ e[p] = 2 /\ h <= Len(e) + 1 /\ IsAt(e, q, c)
      /\ q = o + Len(DerLength(n))
  BY <1>3 DEF IsOpened
<1>6. l.ret = TRUE /\ l.len = n /\ l.p = q  BY DEF Length
<1>7. IsCut(c, e, q, m)
  <2> HIDE DEF m
  <2>1. m = q + Len(c) - 1  BY DEF m
  <2> QED  BY ONLY e \in Data, <1>1, <1>5, <2>1, AtIsCut
<1>8. IsAt(e, o, DerLength(n))
  <2>1. ArePlaces(p, o, q, c)  BY <1>5 DEF ArePlaces
  <2> HIDE DEF o
  <2>2. ArePartsAt(e, p, o, q, 2, c)
    BY ONLY e \in Data, p \in Nat, p >= 1, <1>1, <1>2, <2>1, TlvAt
  <2> QED  BY ONLY <2>2 DEF ArePartsAt, n
<1>9. LaxLength(e, o) = l
  <2>1. o \in Nat /\ o >= 1 /\ n < 65536  BY <1>1
  <2> HIDE DEF o, n
  <2>2. IsLength(LaxLength(e, o), o, n)  BY ONLY e \in Data, <1>4, <1>8, <2>1, LaxLengthIs
  <2> QED  BY ONLY <1>5, <2>2 DEF IsLength, l
<1> HIDE DEF l, n
<1>10. LaxInteger(e, p) = LaxContent(e, l)
  <2>1. ~(p > Len(e)) /\ ~(e[p] # 2)  BY <1>4, <1>5
  <2> QED  BY ONLY <1>9, <2>1 DEF LaxInteger, o
<1>11. LaxContent(e, l) = [ret |-> TRUE, bytes |-> WithoutZeros(c), p |-> h]
  <2>1. l.ret /\ l.len <= Left(e, l.p)  BY <1>4, <1>5, <1>6 DEF Left
  <2>2. LaxContent(e, l) =
            [ret |-> TRUE, bytes |-> WithoutZeros(SubSeq(e, q, m)), p |-> h]
    BY ONLY <1>6, <2>1 DEF LaxContent
  <2>3. SubSeq(e, q, m) = c  BY ONLY <1>7 DEF IsCut
  <2> QED  BY ONLY <2>2, <2>3
<1> HIDE DEF h
<1> QED  BY ONLY <1>5, <1>10, <1>11 DEF IsReadLax, n

\* It reads the signatures that the strict parser reads.
LaxValue(a, b) ==
    [ret |-> TRUE,
     sig |-> IF Len(WithoutZeros(a)) > 32 \/ Len(WithoutZeros(b)) > 32 THEN NoSig.sig
             ELSE signature_parse_compact(
                      ToScalar(WithoutZeros(a)) \o ToScalar(WithoutZeros(b))).sig]

\* Both integers are read, and what they are is what the lax parser returns.
LEMMA LaxRead ==
    ASSUME NEW e \in Data, Len(e) < 65536, NEW a, NEW b, IsPair(e, a, b)
    PROVE  parse_der_lax(e) = LaxValue(a, b)
<1>1. PICK q, x : q >= 1 /\ IsOpened(e, 1, 48, x, q) /\ AreInts(e, q, a, b) /\ Len(x) = Left(e, q)
  BY PairIsOpened
<1>2. PICK y : IsBody(y, a, b) /\ e = Tlv(48, y)  BY DEF IsPair
<1>3. y \in Data /\ Len(y) < 65536 /\ 48 \in Byte  BY <1>2, BodySize DEF Byte
<1>4. 1 \in Nat /\ 1 >= 1 /\ 2 = 1 + 1  OBVIOUS
<1>5. PICK o : IsOpened(e, 1, 48, y, o) /\ IsAt(e, 2, DerLength(Len(y)))
  <2> DEFINE z == Tlv(48, y)
  <2>1. IsTlv(48, y)  BY ONLY <1>3, TlvIs
  <2>2. z \in Data  BY ONLY <2>1 DEF IsTlv
  <2>3. e = z  BY <1>2
  <2> HIDE DEF z
  <2>4. IsAt(e, 1, z)  BY <2>2, <2>3, AtWhole
  <2>5. PICK u : IsOpened(e, 1, 48, y, u)
    BY ONLY e \in Data, Len(e) < 65536, <1>3, <1>4, <2>4, ValueIsOpened DEF z
  <2> DEFINE i == 1
             j == i + 1
             k == j + Len(DerLength(Len(y)))
  <2>6. ArePlaces(i, j, k, y) /\ i \in Nat /\ i >= 1 /\ IsAt(e, i, Tlv(48, y))
    BY <2>4 DEF ArePlaces, z
  <2> HIDE DEF i, j, k
  <2>7. ArePartsAt(e, i, j, k, 48, y)  BY ONLY e \in Data, <1>3, <2>6, TlvAt
  <2>8. IsAt(e, j, DerLength(Len(y)))  BY ONLY <2>7 DEF ArePartsAt
  <2>9. IsAt(e, 2, DerLength(Len(y)))  BY ONLY <1>4, <2>8 DEF j, i
  <2> QED  BY <2>5, <2>9
<1> DEFINE n == Len(y)
           d == DerLength(n)
<1>6. n \in Nat /\ n < 65536 /\ Len(e) \in Nat  BY <1>3, BytesOf
<1>7. o \in Nat /\ o = 2 + Len(d) /\ der_read_len(e, 2) = Length(n, o) /\ e[1] = 48 /\ 1 <= Len(e)
  BY <1>4, <1>5 DEF IsOpened
<1>8. o = q
  <2>1. der_read_len(e, 2) = Length(Len(x), q)  BY <1>1, <1>4 DEF IsOpened
  <2>2. Length(n, o).p = o /\ Length(Len(x), q).p = q  BY DEF Length
  <2> QED  BY ONLY <1>7, <2>1, <2>2
<1> DEFINE skipped == IF e[2] >= 128 THEN e[2] - 128 ELSE 0
<1>9. Len(e) >= 2 /\ 3 + skipped = q /\ skipped \in Nat
  <2> HIDE DEF n
  <2>1. IsAt(e, 2, d)  BY <1>5 DEF n
  <2>2. CASE n < 128
    <3>1. d = <<n>> /\ Len(d) = 1  BY <1>6, <2>2, LengthForms
    <3> HIDE DEF d
    <3>2. OneAt(e, 2, n)
      <4>1. 2 \in Nat /\ 2 >= 1  OBVIOUS
      <4> QED  BY ONLY e \in Data, <2>1, <3>1, <4>1, AtOne
    <3>3. e[2] = n /\ 2 <= Len(e)  BY <3>2 DEF OneAt
    <3>4. skipped = 0  BY <1>6, <2>2, <3>3
    <3> HIDE DEF skipped
    <3> QED  BY ONLY <1>6, <1>7, <1>8, <3>1, <3>3, <3>4
  <2>3. CASE n >= 128
    <3> DEFINE p == 2
    <3>1. p \in Nat /\ p >= 1 /\ IsAt(e, p, DerLength(n))  BY <2>1
    <3> HIDE DEF p
    <3>2. PICK k : IsLong(e, p, k, n)  BY ONLY e \in Data, <1>6, <2>3, <3>1, LongLength
    <3>3. e[2] = 128 + k /\ k \in Nat /\ k >= 1 /\ 2 + 1 + k <= Len(e) + 1 /\ Len(d) = 1 + k
      BY ONLY <3>2 DEF IsLong, p
    <3> HIDE DEF d
    <3>4. skipped = k  BY <3>3
    <3> HIDE DEF skipped
    <3> QED  BY ONLY <1>6, <1>7, <1>8, <3>3, <3>4
  <2> QED  BY <1>6, <2>2, <2>3
<1>10. IsInt(e, q, a) /\ IsInt(e, q + Size(Len(a)), b)  BY <1>1 DEF AreInts
<1> DEFINE i == LaxInteger(e, q)
           z == q + Size(Len(a))
           j == LaxInteger(e, z)
<1>11. q \in Nat /\ z \in Nat /\ z >= 1
  <2>1. Size(Len(a)) \in Nat  BY <1>10, IntSize
  <2> QED  BY <1>1, <1>7, <1>8, <2>1
<1> HIDE DEF z
<1>12. IsReadLax(i, q, a) /\ IsReadLax(j, z, b)
  <2>1. IsInt(e, z, b)  BY <1>10 DEF z
  <2> QED  BY ONLY e \in Data, Len(e) < 65536, <1>1, <1>10, <1>11, <2>1, LaxIntegerIs
<1>13. i.ret = TRUE /\ i.bytes = WithoutZeros(a) /\ i.p = z
  <2> HIDE DEF i
  <2> QED  BY ONLY <1>12 DEF IsReadLax, z
<1>14. j.ret = TRUE /\ j.bytes = WithoutZeros(b)
  <2> HIDE DEF j
  <2> QED  BY ONLY <1>12 DEF IsReadLax
<1> HIDE DEF skipped
<1>15. parse_der_lax(e) = LaxFirst(e, i)
  <2>1. ~(Len(e) < 2) /\ ~(e[1] # 48)  BY <1>6, <1>7, <1>9
  <2>2. parse_der_lax(e) = LaxBody(e, skipped)  BY ONLY <2>1 DEF parse_der_lax, skipped
  <2>3. ~(skipped > Left(e, 3))
    <3>1. q <= Len(e) + 1
      <4>1. IsAt(e, q, Tlv(2, a))  BY <1>10 DEF IsInt
      <4>2. q + Len(Tlv(2, a)) <= Len(e) + 1  BY <4>1 DEF IsAt
      <4>3. Len(Tlv(2, a)) \in Nat
        <5>1. Tlv(2, a) \in Data  BY <1>10, IntSize
        <5> QED  BY <5>1, BytesOf
      <4> QED  BY <1>6, <1>11, <4>2, <4>3
    <3> QED  BY ONLY <1>6, <1>9, <1>11, <3>1 DEF Left
  <2>4. LaxBody(e, skipped) = LaxFirst(e, LaxInteger(e, 3 + skipped))  BY ONLY <2>3 DEF LaxBody
  <2> QED  BY ONLY <1>9, <2>2, <2>4
<1> HIDE DEF i
<1>16. LaxFirst(e, i) = LaxSig(WithoutZeros(a), j)  BY ONLY <1>13 DEF LaxFirst, j
<1> HIDE DEF j
<1>17. LaxSig(WithoutZeros(a), j) = LaxValue(a, b)
  <2> DEFINE u == WithoutZeros(a)
             w == WithoutZeros(b)
  <2>1. j.ret /\ j.bytes = w  BY ONLY <1>14
  <2> HIDE DEF u, w
  <2>2. LaxSig(u, j) =
            [ret |-> TRUE,
             sig |-> IF Len(u) > 32 \/ Len(w) > 32 THEN NoSig.sig
                     ELSE signature_parse_compact(ToScalar(u) \o ToScalar(w)).sig]
    BY ONLY <2>1 DEF LaxSig
  <2> QED  BY ONLY <2>2 DEF LaxValue, u, w
<1> QED  BY ONLY <1>15, <1>16, <1>17

\* That follows the strict parser: the same signature if it can be valid at
\* all, and no signature that can be valid for two numbers that are not
\* negative when the strict parser has none.
LEMMA LaxIsRight ==
    ASSUME NEW e \in Data, Len(e) < 65536, NEW a, NEW b, IsPair(e, a, b),
           NEW x, NEW y, x = StdScalar(a), y = StdScalar(b), NEW z, z.sig = Sig(x, y)
    PROVE  LaxFollows(e, z, LaxValue(a, b))
<1> DEFINE u == WithoutZeros(a)
           w == WithoutZeros(b)
           g == ToScalar(u)
           h == ToScalar(w)
           lax == LaxValue(a, b)
           t == Sig(x, y)
           none == NoSig.sig
           Short32 == Len(u) <= 32 /\ Len(w) <= 32
           Both == InRange(g) /\ InRange(h)
<1>0. IsInteger(a) /\ IsInteger(b)  BY DEF IsPair, IsBody
<1>1. u \in Data /\ w \in Data /\ Len(u) \in Nat /\ Len(w) \in Nat
  <2>1. a \in Data /\ b \in Data  BY <1>0 DEF IsInteger
  <2>2. u \in Data /\ w \in Data  BY <2>1, DigitsStripped
  <2> HIDE DEF u, w
  <2> QED  BY <2>2, BytesOf
<1>2. z.sig = t /\ t.r = x /\ t.s = y  BY DEF Sig
<1>3. none.r = Scalar0 /\ none.s = Scalar0  BY DEF NoSig, Sig
<1>4. lax.ret = TRUE
  BY DEF LaxValue
<1>5. lax.sig = IF Short32 /\ Both THEN Sig(g, h) ELSE none
  <2> DEFINE c == signature_parse_compact(g \o h)
  <2>1. lax.sig = IF Len(u) > 32 \/ Len(w) > 32 THEN none ELSE c.sig  BY DEF LaxValue
  <2> HIDE DEF u, w, lax, none
  <2>2. CASE ~Short32
    <3>1. Len(u) > 32 \/ Len(w) > 32  BY ONLY <1>1, <2>2
    <3> HIDE DEF c, g, h
    <3> QED  BY ONLY <2>1, <2>2, <3>1
  <2>3. CASE Short32
    <3>1. ~(Len(u) > 32 \/ Len(w) > 32)  BY ONLY <1>1, <2>3
    <3>2. IsNumber(g) /\ IsNumber(h)  BY ONLY <1>1, <2>3, ToScalarIs
    <3> HIDE DEF g, h
    <3>3. c = IF InRange(g) /\ InRange(h) THEN [ret |-> TRUE, sig |-> Sig(g, h)] ELSE NoSig
      BY ONLY <3>2, CompactRead
    <3> HIDE DEF c
    <3>4. CASE Both
      <4>1. c.sig = Sig(g, h)  BY ONLY <3>3, <3>4
      <4> QED  BY ONLY <2>1, <2>3, <3>1, <3>4, <4>1
    <3>5. CASE ~Both
      <4>1. c = NoSig  BY ONLY <3>3, <3>5
      <4> QED  BY ONLY <2>1, <3>1, <3>5, <4>1 DEF none
    <3> QED  BY <3>4, <3>5
  <2> QED  BY <2>2, <2>3
<1> HIDE DEF lax, none
<1>6. ASSUME CanVerify(t) PROVE lax.sig = t
  <2>1. x # Scalar0 /\ y # Scalar0  BY <1>2, <1>6 DEF CanVerify
  <2>2. IsRead32(a, x) /\ IsRead32(b, y)
    BY ONLY <1>0, <2>1, x = StdScalar(a), y = StdScalar(b), ScalarBack
  <2>3. Short32 /\ Both /\ x = g /\ y = h  BY ONLY <2>2 DEF IsRead32
  <2> HIDE DEF g, h, u, w
  <2> QED  BY ONLY <1>5, <2>3
<1>7. ASSUME a[1] < 128, b[1] < 128, CanVerify(lax.sig) PROVE CanVerify(t)
  <2>1. Short32 /\ Both
    <3> SUFFICES ASSUME ~(Short32 /\ Both) PROVE FALSE  OBVIOUS
    <3> HIDE DEF g, h, u, w
    <3>1. lax.sig = none  BY ONLY <1>5, ~(Short32 /\ Both)
    <3> QED  BY ONLY <1>3, <1>7, <3>1 DEF CanVerify
  <2>2. x = g /\ y = h  BY <1>7, <2>1 DEF StdScalar
  <2> HIDE DEF g, h, u, w
  <2>3. lax.sig = Sig(g, h)  BY ONLY <1>5, <2>1
  <2> QED  BY ONLY <1>7, <2>2, <2>3
<1>8. (\A c \in PairsIn(e) : c[1][1] < 128 /\ c[2][1] < 128) =>
          (CanVerify(lax.sig) <=> CanVerify(t))
  <2> SUFFICES ASSUME \A c \in PairsIn(e) : c[1][1] < 128 /\ c[2][1] < 128
               PROVE  CanVerify(lax.sig) <=> CanVerify(t)
    OBVIOUS
  <2>1. <<a, b>> \in PairsIn(e)  BY SignatureIsPair
  <2> DEFINE c == <<a, b>>
  <2>2. c[1] = a /\ c[2] = b  OBVIOUS
  <2>3. c \in PairsIn(e)  BY <2>1
  <2> HIDE DEF c
  <2>4. a[1] < 128 /\ b[1] < 128  BY <2>2, <2>3
  <2> HIDE DEF t
  <2>5. CanVerify(t) => CanVerify(lax.sig)  BY ONLY <1>6
  <2>6. CanVerify(lax.sig) => CanVerify(t)  BY ONLY <1>7, <2>4
  <2> QED  BY ONLY <2>5, <2>6
<1> HIDE DEF t
<1>9. CanVerify(t) => lax.sig = t  BY ONLY <1>6
<1>10. LaxFollows(e, z, lax)  BY ONLY <1>2, <1>4, <1>8, <1>9, Zenon DEF LaxFollows
<1> QED  BY ONLY <1>10 DEF lax

-----------------------------------------------------------------------------
(* Keys *)

\* An exported key: len bytes behind a length of n bytes, with the key at q + 5.
IsHeader(e, n, len, q) ==
    /\ e[1] = 48 /\ e[2] = 128 + n /\ (n = 1 \/ n = 2) /\ q = 3 + n
    /\ n = 1 => e[3] = len
    /\ n = 2 => e[4] + e[3] * 256 = len
    /\ e[q] = 2 /\ e[q + 1] = 1 /\ e[q + 2] = 1 /\ e[q + 3] = 4 /\ e[q + 4] = 32
IsKeyFile(e, n, len, q, key) ==
    /\ e \in Data /\ IsHeader(e, n, len, q) /\ IsAt(e, q + 5, key)
    /\ len \in Nat /\ len >= 100 /\ Len(e) = 2 + n + len

\* A whole file is imported.
LEMMA ImportedIs ==
    ASSUME NEW key, IsNumber(key), NEW e, NEW n, NEW len, NEW q, IsKeyFile(e, n, len, q, key)
    PROVE  privkey_import_der(e) = Imported(key)
<1>1. e \in Data /\ IsAt(e, q + 5, key) /\ len \in Nat /\ len >= 100 /\ Len(e) = 2 + n + len
  BY DEF IsKeyFile
<1>2. /\ e[1] = 48 /\ e[2] = 128 + n /\ (n = 1 \/ n = 2) /\ q = 3 + n
      /\ n = 1 => e[3] = len
      /\ n = 2 => e[4] + e[3] * 256 = len
      /\ e[q] = 2 /\ e[q + 1] = 1 /\ e[q + 2] = 1 /\ e[q + 3] = 4 /\ e[q + 4] = 32
  BY DEF IsKeyFile, IsHeader
<1>3. key \in Data /\ Len(key) = 32  BY DEF IsNumber
<1>4. q \in Nat /\ q >= 1 /\ n \in Nat  BY <1>2
<1> DEFINE m == Len(e)
<1>5. m \in Nat /\ m = 2 + n + len  BY <1>1, BytesOf
<1>6. privkey_import_der(e) = Sequence(e, n)
  <2>1. ~(m < 2) /\ ~(e[1] # 48 \/ e[2] < 128) /\ e[2] - 128 = n  BY <1>1, <1>2, <1>4, <1>5
  <2>2. privkey_import_der(e) = Sequence(e, e[2] - 128)  BY ONLY <2>1 DEF privkey_import_der
  <2> QED  BY ONLY <2>1, <2>2
<1> DEFINE big == e[2 + n] + (IF n > 1 THEN e[1 + n] * 256 ELSE 0)
<1>7. big = len
  <2>1. CASE n = 1
    <3>1. big = e[3] + 0 /\ e[3] = len  BY <1>2, <2>1
    <3> HIDE DEF big
    <3> QED  BY <1>1, <3>1
  <2>2. CASE n = 2  BY <1>2, <2>2
  <2> QED  BY <1>2, <2>1, <2>2
<1>8. Sequence(e, n) = Version(e, q, len)
  <2>1. ~(n < 1 \/ n > 2 \/ Left(e, 3) < n)  BY <1>1, <1>2, <1>4, <1>5 DEF Left
  <2>2. Sequence(e, n) = Version(e, 3 + n, big)  BY ONLY <2>1 DEF Sequence
  <2> HIDE DEF big
  <2> QED  BY ONLY <1>2, <1>7, <2>2
<1> HIDE DEF m
<1>9. Left(e, q) = len /\ Left(e, q + 3) = len - 3 /\ Len(e) = q - 1 + len
  BY <1>1, <1>2, <1>4, <1>5 DEF Left, m
<1> DEFINE p == q + 3
           d == <<2, 1, 1>>
<1>10. Version(e, q, len) = OctetString(e, p)
  <2>1. ~(Left(e, q) < len \/ Left(e, q) < 3)  BY <1>1, <1>9
  <2>2. d \in Data /\ Len(d) = 3
    <3>1. 2 \in Byte /\ 1 \in Byte  BY DEF Byte
    <3> QED  BY <3>1 DEF Data
  <2>3. ThreeAt(e, q, 2, 1, 1)  BY ONLY <1>1, <1>2, <1>4, <1>9 DEF ThreeAt
  <2> HIDE DEF d
  <2>4. IsAt(e, q, d)
    <3>1. d = <<2, 1, 1>>  BY DEF d
    <3> QED  BY ONLY <1>1, <1>4, <2>3, <3>1, AtThree
  <2> DEFINE h == q + 2
  <2>5. h = q + Len(d) - 1  BY <1>4, <2>2
  <2> HIDE DEF h
  <2>6. IsCut(d, e, q, h)  BY ONLY <1>1, <2>2, <2>4, <2>5, AtIsCut
  <2>7. SubSeq(e, q, q + 2) = d  BY ONLY <2>6 DEF IsCut, h
  <2> QED  BY ONLY <2>1, <2>7 DEF Version, d
<1>11. e[p] = 4 /\ e[p + 1] = 32 /\ p + 2 = q + 5 /\ p \in Nat  BY <1>2, <1>4
<1> DEFINE f == p + 2
           g == p + 1 + e[p + 1]
<1>12. IsCut(key, e, f, g)
  <2>1. g = f + Len(key) - 1  BY <1>3, <1>11
  <2>2. IsAt(e, f, key)  BY <1>1, <1>11
  <2> HIDE DEF f, g
  <2> QED  BY ONLY <1>1, <1>3, <2>1, <2>2, AtIsCut
<1>13. OctetString(e, p) = Imported(ToScalar(SubSeq(e, f, g)))
  <2>1. ~(Left(e, p) < 2) /\ ~(e[p] # 4 \/ e[p + 1] > 32 \/ Left(e, p) < 2 + e[p + 1])
    BY <1>1, <1>9, <1>11
  <2> QED  BY ONLY <2>1 DEF OctetString
<1>14. SubSeq(e, f, g) = key  BY ONLY <1>12 DEF IsCut
<1>15. ToScalar(key) = key
  <2> DEFINE z == Zeros(0)
             k == 0
  <2>1. z \in Data /\ Len(z) = 0  BY ZerosType
  <2>2. k = 32 - Len(key) /\ Len(key) <= 32  BY <1>3
  <2>3. <<>> \in Data /\ Len(<<>>) = 0  BY DEF Data
  <2>4. z = <<>>
    <3> DEFINE w == <<>>
    <3>1. w \in Data /\ Len(w) = 0  BY <2>3
    <3> HIDE DEF w, z
    <3>2. \A i \in 1 .. Len(z) : z[i] = w[i]  BY <2>1
    <3>3. z = w  BY <2>1, <3>1, <3>2, SameData
    <3> QED  BY <3>3 DEF w
  <2>5. IsJoined(ToScalar(key), Zeros(k), key)
    <3> HIDE DEF k
    <3> QED  BY ONLY <1>3, <2>2, ToScalarIs
  <2>6. ToScalar(key) = <<>> \o key  BY ONLY <2>4, <2>5 DEF IsJoined
  <2>7. <<>> \o key = key  BY ONLY <1>3, JoinEmpty
  <2> QED  BY ONLY <2>6, <2>7
<1> HIDE DEF p, f, g
<1> QED  BY ONLY <1>6, <1>8, <1>10, <1>13, <1>14, <1>15 DEF p

\* The first m bytes are not imported, if they are not all.
LEMMA PartIsNoKey ==
    ASSUME NEW key, NEW e, NEW n, NEW len, NEW q, IsKeyFile(e, n, len, q, key),
           NEW m \in Nat, m < Len(e), NEW d, IsCut(d, e, 1, m)
    PROVE  privkey_import_der(d) = NoKey
<1>1. e \in Data /\ len \in Nat /\ len >= 100 /\ Len(e) = 2 + n + len  BY DEF IsKeyFile
<1>2. /\ e[1] = 48 /\ e[2] = 128 + n /\ (n = 1 \/ n = 2)
      /\ n = 1 => e[3] = len
      /\ n = 2 => e[4] + e[3] * 256 = len
  BY DEF IsKeyFile, IsHeader
<1>3. n \in Nat /\ Len(e) \in Nat  BY <1>1, <1>2, BytesOf
<1>4. IsPart(d, e, 0, m)
  <2>1. 0 \in Nat /\ 1 = 0 + 1 /\ m = 0 + m /\ 0 + m <= Len(e)  BY <1>3
  <2> QED  BY ONLY m \in Nat, IsCut(d, e, 1, m), <1>1, <2>1, CutIsPart
<1>5. Len(d) = m /\ \A i \in 1 .. m : d[i] = e[i]
  <2>1. Len(d) = m /\ \A i \in 1 .. m : d[i] = e[0 + i]  BY <1>4 DEF IsPart
  <2>2. ASSUME NEW i \in 1 .. m PROVE d[i] = e[i]
    <3>1. 0 + i = i  OBVIOUS
    <3>2. d[i] = e[0 + i]  BY <2>1
    <3> QED  BY <3>1, <3>2
  <2> QED  BY <2>1, <2>2
<1>6. CASE m < 2
  <2>1. Len(d) < 2  BY <1>5, <1>6
  <2> QED  BY ONLY <2>1 DEF privkey_import_der
<1>7. CASE m >= 2
  <2>1. d[1] = 48 /\ d[2] = 128 + n
    <3>1. 1 \in 1 .. m /\ 2 \in 1 .. m  BY <1>7
    <3> QED  BY <1>2, <1>5, <3>1
  <2>2. privkey_import_der(d) = Sequence(d, n)
    <3>1. ~(Len(d) < 2) /\ ~(d[1] # 48 \/ d[2] < 128) /\ d[2] - 128 = n
      BY <1>3, <1>5, <1>7, <2>1
    <3>2. privkey_import_der(d) = Sequence(d, d[2] - 128)  BY ONLY <3>1 DEF privkey_import_der
    <3> QED  BY ONLY <3>1, <3>2
  <2>3. CASE Left(d, 3) < n
    <3>1. Sequence(d, n) = NoKey  BY ONLY <2>3 DEF Sequence
    <3> QED  BY <2>2, <3>1
  <2>4. CASE ~(Left(d, 3) < n)
    <3> DEFINE big == d[2 + n] + (IF n > 1 THEN d[1 + n] * 256 ELSE 0)
    <3>1. ~(n < 1 \/ n > 2 \/ Left(d, 3) < n)  BY <1>2, <2>4
    <3>2. Sequence(d, n) = Version(d, 3 + n, big)  BY ONLY <3>1 DEF Sequence
    <3>3. m >= 2 + n  BY <1>3, <1>5, <2>4 DEF Left
    <3>4. big = len
      <4>1. CASE n = 1
        <5>1. 3 \in 1 .. m  BY <3>3, <4>1
        <5>2. big = d[3] + 0 /\ d[3] = len  BY <1>2, <1>5, <4>1, <5>1
        <5> HIDE DEF big
        <5> QED  BY <1>1, <5>2
      <4>2. CASE n = 2
        <5>1. 3 \in 1 .. m /\ 4 \in 1 .. m  BY <3>3, <4>2
        <5>2. d[3] = e[3] /\ d[4] = e[4]  BY <1>5, <5>1
        <5> QED  BY <1>2, <4>2, <5>2
      <4> QED  BY <1>2, <4>1, <4>2
    <3> HIDE DEF big
    <3>5. Left(d, 3 + n) < big  BY <1>1, <1>3, <1>5, <3>4 DEF Left
    <3>6. Version(d, 3 + n, big) = NoKey  BY ONLY <3>5 DEF Version
    <3> QED  BY <2>2, <3>2, <3>6
  <2> QED  BY <2>3, <2>4
<1> QED  BY <1>6, <1>7

IsThree(e, h, key, n) == e = h \o key \o Zeros(n)
IsExport(e, h, key, n, q) ==
    e \in Data /\ Len(e) = Len(h) + 32 + n /\ IsAt(e, 1, h) /\ IsAt(e, q, key)

\* What is exported: a header, the key, and more.
LEMMA ExportParts ==
    ASSUME NEW h \in Data, NEW key, IsNumber(key), NEW n \in Nat, NEW e, IsThree(e, h, key, n),
           NEW q, q = 1 + Len(h)
    PROVE  IsExport(e, h, key, n, q)
<1> DEFINE z == Zeros(n)
           a == h \o key
<1>1. key \in Data /\ Len(key) = 32  BY DEF IsNumber
<1>2. z \in Data /\ Len(z) = n  BY ZerosType
<1>3. IsJoined(a, h, key) /\ IsJoined(e, a, z)  BY DEF IsJoined, IsThree
<1> HIDE DEF a, z
<1>4. a \in Data /\ Len(a) = Len(h) + Len(key)  BY ONLY h \in Data, <1>1, <1>3, JoinLength
<1>5. e \in Data /\ Len(e) = Len(a) + Len(z)  BY ONLY <1>2, <1>3, <1>4, JoinLength
<1> DEFINE p == 1
           o == p + Len(a)
<1>6. IsAt(e, p, e) /\ p \in Nat  BY <1>5, AtWhole
<1>7. q = p + Len(h)  OBVIOUS
<1> HIDE DEF p
<1>8. o = p + Len(a)  BY DEF o
<1> HIDE DEF o
<1>9. IsAt(e, p, a)  BY ONLY <1>2, <1>3, <1>4, <1>5, <1>6, <1>8, JoinedIsAt
<1>10. IsAt(e, p, h) /\ IsAt(e, q, key)
  BY ONLY h \in Data, <1>1, <1>3, <1>5, <1>6, <1>7, <1>9, JoinedIsAt
<1>11. Len(h) \in Nat  BY BytesOf
<1> QED  BY <1>1, <1>2, <1>4, <1>5, <1>10, <1>11 DEF p, IsExport

\* What is exported, in either form, is such a file.
LEMMA KeyFileIs ==
    ASSUME NEW key, IsNumber(key), NEW compressed \in BOOLEAN, NEW e,
           e = KeyFile(key, compressed)
    PROVE  \E n, len, q : IsKeyFile(e, n, len, q, key)
<1>1. CASE compressed
  <2> DEFINE h == <<48, 129, 211, 2, 1, 1, 4, 32>>
             q == 1 + Len(h)
  <2>1. h \in Data /\ Len(h) = 8
    <3>1. 48 \in Byte /\ 129 \in Byte /\ 211 \in Byte /\ 2 \in Byte /\ 1 \in Byte /\ 4 \in Byte
          /\ 32 \in Byte
      BY DEF Byte
    <3> QED  BY <3>1 DEF Data
  <2>2. /\ h[1] = 48 /\ h[2] = 129 /\ h[3] = 211 /\ h[4] = 2 /\ h[5] = 1 /\ h[6] = 1 /\ h[7] = 4
        /\ h[8] = 32
    OBVIOUS
  <2>3. e = h \o key \o Zeros(174)
    <3>1. Curve(compressed) = Zeros(141 + 33)  BY <1>1 DEF Curve
    <3>2. 141 + 33 = 174  OBVIOUS
    <3>3. e = h \o key \o Curve(compressed)  BY <1>1 DEF KeyFile
    <3> HIDE DEF h
    <3> QED  BY ONLY <3>1, <3>2, <3>3
  <2> HIDE DEF h
  <2>4. 174 \in Nat /\ q = 9  BY <2>1
  <2>5. e \in Data /\ Len(e) = Len(h) + 32 + 174 /\ IsAt(e, 1, h) /\ IsAt(e, q, key)
    <3> DEFINE n == 174
    <3>1. n \in Nat /\ IsThree(e, h, key, n)  BY <2>3 DEF IsThree
    <3> HIDE DEF n
    <3>2. q = 1 + Len(h)  OBVIOUS
    <3> HIDE DEF q
    <3>3. IsExport(e, h, key, n, q)  BY ONLY IsNumber(key), <2>1, <3>1, <3>2, ExportParts
    <3> QED  BY ONLY <3>3 DEF n, IsExport
  <2>6. \A i \in 1 .. 8 : e[1 + i - 1] = h[i]  BY ONLY <2>1, <2>5 DEF IsAt
  <2>7. \A i \in 1 .. 8 : e[i] = h[i]
    <3>1. \A i \in 1 .. 8 : 1 + i - 1 = i  OBVIOUS
    <3> QED  BY ONLY <2>6, <3>1
  <2>8. e[1] = 48 /\ e[2] = 129 /\ e[3] = 211 /\ e[4] = 2 /\ e[5] = 1 /\ e[6] = 1 /\ e[7] = 4
        /\ e[8] = 32
    BY ONLY <2>2, <2>7
  <2>9. IsHeader(e, 1, 211, 4)  BY ONLY <2>8 DEF IsHeader
  <2>10. IsKeyFile(e, 1, 211, 4, key)  BY ONLY <2>1, <2>4, <2>5, <2>9 DEF IsKeyFile
  <2> QED  BY <2>10
<1>2. CASE ~compressed
  <2> DEFINE h == <<48, 130, 1, 19, 2, 1, 1, 4, 32>>
             q == 1 + Len(h)
  <2>1. h \in Data /\ Len(h) = 9
    <3>1. 48 \in Byte /\ 130 \in Byte /\ 19 \in Byte /\ 2 \in Byte /\ 1 \in Byte /\ 4 \in Byte
          /\ 32 \in Byte
      BY DEF Byte
    <3> QED  BY <3>1 DEF Data
  <2>2. /\ h[1] = 48 /\ h[2] = 130 /\ h[3] = 1 /\ h[4] = 19 /\ h[5] = 2 /\ h[6] = 1 /\ h[7] = 1
        /\ h[8] = 4 /\ h[9] = 32
    OBVIOUS
  <2>3. e = h \o key \o Zeros(238)
    <3>1. Curve(compressed) = Zeros(173 + 65)  BY <1>2 DEF Curve
    <3>2. 173 + 65 = 238  OBVIOUS
    <3>3. e = h \o key \o Curve(compressed)  BY <1>2 DEF KeyFile
    <3> HIDE DEF h
    <3> QED  BY ONLY <3>1, <3>2, <3>3
  <2> HIDE DEF h
  <2>4. q = 10  BY <2>1
  <2>5. e \in Data /\ Len(e) = Len(h) + 32 + 238 /\ IsAt(e, 1, h) /\ IsAt(e, q, key)
    <3> DEFINE n == 238
    <3>1. n \in Nat /\ IsThree(e, h, key, n)  BY <2>3 DEF IsThree
    <3> HIDE DEF n
    <3>2. q = 1 + Len(h)  OBVIOUS
    <3> HIDE DEF q
    <3>3. IsExport(e, h, key, n, q)  BY ONLY IsNumber(key), <2>1, <3>1, <3>2, ExportParts
    <3> QED  BY ONLY <3>3 DEF n, IsExport
  <2>6. \A i \in 1 .. 9 : e[1 + i - 1] = h[i]  BY ONLY <2>1, <2>5 DEF IsAt
  <2>7. \A i \in 1 .. 9 : e[i] = h[i]
    <3>1. \A i \in 1 .. 9 : 1 + i - 1 = i  OBVIOUS
    <3> QED  BY ONLY <2>6, <3>1
  <2>8. e[1] = 48 /\ e[2] = 130 /\ e[3] = 1 /\ e[4] = 19 /\ e[5] = 2 /\ e[6] = 1 /\ e[7] = 1
        /\ e[8] = 4 /\ e[9] = 32
    BY ONLY <2>2, <2>7
  <2>9. IsHeader(e, 2, 275, 5)  BY ONLY <2>8 DEF IsHeader
  <2>10. IsKeyFile(e, 2, 275, 5, key)  BY ONLY <2>1, <2>4, <2>5, <2>9 DEF IsKeyFile
  <2> QED  BY <2>10
<1> QED  BY <1>1, <1>2

-----------------------------------------------------------------------------
(* Inputs *)

\* Bytes, at most n of them.
IsBrief(e, n) == e \in Data /\ Len(e) <= n
IsInput(e) == e \in Data /\ Len(e) < 65536

\* The sizes of two strings add up.
LEMMA ShortJoin ==
    ASSUME NEW a, NEW b, NEW m \in Nat, NEW n \in Nat, IsBrief(a, m), IsBrief(b, n),
           NEW k \in Nat, m + n <= k
    PROVE  IsBrief(a \o b, k)
<1> DEFINE c == a \o b
<1>1. a \in Data /\ b \in Data /\ Len(a) <= m /\ Len(b) <= n  BY DEF IsBrief
<1>2. IsJoined(c, a, b)  BY DEF IsJoined
<1> HIDE DEF c
<1>3. c \in Data /\ Len(c) = Len(a) + Len(b)  BY ONLY <1>1, <1>2, JoinLength
<1>4. Len(a) \in Nat /\ Len(b) \in Nat  BY <1>1, BytesOf
<1>5. Len(c) <= k  BY <1>1, <1>3, <1>4
<1> QED  BY <1>3, <1>5 DEF IsBrief, c

\* A value is at most four bytes longer than its contents.
LEMMA ShortValue ==
    ASSUME NEW c, NEW n \in Nat, n < 65536, IsBrief(c, n), NEW t \in Byte, NEW k \in Nat, n + 4 <= k
    PROVE  IsBrief(Tlv(t, c), k) /\ Len(Tlv(t, c)) >= 2 + Len(c)
<1> DEFINE z == Tlv(t, c)
           d == DerLength(Len(c))
           m == Len(c)
<1>1. c \in Data /\ m <= n /\ m \in Nat  BY BytesOf DEF IsBrief
<1>2. IsTlv(t, c)
  <2>1. Len(c) < 65536  BY <1>1
  <2> QED  BY ONLY <1>1, <2>1, t \in Byte, TlvIs
<1> DEFINE x == Len(z)
           y == Len(d)
<1>3. z \in Data /\ x = 1 + y + m /\ y \in 1 .. 3  BY ONLY <1>2 DEF IsTlv
<1> HIDE DEF x, y
<1>4. x <= k /\ x >= 2 + m
  <2> HIDE DEF m
  <2> QED  BY ONLY n \in Nat, k \in Nat, n + 4 <= k, <1>1, <1>3
<1> HIDE DEF z, d, m
<1> QED  BY ONLY <1>3, <1>4 DEF IsBrief, z, m, x

\* A length has three bytes at most.
LEMMA ShorterForm ==
    ASSUME NEW len \in Nat, len < 65536
    PROVE  IsBrief(DerLength(len), 10)
<1>1. len < 128 \/ (len >= 128 /\ len < 256) \/ len >= 256  OBVIOUS
<1>2. DerLength(len) \in Data /\ Len(DerLength(len)) \in 1 .. 3  BY <1>1, LengthForms
<1> DEFINE y == Len(DerLength(len))
<1>3. y \in 1 .. 3  BY <1>2
<1> HIDE DEF y
<1>4. y <= 10  BY <1>3
<1> QED  BY ONLY <1>2, <1>4 DEF IsBrief, y

\* The forms of a length that are written out: one byte,
LEMMA FormOfOne ==
    ASSUME NEW a \in Byte
    PROVE  IsBrief(<<a>>, 10)
<1>1. <<a>> \in Data /\ Len(<<a>>) = 1  BY SingleByte
<1> QED  BY <1>1 DEF IsBrief

\* two,
LEMMA FormOfTwo ==
    ASSUME NEW a \in Byte, NEW b \in Byte
    PROVE  IsBrief(<<a, b>>, 10)
<1>1. <<a, b>> \in Data /\ Len(<<a, b>>) = 2  BY DEF Data
<1> QED  BY <1>1 DEF IsBrief

\* three,
LEMMA FormOfThree ==
    ASSUME NEW a \in Byte, NEW b \in Byte, NEW c \in Byte
    PROVE  IsBrief(<<a, b, c>>, 10)
<1>1. <<a, b, c>> \in Data /\ Len(<<a, b, c>>) = 3  BY DEF Data
<1> QED  BY <1>1 DEF IsBrief

\* nine of them,
LEMMA FormOfNine ==
    ASSUME NEW a \in Byte, NEW b \in Byte, NEW c \in Byte, NEW f \in Byte
    PROVE  IsBrief(<<a, b, f, f, f, f, f, f, c>>, 10)
<1>1. /\ <<a, b, f, f, f, f, f, f, c>> \in Data
      /\ Len(<<a, b, f, f, f, f, f, f, c>>) = 9
  BY DEF Data
<1> QED  BY <1>1 DEF IsBrief

\* or ten.
LEMMA FormOfTen ==
    ASSUME NEW a \in Byte, NEW b \in Byte, NEW c \in Byte, NEW f \in Byte
    PROVE  IsBrief(<<a, b, f, f, f, f, f, f, f, c>>, 10)
<1>1. /\ <<a, b, f, f, f, f, f, f, f, c>> \in Data
      /\ Len(<<a, b, f, f, f, f, f, f, f, c>>) = 10
  BY DEF Data
<1> QED  BY <1>1 DEF IsBrief

\* Every form of a length that is tried has at most ten bytes.
LEMMA FormsShort ==
    ASSUME NEW n \in Nat, n <= MaxContent, NEW len \in AnyLength(n)
    PROVE  IsBrief(len, 10)
<1> DEFINE low == n % 256
           high == n \div 256
           k == n + 1
<1>1. n < 65536 /\ k \in Nat /\ k < 65536  BY DEF MaxContent
<1>2. low \in Byte /\ high \in Byte  BY <1>1 DEF Byte
<1>3. 0 \in Byte /\ 1 \in Byte  BY DEF Byte
<1>4. IsBrief(DerLength(n), 10) /\ IsBrief(DerLength(k), 10)  BY ONLY n \in Nat, <1>1, ShorterForm
<1>5. len \in {DerLength(n), DerLength(k), <<128>>, <<255>>, <<129, low>>, <<130, 0, low>>,
               <<130, high, low>>, <<137, 0, 0, 0, 0, 0, 0, 0, 0, low>>,
               <<137, 1, 0, 0, 0, 0, 0, 0, 0, low>>, <<136, 1, 0, 0, 0, 0, 0, 0, low>>}
  BY DEF AnyLength
<1> HIDE DEF low, high, k
<1>6. CASE len = DerLength(n) \/ len = DerLength(k)  BY <1>4, <1>6
<1>7. CASE len = <<128>> \/ len = <<255>>
  <2>1. 128 \in Byte /\ 255 \in Byte  BY DEF Byte
  <2>2. IsBrief(<<128>>, 10) /\ IsBrief(<<255>>, 10)  BY ONLY <2>1, FormOfOne
  <2> QED  BY ONLY <1>7, <2>2
<1>8. CASE len = <<129, low>>
  <2>1. 129 \in Byte  BY DEF Byte
  <2>2. IsBrief(<<129, low>>, 10)  BY ONLY <1>2, <2>1, FormOfTwo
  <2> QED  BY ONLY <1>8, <2>2
<1>9. CASE len = <<130, 0, low>>
  <2>1. 130 \in Byte  BY DEF Byte
  <2>2. IsBrief(<<130, 0, low>>, 10)  BY ONLY <1>2, <1>3, <2>1, FormOfThree
  <2> QED  BY ONLY <1>9, <2>2
<1>10. CASE len = <<130, high, low>>
  <2>1. 130 \in Byte  BY DEF Byte
  <2>2. IsBrief(<<130, high, low>>, 10)  BY ONLY <1>2, <2>1, FormOfThree
  <2> QED  BY ONLY <1>10, <2>2
<1>11. CASE len = <<137, 0, 0, 0, 0, 0, 0, 0, 0, low>>
  <2>1. 137 \in Byte  BY DEF Byte
  <2>2. IsBrief(<<137, 0, 0, 0, 0, 0, 0, 0, 0, low>>, 10)  BY ONLY <1>2, <1>3, <2>1, FormOfTen
  <2> QED  BY ONLY <1>11, <2>2
<1>12. CASE len = <<137, 1, 0, 0, 0, 0, 0, 0, 0, low>>
  <2>1. 137 \in Byte  BY DEF Byte
  <2>2. IsBrief(<<137, 1, 0, 0, 0, 0, 0, 0, 0, low>>, 10)  BY ONLY <1>2, <1>3, <2>1, FormOfTen
  <2> QED  BY ONLY <1>12, <2>2
<1>13. CASE len = <<136, 1, 0, 0, 0, 0, 0, 0, low>>
  <2>1. 136 \in Byte  BY DEF Byte
  <2>2. IsBrief(<<136, 1, 0, 0, 0, 0, 0, 0, low>>, 10)  BY ONLY <1>2, <1>3, <2>1, FormOfNine
  <2> QED  BY ONLY <1>13, <2>2
<1> QED  BY ONLY <1>5, <1>6, <1>7, <1>8, <1>9, <1>10, <1>11, <1>12, <1>13

\* Everything that stands for an integer in a test.
LEMMA SimpleShort ==
    IsBrief(Simple, 5) /\ Len(Simple) >= 3
<1> DEFINE c == <<5>>
<1>1. 2 \in Byte /\ 5 \in Byte  BY DEF Byte
<1>2. c \in Data /\ Len(c) = 1  BY <1>1, SingleByte
<1> HIDE DEF c
<1>3. IsBrief(c, 1)  BY <1>2 DEF IsBrief
<1>4. 1 \in Nat /\ 1 < 65536 /\ 5 \in Nat /\ 1 + 4 <= 5  OBVIOUS
<1>5. IsBrief(Tlv(2, c), 5) /\ Len(Tlv(2, c)) >= 2 + Len(c)
  BY ONLY <1>1, <1>3, <1>4, ShortValue
<1> DEFINE z == Tlv(2, c)
<1>6. z = Simple  BY DEF Simple, c
<1>7. IsBrief(z, 5) /\ Len(z) >= 2 + 1  BY <1>2, <1>5
<1> HIDE DEF z
<1> QED  BY ONLY <1>6, <1>7

\* The contents of a test, and the integer with them.
LEMMA ContentsShort ==
    ASSUME NEW c \in DerContents
    PROVE  /\ IsBrief(c, 20000) /\ IsBrief(Tlv(2, c), 20004)
           /\ Len(c) \in Nat /\ Len(c) <= MaxContent
<1>1. c \in Data /\ Len(c) <= 20000 /\ Len(c) <= MaxContent
  BY DerAssumption DEF Data, MaxContent
<1>2. IsBrief(c, 20000)  BY <1>1 DEF IsBrief
<1>3. 2 \in Byte  BY DEF Byte
<1>4. 20000 \in Nat /\ 20000 < 65536 /\ 20004 \in Nat /\ 20000 + 4 <= 20004  OBVIOUS
<1>5. IsBrief(Tlv(2, c), 20004)  BY ONLY <1>2, <1>3, <1>4, ShortValue
<1>6. Len(c) \in Nat  BY <1>1, BytesOf
<1> QED  BY ONLY <1>1, <1>2, <1>5, <1>6

\* Two of them make a body.
LEMMA FollowedShort ==
    ASSUME NEW c \in DerContents, NEW d \in DerContents
    PROVE  IsBrief(Tlv(2, c) \o Tlv(2, d), 40008)
<1> DEFINE u == Tlv(2, c)
           v == Tlv(2, d)
<1>1. IsBrief(u, 20004) /\ IsBrief(v, 20004)  BY ContentsShort
<1>2. 20004 \in Nat /\ 40008 \in Nat /\ 20004 + 20004 <= 40008  OBVIOUS
<1> HIDE DEF u, v
<1>3. IsBrief(u \o v, 40008)  BY ONLY <1>1, <1>2, ShortJoin
<1> QED  BY ONLY <1>3 DEF u, v

\* So do one of them, with any form of its length, and a simple integer.
LEMMA LengthsShort ==
    ASSUME NEW c \in DerContents, NEW x \in WithLengths(c)
    PROVE  IsBrief(x, 40008)
<1> DEFINE t == <<2>>
<1>1. IsBrief(t, 1)
  <2>1. 2 \in Byte  BY DEF Byte
  <2>2. t \in Data /\ Len(t) = 1  BY <2>1, SingleByte
  <2> HIDE DEF t
  <2> QED  BY <2>2 DEF IsBrief
<1>2. IsBrief(Simple, 5)  BY SimpleShort
<1>3. PICK len \in AnyLength(Len(c)) : x = t \o len \o c \o Simple \/ x = Simple \o t \o len \o c
  BY ONLY x \in WithLengths(c) DEF WithLengths, t
<1>4. IsBrief(c, 20000) /\ IsBrief(len, 10)
  <2> DEFINE n == Len(c)
  <2>1. n \in Nat /\ n <= MaxContent /\ IsBrief(c, 20000)  BY ContentsShort
  <2>2. len \in AnyLength(n)  OBVIOUS
  <2> HIDE DEF n
  <2> QED  BY ONLY <2>1, <2>2, FormsShort
<1> HIDE DEF t
<1>5. /\ 1 \in Nat /\ 10 \in Nat /\ 11 \in Nat /\ 20000 \in Nat /\ 20011 \in Nat /\ 5 \in Nat
      /\ 6 \in Nat /\ 16 \in Nat /\ 40008 \in Nat
      /\ 1 + 10 <= 11 /\ 11 + 20000 <= 20011 /\ 20011 + 5 <= 40008
      /\ 5 + 1 <= 6 /\ 6 + 10 <= 16 /\ 16 + 20000 <= 40008
  OBVIOUS
<1>6. CASE x = t \o len \o c \o Simple
  <2> DEFINE u == t \o len
             v == u \o c
  <2>1. x = v \o Simple  BY <1>6
  <2>2. IsBrief(u, 11)  BY ONLY <1>1, <1>4, <1>5, ShortJoin
  <2> HIDE DEF u
  <2>3. IsBrief(v, 20011)  BY ONLY <1>4, <1>5, <2>2, ShortJoin
  <2> HIDE DEF v
  <2> QED  BY ONLY <1>2, <1>5, <2>1, <2>3, ShortJoin
<1>7. CASE x = Simple \o t \o len \o c
  <2> DEFINE u == Simple \o t
             v == u \o len
  <2>1. x = v \o c  BY <1>7
  <2>2. IsBrief(u, 6)  BY ONLY <1>1, <1>2, <1>5, ShortJoin
  <2> HIDE DEF u
  <2>3. IsBrief(v, 16)  BY ONLY <1>4, <1>5, <2>2, ShortJoin
  <2> HIDE DEF v
  <2> QED  BY ONLY <1>4, <1>5, <2>1, <2>3, ShortJoin
<1> QED  BY <1>3, <1>6, <1>7

\* No body of a signature is longer than two integers.
LEMMA BodiesShort ==
    ASSUME NEW x \in Bodies
    PROVE  IsBrief(x, 40008)
<1>1. PICK c \in DerContents : x \in WithLengths(c) \/ x \in Followed(c)
  BY ONLY x \in Bodies DEF Bodies
<1>2. CASE x \in WithLengths(c)
  BY ONLY c \in DerContents, <1>2, LengthsShort
<1>3. CASE x \in Followed(c)
  <2>1. PICK d \in DerContents : x = Tlv(2, c) \o Tlv(2, d)  BY ONLY <1>3 DEF Followed
  <2>2. IsBrief(Tlv(2, c) \o Tlv(2, d), 40008)
    BY ONLY c \in DerContents, d \in DerContents, FollowedShort
  <2> QED  BY ONLY <2>1, <2>2
<1> QED  BY ONLY <1>1, <1>2, <1>3

\* Every input of the parsers is a string of bytes with a length of two bytes
\* at most.
LEMMA SignaturesAreInputs ==
    ASSUME NEW e \in Signatures
    PROVE  IsInput(e)
<1> DEFINE k == 40012
           two == Simple \o Simple
           sg(x) == Tlv(48, x)
<1>1. 48 \in Byte /\ 49 \in Byte /\ 3 \in Byte /\ 5 \in Byte /\ 0 \in Byte  BY DEF Byte
<1>2. IsBrief(Simple, 5) /\ Len(Simple) >= 3  BY SimpleShort
<1>3. IsBrief(two, 10)
  <2>1. 5 \in Nat /\ 10 \in Nat /\ 5 + 5 <= 10  OBVIOUS
  <2> QED  BY ONLY <1>2, <2>1, ShortJoin
<1>4. IsBrief(<<5>>, 1) /\ IsBrief(<<0>>, 1) /\ IsBrief(<<48>>, 1)
  <2>1. ASSUME NEW a \in Byte PROVE IsBrief(<<a>>, 1)
    <3>1. <<a>> \in Data /\ Len(<<a>>) = 1  BY SingleByte
    <3> QED  BY <3>1 DEF IsBrief
  <2> QED  BY ONLY <1>1, <2>1
<1>5. ASSUME NEW x, NEW t \in Byte, IsBrief(x, 40008) PROVE IsBrief(Tlv(t, x), 40012)
  <2>1. 40008 \in Nat /\ 40008 < 65536 /\ 40012 \in Nat /\ 40008 + 4 <= 40012  OBVIOUS
  <2> QED  BY ONLY t \in Byte, <1>5, <2>1, ShortValue
<1>6. ASSUME NEW x, NEW n \in Nat, NEW m \in Nat, n <= m, IsBrief(x, n) PROVE IsBrief(x, m)
  <2> DEFINE y == Len(x)
  <2>1. x \in Data /\ y <= n  BY <1>6 DEF IsBrief
  <2>2. y \in Nat  BY <2>1, BytesOf
  <2> HIDE DEF y
  <2>3. y <= m  BY <1>6, <2>1, <2>2
  <2> QED  BY <2>1, <2>3 DEF IsBrief, y
<1> HIDE DEF two
<1>7. ASSUME IsBrief(e, 50000) PROVE IsInput(e)
  <2> DEFINE y == Len(e)
  <2>1. e \in Data /\ y <= 50000  BY <1>7 DEF IsBrief
  <2>2. y \in Nat  BY <2>1, BytesOf
  <2> HIDE DEF y
  <2>3. y < 65536  BY <2>1, <2>2
  <2> QED  BY <2>1, <2>3 DEF IsInput, y
<1>8. ASSUME IsBrief(e, 40012) PROVE IsInput(e)
  <2>1. 40012 \in Nat /\ 50000 \in Nat /\ 40012 <= 50000  OBVIOUS
  <2>2. IsBrief(e, 50000)  BY ONLY <1>6, <1>8, <2>1
  <2> QED  BY <1>7, <2>2
<1>9. CASE \E x \in Bodies : e = Tlv(48, x)
  <2>1. PICK x \in Bodies : e = Tlv(48, x)  BY <1>9
  <2>2. IsBrief(x, 40008)  BY BodiesShort
  <2>3. IsBrief(e, 40012)  BY ONLY <1>1, <1>5, <2>1, <2>2
  <2> QED  BY ONLY <1>8, <2>3
<1>10. CASE \E len \in AnyLength(6) : e = <<48>> \o len \o Simple \o Simple
  <2>1. PICK len \in AnyLength(6) : e = <<48>> \o len \o Simple \o Simple  BY <1>10
  <2>2. 6 \in Nat /\ 6 <= MaxContent  BY DEF MaxContent
  <2>3. IsBrief(len, 10)  BY ONLY <2>2, FormsShort
  <2> DEFINE t == <<48>>
             u == t \o len
             v == u \o Simple
  <2>4. e = v \o Simple /\ IsBrief(t, 1)  BY <1>4, <2>1
  <2>5. /\ 1 \in Nat /\ 10 \in Nat /\ 11 \in Nat /\ 5 \in Nat /\ 16 \in Nat /\ 40012 \in Nat
        /\ 1 + 10 <= 11 /\ 11 + 5 <= 16 /\ 16 + 5 <= 40012
    OBVIOUS
  <2> HIDE DEF t
  <2>6. IsBrief(u, 11)  BY ONLY <2>3, <2>4, <2>5, ShortJoin
  <2> HIDE DEF u
  <2>7. IsBrief(v, 16)  BY ONLY <1>2, <2>5, <2>6, ShortJoin
  <2> HIDE DEF v
  <2>8. IsBrief(e, 40012)  BY ONLY <1>2, <2>4, <2>5, <2>7, ShortJoin
  <2> QED  BY ONLY <1>8, <2>8
<1>11. CASE e \in {Tlv(48, two \o <<0>>), Tlv(48, two) \o <<0>>, Tlv(49, two), Tlv(48, Simple),
                   Tlv(48, Tlv(3, <<5>>) \o Simple), <<48>>, <<>>}
  <2>1. /\ 0 \in Nat /\ 1 \in Nat /\ 5 \in Nat /\ 10 \in Nat /\ 11 \in Nat /\ 14 \in Nat
        /\ 19 \in Nat /\ 40008 \in Nat /\ 40012 \in Nat /\ 40013 \in Nat /\ 50000 \in Nat
        /\ 10 + 1 <= 11 /\ 11 <= 40008 /\ 10 <= 40008 /\ 5 <= 40008 /\ 1 + 4 <= 5
        /\ 40012 + 1 <= 50000 /\ 5 + 5 <= 10 /\ 1 <= 40012 /\ 0 <= 40012 /\ 1 < 65536
    OBVIOUS
  <2>2. CASE e = Tlv(48, two \o <<0>>)
    <3>1. IsBrief(two \o <<0>>, 11)  BY ONLY <1>3, <1>4, <2>1, ShortJoin
    <3>2. IsBrief(two \o <<0>>, 40008)  BY ONLY <1>6, <2>1, <3>1
    <3>3. IsBrief(e, 40012)  BY ONLY <1>1, <1>5, <2>2, <3>2
    <3> QED  BY ONLY <1>8, <3>3
  <2>3. CASE e = Tlv(48, two) \o <<0>>
    <3>1. IsBrief(two, 40008)  BY ONLY <1>3, <1>6, <2>1
    <3>2. IsBrief(Tlv(48, two), 40012)  BY ONLY <1>1, <1>5, <3>1
    <3>3. IsBrief(e, 50000)  BY ONLY <1>4, <2>1, <2>3, <3>2, ShortJoin
    <3> QED  BY ONLY <1>7, <3>3
  <2>4. CASE e = Tlv(49, two)
    <3>1. IsBrief(two, 40008)  BY ONLY <1>3, <1>6, <2>1
    <3>2. IsBrief(e, 40012)  BY ONLY <1>1, <1>5, <2>4, <3>1
    <3> QED  BY ONLY <1>8, <3>2
  <2>5. CASE e = Tlv(48, Simple)
    <3>1. IsBrief(Simple, 40008)  BY ONLY <1>2, <1>6, <2>1
    <3>2. IsBrief(e, 40012)  BY ONLY <1>1, <1>5, <2>5, <3>1
    <3> QED  BY ONLY <1>8, <3>2
  <2>6. CASE e = Tlv(48, Tlv(3, <<5>>) \o Simple)
    <3>1. IsBrief(Tlv(3, <<5>>), 5)  BY ONLY <1>1, <1>4, <2>1, ShortValue
    <3>2. IsBrief(Tlv(3, <<5>>) \o Simple, 10)  BY ONLY <1>2, <2>1, <3>1, ShortJoin
    <3>3. IsBrief(Tlv(3, <<5>>) \o Simple, 40008)  BY ONLY <1>6, <2>1, <3>2
    <3>4. IsBrief(e, 40012)  BY ONLY <1>1, <1>5, <2>6, <3>3
    <3> QED  BY ONLY <1>8, <3>4
  <2>7. CASE e = <<48>>
    <3>1. IsBrief(e, 40012)  BY ONLY <1>4, <1>6, <2>1, <2>7
    <3> QED  BY ONLY <1>8, <3>1
  <2>8. CASE e = <<>>
    <3> DEFINE w == <<>>
    <3>1. w \in Data /\ Len(w) = 0  BY DEF Data
    <3> HIDE DEF w
    <3>2. IsBrief(w, 0)  BY <3>1 DEF IsBrief
    <3>3. IsBrief(w, 40012)  BY ONLY <1>6, <2>1, <3>2
    <3>4. e = w  BY <2>8 DEF w
    <3>5. IsBrief(e, 40012)  BY ONLY <3>3, <3>4
    <3> QED  BY ONLY <1>8, <3>5
  <2> QED  BY ONLY <1>11, <2>2, <2>3, <2>4, <2>5, <2>6, <2>7, <2>8
<1>12. CASE \E c \in DerContents, n \in 0 .. 5 : e = SubSeq(Tlv(48, Tlv(2, c) \o Simple), 1, n)
  <2>1. PICK c \in DerContents, n \in 0 .. 5 : e = SubSeq(Tlv(48, Tlv(2, c) \o Simple), 1, n)
    BY <1>12
  <2> DEFINE v == Tlv(2, c)
             x == v \o Simple
             z == Tlv(48, x)
             i == 0
             p == 1
  <2>2. IsBrief(v, 20004)  BY ContentsShort
  <2>3. e = SubSeq(z, p, n) /\ n \in Nat /\ n <= 5  BY <2>1
  <2> HIDE DEF v
  <2>4. IsBrief(x, 40008) /\ Len(x) >= 3
    <3>1. 20004 \in Nat /\ 5 \in Nat /\ 40008 \in Nat /\ 20004 + 5 <= 40008  OBVIOUS
    <3>2. IsBrief(x, 40008)  BY ONLY <1>2, <2>2, <3>1, ShortJoin
    <3>3. IsJoined(x, v, Simple)  BY DEF IsJoined
    <3>4. v \in Data /\ Simple \in Data  BY ONLY <1>2, <2>2 DEF IsBrief
    <3>5. Len(x) = Len(v) + Len(Simple)  BY ONLY <3>3, <3>4, JoinLength
    <3> DEFINE a == Len(v)
               b == Len(Simple)
    <3>6. Len(x) = a + b /\ a \in Nat /\ b \in Nat /\ b >= 3  BY <1>2, <3>4, <3>5, BytesOf
    <3> HIDE DEF a, b, x
    <3>7. Len(x) >= 3  BY <3>6
    <3> QED  BY ONLY <3>2, <3>7 DEF x
  <2> HIDE DEF x
  <2>5. z \in Data /\ Len(z) >= 2 + Len(x)
    <3>1. 40008 \in Nat /\ 40008 < 65536 /\ 40012 \in Nat /\ 40008 + 4 <= 40012  OBVIOUS
    <3>2. IsBrief(z, 40012) /\ Len(z) >= 2 + Len(x)  BY ONLY <1>1, <2>4, <3>1, ShortValue
    <3> HIDE DEF z
    <3> QED  BY ONLY <3>2 DEF IsBrief
  <2> HIDE DEF z
  <2>6. i + n <= Len(z) /\ p = i + 1 /\ n = i + n /\ i \in Nat
    <3>1. x \in Data  BY <2>4 DEF IsBrief
    <3> DEFINE a == Len(z)
               b == Len(x)
    <3>2. a \in Nat /\ b \in Nat /\ a >= 2 + b /\ b >= 3  BY <2>4, <2>5, <3>1, BytesOf
    <3> HIDE DEF a, b
    <3>3. i + n <= a  BY <2>3, <3>2
    <3> QED  BY <2>3, <3>3 DEF a
  <2> HIDE DEF i, p
  <2>7. IsPart(e, z, i, n)  BY ONLY <2>3, <2>5, <2>6, PartOf
  <2>8. e \in Data /\ Len(e) = n  BY ONLY <2>7 DEF IsPart
  <2>9. Len(e) < 65536
    <3> DEFINE y == Len(e)
    <3>1. y = n  BY <2>8
    <3> HIDE DEF y
    <3>2. y < 65536  BY <2>3, <3>1
    <3> QED  BY <3>2 DEF y
  <2> QED  BY ONLY <2>8, <2>9 DEF IsInput
<1>13. \/ \E x \in Bodies : e = Tlv(48, x)
       \/ \E len \in AnyLength(6) : e = <<48>> \o len \o Simple \o Simple
       \/ e \in {Tlv(48, Simple \o Simple \o <<0>>), Tlv(48, Simple \o Simple) \o <<0>>,
                  Tlv(49, Simple \o Simple), Tlv(48, Simple), Tlv(48, Tlv(3, <<5>>) \o Simple),
                  <<48>>, <<>>}
       \/ \E c \in DerContents : e \in Beginnings(c)
  BY ONLY e \in Signatures DEF Signatures
<1>14. (\E c \in DerContents : e \in Beginnings(c)) =>
           \E c \in DerContents, n \in 0 .. 5 : e = SubSeq(Tlv(48, Tlv(2, c) \o Simple), 1, n)
  BY ONLY DEF Beginnings
<1>15. e \in {Tlv(48, Simple \o Simple \o <<0>>), Tlv(48, Simple \o Simple) \o <<0>>,
              Tlv(49, Simple \o Simple), Tlv(48, Simple), Tlv(48, Tlv(3, <<5>>) \o Simple),
              <<48>>, <<>>} => IsInput(e)
  BY ONLY <1>11 DEF two
<1> QED  BY ONLY <1>9, <1>10, <1>12, <1>13, <1>14, <1>15

\* How many bytes are cut from the file of a key, and the registers then.
Cuts(e) == {0, 1, 100, Len(e) - 40, Len(e) - 1}
KeyInput(e, cut, key) ==
    KeyReg(SubSeq(e, 1, Len(e) - cut), IF cut = 0 THEN Imported(key) ELSE NoKey, NoKey, FALSE)

\* What is made of the file of a key by cutting it is imported as it should be.
LEMMA KeyInputs ==
    ASSUME NEW key, IsNumber(key), NEW compressed \in BOOLEAN, NEW e,
           e = KeyFile(key, compressed),
           NEW cut \in Cuts(e), NEW d, d = SubSeq(e, 1, Len(e) - cut)
    PROVE  privkey_import_der(d) = IF cut = 0 THEN Imported(key) ELSE NoKey
<1>1. PICK n, len, q : IsKeyFile(e, n, len, q, key)  BY KeyFileIs
<1> DEFINE k == Len(e)
           m == k - cut
<1>2. e \in Data /\ k \in Nat /\ k >= 101
  <2>1. e \in Data /\ len \in Nat /\ len >= 100 /\ k = 2 + n + len /\ (n = 1 \/ n = 2)
    BY <1>1 DEF IsKeyFile, IsHeader
  <2>2. k \in Nat  BY <2>1, BytesOf
  <2> HIDE DEF k
  <2> QED  BY <2>1, <2>2
<1>3. cut = 0 \/ cut = 1 \/ cut = 100 \/ cut = k - 40 \/ cut = k - 1  BY DEF Cuts
<1>4. d = SubSeq(e, 1, m)  OBVIOUS
<1>5. k = Len(e) /\ m = k - cut  OBVIOUS
<1> HIDE DEF k, m
<1>6. CASE cut = 0
  <2>1. m = Len(e)  BY <1>2, <1>5, <1>6
  <2>2. SubSeq(e, 1, m) = e  BY ONLY <1>2, <2>1, WholeIsItself
  <2>3. privkey_import_der(e) = Imported(key)  BY ONLY IsNumber(key), <1>1, ImportedIs
  <2>4. privkey_import_der(d) = Imported(key)  BY ONLY <1>4, <2>2, <2>3
  <2> QED  BY ONLY <1>6, <2>4
<1>7. CASE cut # 0
  <2>1. m \in Nat /\ m < Len(e)
    <3>1. m \in Nat /\ m < k  BY ONLY <1>2, <1>3, <1>5, <1>7
    <3> QED  BY ONLY <1>5, <3>1
  <2>2. IsCut(d, e, 1, m)  BY ONLY <1>4 DEF IsCut
  <2>3. privkey_import_der(d) = NoKey  BY ONLY <1>1, <2>1, <2>2, PartIsNoKey
  <2> QED  BY ONLY <1>7, <2>3
<1> QED  BY ONLY <1>6, <1>7

-----------------------------------------------------------------------------
(* States *)

\* What the run's registers hold before and after a step: an input, and what
\* the parsers make of it; an input and the key that it should be.
Parsed(u) ==
    \E e : /\ IsInput(e)
           /\ \/ u = SigReg(e, NoSig, NoSig, FALSE)
              \/ u = SigReg(e, signature_parse_der(e), parse_der_lax(e), TRUE)
ImportedKey(u) ==
    \E e, k : /\ privkey_import_der(e) = k
              /\ (u = KeyReg(e, k, NoKey, FALSE) \/ u = KeyReg(e, k, k, TRUE))
DerInv == Parsed(st) \/ ImportedKey(st)

\* The states that a test of keys starts in.
LEMMA KeyStart ==
    ASSUME NEW key \in Keys, NEW compressed \in BOOLEAN,
           NEW cut \in Cuts(KeyFile(key, compressed)),
           st = KeyInput(KeyFile(key, compressed), cut, key)
    PROVE  DerInv
<1> DEFINE e == KeyFile(key, compressed)
           d == SubSeq(e, 1, Len(e) - cut)
           k == IF cut = 0 THEN Imported(key) ELSE NoKey
<1>1. IsNumber(key)  BY DerAssumption DEF IsNumber, Data
<1>2. st = KeyReg(d, k, NoKey, FALSE)  BY DEF KeyInput
<1>3. e = KeyFile(key, compressed) /\ cut \in Cuts(e) /\ d = SubSeq(e, 1, Len(e) - cut)
  OBVIOUS
<1> HIDE DEF d, e
<1>4. privkey_import_der(d) = k
  BY ONLY <1>1, <1>3, compressed \in BOOLEAN, KeyInputs DEF k
<1> HIDE DEF k
<1>5. ImportedKey(st)  BY ONLY <1>2, <1>4 DEF ImportedKey
<1> QED  BY <1>5 DEF DerInv

\* What the export gives is imported, and the export of an invalid key is not.
LEMMA ExportStart ==
    ASSUME NEW key \in Keys, NEW compressed \in BOOLEAN,
           st = KeyReg(privkey_export_der(key, compressed), Imported(key), NoKey, FALSE)
    PROVE  DerInv
<1>1. IsNumber(key)  BY DerAssumption DEF IsNumber, Data
<1>2. CASE IsKey(key)
  <2>1. privkey_export_der(key, compressed) = KeyFile(key, compressed)
    BY ONLY <1>2 DEF privkey_export_der
  <2>2. PICK e : e = KeyFile(key, compressed)  OBVIOUS
  <2>3. PICK n, len, q : IsKeyFile(e, n, len, q, key)  BY ONLY <1>1, <2>2, KeyFileIs
  <2>4. privkey_import_der(e) = Imported(key)  BY ONLY <1>1, <2>3, ImportedIs
  <2>5. st = KeyReg(e, Imported(key), NoKey, FALSE)  BY ONLY <2>1, <2>2,
          st = KeyReg(privkey_export_der(key, compressed), Imported(key), NoKey, FALSE)
  <2>6. ImportedKey(st)  BY ONLY <2>4, <2>5 DEF ImportedKey
  <2> QED  BY <2>6 DEF DerInv
<1>3. CASE ~IsKey(key)
  <2>1. privkey_export_der(key, compressed) = <<>> /\ Imported(key) = NoKey
    BY ONLY <1>3 DEF privkey_export_der, Imported
  <2>2. privkey_import_der(<<>>) = NoKey  BY DEF privkey_import_der
  <2>3. st = KeyReg(<<>>, NoKey, NoKey, FALSE)  BY ONLY <2>1,
          st = KeyReg(privkey_export_der(key, compressed), Imported(key), NoKey, FALSE)
  <2>4. ImportedKey(st)  BY ONLY <2>2, <2>3 DEF ImportedKey
  <2> QED  BY <2>4 DEF DerInv
<1> QED  BY <1>2, <1>3

\* The first states have the invariant.
LEMMA DerStart == DerInit => DerInv
<1> SUFFICES ASSUME DerInit PROVE DerInv
  OBVIOUS
<1>1. CASE \E e \in Signatures : st = SigReg(e, NoSig, NoSig, FALSE)
  <2>1. PICK e \in Signatures : st = SigReg(e, NoSig, NoSig, FALSE)  BY <1>1
  <2>2. IsInput(e)  BY SignaturesAreInputs
  <2>3. Parsed(st)  BY ONLY <2>1, <2>2 DEF Parsed
  <2> QED  BY <2>3 DEF DerInv
<1>2. CASE \E key \in Keys, compressed \in BOOLEAN :
               \E cut \in Cuts(KeyFile(key, compressed)) :
                   st = KeyInput(KeyFile(key, compressed), cut, key)
  BY ONLY <1>2, KeyStart
<1>3. CASE \E key \in Keys, compressed \in BOOLEAN :
               st = KeyReg(privkey_export_der(key, compressed), Imported(key), NoKey, FALSE)
  BY ONLY <1>3, ExportStart
<1> QED  BY ONLY DerInit, <1>1, <1>2, <1>3 DEF DerInit, Cuts, KeyInput

\* Every step keeps it.
LEMMA DerStep == DerInv /\ [DerNext]_st => DerInv'
<1> SUFFICES ASSUME DerInv, [DerNext]_st PROVE DerInv'
  OBVIOUS
<1>1. CASE DerParse
  <2>1. st.unit = "der" /\ ~st.done
        /\ st' = SigReg(st.in, signature_parse_der(st.in), parse_der_lax(st.in), TRUE)
    BY <1>1 DEF DerParse
  <2>2. Parsed(st)
    <3>1. ASSUME NEW e, NEW k, NEW g, NEW b, st = KeyReg(e, k, g, b) PROVE FALSE
      BY ONLY <2>1, <3>1 DEF KeyReg
    <3>2. ~ImportedKey(st)  BY ONLY <3>1 DEF ImportedKey
    <3> QED  BY ONLY <3>2, DerInv DEF DerInv
  <2>3. PICK e : /\ IsInput(e)
                   /\ \/ st = SigReg(e, NoSig, NoSig, FALSE)
                      \/ st = SigReg(e, signature_parse_der(e), parse_der_lax(e), TRUE)
    BY ONLY <2>2 DEF Parsed
  <2>4. st.in = e  BY ONLY <2>3 DEF SigReg
  <2>5. st' = SigReg(e, signature_parse_der(e), parse_der_lax(e), TRUE)  BY ONLY <2>1, <2>4
  <2>6. Parsed(st')  BY ONLY <2>3, <2>5 DEF Parsed
  <2> QED  BY <2>6 DEF DerInv
<1>2. CASE DerImport
  <2>1. st.unit = "derkey" /\ ~st.done
        /\ st' = KeyReg(st.in, st.want, privkey_import_der(st.in), TRUE)
    BY <1>2 DEF DerImport
  <2>2. ImportedKey(st)
    <3>1. ASSUME NEW e, NEW k, NEW g, NEW b, st = SigReg(e, k, g, b) PROVE FALSE
      BY ONLY <2>1, <3>1 DEF SigReg
    <3>2. ~Parsed(st)  BY ONLY <3>1 DEF Parsed
    <3> QED  BY ONLY <3>2, DerInv DEF DerInv
  <2>3. PICK e, k : privkey_import_der(e) = k
                    /\ (st = KeyReg(e, k, NoKey, FALSE) \/ st = KeyReg(e, k, k, TRUE))
    BY ONLY <2>2 DEF ImportedKey
  <2>4. st.in = e /\ st.want = k  BY ONLY <2>3 DEF KeyReg
  <2>5. st' = KeyReg(e, k, k, TRUE)  BY ONLY <2>1, <2>3, <2>4
  <2>6. ImportedKey(st')  BY ONLY <2>3, <2>5 DEF ImportedKey
  <2> QED  BY <2>6 DEF DerInv
<1>3. CASE UNCHANGED st
  BY ONLY DerInv, <1>3 DEF DerInv, Parsed, ImportedKey
<1> QED  BY <1>1, <1>2, <1>3 DEF DerNext

\* It implies the property.
LEMMA DerHolds == DerInv => DerIsStrict
<1> SUFFICES ASSUME DerInv PROVE DerIsStrict
  OBVIOUS
<1>1. CASE Parsed(st)
  <2>1. PICK e : /\ IsInput(e)
                   /\ \/ st = SigReg(e, NoSig, NoSig, FALSE)
                      \/ st = SigReg(e, signature_parse_der(e), parse_der_lax(e), TRUE)
    BY <1>1 DEF Parsed
  <2>2. st.unit = "der"  BY ONLY <2>1 DEF SigReg
  <2>3. CASE ~st.done  BY ONLY <2>2, <2>3 DEF DerIsStrict
  <2>4. CASE st.done
    <3> DEFINE z == signature_parse_der(e)
    <3>1. st = SigReg(e, z, parse_der_lax(e), TRUE)  BY ONLY <2>1, <2>4 DEF SigReg
    <3>2. st.in = e /\ st.strict = z /\ st.lax = parse_der_lax(e)  BY ONLY <3>1 DEF SigReg
    <3>0. IsInput(e)  BY ONLY <2>1
    <3>3. e \in Data /\ Len(e) < 65536  BY ONLY <3>0 DEF IsInput
    <3>4. StrictIsX690(e, z)  BY ONLY <3>3, StrictIsRight
    <3>5. ASSUME z.ret PROVE WritesBack(e, z.sig) /\ LaxFollows(e, z, parse_der_lax(e))
      <4>1. PICK a, b : IsPair(e, a, b)  BY ONLY <3>3, <3>5, PairIsThere
      <4>2. IsReadPair(z, a, b)  BY ONLY <3>3, <4>1, PairRead
      <4>3. parse_der_lax(e) = LaxValue(a, b)  BY ONLY <3>3, <4>1, LaxRead
      <4> HIDE DEF z
      <4> DEFINE x == StdScalar(a)
                 y == StdScalar(b)
                 v == z.sig
      <4>4. v = Sig(x, y)  BY ONLY <4>2 DEF IsReadPair
      <4>5. x = StdScalar(a) /\ y = StdScalar(b) /\ z.sig = v  OBVIOUS
      <4> HIDE DEF x, y, v
      <4>6. WritesBack(e, v)  BY ONLY <3>3, <4>1, <4>4, <4>5, WrittenBack
      <4>7. LaxFollows(e, z, LaxValue(a, b))  BY ONLY <3>3, <4>1, <4>4, <4>5, LaxIsRight
      <4> QED  BY ONLY <4>3, <4>5, <4>6, <4>7
    <3> HIDE DEF z
    <3>6. StrictIsX690(st.in, st.strict)  BY ONLY <3>2, <3>4
    <3>7. st.strict.ret => WritesBack(st.in, st.strict.sig) /\ LaxFollows(st.in, st.strict, st.lax)
      BY ONLY <3>2, <3>5
    <3>8. st.unit # "derkey"  BY ONLY <2>2
    <3> QED  BY ONLY <3>6, <3>7, <3>8 DEF DerIsStrict
  <2> QED  BY ONLY <2>3, <2>4
<1>2. CASE ImportedKey(st)
  <2>1. PICK e, k : st = KeyReg(e, k, NoKey, FALSE) \/ st = KeyReg(e, k, k, TRUE)
    BY <1>2 DEF ImportedKey
  <2>2. st.unit = "derkey" /\ (st.done => st.got = st.want)  BY ONLY <2>1 DEF KeyReg
  <2> QED  BY ONLY <2>2 DEF DerIsStrict
<1> QED  BY <1>1, <1>2 DEF DerInv

\* The strict parser reads the encodings of X.690 and nothing else, for every
\* input of the unit: what it reads is written back byte by byte, the lax
\* parser reads it too, and a key comes back from its export and from no part
\* of it (secp256k1_der_read_len, secp256k1_der_parse_integer, the serializer,
\* the parsers of contrib/).
THEOREM DerEncodingsStrict == DerSpec => []DerIsStrict
<1>1. DerInit => DerInv  BY DerStart
<1>2. DerInv /\ [DerNext]_st => DerInv'  BY DerStep
<1>3. DerInv => DerIsStrict  BY DerHolds
<1> QED  BY <1>1, <1>2, <1>3, PTL DEF DerSpec

=============================================================================
