---------------------------- MODULE CurveLemmas ----------------------------
(***************************************************************************)
(* The scalars form a commutative ring under Plus and Times with negative  *)
(* Neg: the facts about Curve that the protocol proofs cite.  Before them, *)
(* division with remainder; after them, recursion over finite sets as      *)
(* MapThenFoldSet does it, and the sums it computes.                       *)
(***************************************************************************)
EXTENDS Curve, FiniteSetsExt, FiniteSetTheorems, WellFoundedInduction, TLAPS

-----------------------------------------------------------------------------
(* Division with remainder *)

\* A set of naturals that is not empty has a least element.
LEMMA LeastElement ==
    ASSUME NEW S \in SUBSET Nat, S # {}
    PROVE  \E i \in S : \A j \in S : i <= j
<1> DEFINE R == OpToRel(<, Nat)
<1>1. IsWellFoundedOn(R, Nat)  BY NatLessThanWellFounded
<1>2. R = {ss \in Nat \X Nat : ss[1] < ss[2]}  BY DEF OpToRel
<1> HIDE DEF R
<1>3. PICK i \in S : \A j \in S : ~(<<j, i>> \in R)
  BY <1>1, WFMin
<1>4. \A j \in S : ~(j < i)
  BY <1>2, <1>3
<1> QED  BY <1>4

\* The largest element of a set of naturals with an upper bound.
LEMMA LargestElement ==
    ASSUME NEW S \in SUBSET Nat, S # {}, NEW u \in Nat, \A x \in S : x <= u
    PROVE  \E x \in S : \A y \in S : y <= x
<1> DEFINE D == {u - x : x \in S}
<1>1. D \in SUBSET Nat /\ D # {}
  <2>1. \A x \in S : u - x \in Nat  OBVIOUS
  <2> QED  BY <2>1
<1> HIDE DEF D
<1>2. PICK d \in D : \A e \in D : d <= e  BY <1>1, LeastElement
<1>3. PICK x \in S : d = u - x  BY <1>2 DEF D
<1>4. ASSUME NEW y \in S PROVE y <= x
  <2>1. d <= u - y  BY <1>2 DEF D
  <2> QED  BY <1>3, <2>1
<1> QED  BY <1>4

\* Quotient and remainder, for every dividend.
LEMMA DivMod ==
    ASSUME NEW n \in Nat \ {0}, NEW a \in Int
    PROVE  /\ a \div n \in Int
           /\ a % n \in Nat /\ a % n < n
           /\ a = n * (a \div n) + (a % n)
OBVIOUS

\* The quotient and the remainder are the only ones.
LEMMA QuotientUnique ==
    ASSUME NEW n \in Nat \ {0}, NEW a \in Int, NEW q \in Int, NEW r \in Int,
           a = n * q + r, 0 <= r, r < n
    PROVE  a \div n = q /\ a % n = r
<1> DEFINE p == a \div n
           s == a % n
<1>1. p \in Int /\ s \in Nat /\ s < n /\ a = n * p + s  BY DivMod
<1> HIDE DEF p, s
<1>2. n * (q - p) = s - r  BY <1>1
<1>3. q - p <= 0
  <2> SUFFICES ASSUME q - p >= 1 PROVE FALSE  BY <1>1
  <2>1. n * (q - p) >= n  BY <1>1
  <2> QED  BY <2>1, <1>1, <1>2
<1>4. q - p >= 0
  <2> SUFFICES ASSUME q - p <= -1 PROVE FALSE  BY <1>1
  <2>1. n * (q - p) <= -n  BY <1>1
  <2> QED  BY <2>1, <1>1, <1>2
<1>5. q = p  BY <1>1, <1>3, <1>4
<1>6. r = s  BY <1>1, <1>5
<1> QED  BY <1>5, <1>6 DEF p, s

\* Dividing twice, and the digits of a remainder.
LEMMA DivDiv ==
    ASSUME NEW m \in Nat \ {0}, NEW n \in Nat \ {0}, NEW a \in Int
    PROVE  /\ m * n \in Nat \ {0}
           /\ a \div (m * n) = (a \div m) \div n
           /\ a % (m * n) = m * ((a \div m) % n) + (a % m)
           /\ (a % (m * n)) \div m = (a \div m) % n
           /\ (a % (m * n)) % m = a % m
<1> DEFINE q1 == a \div m
           r1 == a % m
           q2 == q1 \div n
           r2 == q1 % n
           mn == m * n
           r  == m * r2 + r1
<1>1. q1 \in Int /\ r1 \in Nat /\ r1 < m /\ a = m * q1 + r1  BY DivMod
<1> HIDE DEF q1, r1
<1>2. q2 \in Int /\ r2 \in Nat /\ r2 < n /\ q1 = n * q2 + r2  BY <1>1, DivMod
<1> HIDE DEF q2, r2
<1>3. mn \in Nat \ {0}
  BY ONLY m \in Nat \ {0}, n \in Nat \ {0} DEF mn
<1>4. r \in Int /\ 0 <= r  BY <1>1, <1>2
<1>5. m * (n - 1 - r2) >= 0  BY <1>1, <1>2
<1>6. r < mn  BY <1>1, <1>2, <1>5
<1>7. m * q1 = m * (n * q2) + m * r2  BY <1>1, <1>2
<1>8. m * (n * q2) = mn * q2  BY <1>1, <1>2
<1>9. a = mn * q2 + r  BY <1>1, <1>2, <1>3, <1>7, <1>8
<1>10. r \div m = r2 /\ r % m = r1
  <2> HIDE DEF r
  <2>1. r = m * r2 + r1  BY DEF r
  <2> QED  BY <2>1, <1>1, <1>2, <1>4, QuotientUnique
<1> HIDE DEF r, mn
<1>11. a \div mn = q2 /\ a % mn = r
  BY <1>2, <1>3, <1>4, <1>6, <1>9, QuotientUnique
<1> QED  BY <1>3, <1>10, <1>11 DEF r, mn, q2, r2, q1, r1

\* Numbers that differ by a multiple of n have the same remainder.
LEMMA ModShift ==
    ASSUME NEW n \in Nat \ {0}, NEW a \in Int, NEW k \in Int
    PROVE  (a + n * k) % n = a % n
<1> DEFINE q == a \div n
           r == a % n
           q2 == (a + n * k) \div n
           r2 == (a + n * k) % n
           d == q + k - q2
<1>1. /\ q \in Int /\ r \in Nat /\ r < n /\ a = n * q + r
      /\ q2 \in Int /\ r2 \in Nat /\ r2 < n /\ a + n * k = n * q2 + r2
  OBVIOUS
<1>2. d \in Int  BY <1>1
<1>3. n * d = r2 - r
  <2>1. n * (q + k - q2) = n * q + n * k - n * q2  BY <1>1
  <2> QED  BY <2>1, <1>1
<1> HIDE DEF d
<1>4. d <= 0
  <2> SUFFICES ASSUME d >= 1 PROVE FALSE  BY <1>2
  <2>1. n * d >= n  BY <1>2
  <2> QED  BY <2>1, <1>1, <1>3
<1>5. d >= 0
  <2> SUFFICES ASSUME d <= -1 PROVE FALSE  BY <1>2
  <2>1. n * d <= -n  BY <1>2
  <2> QED  BY <2>1, <1>1, <1>3
<1>6. d = 0 /\ n * d = 0  BY <1>2, <1>4, <1>5
<1> QED  BY <1>1, <1>3, <1>6

\* Reducing a summand first does not change the remainder of the sum.
LEMMA ModSum ==
    ASSUME NEW n \in Nat \ {0}, NEW a \in Int, NEW b \in Int
    PROVE  /\ ((a % n) + b) % n = (a + b) % n
           /\ (a + (b % n)) % n = (a + b) % n
<1>1. a \div n \in Int /\ a = n * (a \div n) + (a % n) /\ a % n \in Nat  OBVIOUS
<1>2. b \div n \in Int /\ b = n * (b \div n) + (b % n) /\ b % n \in Nat  OBVIOUS
<1>3. a + b = ((a % n) + b) + n * (a \div n)  BY <1>1
<1>4. a + b = (a + (b % n)) + n * (b \div n)  BY <1>2
<1>5. (a % n) + b \in Int /\ a + (b % n) \in Int  BY <1>1, <1>2
<1>6. (((a % n) + b) + n * (a \div n)) % n = ((a % n) + b) % n
  BY <1>1, <1>5, ModShift
<1>7. ((a + (b % n)) + n * (b \div n)) % n = (a + (b % n)) % n
  BY <1>2, <1>5, ModShift
<1> QED  BY <1>3, <1>4, <1>6, <1>7

\* Nor does reducing a factor change the remainder of the product.
LEMMA ModProd ==
    ASSUME NEW n \in Nat \ {0}, NEW a \in Int, NEW b \in Int
    PROVE  ((a % n) * b) % n = (a * b) % n
<1> DEFINE q == a \div n
           r == a % n
<1>1. q \in Int /\ r \in Int /\ a = n * q + r  OBVIOUS
<1> HIDE DEF q, r
<1>2. (n * q) * b = n * (q * b)  BY <1>1
<1>3. a * b = (n * q + r) * b  BY <1>1
<1>4. (n * q + r) * b = (n * q) * b + r * b  BY <1>1
<1>5. r * b \in Int /\ q * b \in Int  BY <1>1
<1>6. a * b = r * b + n * (q * b)  BY <1>2, <1>3, <1>4, <1>5
<1>7. (r * b + n * (q * b)) % n = (r * b) % n  BY <1>5, ModShift
<1> QED  BY <1>6, <1>7 DEF r

-----------------------------------------------------------------------------
(* Scalars *)

LEMMA PlusType ==
    ASSUME NEW a \in Int, NEW b \in Int
    PROVE  Plus(a, b) \in Scalars
<1>1. N \in Nat \ {0} /\ a + b \in Int  BY CurveAssumption
<1>2. (a + b) % N \in Nat /\ (a + b) % N < N  BY ONLY <1>1, DivMod
<1> QED  BY <1>1, <1>2 DEF Plus, Scalars

LEMMA TimesType ==
    ASSUME NEW a \in Int, NEW b \in Int
    PROVE  Times(a, b) \in Scalars
<1> DEFINE c == a * b
<1>1. N \in Nat \ {0} /\ c \in Int  BY CurveAssumption
<1> HIDE DEF c
<1>2. c % N \in Nat /\ c % N < N  BY ONLY <1>1, DivMod
<1> QED  BY <1>1, <1>2 DEF Times, Scalars, c

LEMMA NegType ==
    ASSUME NEW a \in Scalars
    PROVE  Neg(a) \in Scalars /\ (a # 0 => Neg(a) \in 1 .. N-1)
BY CurveAssumption DEF Neg, Scalars

LEMMA NegNeg ==
    ASSUME NEW a \in Scalars
    PROVE  Neg(Neg(a)) = a
BY CurveAssumption DEF Neg, Scalars

LEMMA PlusComm ==
    ASSUME NEW a \in Int, NEW b \in Int
    PROVE  Plus(a, b) = Plus(b, a)
BY DEF Plus

LEMMA PlusAssoc ==
    ASSUME NEW a \in Int, NEW b \in Int, NEW c \in Int
    PROVE  Plus(Plus(a, b), c) = Plus(a, Plus(b, c))
<1>1. N \in Nat \ {0} /\ a + b \in Int /\ b + c \in Int  BY CurveAssumption
<1>2. (((a + b) % N) + c) % N = ((a + b) + c) % N  BY ONLY <1>1, c \in Int, ModSum
<1>3. (a + ((b + c) % N)) % N = (a + (b + c)) % N  BY ONLY <1>1, a \in Int, ModSum
<1>4. (a + b) + c = a + (b + c)  OBVIOUS
<1> QED  BY <1>2, <1>3, <1>4 DEF Plus

\* A scalar below N is its own remainder.
LEMMA SmallMod ==
    ASSUME NEW a \in Scalars
    PROVE  a % N = a
BY CurveAssumption DEF Scalars

LEMMA PlusZero ==
    ASSUME NEW a \in Scalars
    PROVE  Plus(a, 0) = a /\ Plus(0, a) = a
<1>1. a + 0 = a /\ 0 + a = a  BY DEF Scalars
<1> QED  BY <1>1, SmallMod DEF Plus

LEMMA PlusNeg ==
    ASSUME NEW a \in Scalars
    PROVE  Plus(a, Neg(a)) = 0
<1>1. N \in Nat \ {0}  BY CurveAssumption
<1>2. N % N = 0 /\ 0 % N = 0  BY <1>1
<1>3. a + Neg(a) = 0 \/ a + Neg(a) = N  BY <1>1 DEF Neg, Scalars
<1> QED  BY <1>2, <1>3 DEF Plus

\* The inverse of a sum is the sum of the inverses.
LEMMA NegPlus ==
    ASSUME NEW a \in Scalars, NEW b \in Scalars
    PROVE  Neg(Plus(a, b)) = Plus(Neg(a), Neg(b))
<1> DEFINE s == Plus(a, b)
           t == Plus(Neg(a), Neg(b))
<1>0. a \in Int /\ b \in Int /\ Neg(a) \in Scalars /\ Neg(b) \in Scalars
      /\ Neg(a) \in Int /\ Neg(b) \in Int
  BY NegType DEF Scalars
<1>1. s \in Scalars /\ t \in Scalars /\ s \in Int /\ t \in Int /\ Neg(s) \in Scalars
      /\ Neg(s) \in Int
  <2>1. s \in Scalars /\ t \in Scalars  BY ONLY <1>0, PlusType
  <2>2. Neg(s) \in Scalars  BY <2>1, NegType
  <2> HIDE DEF s, t
  <2>3. \A x \in Scalars : x \in Int  BY DEF Scalars
  <2> QED  BY <2>1, <2>2, <2>3
<1>2. Plus(s, t) = 0
  <2>1. Plus(s, t) = Plus(a, Plus(b, t))  BY <1>0, <1>1, PlusAssoc
  <2>2. t = Plus(Neg(b), Neg(a))  BY <1>0, PlusComm
  <2>3. Plus(b, t) = Plus(Plus(b, Neg(b)), Neg(a))  BY <1>0, <2>2, PlusAssoc
  <2>4. Plus(b, t) = Neg(a)  BY <1>0, <2>3, PlusNeg, PlusZero
  <2> QED  BY <2>1, <2>4, PlusNeg
<1>3. Plus(Neg(s), s) = 0  BY <1>1, PlusComm, PlusNeg
<1> HIDE DEF s, t
<1>4. Neg(s) = Plus(Neg(s), Plus(s, t))  BY <1>1, <1>2, PlusZero
<1>5. Plus(Neg(s), Plus(s, t)) = Plus(Plus(Neg(s), s), t)  BY <1>1, PlusAssoc
<1>6. Plus(Plus(Neg(s), s), t) = t  BY <1>1, <1>3, PlusZero
<1> QED  BY <1>4, <1>5, <1>6 DEF s, t

LEMMA NegUnique ==
    ASSUME NEW a \in Scalars, NEW b \in Scalars, Plus(a, b) = 0
    PROVE  a = Neg(b)
<1>1. a \in Int /\ b \in Int /\ Neg(b) \in Scalars /\ Neg(b) \in Int
  BY NegType DEF Scalars
<1>2. Plus(a, Plus(b, Neg(b))) = Plus(Plus(a, b), Neg(b))  BY <1>1, PlusAssoc
<1>3. Plus(a, 0) = Plus(0, Neg(b))  BY <1>2, PlusNeg
<1> QED  BY <1>1, <1>3, PlusZero

LEMMA TimesComm ==
    ASSUME NEW a \in Int, NEW b \in Int
    PROVE  Times(a, b) = Times(b, a)
<1>1. a * b = b * a  OBVIOUS
<1> QED  BY <1>1 DEF Times

LEMMA TimesOne ==
    ASSUME NEW a \in Scalars
    PROVE  Times(a, 1) = a /\ Times(1, a) = a
<1>1. a * 1 = a /\ 1 * a = a  BY DEF Scalars
<1> QED  BY <1>1, SmallMod DEF Times

LEMMA TimesZero ==
    ASSUME NEW a \in Int
    PROVE  Times(a, 0) = 0 /\ Times(0, a) = 0
<1>1. a * 0 = 0 /\ 0 * a = 0  OBVIOUS
<1>2. 0 \in Scalars  BY CurveAssumption DEF Scalars
<1> QED  BY <1>1, <1>2, SmallMod DEF Times

LEMMA TimesAssoc ==
    ASSUME NEW a \in Int, NEW b \in Int, NEW c \in Int
    PROVE  Times(Times(a, b), c) = Times(a, Times(b, c))
<1> DEFINE ab == a * b
           bc == b * c
           x  == bc % N
<1>1. N \in Nat \ {0} /\ ab \in Int /\ bc \in Int  BY CurveAssumption
<1>2. ab * c = a * bc /\ a * bc = bc * a  OBVIOUS
<1> HIDE DEF ab, bc
<1>3. x \in Int  BY ONLY <1>1, DivMod
<1>4. ((ab % N) * c) % N = (ab * c) % N  BY ONLY <1>1, c \in Int, ModProd
<1>5. ((bc % N) * a) % N = (bc * a) % N  BY ONLY <1>1, a \in Int, ModProd
<1>6. x * a = a * x  BY ONLY <1>3, a \in Int
<1>7. Times(Times(a, b), c) = ((ab % N) * c) % N  BY DEF Times, ab
<1>8. Times(a, Times(b, c)) = (a * x) % N  BY DEF Times, bc
<1> QED  BY <1>2, <1>4, <1>5, <1>6, <1>7, <1>8

\* Times distributes over Plus.
LEMMA TimesPlus ==
    ASSUME NEW a \in Int, NEW b \in Int, NEW c \in Int
    PROVE  Times(a, Plus(b, c)) = Plus(Times(a, b), Times(a, c))
<1> DEFINE s  == b + c
           t  == s % N
           ab == a * b
           ac == a * c
           u  == ab % N
<1>1. N \in Nat \ {0} /\ s \in Int /\ ab \in Int /\ ac \in Int  BY CurveAssumption
<1>2. s * a = ab + ac  OBVIOUS
<1> HIDE DEF s, ab, ac
<1>3. t \in Int /\ u \in Int  BY ONLY <1>1, DivMod
<1>4. (t * a) % N = (s * a) % N  BY ONLY <1>1, a \in Int, ModProd
<1>5. (u + ac) % N = (ab + ac) % N  BY ONLY <1>1, ModSum
<1>6. (u + (ac % N)) % N = (u + ac) % N  BY ONLY <1>1, <1>3, ModSum
<1>7. t * a = a * t  BY ONLY <1>3, a \in Int
<1>8. Times(a, Plus(b, c)) = (a * t) % N  BY DEF Times, Plus, s
<1>9. Plus(Times(a, b), Times(a, c)) = (u + (ac % N)) % N  BY DEF Times, Plus, ab, ac
<1> QED  BY <1>2, <1>4, <1>5, <1>6, <1>7, <1>8, <1>9

LEMMA TimesNeg ==
    ASSUME NEW a \in Scalars, NEW b \in Scalars
    PROVE  /\ Times(Neg(a), b) = Neg(Times(a, b))
           /\ Times(a, Neg(b)) = Neg(Times(a, b))
<1>1. a \in Int /\ b \in Int /\ Neg(a) \in Int /\ Neg(b) \in Int  BY NegType DEF Scalars
<1>2. Times(Neg(a), b) \in Scalars /\ Times(a, b) \in Scalars /\ Times(a, Neg(b)) \in Scalars
  BY <1>1, TimesType
<1>3. Plus(Neg(a), a) = 0 /\ Plus(Neg(b), b) = 0  BY <1>1, PlusNeg, PlusComm
<1>4. Plus(Times(a, Neg(b)), Times(a, b)) = Times(a, 0)  BY <1>1, <1>3, TimesPlus
<1>5. Plus(Times(b, Neg(a)), Times(b, a)) = Times(b, 0)  BY <1>1, <1>3, TimesPlus
<1>6. Plus(Times(Neg(a), b), Times(a, b)) = 0  BY <1>1, <1>5, TimesComm, TimesZero
<1>7. Plus(Times(a, Neg(b)), Times(a, b)) = 0  BY <1>1, <1>4, TimesZero
<1> QED  BY <1>2, <1>6, <1>7, NegUnique

-----------------------------------------------------------------------------
(* Recursion over the subsets of a finite set *)

\* What holds of {}, and of a set when it holds of it without its element
\* C[s], holds of all subsets of a finite set.
LEMMA SubsetInduction ==
    ASSUME NEW S, IsFiniteSet(S), NEW C, \A s \in SUBSET S : s # {} => C[s] \in s,
           NEW T \in SUBSET (SUBSET S), {} \in T,
           \A s \in SUBSET S : s # {} /\ s \ {C[s]} \in T => s \in T
    PROVE  T = SUBSET S
<1> DEFINE U == {m \in Nat : \E s \in SUBSET S : s \notin T /\ Cardinality(s) = m}
<1> SUFFICES ASSUME T # SUBSET S PROVE FALSE  OBVIOUS
<1>1. PICK s0 \in SUBSET S : s0 \notin T  OBVIOUS
<1>2. IsFiniteSet(s0) /\ Cardinality(s0) \in Nat  BY FS_Subset, FS_CardinalityType
<1>3. U # {} /\ U \in SUBSET Nat  BY <1>1, <1>2
<1> HIDE DEF U
<1>4. PICK m \in U : \A j \in U : m <= j  BY <1>3, LeastElement
<1>5. PICK s \in SUBSET S : s \notin T /\ Cardinality(s) = m  BY <1>4 DEF U
<1>6. s # {} /\ C[s] \in s  BY <1>5
<1>7. IsFiniteSet(s)  BY FS_Subset
<1> DEFINE x == C[s]
           r == s \ {x}
<1>8. m \in Nat /\ Cardinality(r) = m - 1 /\ IsFiniteSet(r) /\ Cardinality(r) \in Nat
  <2>1. m \in Nat  BY <1>3
  <2>2. /\ IsFiniteSet(r)
        /\ Cardinality(r) = IF x \in s THEN Cardinality(s) - 1 ELSE Cardinality(s)
    BY ONLY <1>7, FS_RemoveElement
  <2>3. Cardinality(r) = m - 1  BY ONLY <1>5, <1>6, <2>2
  <2>4. Cardinality(r) \in Nat  BY ONLY <2>2, FS_CardinalityType
  <2> QED  BY ONLY <2>1, <2>2, <2>3, <2>4
<1>9. r \in SUBSET S /\ r \notin T  BY <1>5, <1>6
<1>10. Cardinality(r) \in U  BY <1>8, <1>9 DEF U
<1> QED  BY <1>4, <1>8, <1>10

\* g, with values in V, is defined by recursion on the subsets of S: b at {},
\* and at s by its value without C[s].
IsFold(S, V, C, b, H, g) ==
    /\ g \in [SUBSET S -> V]
    /\ \A s \in SUBSET S : g[s] = IF s = {} THEN b ELSE H[<<C[s], g[s \ {C[s]}]>>]

LEMMA FoldDefined ==
    ASSUME NEW S, IsFiniteSet(S), NEW C, \A s \in SUBSET S : s # {} => C[s] \in s,
           NEW V, NEW b \in V, NEW H \in [S \X V -> V]
    PROVE  \E g : IsFold(S, V, C, b, H, g)
<1> DEFINE Upto(m) == {s \in SUBSET S : Cardinality(s) <= m}
           Rec(g, m) == /\ g \in [Upto(m) -> V]
                        /\ \A s \in Upto(m) :
                              g[s] = IF s = {} THEN b ELSE H[<<C[s], g[s \ {C[s]}]>>]
           U == {m \in Nat : ~ \E g : Rec(g, m)}
<1>1. \A s \in SUBSET S : IsFiniteSet(s) /\ Cardinality(s) \in Nat /\ Cardinality(s) <= Cardinality(S)
  BY FS_Subset, FS_CardinalityType
<1>2. \A s \in SUBSET S : s # {} => s \ {C[s]} \in SUBSET S /\ Cardinality(s \ {C[s]}) = Cardinality(s) - 1
  BY <1>1, FS_RemoveElement
<1>3. \A m \in Nat : m \notin U
  <2> SUFFICES ASSUME U # {} PROVE FALSE  OBVIOUS
  <2>1. PICK m \in U : \A j \in U : m <= j
    <3>1. U \in SUBSET Nat  OBVIOUS
    <3> HIDE DEF U
    <3> QED  BY <3>1, LeastElement
  <2>2. m \in Nat /\ ~ \E g : Rec(g, m)  OBVIOUS
  <2>3. CASE m = 0
    <3> DEFINE g0 == [s \in Upto(m) |-> b]
    <3>1. ASSUME NEW s \in Upto(m) PROVE s = {}
      <4>1. s \in SUBSET S /\ Cardinality(s) <= 0  BY <2>3
      <4>2. IsFiniteSet(s) /\ Cardinality(s) = 0  BY <1>1, <4>1
      <4> QED  BY <4>2, FS_EmptySet
    <3>2. Rec(g0, m)  BY <3>1
    <3> QED  BY <2>2, <3>2
  <2>4. CASE m # 0
    <3>1. m - 1 \in Nat  BY <2>2, <2>4
    <3>2. m - 1 \notin U
      <4> SUFFICES ASSUME m - 1 \in U PROVE FALSE  OBVIOUS
      <4>1. m <= m - 1  BY <2>1
      <4> QED  BY <3>1, <4>1
    <3>3. PICK g : Rec(g, m - 1)  BY <3>1, <3>2
    <3> DEFINE g1 == [s \in Upto(m) |-> IF s = {} THEN b ELSE H[<<C[s], g[s \ {C[s]}]>>]]
    <3>4. \A s \in Upto(m) : s # {} => s \ {C[s]} \in Upto(m - 1)
      BY <1>1, <1>2, <2>2
    <3>5. \A s \in Upto(m - 1) : s \in Upto(m) /\ g1[s] = g[s]
      BY <1>1, <2>2, <3>3
    <3>6. g1 \in [Upto(m) -> V]
      <4> SUFFICES ASSUME NEW s \in Upto(m), s # {} PROVE H[<<C[s], g[s \ {C[s]}]>>] \in V
        OBVIOUS
      <4>1. C[s] \in S /\ g[s \ {C[s]}] \in V  BY <3>3, <3>4
      <4> QED  BY <4>1
    <3>7. \A s \in Upto(m) : g1[s] = IF s = {} THEN b ELSE H[<<C[s], g1[s \ {C[s]}]>>]
      BY <3>4, <3>5
    <3>8. Rec(g1, m)  BY <3>6, <3>7
    <3> QED  BY <2>2, <3>8
  <2> QED  BY <2>3, <2>4
<1>4. Cardinality(S) \in Nat  BY <1>1
<1>5. PICK g : Rec(g, Cardinality(S))  BY <1>3, <1>4
<1>6. Upto(Cardinality(S)) = SUBSET S  BY <1>1
<1> QED  BY <1>5, <1>6 DEF IsFold

\* FoldLeft takes the elements of a sequence out in the order of Max.
LEMMA MaxIn ==
    ASSUME NEW n \in Nat, NEW s \in SUBSET (1 .. n), s # {}
    PROVE  Max(s) \in s
<1>1. s \in SUBSET Nat /\ \A x \in s : x <= n  OBVIOUS
<1>2. PICK x \in s : \A y \in s : y <= x  BY <1>1, LargestElement
<1>3. \A y \in s : x >= y  BY <1>1, <1>2
<1> QED  BY <1>3 DEF Max

\* The intervals that it leaves when it begins with 1 .. k.
LEMMA MaxOfInterval ==
    ASSUME NEW k \in Nat \ {0}
    PROVE  Max(1 .. k) = k /\ (1 .. k) \ {k} = 1 .. k-1
<1>1. 1 .. k # {} /\ 1 .. k \in SUBSET (1 .. k)  OBVIOUS
<1>2. \E x \in 1 .. k : \A y \in 1 .. k : x >= y  OBVIOUS
<1>3. Max(1 .. k) \in 1 .. k /\ \A y \in 1 .. k : Max(1 .. k) >= y  BY <1>2 DEF Max
<1>4. Max(1 .. k) = k
  <2> DEFINE x == Max(1 .. k)
  <2>1. x \in 1 .. k /\ x >= k  BY <1>3
  <2> HIDE DEF x
  <2>2. x = k  BY <2>1
  <2> QED  BY <2>2 DEF x
<1>5. (1 .. k) \ {k} = 1 .. k-1  OBVIOUS
<1> QED  BY <1>4, <1>5

\* A fold in that order, which starts with b.
IsMaxFold(n, V, b, H, g) ==
    /\ g \in [SUBSET (1 .. n) -> V]
    /\ \A s \in SUBSET (1 .. n) : g[s] = IF s = {} THEN b ELSE H[<<Max(s), g[s \ {Max(s)}]>>]

LEMMA MaxFoldDefined ==
    ASSUME NEW n \in Nat, NEW V, NEW b \in V, NEW H \in [(1 .. n) \X V -> V]
    PROVE  \E g : IsMaxFold(n, V, b, H, g)
<1> DEFINE D == 1 .. n
           C == [s \in SUBSET D |-> Max(s)]
<1>1. \A s \in SUBSET D : C[s] = Max(s) /\ (s # {} => C[s] \in s)  BY MaxIn
<1>2. IsFiniteSet(D)  BY FS_Interval
<1> HIDE DEF C
<1>3. H \in [D \X V -> V]  OBVIOUS
<1> HIDE DEF D
<1>4. PICK g : IsFold(D, V, C, b, H, g)  BY <1>1, <1>2, <1>3, FoldDefined
<1>5. g \in [SUBSET D -> V]
      /\ \A s \in SUBSET D : g[s] = IF s = {} THEN b ELSE H[<<Max(s), g[s \ {Max(s)}]>>]
  BY <1>1, <1>4 DEF IsFold
<1> QED  BY <1>5 DEF IsMaxFold, D

\* g[s] is the sum of F over the subset s of S, in the order of
\* MapThenSumSet.
IsSum(F, S, g) ==
    g = [s \in SUBSET S |-> IF s = {} THEN 0
                            ELSE F[CHOOSE x \in s : TRUE] + g[s \ {CHOOSE x \in s : TRUE}]]

\* Induction along that order.
LEMMA SumInduction ==
    ASSUME NEW S, IsFiniteSet(S), NEW T \in SUBSET (SUBSET S), {} \in T,
           \A s \in SUBSET S : s # {} /\ s \ {CHOOSE x \in s : TRUE} \in T => s \in T
    PROVE  T = SUBSET S
<1> DEFINE C == [s \in SUBSET S |-> CHOOSE x \in s : TRUE]
<1>1. \A s \in SUBSET S : C[s] = CHOOSE x \in s : TRUE  OBVIOUS
<1>2. \A s \in SUBSET S : s # {} => C[s] \in s
  <2> SUFFICES ASSUME NEW s \in SUBSET S, s # {} PROVE (CHOOSE x \in s : TRUE) \in s  BY <1>1
  <2> QED  OBVIOUS
<1> HIDE DEF C
<1>3. \A s \in SUBSET S : s # {} /\ s \ {C[s]} \in T => s \in T  BY <1>1
<1> QED  BY <1>2, <1>3, SubsetInduction

LEMMA SumDefined ==
    ASSUME NEW S, IsFiniteSet(S), NEW F \in [S -> Int]
    PROVE  \E g : IsSum(F, S, g)
<1> DEFINE C == [s \in SUBSET S |-> CHOOSE x \in s : TRUE]
           H == [p \in S \X Int |-> F[p[1]] + p[2]]
<1>1. \A s \in SUBSET S : C[s] = CHOOSE x \in s : TRUE  OBVIOUS
<1>2. \A s \in SUBSET S : s # {} => C[s] \in s
  <2> SUFFICES ASSUME NEW s \in SUBSET S, s # {} PROVE (CHOOSE x \in s : TRUE) \in s  BY <1>1
  <2> QED  OBVIOUS
<1>3. H \in [S \X Int -> Int]  OBVIOUS
<1>4. \A x \in S, y \in Int : H[<<x, y>>] = F[x] + y  OBVIOUS
<1> HIDE DEF C, H
<1>5. 0 \in Int  OBVIOUS
<1>6. PICK g : IsFold(S, Int, C, 0, H, g)  BY <1>2, <1>3, <1>5, FoldDefined
<1>7. \A s \in SUBSET S :
         g[s] = IF s = {} THEN 0 ELSE F[CHOOSE x \in s : TRUE] + g[s \ {CHOOSE x \in s : TRUE}]
  <2> SUFFICES ASSUME NEW s \in SUBSET S, s # {}
               PROVE  g[s] = F[C[s]] + g[s \ {C[s]}]
    BY <1>1, <1>6 DEF IsFold
  <2>1. C[s] \in S /\ g[s \ {C[s]}] \in Int  BY <1>2, <1>6 DEF IsFold
  <2>2. g[s] = H[<<C[s], g[s \ {C[s]}]>>]  BY <1>6 DEF IsFold
  <2> QED  BY <1>4, <2>1, <2>2
<1> DEFINE R(s) == IF s = {} THEN 0
                   ELSE F[CHOOSE x \in s : TRUE] + g[s \ {CHOOSE x \in s : TRUE}]
<1>8. \A s \in SUBSET S : g[s] = R(s)  BY <1>7
<1> HIDE DEF R
<1>9. g = [s \in SUBSET S |-> R(s)]  BY <1>6, <1>8 DEF IsFold
<1> QED  BY <1>9 DEF IsSum, R

LEMMA SumStep ==
    ASSUME NEW S, NEW F, NEW g, IsSum(F, S, g), NEW s \in SUBSET S, s # {}
    PROVE  LET x == CHOOSE x \in s : TRUE
           IN  x \in S /\ g[s] = F[x] + g[s \ {x}]
<1>1. (CHOOSE x \in s : TRUE) \in s  OBVIOUS
<1> DEFINE R(t) == IF t = {} THEN 0
                   ELSE F[CHOOSE x \in t : TRUE] + g[t \ {CHOOSE x \in t : TRUE}]
<1>2. g = [t \in SUBSET S |-> R(t)]  BY DEF IsSum
<1> HIDE DEF R
<1>3. g[s] = R(s)  BY <1>2
<1> QED  BY <1>1, <1>3 DEF R

LEMMA SumEmpty ==
    ASSUME NEW S, NEW F, NEW g, IsSum(F, S, g)
    PROVE  g[{}] = 0
<1> DEFINE R(t) == IF t = {} THEN 0
                   ELSE F[CHOOSE x \in t : TRUE] + g[t \ {CHOOSE x \in t : TRUE}]
<1>1. g = [t \in SUBSET S |-> R(t)]  BY DEF IsSum
<1> HIDE DEF R
<1>2. g[{}] = R({})  BY <1>1
<1> QED  BY <1>2 DEF R

LEMMA SumType ==
    ASSUME NEW S, IsFiniteSet(S), NEW F \in [S -> Int], NEW g, IsSum(F, S, g)
    PROVE  \A s \in SUBSET S : g[s] \in Int
<1> DEFINE T == {s \in SUBSET S : g[s] \in Int}
<1>1. {} \in T  BY SumEmpty
<1>2. ASSUME NEW s \in SUBSET S, s # {}, s \ {CHOOSE x \in s : TRUE} \in T PROVE s \in T
  <2> DEFINE x == CHOOSE x \in s : TRUE
  <2>1. x \in S /\ g[s] = F[x] + g[s \ {x}]  BY <1>2, SumStep
  <2>2. g[s \ {x}] \in Int  BY <1>2
  <2> HIDE DEF x
  <2>3. g[s] \in Int  BY <2>1, <2>2
  <2> QED  BY <2>3
<1>3. T \in SUBSET (SUBSET S)  OBVIOUS
<1> HIDE DEF T
<1>4. T = SUBSET S  BY <1>1, <1>2, <1>3, SumInduction
<1> QED  BY <1>4 DEF T

\* The sum of the functions is the sum of the sums, modulo N.
LEMMA SumOfPlus ==
    ASSUME NEW S, IsFiniteSet(S), NEW F \in [S -> Int], NEW G1 \in [S -> Int], NEW H \in [S -> Int],
           \A i \in S : H[i] = Plus(F[i], G1[i]),
           NEW f, IsSum(F, S, f), NEW g, IsSum(G1, S, g), NEW h, IsSum(H, S, h)
    PROVE  h[S] % N = Plus(f[S] % N, g[S] % N)
<1> DEFINE T == {s \in SUBSET S : h[s] % N = (f[s] + g[s]) % N}
<1>0. N \in Nat \ {0}  BY CurveAssumption
<1>1. {} \in T  BY SumEmpty
<1>2. ASSUME NEW s \in SUBSET S, s # {}, s \ {CHOOSE x \in s : TRUE} \in T PROVE s \in T
  <2> DEFINE x == CHOOSE x \in s : TRUE
             r == s \ {x}
  <2>1. x \in S /\ f[s] = F[x] + f[r] /\ g[s] = G1[x] + g[r] /\ h[s] = H[x] + h[r]
    BY <1>2, SumStep
  <2>2. h[r] % N = (f[r] + g[r]) % N  BY <1>2
  <2>3. r \in SUBSET S  OBVIOUS
  <2> HIDE DEF x, r
  <2>4. f[r] \in Int /\ g[r] \in Int /\ h[r] \in Int  BY <2>3, SumType
  <2> DEFINE a == F[x] + G1[x]
             b == f[r] + g[r]
             c == h[r]
  <2>5. F[x] \in Int /\ G1[x] \in Int /\ H[x] = a % N /\ a \in Int /\ b \in Int /\ c \in Int
    BY <2>1, <2>4 DEF Plus
  <2>6. f[s] + g[s] = a + b  BY <2>1, <2>4, <2>5
  <2>7. h[s] = (a % N) + c  BY <2>1, <2>5
  <2>8. c % N = b % N  BY <2>2
  <2> HIDE DEF a, b, c
  <2>9. ((a % N) + c) % N = (a + c) % N /\ (a + (c % N)) % N = (a + c) % N
        /\ (a + (b % N)) % N = (a + b) % N
    BY <1>0, <2>5, ModSum
  <2>10. h[s] % N = (f[s] + g[s]) % N  BY <2>6, <2>7, <2>8, <2>9
  <2> QED  BY <2>10
<1>3. T \in SUBSET (SUBSET S)  OBVIOUS
<1> HIDE DEF T
<1>4. T = SUBSET S  BY <1>1, <1>2, <1>3, SumInduction
<1>5. h[S] % N = (f[S] + g[S]) % N  BY <1>4 DEF T
<1>6. f[S] \in Int /\ g[S] \in Int  BY SumType
<1> DEFINE a == f[S]
           b == g[S]
<1> HIDE DEF a, b
<1>7. a \in Int /\ b \in Int /\ h[S] % N = (a + b) % N  BY <1>5, <1>6 DEF a, b
<1>8. a % N \in Int  BY <1>0, <1>7, DivMod
<1>9. ((a % N) + b) % N = (a + b) % N /\ ((a % N) + (b % N)) % N = ((a % N) + b) % N
  BY <1>0, <1>7, <1>8, ModSum
<1> QED  BY <1>7, <1>9 DEF Plus, a, b

\* The sum of multiples is the multiple of the sum, modulo N.
LEMMA SumOfTimes ==
    ASSUME NEW S, IsFiniteSet(S), NEW F \in [S -> Int], NEW c \in Int, NEW H \in [S -> Int],
           \A i \in S : H[i] = Times(c, F[i]),
           NEW f, IsSum(F, S, f), NEW h, IsSum(H, S, h)
    PROVE  h[S] % N = Times(c, f[S] % N)
<1> DEFINE T == {s \in SUBSET S : h[s] % N = (c * f[s]) % N}
<1>0. N \in Nat \ {0}  BY CurveAssumption
<1>1. {} \in T
  <2>1. c * 0 = 0  OBVIOUS
  <2>2. f[{}] = 0 /\ h[{}] = 0  BY SumEmpty
  <2> QED  BY <2>1, <2>2
<1>2. ASSUME NEW s \in SUBSET S, s # {}, s \ {CHOOSE x \in s : TRUE} \in T PROVE s \in T
  <2> DEFINE x == CHOOSE x \in s : TRUE
             r == s \ {x}
  <2>1. x \in S /\ f[s] = F[x] + f[r] /\ h[s] = H[x] + h[r]  BY <1>2, SumStep
  <2>2. h[r] % N = (c * f[r]) % N  BY <1>2
  <2>3. r \in SUBSET S  OBVIOUS
  <2> HIDE DEF x, r
  <2>4. f[r] \in Int /\ h[r] \in Int /\ F[x] \in Int  BY <2>1, <2>3, SumType
  <2>5. c * (F[x] + f[r]) = c * F[x] + c * f[r]  BY <2>4
  <2> DEFINE a == c * F[x]
             b == c * f[r]
             d == h[r]
  <2>6. a \in Int /\ b \in Int /\ d \in Int  BY <2>4
  <2>7. c * f[s] = a + b  BY <2>1, <2>5
  <2>8. h[s] = (a % N) + d  BY <2>1 DEF Times
  <2>9. d % N = b % N  BY <2>2
  <2> HIDE DEF a, b, d
  <2>10. ((a % N) + d) % N = (a + d) % N /\ (a + (d % N)) % N = (a + d) % N
         /\ (a + (b % N)) % N = (a + b) % N
    BY <1>0, <2>6, ModSum
  <2>11. h[s] % N = (c * f[s]) % N  BY <2>7, <2>8, <2>9, <2>10
  <2> QED  BY <2>11
<1>3. T \in SUBSET (SUBSET S)  OBVIOUS
<1> HIDE DEF T
<1>4. T = SUBSET S  BY <1>1, <1>2, <1>3, SumInduction
<1>5. h[S] % N = (c * f[S]) % N  BY <1>4 DEF T
<1> DEFINE a == f[S]
<1>6. a \in Int  BY SumType
<1> HIDE DEF a
<1>7. h[S] % N = (c * a) % N  BY <1>5 DEF a
<1>8. a % N \in Int  BY <1>0, <1>6, DivMod
<1>9. ((a % N) * c) % N = (a * c) % N  BY <1>0, <1>6, ModProd
<1>10. (a % N) * c = c * (a % N) /\ a * c = c * a  BY <1>6, <1>8
<1> QED  BY <1>7, <1>9, <1>10 DEF Times, a
=============================================================================
