------------------------ MODULE SilentPaymentsProofs ------------------------
(***************************************************************************)
(* Proofs about SilentPayments: the sender pays everyone in the order of   *)
(* the array or fails for a documented reason, the scan finds what a scan  *)
(* without batches would, what it finds can be spent, and a receiver finds *)
(* whatever was created for him.                                           *)
(***************************************************************************)
EXTENDS SilentPayments, CurveLemmas

-----------------------------------------------------------------------------
(* Numbers and finite sets *)

LEMMA CountTo ==
    ASSUME NEW n \in Nat
    PROVE  IsFiniteSet(1 .. n) /\ Cardinality(1 .. n) = n
<1>1. IsFiniteSet(1 .. n) /\ Cardinality(1 .. n) = IF 1 > n THEN 0 ELSE n - 1 + 1
  BY FS_Interval
<1> QED  BY <1>1

\* The elements of a finite set of naturals that are below i, and how many.
Below(S, i) == {j \in S : j < i}

\* The next element of the set has one more below it.
LEMMA BelowNext ==
    ASSUME NEW S \in SUBSET Nat, IsFiniteSet(S), NEW p \in S, NEW i \in Nat, p < i,
           \A j \in S : j < i => j <= p
    PROVE  Cardinality(Below(S, i)) = Cardinality(Below(S, p)) + 1
<1>1. Below(S, i) = Below(S, p) \cup {p}
  <2>1. \A j \in S : j \in Nat  OBVIOUS
  <2>2. \A j \in S : j < i <=> j < p \/ j = p  BY <2>1
  <2> QED  BY <2>2 DEF Below
<1>2. IsFiniteSet(Below(S, p)) /\ p \notin Below(S, p)
  <2>1. Below(S, p) \in SUBSET S /\ p \notin Below(S, p)  BY DEF Below
  <2> QED  BY <2>1, FS_Subset
<1> QED  BY <1>1, <1>2, FS_AddElement

LEMMA BelowType ==
    ASSUME NEW S, IsFiniteSet(S), NEW i
    PROVE  /\ IsFiniteSet(Below(S, i)) /\ Cardinality(Below(S, i)) \in Nat
           /\ Cardinality(Below(S, i)) <= Cardinality(S)
<1>1. Below(S, i) \in SUBSET S  BY DEF Below
<1> QED  BY <1>1, FS_Subset, FS_CardinalityType

\* An element has fewer below it than the set has elements.
LEMMA BelowStrict ==
    ASSUME NEW S \in SUBSET Nat, IsFiniteSet(S), NEW i \in S
    PROVE  Cardinality(Below(S, i)) < Cardinality(S)
<1>1. Below(S, i) \in SUBSET S /\ i \notin Below(S, i)  BY DEF Below
<1>2. Below(S, i) # S  BY <1>1
<1> QED  BY <1>1, <1>2, FS_Subset, FS_CardinalityType

\* Whatever an element has below it, each smaller number some element has.
LEMMA BelowSegment ==
    ASSUME NEW S \in SUBSET Nat, IsFiniteSet(S), NEW i \in S, NEW n \in Nat,
           n <= Cardinality(Below(S, i))
    PROVE  \E j \in S : Cardinality(Below(S, j)) = n
<1> DEFINE U == {j \in S : n <= Cardinality(Below(S, j))}
<1>1. U \in SUBSET Nat /\ i \in U  OBVIOUS
<1> HIDE DEF U
<1>2. PICK j \in U : \A x \in U : j <= x  BY <1>1, LeastElement
<1>3. j \in S /\ n <= Cardinality(Below(S, j)) /\ j \in Nat  BY <1>2 DEF U
<1>4. IsFiniteSet(Below(S, j)) /\ Cardinality(Below(S, j)) \in Nat  BY BelowType
<1>5. CASE Below(S, j) = {}
  <2>1. Cardinality(Below(S, j)) = 0  BY <1>5, FS_EmptySet
  <2> QED  BY <1>3, <2>1
<1>6. CASE Below(S, j) # {}
  <2>1. Below(S, j) \in SUBSET Nat /\ \A x \in Below(S, j) : x <= j
    <3>1. \A x \in S : x \in Nat  OBVIOUS
    <3>2. \A x \in S : x < j => x <= j  BY <1>3, <3>1
    <3> QED  BY <3>1, <3>2 DEF Below
  <2>2. PICK p \in Below(S, j) : \A x \in Below(S, j) : x <= p
    BY <1>3, <1>6, <2>1, LargestElement
  <2>3. p \in S /\ p < j /\ p \in Nat /\ \A x \in S : x < j => x <= p  BY <2>2 DEF Below
  <2>4. Cardinality(Below(S, j)) = Cardinality(Below(S, p)) + 1
    BY <1>3, <2>3, BelowNext
  <2>5. p \notin U  BY <1>2, <1>3, <2>3
  <2>6. ~(n <= Cardinality(Below(S, p)))  BY <2>3, <2>5 DEF U
  <2>7. Cardinality(Below(S, p)) \in Nat  BY BelowType
  <2> QED  BY <1>3, <2>4, <2>6, <2>7
<1> QED  BY <1>5, <1>6

\* An order of a finite set lists it.
LEMMA SortedListing ==
    ASSUME NEW S, IsFiniteSet(S), NEW R \in SUBSET (S \X S),
           \A x \in S : <<x, x>> \notin R,
           \A x, y, z \in S : <<x, y>> \in R /\ <<y, z>> \in R => <<x, z>> \in R,
           \A x, y \in S : x # y => <<x, y>> \in R \/ <<y, x>> \in R
    PROVE  \E f \in SetToSeqs(S) : \A p, q \in DOMAIN f : p < q => <<f[p], f[q]>> \in R
<1> DEFINE m == Cardinality(S)
           Before_(x) == {y \in S : <<y, x>> \in R}
           rank == [x \in S |-> Cardinality(Before_(x)) + 1]
<1>1. m \in Nat  BY FS_CardinalityType
<1>2. ASSUME NEW x \in S
      PROVE  /\ IsFiniteSet(Before_(x)) /\ Cardinality(Before_(x)) \in Nat
             /\ Cardinality(Before_(x)) < m
  <2>1. Before_(x) \in SUBSET S /\ x \notin Before_(x)  OBVIOUS
  <2> HIDE DEF Before_
  <2>2. Before_(x) # S  BY <2>1
  <2> QED  BY <2>1, <2>2, FS_Subset, FS_CardinalityType
<1>3. ASSUME NEW x \in S, NEW y \in S, <<x, y>> \in R
      PROVE  rank[x] < rank[y]
  <2>1. Before_(x) \in SUBSET Before_(y) /\ x \in Before_(y) /\ x \notin Before_(x)
    BY <1>3
  <2>2. IsFiniteSet(Before_(y)) /\ Cardinality(Before_(x)) \in Nat
        /\ Cardinality(Before_(y)) \in Nat
    BY <1>2
  <2>3. rank[x] = Cardinality(Before_(x)) + 1 /\ rank[y] = Cardinality(Before_(y)) + 1
    OBVIOUS
  <2> HIDE DEF Before_, rank
  <2>4. Before_(x) # Before_(y)  BY <2>1
  <2>5. Cardinality(Before_(x)) <= Cardinality(Before_(y))
        /\ (Cardinality(Before_(y)) = Cardinality(Before_(x)) => Before_(y) = Before_(x))
    BY <2>1, <2>2, FS_Subset
  <2> QED  BY <2>2, <2>3, <2>4, <2>5
<1>4. rank \in [S -> 1 .. m]
  <2> HIDE DEF Before_, m
  <2>1. \A x \in S : Cardinality(Before_(x)) + 1 \in 1 .. m  BY <1>1, <1>2
  <2> QED  BY <2>1
<1> HIDE DEF rank
<1>5. \A x, y \in S : rank[x] \in Int /\ (rank[x] = rank[y] => x = y)
  <2> SUFFICES ASSUME NEW x \in S, NEW y \in S PROVE rank[x] \in Int /\ (rank[x] = rank[y] => x = y)
    OBVIOUS
  <2>1. rank[x] \in Int /\ rank[y] \in Int  BY <1>1, <1>4
  <2>2. x # y => rank[x] < rank[y] \/ rank[y] < rank[x]  BY <1>3
  <2> QED  BY <2>1, <2>2
<1>6. rank \in Surjection(S, 1 .. m)
  <2>1. rank \in Injection(S, 1 .. m)  BY <1>4, <1>5 DEF Injection, IsInjective
  <2>2. IsFiniteSet(1 .. m) /\ Cardinality(1 .. m) = m  BY <1>1, CountTo
  <2> QED  BY <2>1, <2>2, FS_Injection
<1> DEFINE f == [p \in 1 .. m |-> CHOOSE x \in S : rank[x] = p]
<1>7. ASSUME NEW p \in 1 .. m PROVE f[p] \in S /\ rank[f[p]] = p
  <2>1. \E x \in S : rank[x] = p  BY <1>6 DEF Surjection
  <2>2. f[p] = CHOOSE x \in S : rank[x] = p  OBVIOUS
  <2> HIDE DEF f
  <2> QED  BY <2>1, <2>2
<1>8. f \in [1 .. m -> S]  BY <1>7
<1>9. DOMAIN f = 1 .. m  OBVIOUS
<1> HIDE DEF f
<1>10. f \in SetToSeqs(S)
  <2>1. \A p, q \in 1 .. m : p # q => f[p] # f[q]  BY <1>7
  <2> QED  BY <1>8, <2>1 DEF SetToSeqs
<1>11. ASSUME NEW p \in 1 .. m, NEW q \in 1 .. m, p < q PROVE <<f[p], f[q]>> \in R
  <2>1. f[p] \in S /\ f[q] \in S /\ rank[f[p]] = p /\ rank[f[q]] = q  BY <1>7
  <2>2. p \in Int /\ q \in Int  BY <1>1
  <2>3. f[p] # f[q]  BY <1>11, <2>1, <2>2
  <2>4. ~(<<f[q], f[p]>> \in R)
    <3>1. <<f[q], f[p]>> \in R => q < p  BY <1>3, <2>1
    <3> QED  BY <1>11, <2>2, <3>1
  <2> QED  BY <2>1, <2>3, <2>4
<1> QED  BY <1>9, <1>10, <1>11

-----------------------------------------------------------------------------
(* The sums of the inputs' keys *)

\* g[s] is the sum of F over s, and h[s] the sum in the group, begun with b.
IsMaxSum(F, n, g) ==
    g = [s \in SUBSET (1 .. n) |-> IF s = {} THEN 0 ELSE g[s \ {Max(s)}] + F[Max(s)]]

IsPlusFold(F, n, b, h) ==
    h = [s \in SUBSET (1 .. n) |-> IF s = {} THEN b ELSE Plus(h[s \ {Max(s)}], F[Max(s)])]

LEMMA MaxSumDefined ==
    ASSUME NEW n \in Nat, NEW F \in [1 .. n -> Int]
    PROVE  \E g : IsMaxSum(F, n, g)
<1> DEFINE D == 1 .. n
           C == [s \in SUBSET D |-> Max(s)]
           H == [p \in D \X Int |-> p[2] + F[p[1]]]
<1>1. \A s \in SUBSET D : C[s] = Max(s) /\ (s # {} => C[s] \in s)  BY MaxIn
<1>2. H \in [D \X Int -> Int] /\ \A x \in D, y \in Int : H[<<x, y>>] = y + F[x]  OBVIOUS
<1>3. IsFiniteSet(D)  BY FS_Interval
<1>4. 0 \in Int  OBVIOUS
<1> HIDE DEF C, H, D
<1>5. PICK g : IsFold(D, Int, C, 0, H, g)  BY <1>1, <1>2, <1>3, <1>4, FoldDefined
<1> DEFINE R(s) == IF s = {} THEN 0 ELSE g[s \ {Max(s)}] + F[Max(s)]
<1>6. ASSUME NEW s \in SUBSET D PROVE g[s] = R(s)
  <2>1. CASE s = {}  BY <1>5, <2>1 DEF IsFold
  <2>2. CASE s # {}
    <3>1. C[s] \in D /\ g[s \ {C[s]}] \in Int  BY <1>1, <1>5, <2>2 DEF IsFold
    <3>2. g[s] = H[<<C[s], g[s \ {C[s]}]>>]  BY <1>5, <2>2 DEF IsFold
    <3> QED  BY <1>1, <1>2, <2>2, <3>1, <3>2
  <2> QED  BY <2>1, <2>2
<1> HIDE DEF R
<1>7. g = [s \in SUBSET D |-> R(s)]  BY <1>5, <1>6 DEF IsFold
<1> QED  BY <1>7 DEF IsMaxSum, R, D

LEMMA PlusFoldDefined ==
    ASSUME NEW n \in Nat, NEW F \in [1 .. n -> Int], NEW b \in Int
    PROVE  \E h : IsPlusFold(F, n, b, h)
<1> DEFINE D == 1 .. n
           C == [s \in SUBSET D |-> Max(s)]
           H == [p \in D \X Int |-> Plus(p[2], F[p[1]])]
<1>1. \A s \in SUBSET D : C[s] = Max(s) /\ (s # {} => C[s] \in s)  BY MaxIn
<1>2. /\ H \in [D \X Int -> Int]
      /\ \A x \in D, y \in Int : H[<<x, y>>] = Plus(y, F[x])
  <2>1. \A a, c \in Int : Plus(a, c) \in Int  BY PlusType DEF Scalars
  <2> QED  BY <2>1
<1>3. IsFiniteSet(D)  BY FS_Interval
<1> HIDE DEF C, H, D
<1>5. PICK h : IsFold(D, Int, C, b, H, h)  BY <1>1, <1>2, <1>3, FoldDefined
<1> DEFINE R(s) == IF s = {} THEN b ELSE Plus(h[s \ {Max(s)}], F[Max(s)])
<1>6. ASSUME NEW s \in SUBSET D PROVE h[s] = R(s)
  <2>1. CASE s = {}  BY <1>5, <2>1 DEF IsFold
  <2>2. CASE s # {}
    <3>1. C[s] \in D /\ h[s \ {C[s]}] \in Int  BY <1>1, <1>5, <2>2 DEF IsFold
    <3>2. h[s] = H[<<C[s], h[s \ {C[s]}]>>]  BY <1>5, <2>2 DEF IsFold
    <3> QED  BY <1>1, <1>2, <2>2, <3>1, <3>2
  <2> QED  BY <2>1, <2>2
<1> HIDE DEF R
<1>7. h = [s \in SUBSET D |-> R(s)]  BY <1>5, <1>6 DEF IsFold
<1> QED  BY <1>7 DEF IsPlusFold, R, D

LEMMA MaxSumStep ==
    ASSUME NEW n, NEW F, NEW g, IsMaxSum(F, n, g)
    PROVE  /\ g[{}] = 0
           /\ \A s \in SUBSET (1 .. n) : s # {} => g[s] = g[s \ {Max(s)}] + F[Max(s)]
<1> DEFINE R(t) == IF t = {} THEN 0 ELSE g[t \ {Max(t)}] + F[Max(t)]
<1>1. g = [t \in SUBSET (1 .. n) |-> R(t)]  BY DEF IsMaxSum
<1> HIDE DEF R
<1>2. \A s \in SUBSET (1 .. n) : g[s] = R(s)  BY <1>1
<1> QED  BY <1>2 DEF R

LEMMA PlusFoldStep ==
    ASSUME NEW n, NEW F, NEW b, NEW h, IsPlusFold(F, n, b, h)
    PROVE  /\ h[{}] = b
           /\ \A s \in SUBSET (1 .. n) : s # {} => h[s] = Plus(h[s \ {Max(s)}], F[Max(s)])
<1> DEFINE R(t) == IF t = {} THEN b ELSE Plus(h[t \ {Max(t)}], F[Max(t)])
<1>1. h = [t \in SUBSET (1 .. n) |-> R(t)]  BY DEF IsPlusFold
<1> HIDE DEF R
<1>2. \A s \in SUBSET (1 .. n) : h[s] = R(s)  BY <1>1
<1> QED  BY <1>2 DEF R

\* Induction along that order.
LEMMA MaxInduction ==
    ASSUME NEW S, IsFiniteSet(S), \A s \in SUBSET S : s # {} => Max(s) \in s,
           NEW T \in SUBSET (SUBSET S), {} \in T,
           \A s \in SUBSET S : s # {} /\ s \ {Max(s)} \in T => s \in T
    PROVE  T = SUBSET S
<1> DEFINE C == [s \in SUBSET S |-> Max(s)]
<1>1. \A s \in SUBSET S : C[s] = Max(s)  OBVIOUS
<1>2. \A s \in SUBSET S : s # {} => C[s] \in s  BY <1>1
<1> HIDE DEF C
<1>3. \A s \in SUBSET S : s # {} /\ s \ {C[s]} \in T => s \in T  BY <1>1
<1> QED  BY <1>2, <1>3, SubsetInduction

\* Adding in the group is adding the discrete logarithms.
LEMMA PlusFoldIsSum ==
    ASSUME NEW n \in Nat, NEW F \in [1 .. n -> Int], NEW b \in Scalars,
           NEW g, IsMaxSum(F, n, g), NEW h, IsPlusFold(F, n, b, h)
    PROVE  g[1 .. n] \in Int /\ h[1 .. n] = (b + g[1 .. n]) % N
<1> DEFINE D == 1 .. n
           C == [s \in SUBSET D |-> Max(s)]
           T == {s \in SUBSET D : g[s] \in Int /\ h[s] = (b + g[s]) % N}
<1>0. N \in Nat \ {0} /\ b \in Int  BY CurveAssumption DEF Scalars
<1>1. {} \in T
  <2>1. g[{}] = 0 /\ h[{}] = b  BY MaxSumStep, PlusFoldStep
  <2>2. b + 0 = b  BY <1>0
  <2> QED  BY <2>1, <2>2, SmallMod
<1>2. \A s \in SUBSET D : C[s] = Max(s) /\ (s # {} => C[s] \in s)  BY MaxIn
<1>3. ASSUME NEW s \in SUBSET D, s # {}, s \ {C[s]} \in T PROVE s \in T
  <2> DEFINE x == C[s]
             r == s \ {x}
             a == b + g[r]
             f == F[x]
  <2>1. x \in D /\ x = Max(s)  BY <1>2, <1>3
  <2>2. g[s] = g[r] + f /\ h[s] = Plus(h[r], f)
    <3>1. g[s] = g[s \ {Max(s)}] + F[Max(s)]  BY <1>3, MaxSumStep
    <3>2. h[s] = Plus(h[s \ {Max(s)}], F[Max(s)])  BY <1>3, PlusFoldStep
    <3> HIDE DEF C
    <3> QED  BY <2>1, <3>1, <3>2
  <2>3. g[r] \in Int /\ h[r] = a % N  BY <1>3
  <2> HIDE DEF r
  <2>4. a \in Int /\ f \in Int  BY <1>0, <2>1, <2>3
  <2>5. b + g[s] = a + f  BY <1>0, <2>2, <2>3, <2>4
  <2> HIDE DEF a, f
  <2>6. ((a % N) + f) % N = (a + f) % N  BY <1>0, <2>4, ModSum
  <2>7. h[s] = (b + g[s]) % N  BY <2>2, <2>3, <2>5, <2>6 DEF Plus
  <2>8. g[s] \in Int  BY <2>2, <2>3, <2>4
  <2> QED  BY <2>7, <2>8
<1>4. T \in SUBSET (SUBSET D)  OBVIOUS
<1> HIDE DEF T
<1>5. \A s \in SUBSET D : s # {} /\ s \ {Max(s)} \in T => s \in T
  <2> HIDE DEF C
  <2> QED  BY <1>2, <1>3
<1>6. T = SUBSET D
  <2>1. IsFiniteSet(D)  BY FS_Interval
  <2>2. \A s \in SUBSET D : s # {} => Max(s) \in s  BY MaxIn
  <2> HIDE DEF D
  <2> QED  BY <1>1, <1>4, <1>5, <2>1, <2>2, MaxInduction
<1> QED  BY <1>6 DEF T

\* The even one of a point and its negative.
LEMMA EvenYType ==
    ASSUME NEW P \in Scalars
    PROVE  /\ EvenY(P) \in Scalars /\ EvenY(P) \in Int
           /\ P # 0 => EvenY(P) # 0
           /\ EvenY(P) \notin OddY
<1>1. EvenY(P) \in Scalars  BY NegType DEF EvenY
<1>2. \A x \in Scalars : x \in Int  BY DEF Scalars
<1>3. CASE P = 0  BY <1>3, CurveAssumption DEF EvenY, Neg
<1>4. CASE P # 0
  <2>1. P \in 1 .. N-1  BY <1>4, CurveAssumption DEF Scalars
  <2> QED  BY <1>1, <1>2, <2>1, CurveAssumption DEF EvenY, IsOdd, Neg
<1> QED  BY <1>1, <1>2, <1>3, <1>4

\* The sender's sum of the keys of plain inputs, and that of taproot inputs.
KeyTerms(keys)   == [i \in 1 .. Len(keys) |-> keys[i]]
EvenTerms(keys)  == [i \in 1 .. Len(keys) |-> EvenY(keys[i])]

SumKeys(keys)    == FoldLeft(+, 0, keys)
SumEven(keys)    == FoldLeft(LAMBDA x, key : x + EvenY(key), 0, keys)
AddPoints(keys)  == FoldLeft(LAMBDA A, key : Plus(A, Times(key, G)), Infinity, keys)
AddXonly(b, keys) == FoldLeft(LAMBDA A, key : Plus(A, EvenY(Times(key, G))), b, keys)

LEMMA SumKeysSound ==
    ASSUME NEW keys \in Seq(Scalars)
    PROVE  \E g : IsMaxSum(KeyTerms(keys), Len(keys), g) /\ SumKeys(keys) = g[1 .. Len(keys)]
<1> DEFINE n == Len(keys)
           F == KeyTerms(keys)
           Q(g) == [s \in SUBSET (1 .. n) |->
                       IF s = {} THEN 0 ELSE g[s \ {Max(s)}] + keys[Max(s)]]
           it == CHOOSE g : g = Q(g)
<1>1. n \in Nat /\ F \in [1 .. n -> Int] /\ DOMAIN keys = 1 .. n
  <2>1. n \in Nat /\ DOMAIN keys = 1 .. n  OBVIOUS
  <2>2. \A i \in 1 .. n : keys[i] \in Int
    <3>1. \A i \in 1 .. n : keys[i] \in Scalars  OBVIOUS
    <3> QED  BY <3>1 DEF Scalars
  <2> QED  BY <2>1, <2>2 DEF KeyTerms
<1>2. \A g : IsMaxSum(F, n, g) <=> g = Q(g)
  <2> DEFINE A(g, s) == IF s = {} THEN 0 ELSE g[s \ {Max(s)}] + F[Max(s)]
             B(g, s) == IF s = {} THEN 0 ELSE g[s \ {Max(s)}] + keys[Max(s)]
  <2>1. \A s \in SUBSET (1 .. n) : s # {} => F[Max(s)] = keys[Max(s)]
    <3>1. \A s \in SUBSET (1 .. n) : s # {} => Max(s) \in 1 .. n  BY <1>1, MaxIn
    <3> QED  BY <3>1 DEF KeyTerms
  <2> HIDE DEF F
  <2>2. \A g : \A s \in SUBSET (1 .. n) : A(g, s) = B(g, s)  BY <2>1
  <2> HIDE DEF A, B
  <2>3. \A g : [s \in SUBSET (1 .. n) |-> A(g, s)] = [s \in SUBSET (1 .. n) |-> B(g, s)]
    BY <2>2
  <2>4. \A g : IsMaxSum(F, n, g) <=> g = [s \in SUBSET (1 .. n) |-> A(g, s)]
    BY DEF IsMaxSum, A
  <2>5. \A g : Q(g) = [s \in SUBSET (1 .. n) |-> B(g, s)]  BY DEF B
  <2> HIDE DEF Q
  <2> QED  BY <2>3, <2>4, <2>5
<1>3. PICK g0 : IsMaxSum(F, n, g0)  BY <1>1, MaxSumDefined
<1>4. it = Q(it)
  <2>1. g0 = Q(g0)  BY <1>2, <1>3
  <2> HIDE DEF Q
  <2> QED  BY <2>1
<1>5. IsMaxSum(F, n, it)  BY <1>2, <1>4
<1>6. SumKeys(keys) = it[1 .. n]
  BY <1>1 DEF SumKeys, FoldLeft, MapThenFoldSet
<1> QED  BY <1>5, <1>6

LEMMA SumEvenSound ==
    ASSUME NEW keys \in Seq(Scalars)
    PROVE  \E g : IsMaxSum(EvenTerms(keys), Len(keys), g) /\ SumEven(keys) = g[1 .. Len(keys)]
<1> DEFINE n == Len(keys)
           F == EvenTerms(keys)
           Q(g) == [s \in SUBSET (1 .. n) |->
                       IF s = {} THEN 0 ELSE g[s \ {Max(s)}] + EvenY(keys[Max(s)])]
           it == CHOOSE g : g = Q(g)
<1>1. n \in Nat /\ F \in [1 .. n -> Int] /\ DOMAIN keys = 1 .. n
  <2>1. n \in Nat /\ DOMAIN keys = 1 .. n  OBVIOUS
  <2>2. \A i \in 1 .. n : EvenY(keys[i]) \in Int  BY EvenYType
  <2> QED  BY <2>1, <2>2 DEF EvenTerms
<1>2. \A g : IsMaxSum(F, n, g) <=> g = Q(g)
  <2> DEFINE A(g, s) == IF s = {} THEN 0 ELSE g[s \ {Max(s)}] + F[Max(s)]
             B(g, s) == IF s = {} THEN 0 ELSE g[s \ {Max(s)}] + EvenY(keys[Max(s)])
  <2>1. \A s \in SUBSET (1 .. n) : s # {} => F[Max(s)] = EvenY(keys[Max(s)])
    <3>1. \A s \in SUBSET (1 .. n) : s # {} => Max(s) \in 1 .. n  BY <1>1, MaxIn
    <3> QED  BY <3>1 DEF EvenTerms
  <2> HIDE DEF F
  <2>2. \A g : \A s \in SUBSET (1 .. n) : A(g, s) = B(g, s)  BY <2>1
  <2> HIDE DEF A, B
  <2>3. \A g : [s \in SUBSET (1 .. n) |-> A(g, s)] = [s \in SUBSET (1 .. n) |-> B(g, s)]
    BY <2>2
  <2>4. \A g : IsMaxSum(F, n, g) <=> g = [s \in SUBSET (1 .. n) |-> A(g, s)]
    BY DEF IsMaxSum, A
  <2>5. \A g : Q(g) = [s \in SUBSET (1 .. n) |-> B(g, s)]  BY DEF B
  <2> HIDE DEF Q
  <2> QED  BY <2>3, <2>4, <2>5
<1>3. PICK g0 : IsMaxSum(F, n, g0)  BY <1>1, MaxSumDefined
<1>4. it = Q(it)
  <2>1. g0 = Q(g0)  BY <1>2, <1>3
  <2> HIDE DEF Q
  <2> QED  BY <2>1
<1>5. IsMaxSum(F, n, it)  BY <1>2, <1>4
<1>6. SumEven(keys) = it[1 .. n]
  BY <1>1 DEF SumEven, FoldLeft, MapThenFoldSet
<1> QED  BY <1>5, <1>6

LEMMA AddPointsSound ==
    ASSUME NEW keys \in Seq(Scalars)
    PROVE  \E g : /\ IsPlusFold(KeyTerms(keys), Len(keys), Infinity, g)
                  /\ AddPoints(keys) = g[1 .. Len(keys)]
<1> DEFINE n == Len(keys)
           F == KeyTerms(keys)
           Q(g) == [s \in SUBSET (1 .. n) |->
                       IF s = {} THEN Infinity ELSE Plus(g[s \ {Max(s)}], Times(keys[Max(s)], G))]
           it == CHOOSE g : g = Q(g)
<1>1. n \in Nat /\ F \in [1 .. n -> Int] /\ DOMAIN keys = 1 .. n
  <2>1. n \in Nat /\ DOMAIN keys = 1 .. n  OBVIOUS
  <2>2. \A i \in 1 .. n : keys[i] \in Int
    <3>1. \A i \in 1 .. n : keys[i] \in Scalars  OBVIOUS
    <3> QED  BY <3>1 DEF Scalars
  <2> QED  BY <2>1, <2>2 DEF KeyTerms
<1>2. \A g : IsPlusFold(F, n, Infinity, g) <=> g = Q(g)
  <2> DEFINE A(g, s) == IF s = {} THEN Infinity ELSE Plus(g[s \ {Max(s)}], F[Max(s)])
             B(g, s) == IF s = {} THEN Infinity ELSE Plus(g[s \ {Max(s)}], Times(keys[Max(s)], G))
  <2>1. \A s \in SUBSET (1 .. n) : s # {} => F[Max(s)] = Times(keys[Max(s)], G)
    <3>1. \A s \in SUBSET (1 .. n) : s # {} => Max(s) \in 1 .. n  BY <1>1, MaxIn
    <3>2. \A i \in 1 .. n : Times(keys[i], G) = keys[i]  BY TimesOne DEF G
    <3> QED  BY <3>1, <3>2 DEF KeyTerms
  <2> HIDE DEF F
  <2>2. \A g : \A s \in SUBSET (1 .. n) : A(g, s) = B(g, s)  BY <2>1
  <2> HIDE DEF A, B
  <2>3. \A g : [s \in SUBSET (1 .. n) |-> A(g, s)] = [s \in SUBSET (1 .. n) |-> B(g, s)]
    BY <2>2
  <2>4. \A g : IsPlusFold(F, n, Infinity, g) <=> g = [s \in SUBSET (1 .. n) |-> A(g, s)]
    BY DEF IsPlusFold, A
  <2>5. \A g : Q(g) = [s \in SUBSET (1 .. n) |-> B(g, s)]  BY DEF B
  <2> HIDE DEF Q
  <2> QED  BY <2>3, <2>4, <2>5
<1>3. PICK g0 : IsPlusFold(F, n, Infinity, g0)  BY <1>1, PlusFoldDefined DEF Infinity
<1>4. it = Q(it)
  <2>1. g0 = Q(g0)  BY <1>2, <1>3
  <2> HIDE DEF Q
  <2> QED  BY <2>1
<1>5. IsPlusFold(F, n, Infinity, it)  BY <1>2, <1>4
<1>6. AddPoints(keys) = it[1 .. n]
  BY <1>1 DEF AddPoints, FoldLeft, MapThenFoldSet
<1> QED  BY <1>5, <1>6

LEMMA AddXonlySound ==
    ASSUME NEW keys \in Seq(Scalars), NEW b \in Int
    PROVE  \E g : /\ IsPlusFold(EvenTerms(keys), Len(keys), b, g)
                  /\ AddXonly(b, keys) = g[1 .. Len(keys)]
<1> DEFINE n == Len(keys)
           F == EvenTerms(keys)
           Q(g) == [s \in SUBSET (1 .. n) |->
                       IF s = {} THEN b ELSE Plus(g[s \ {Max(s)}], EvenY(Times(keys[Max(s)], G)))]
           it == CHOOSE g : g = Q(g)
<1>1. n \in Nat /\ F \in [1 .. n -> Int] /\ DOMAIN keys = 1 .. n
  <2>1. n \in Nat /\ DOMAIN keys = 1 .. n  OBVIOUS
  <2>2. \A i \in 1 .. n : EvenY(keys[i]) \in Int  BY EvenYType
  <2> QED  BY <2>1, <2>2 DEF EvenTerms
<1>2. \A g : IsPlusFold(F, n, b, g) <=> g = Q(g)
  <2> DEFINE A(g, s) == IF s = {} THEN b ELSE Plus(g[s \ {Max(s)}], F[Max(s)])
             B(g, s) == IF s = {} THEN b ELSE Plus(g[s \ {Max(s)}], EvenY(Times(keys[Max(s)], G)))
  <2>1. \A s \in SUBSET (1 .. n) : s # {} => F[Max(s)] = EvenY(Times(keys[Max(s)], G))
    <3>1. \A s \in SUBSET (1 .. n) : s # {} => Max(s) \in 1 .. n  BY <1>1, MaxIn
    <3>2. \A i \in 1 .. n : Times(keys[i], G) = keys[i]  BY TimesOne DEF G
    <3> QED  BY <3>1, <3>2 DEF EvenTerms
  <2> HIDE DEF F
  <2>2. \A g : \A s \in SUBSET (1 .. n) : A(g, s) = B(g, s)  BY <2>1
  <2> HIDE DEF A, B
  <2>3. \A g : [s \in SUBSET (1 .. n) |-> A(g, s)] = [s \in SUBSET (1 .. n) |-> B(g, s)]
    BY <2>2
  <2>4. \A g : IsPlusFold(F, n, b, g) <=> g = [s \in SUBSET (1 .. n) |-> A(g, s)]
    BY DEF IsPlusFold, A
  <2>5. \A g : Q(g) = [s \in SUBSET (1 .. n) |-> B(g, s)]  BY DEF B
  <2> HIDE DEF Q
  <2> QED  BY <2>3, <2>4, <2>5
<1>3. PICK g0 : IsPlusFold(F, n, b, g0)  BY <1>1, PlusFoldDefined
<1>4. it = Q(it)
  <2>1. g0 = Q(g0)  BY <1>2, <1>3
  <2> HIDE DEF Q
  <2> QED  BY <2>1
<1>5. IsPlusFold(F, n, b, it)  BY <1>2, <1>4
<1>6. AddXonly(b, keys) = it[1 .. n]
  BY <1>1 DEF AddXonly, FoldLeft, MapThenFoldSet
<1> QED  BY <1>5, <1>6

\* The sender's sum of secret keys and the scanner's sum of public keys are
\* the same point.
LEMMA SumsAgree ==
    ASSUME NEW s, s.seckeys \in Seq(Scalars), s.keypairs \in Seq(Scalars)
    PROVE  PubkeySum(s) = KeySum(s) /\ KeySum(s) \in Scalars
<1> DEFINE p == s.seckeys
           q == s.keypairs
           m == Len(p)
           n == Len(q)
<1>0. N \in Nat \ {0} /\ 0 \in Scalars /\ 0 \in Int /\ m \in Nat /\ n \in Nat
  BY CurveAssumption DEF Scalars
<1>1. PICK g : IsMaxSum(KeyTerms(p), m, g) /\ SumKeys(p) = g[1 .. m]  BY SumKeysSound
<1>2. PICK e : IsMaxSum(EvenTerms(q), n, e) /\ SumEven(q) = e[1 .. n]  BY SumEvenSound
<1>3. PICK h : IsPlusFold(KeyTerms(p), m, Infinity, h) /\ AddPoints(p) = h[1 .. m]
  BY AddPointsSound
<1>4. KeyTerms(p) \in [1 .. m -> Int] /\ EvenTerms(q) \in [1 .. n -> Int]
  <2>1. \A i \in 1 .. m : p[i] \in Int
    <3>1. \A i \in 1 .. m : p[i] \in Scalars  OBVIOUS
    <3> QED  BY <3>1 DEF Scalars
  <2>2. \A i \in 1 .. n : EvenY(q[i]) \in Int  BY EvenYType
  <2> QED  BY <2>1, <2>2 DEF KeyTerms, EvenTerms
<1> DEFINE b == AddPoints(p)
           x == SumKeys(p)
           y == SumEven(q)
<1> HIDE DEF p, q, m, n
<1>5. x \in Int /\ b = (0 + x) % N
  BY <1>0, <1>1, <1>3, <1>4, PlusFoldIsSum DEF Infinity
<1> HIDE DEF x, b
<1>6. b \in Scalars /\ b = x % N /\ b \in Int
  <2>1. 0 + x = x  BY <1>5
  <2>2. x % N \in Nat /\ x % N < N  BY ONLY <1>0, <1>5, DivMod
  <2> QED  BY <1>0, <1>5, <2>1, <2>2 DEF Scalars
<1>7. PICK f : IsPlusFold(EvenTerms(q), n, b, f) /\ AddXonly(b, q) = f[1 .. n]
  BY <1>6, AddXonlySound DEF q, n
<1>8. y \in Int /\ AddXonly(b, q) = (b + y) % N
  BY <1>0, <1>2, <1>4, <1>6, <1>7, PlusFoldIsSum
<1> HIDE DEF y
<1>9. (b + y) % N = (x + y) % N
  <2>1. N \in Nat \ {0} /\ x \in Int /\ y \in Int  BY <1>0, <1>5, <1>8
  <2>2. ((x % N) + y) % N = (x + y) % N  BY ONLY <2>1, ModSum
  <2> QED  BY <1>6, <2>2
<1>10. KeySum(s) = (x + y) % N  BY DEF KeySum, SumKeys, SumEven, x, y, p, q
<1>11. PubkeySum(s) = AddXonly(b, q)  BY DEF PubkeySum, AddXonly, AddPoints, b, p, q
<1>12. (x + y) % N \in Scalars
  <2> DEFINE z == x + y
  <2>1. z \in Int  BY <1>5, <1>8
  <2> HIDE DEF z
  <2>2. z % N \in Nat /\ z % N < N  BY ONLY <1>0, <2>1, DivMod
  <2>3. z % N \in Scalars  BY <1>0, <2>2 DEF Scalars
  <2> QED  BY <2>3 DEF z
<1> QED  BY <1>8, <1>9, <1>10, <1>11, <1>12

-----------------------------------------------------------------------------
(* The array of recipients, and its order *)

Recipient == [scan_pubkey : 1 .. N-1, spend_pubkey : 1 .. N-1, index : 1 .. MaxRecipients]

\* The array holds the addresses of receivers, one for each index.
AddressesSound ==
    /\ recipients \in Seq(Recipient) /\ Len(recipients) <= MaxRecipients
    /\ \A p \in 1 .. Len(recipients) : recipients[p].index \in 1 .. Len(recipients)
    /\ \A p, q \in 1 .. Len(recipients) : recipients[p].index = recipients[q].index => p = q
    /\ \A i \in 1 .. Len(recipients) : \E p \in 1 .. Len(recipients) : recipients[p].index = i
    /\ \A p \in 1 .. Len(recipients) : \E w \in Receivers : \E l \in labels[w] \cup {0} :
          recipients[p].scan_pubkey = ScanKey[w] /\ recipients[p].spend_pubkey = LabeledSpend(w, l)

Sorted == \A p, q \in 1 .. Len(recipients) : p < q => Before(recipients[p], recipients[q])

Ser(P) == (IF IsOdd(P) THEN N ELSE 0) + EvenY(P)

\* Serialized keys are equal only if the keys are.
LEMMA SerSound ==
    ASSUME NEW P \in 1 .. N-1, NEW Q \in 1 .. N-1
    PROVE  Ser(P) \in Int /\ (Ser(P) = Ser(Q) => P = Q)
BY CurveAssumption DEF Ser, EvenY, Neg

LEMMA BeforeDef ==
    ASSUME NEW r, NEW s
    PROVE  Before(r, s) <=> \/ Ser(r.scan_pubkey) < Ser(s.scan_pubkey)
                            \/ r.scan_pubkey = s.scan_pubkey /\ r.index < s.index
BY DEF Before, Ser

\* Before is a strict total order of the recipients.
LEMMA BeforeIrreflexive ==
    ASSUME NEW r \in Recipient
    PROVE  ~Before(r, r)
<1>1. Ser(r.scan_pubkey) \in Int /\ r.index \in Int  BY SerSound DEF Recipient
<1> QED  BY <1>1, BeforeDef

LEMMA BeforeTransitive ==
    ASSUME NEW r \in Recipient, NEW s \in Recipient, NEW u \in Recipient,
           Before(r, s), Before(s, u)
    PROVE  Before(r, u)
<1>1. /\ Ser(r.scan_pubkey) \in Int /\ Ser(s.scan_pubkey) \in Int /\ Ser(u.scan_pubkey) \in Int
      /\ r.index \in Int /\ s.index \in Int /\ u.index \in Int
  BY SerSound DEF Recipient
<1> QED  BY <1>1, BeforeDef

LEMMA BeforeTotal ==
    ASSUME NEW r \in Recipient, NEW s \in Recipient, r.index # s.index
    PROVE  Before(r, s) \/ Before(s, r)
<1>1. /\ Ser(r.scan_pubkey) \in Int /\ Ser(s.scan_pubkey) \in Int
      /\ r.index \in Int /\ s.index \in Int
      /\ (Ser(r.scan_pubkey) = Ser(s.scan_pubkey) => r.scan_pubkey = s.scan_pubkey)
  BY SerSound DEF Recipient
<1> QED  BY <1>1, BeforeDef

\* Recipients with the same scan key are together, and ordered by their index.
LEMMA BeforeGroups ==
    ASSUME NEW r \in Recipient, NEW s \in Recipient, NEW u \in Recipient,
           Before(r, s), Before(s, u), r.scan_pubkey = u.scan_pubkey
    PROVE  s.scan_pubkey = u.scan_pubkey
<1>1. /\ Ser(r.scan_pubkey) \in Int /\ Ser(s.scan_pubkey) \in Int /\ Ser(u.scan_pubkey) \in Int
  BY SerSound DEF Recipient
<1>2. s.scan_pubkey # u.scan_pubkey => Ser(r.scan_pubkey) < Ser(s.scan_pubkey)
  BY BeforeDef
<1>3. s.scan_pubkey # u.scan_pubkey => Ser(s.scan_pubkey) < Ser(u.scan_pubkey)
  BY BeforeDef
<1> QED  BY <1>1, <1>2, <1>3

LEMMA BeforeIndex ==
    ASSUME NEW r \in Recipient, NEW s \in Recipient, r.scan_pubkey = s.scan_pubkey
    PROVE  Before(r, s) <=> r.index < s.index
<1>1. Ser(r.scan_pubkey) \in Int  BY SerSound DEF Recipient
<1> QED  BY <1>1, BeforeDef

LEMMA RecipientsTyped ==
    ASSUME AddressesSound
    PROVE  /\ Len(recipients) \in Nat /\ DOMAIN recipients = 1 .. Len(recipients)
           /\ \A p \in 1 .. Len(recipients) : recipients[p] \in Recipient
           /\ ToSet(recipients) \in SUBSET Recipient
           /\ IsFiniteSet(ToSet(recipients)) /\ Cardinality(ToSet(recipients)) = Len(recipients)
<1> DEFINE n == Len(recipients)
           S == ToSet(recipients)
           f == [p \in 1 .. n |-> recipients[p]]
<1>1. n \in Nat /\ DOMAIN recipients = 1 .. n /\ \A p \in 1 .. n : recipients[p] \in Recipient
  BY DEF AddressesSound
<1>2. S = {recipients[p] : p \in 1 .. n}  BY <1>1 DEF ToSet
<1>3. f \in Bijection(1 .. n, S)
  <2>1. f \in [1 .. n -> S] /\ \A x \in S : \E p \in 1 .. n : f[p] = x  BY <1>2
  <2>2. \A p, q \in 1 .. n : f[p] = f[q] => p = q  BY DEF AddressesSound
  <2> HIDE DEF f, S
  <2> QED  BY <2>1, <2>2 DEF Bijection, Injection, Surjection, IsInjective
<1>4. IsFiniteSet(1 .. n) /\ Cardinality(1 .. n) = n  BY <1>1, CountTo
<1>5. IsFiniteSet(S) /\ Cardinality(S) = n
  <2> HIDE DEF S, f, n
  <2> QED  BY <1>3, <1>4, FS_Bijection DEF ExistsBijection
<1> QED  BY <1>1, <1>2, <1>5

\* Sorting permutes the recipients and orders them.
LEMMA SortingSound ==
    ASSUME AddressesSound, recipients' = SortedRecipients, labels' = labels
    PROVE  AddressesSound' /\ Sorted' /\ Len(recipients') = Len(recipients)
<1> DEFINE n == Len(recipients)
           S == ToSet(recipients)
           R == {x \in S \X S : Before(x[1], x[2])}
           new == SortedRecipients
<1>1. /\ n \in Nat /\ DOMAIN recipients = 1 .. n /\ S \in SUBSET Recipient /\ IsFiniteSet(S)
      /\ Cardinality(S) = n /\ \A p \in 1 .. n : recipients[p] \in Recipient
  BY RecipientsTyped
<1>2. S = {recipients[p] : p \in 1 .. n}  BY <1>1 DEF ToSet
<1>3. \A x, y \in S : x # y => x.index # y.index
  <2> SUFFICES ASSUME NEW x \in S, NEW y \in S, x.index = y.index PROVE x = y  OBVIOUS
  <2>1. PICK p \in 1 .. n : x = recipients[p]  BY <1>2
  <2>2. PICK q \in 1 .. n : y = recipients[q]  BY <1>2
  <2>3. p = q  BY <2>1, <2>2 DEF AddressesSound
  <2> QED  BY <2>1, <2>2, <2>3
<1>4. R \in SUBSET (S \X S) /\ \A x, y \in S : <<x, y>> \in R <=> Before(x, y)  OBVIOUS
<1> HIDE DEF R, S
<1>5. \A x \in S : <<x, x>> \notin R  BY <1>1, <1>4, BeforeIrreflexive
<1>6. \A x, y, z \in S : <<x, y>> \in R /\ <<y, z>> \in R => <<x, z>> \in R
  BY <1>1, <1>4, BeforeTransitive
<1>7. \A x, y \in S : x # y => <<x, y>> \in R \/ <<y, x>> \in R
  BY <1>1, <1>3, <1>4, BeforeTotal
<1>8. \E f \in SetToSeqs(S) : \A p, q \in DOMAIN f : p < q => <<f[p], f[q]>> \in R
  BY <1>1, <1>4, <1>5, <1>6, <1>7, SortedListing
<1>9. ASSUME NEW f \in SetToSeqs(S)
      PROVE  f \in [1 .. n -> S] /\ \A p, q \in 1 .. n : f[p] = f[q] => p = q
  <2>1. SetToSeqs(S) = {g \in [1 .. n -> S] : \A i, j \in 1 .. n : i # j => g[i] # g[j]}
    BY <1>1 DEF SetToSeqs
  <2> QED  BY <1>9, <2>1
<1>10. \E f \in SetToSeqs(S) : \A p, q \in DOMAIN f : p < q => Before(f[p], f[q])
  <2>1. PICK f \in SetToSeqs(S) : \A p, q \in DOMAIN f : p < q => <<f[p], f[q]>> \in R
    BY <1>8
  <2>2. \A p \in DOMAIN f : f[p] \in S  BY <1>9
  <2>3. \A p, q \in DOMAIN f : p < q => Before(f[p], f[q])  BY <1>4, <2>1, <2>2
  <2> QED  BY <2>3
<1>11. new \in SetToSeqs(S) /\ \A p, q \in DOMAIN new : p < q => Before(new[p], new[q])
  BY <1>10 DEF SortedRecipients, S
<1> HIDE DEF new
<1>12. new \in [1 .. n -> S] /\ \A p, q \in 1 .. n : new[p] = new[q] => p = q
  BY <1>9, <1>11
<1>13. \A x \in S : \E p \in 1 .. n : new[p] = x
  <2>1. new \in Injection(1 .. n, S)  BY <1>12 DEF Injection, IsInjective
  <2>2. Cardinality(1 .. n) = n  BY <1>1, CountTo
  <2>3. new \in Surjection(1 .. n, S)  BY <1>1, <2>1, <2>2, FS_Injection
  <2> QED  BY <2>3 DEF Surjection
<1>14. DOMAIN new = 1 .. n  BY <1>12
<1>15. new \in Seq(Recipient) /\ Len(new) = n
  <2>1. new \in [1 .. n -> Recipient]  BY <1>1, <1>12
  <2> QED  BY <1>1, <2>1
<1>16. recipients' = new  BY DEF new
<1>17. ASSUME NEW p \in 1 .. n
       PROVE  \E q \in 1 .. n : new[p] = recipients[q]
  BY <1>2, <1>12
<1>18. ASSUME NEW q \in 1 .. n
       PROVE  \E p \in 1 .. n : new[p] = recipients[q]
  <2>1. recipients[q] \in S  BY <1>2
  <2> QED  BY <1>13, <2>1
<1> HIDE DEF n
<1>19. \A p \in 1 .. n : new[p].index \in 1 .. n
  BY <1>17 DEF AddressesSound, n
<1>20. \A p, q \in 1 .. n : new[p].index = new[q].index => p = q
  BY <1>3, <1>12
<1>21. \A i \in 1 .. n : \E p \in 1 .. n : new[p].index = i
  <2> SUFFICES ASSUME NEW i \in 1 .. n PROVE \E p \in 1 .. n : new[p].index = i  OBVIOUS
  <2>1. PICK q \in 1 .. n : recipients[q].index = i  BY DEF AddressesSound, n
  <2>2. PICK p \in 1 .. n : new[p] = recipients[q]  BY <1>18
  <2> QED  BY <2>1, <2>2
<1>22. \A p \in 1 .. n : \E w \in Receivers : \E l \in labels[w] \cup {0} :
          new[p].scan_pubkey = ScanKey[w] /\ new[p].spend_pubkey = LabeledSpend(w, l)
  <2> SUFFICES ASSUME NEW p \in 1 .. n
               PROVE \E w \in Receivers : \E l \in labels[w] \cup {0} :
          new[p].scan_pubkey = ScanKey[w] /\ new[p].spend_pubkey = LabeledSpend(w, l)
    OBVIOUS
  <2>1. PICK q \in 1 .. n : new[p] = recipients[q]  BY <1>17
  <2>2. \E w \in Receivers : \E l \in labels[w] \cup {0} :
            /\ recipients[q].scan_pubkey = ScanKey[w]
            /\ recipients[q].spend_pubkey = LabeledSpend(w, l)
    BY ONLY q \in 1 .. n, AddressesSound DEF AddressesSound, n
  <2> QED  BY ONLY <2>1, <2>2
<1>23. n <= MaxRecipients  BY DEF AddressesSound, n
<1>24. AddressesSound'
  <2>2. recipients' \in Seq(Recipient) /\ Len(recipients') <= MaxRecipients
    BY <1>15, <1>16, <1>23
  <2>3. /\ \A p \in 1 .. Len(recipients') : recipients'[p].index \in 1 .. Len(recipients')
        /\ \A p, q \in 1 .. Len(recipients') :
              recipients'[p].index = recipients'[q].index => p = q
        /\ \A i \in 1 .. Len(recipients') :
              \E p \in 1 .. Len(recipients') : recipients'[p].index = i
    BY <1>15, <1>16, <1>19, <1>20, <1>21
  <2>4. \A p \in 1 .. Len(recipients') : \E w \in Receivers : \E l \in labels'[w] \cup {0} :
          /\ recipients'[p].scan_pubkey = ScanKey[w]
          /\ recipients'[p].spend_pubkey = LabeledSpend(w, l)
    BY <1>15, <1>16, <1>22
  <2> QED  BY <2>2, <2>3, <2>4 DEF AddressesSound, LabeledSpend
<1>25. Sorted'  BY <1>11, <1>14, <1>15, <1>16 DEF Sorted, Before
<1> QED  BY <1>15, <1>16, <1>24, <1>25 DEF n

-----------------------------------------------------------------------------
(* The inductive invariant *)

\* How many recipients of the group of i come before i.
Counter(i) == Cardinality(Below(Group(i), i))

\* The keys of the inputs are valid, and a_sum is what it is meant to be.
KeysValid ==
    /\ 0 \notin ToSet(inputs.seckeys)
    /\ KeySum(inputs) # 0 /\ InputHash[KeySum(inputs)] # 0
    /\ a_sum = Times(KeySum(inputs), InputHash[KeySum(inputs)])

\* Output i pays recipient i, and with the counter that it should.
PaymentTweak(i) == OutputHash[oracle][Times(a_sum, Payee(i).scan_pubkey)][Counter(i)]

Paid(i) ==
    /\ Counter(i) < GroupLimit
    /\ PaymentTweak(i) # 0
    /\ Plus(Payee(i).spend_pubkey, PaymentTweak(i)) # Infinity
    /\ generated_outputs[i] = EvenY(Plus(Payee(i).spend_pubkey, PaymentTweak(i)))

\* While the sender works, those before pos are paid; k and shared_secret
\* are those of the last one.
Sending ==
    /\ recipients # <<>> /\ Sorted /\ KeysValid
    /\ pos \in 1 .. Len(recipients) + 1
    /\ generated_outputs \in [1 .. Len(recipients) -> Points \cup {Unset}]
    /\ pos > 1 => shared_secret = Times(a_sum, recipients[pos - 1].scan_pubkey)
    /\ \A i \in 1 .. Len(recipients) :
          pos > 1 /\ recipients[pos - 1].index = i => k = Counter(i) + 1
    /\ \A i \in 1 .. Len(recipients) :
          (\E p \in 1 .. pos - 1 : recipients[p].index = i) => Paid(i)

AllPaid ==
    /\ recipients # <<>> /\ KeysValid
    /\ generated_outputs \in [1 .. Len(recipients) -> Points]
    /\ \A i \in 1 .. Len(recipients) : Paid(i)

\* A documented reason to fail, as FailsAsDocumented has it.
Refusable(i) ==
    LET t == OutputHash[oracle][Times(Times(KeySum(inputs), InputHash[KeySum(inputs)]),
                                      Payee(i).scan_pubkey)][Counter(i)]
    IN  \/ Cardinality(Group(i)) > GroupLimit
        \/ t = 0 \/ Plus(Payee(i).spend_pubkey, t) = Infinity

Reason ==
    \/ 0 \in ToSet(inputs.seckeys) \/ KeySum(inputs) = 0
    \/ InputHash[KeySum(inputs)] = 0
    \/ \E i \in 1 .. Len(recipients) : Refusable(i)

Rounds == {"round", "outputs", "scanned"}

Types ==
    /\ inputs \in Inputs /\ oracle \in DOMAIN OutputHash
    /\ state \in {"addresses", "sending", "sent", "failed", "tx", "refused"} \cup Rounds
    /\ labels \in [Receivers -> SUBSET Scalars]
    /\ \A w \in Receivers : 0 \notin labels[w]
    /\ AddressesSound
    /\ a_sum \in Scalars /\ shared_secret \in Scalars /\ k \in Nat

SenderInv ==
    /\ state = "addresses" => /\ generated_outputs = <<>> /\ pos = 1
                              /\ \A p \in 1 .. Len(recipients) : recipients[p].index = p
    /\ state = "sending" => Sending
    /\ state = "sent" => AllPaid
    /\ state = "failed" => Reason
    /\ state \in {"tx", "refused"} \cup Rounds => generated_outputs = <<>> \/ AllPaid

\* The transaction has all that was generated.
TxInv ==
    state \in {"tx", "refused"} \cup Rounds =>
        /\ tx_outputs \in Seq(Points \ OddY) /\ Len(tx_outputs) <= MaxRecipients + 1
        /\ Len(generated_outputs) <= Len(tx_outputs)
        /\ \A i \in 1 .. Len(generated_outputs) :
              \E m \in 1 .. Len(tx_outputs) : tx_outputs[m] = generated_outputs[i]

\* Output m is what round n of a scan without batches would take.
IsFirst(m, n) == Matches(m, n) /\ \A j \in 1 .. m - 1 : ~Matches(j, n)

\* Output n is what round n - 1 took at m.
Took(n, m) ==
    /\ IsFirst(m, n - 1)
    /\ found[n].output = tx_outputs[m]
    /\ found[n].label = IF IsDirect(m, n - 1) THEN 0 ELSE LabelOf(m, n - 1)
    /\ found[n].tweak = Plus(Tweak(n - 1), found[n].label)

FoundInv == \A n \in 1 .. Len(found) : \E m \in 1 .. Len(tx_outputs) : Took(n, m)

\* The scan has reached a round: k outputs have been found.
InRounds ==
    /\ PubkeySum(inputs) # Infinity /\ InputHash[PubkeySum(inputs)] # 0
    /\ shared_secret = Times(Times(ScanKey[who], InputHash[PubkeySum(inputs)]), PubkeySum(inputs))
    /\ found \in Seq([output : Points, tweak : Scalars, label : Scalars])
    /\ k = Len(found) /\ k <= KMax
    /\ FoundInv

\* What is behind pos does not match, except what waits in the batch.
InRound ==
    /\ k < KMax /\ ~NoRound(k)
    /\ pos \in 1 .. Len(tx_outputs) + 1
    /\ batch \in Seq(1 .. Len(tx_outputs)) /\ \A m \in ToSet(batch) : m < pos
    /\ pos = Len(tx_outputs) + 1 \/ ~lookup => batch = <<>>
    /\ \A m \in 1 .. pos - 1 : /\ ~IsDirect(m, k)
                               /\ lookup /\ LabelOf(m, k) # 0 => m \in ToSet(batch)

ScanInv ==
    /\ state \notin {"refused"} \cup Rounds => found = <<>>
    /\ state \in {"refused"} \cup Rounds =>
          who \in Receivers /\ lookup \in BOOLEAN /\ (labels[who] # {} => lookup)
    /\ state \in Rounds => InRounds
    /\ state = "outputs" => InRound
    /\ state = "scanned" => k = KMax \/ \A m \in 1 .. Len(tx_outputs) : ~Matches(m, k)
    /\ state = "refused" =>
          \/ found = <<>> /\ (PubkeySum(inputs) = Infinity \/ InputHash[PubkeySum(inputs)] = 0)
          \/ InRounds /\ k < KMax /\ NoRound(k)

PaymentsInv == Types /\ SenderInv /\ TxInv /\ ScanInv

-----------------------------------------------------------------------------
(* Types *)

LEMMA ScalarFacts ==
    /\ N \in Nat \ {0} /\ Points = Scalars /\ Infinity = 0 /\ 0 \in Scalars
    /\ \A a \in Scalars : a \in Int
    /\ \A a \in 1 .. N-1 : a \in Scalars /\ a # 0
    /\ \A a \in Scalars : a # 0 => a \in 1 .. N-1
    /\ \A a, b \in Scalars : Plus(a, b) \in Scalars /\ Times(a, b) \in Scalars
    /\ \A a \in Scalars : Neg(a) \in Scalars
    /\ \A a \in Scalars : EvenY(a) \in Points \ OddY
<1>1. \A a \in Scalars : a \in Int  BY DEF Scalars
<1>2. \A a, b \in Scalars : Plus(a, b) \in Scalars /\ Times(a, b) \in Scalars
  BY <1>1, PlusType, TimesType
<1>3. \A a \in Scalars : Neg(a) \in Scalars  BY NegType
<1>4. Points = Scalars  BY DEF Points, Scalars
<1>5. \A a \in Scalars : EvenY(a) \in Points \ OddY  BY <1>4, EvenYType
<1>6. /\ \A a \in 1 .. N-1 : a \in Scalars /\ a # 0
      /\ \A a \in Scalars : a # 0 => a \in 1 .. N-1
      /\ 0 \in Scalars /\ Infinity = 0 /\ N \in Nat \ {0}
  BY CurveAssumption DEF Scalars, Infinity
<1> QED  BY <1>1, <1>2, <1>3, <1>4, <1>5, <1>6

LEMMA SeqIsFunction ==
    ASSUME NEW S, NEW seq \in Seq(S)
    PROVE  Len(seq) \in Nat /\ DOMAIN seq = 1 .. Len(seq) /\ seq \in [1 .. Len(seq) -> S]
OBVIOUS

\* The sums of the keys, the inputs being valid structures.
LEMMA InputsSound ==
    ASSUME NEW s \in Inputs
    PROVE  PubkeySum(s) = KeySum(s) /\ KeySum(s) \in Scalars /\ InputHash[KeySum(s)] \in Scalars
<1>1. s.seckeys \in Seq(Scalars) /\ s.keypairs \in Seq(1 .. N-1)  BY PaymentsAssumption
<1>2. s.keypairs \in Seq(Scalars)
  <2>1. Len(s.keypairs) \in Nat /\ s.keypairs \in [1 .. Len(s.keypairs) -> 1 .. N-1]
    BY <1>1, SeqIsFunction
  <2>2. s.keypairs \in [1 .. Len(s.keypairs) -> Scalars]  BY <2>1, ScalarFacts
  <2> QED  BY <2>1, <2>2
<1>3. PubkeySum(s) = KeySum(s) /\ KeySum(s) \in Scalars  BY <1>1, <1>2, SumsAgree
<1> QED  BY <1>3, ScalarFacts, PaymentsAssumption

LEMMA HashType ==
    ASSUME NEW o \in DOMAIN OutputHash, NEW P \in Scalars, NEW n \in 0 .. MaxRecipients
    PROVE  OutputHash[o][P][n] \in Scalars
<1>1. OutputHash[o] \in [Points -> [0 .. MaxRecipients -> Scalars]]  BY PaymentsAssumption
<1> QED  BY <1>1, ScalarFacts

LEMMA SpendType ==
    ASSUME NEW w \in Receivers, NEW l \in Scalars
    PROVE  LabeledSpend(w, l) \in Scalars
BY PaymentsAssumption, ScalarFacts DEF LabeledSpend

\* Payee finds the recipient with an index.
LEMMA PayeeSound ==
    ASSUME AddressesSound, NEW p \in 1 .. Len(recipients)
    PROVE  Payee(recipients[p].index) = recipients[p]
<1> DEFINE i == recipients[p].index
           S == ToSet(recipients)
<1>1. S = {recipients[q] : q \in 1 .. Len(recipients)}  BY RecipientsTyped DEF ToSet
<1>2. recipients[p] \in S /\ \A r \in S : r.index = i => r = recipients[p]
  <2>1. ASSUME NEW r \in S, r.index = i  PROVE r = recipients[p]
    <3>1. PICK q \in 1 .. Len(recipients) : r = recipients[q]  BY <1>1
    <3>2. q = p  BY <2>1, <3>1 DEF AddressesSound
    <3> QED  BY <3>1, <3>2
  <2> QED  BY <1>1, <2>1
<1> HIDE DEF S, i
<1>3. (CHOOSE r \in S : r.index = i) = recipients[p]
  <2>1. recipients[p].index = i  BY DEF i
  <2> QED  BY <1>2, <2>1
<1> QED  BY <1>3 DEF Payee, S, i

LEMMA PayeeType ==
    ASSUME AddressesSound, NEW i \in 1 .. Len(recipients)
    PROVE  /\ Payee(i) \in Recipient /\ Payee(i).index = i
           /\ \E p \in 1 .. Len(recipients) : recipients[p].index = i /\ Payee(i) = recipients[p]
<1>1. PICK p \in 1 .. Len(recipients) : recipients[p].index = i  BY DEF AddressesSound
<1>2. Payee(i) = recipients[p]  BY <1>1, PayeeSound
<1> QED  BY <1>1, <1>2, RecipientsTyped

LEMMA GroupType ==
    ASSUME AddressesSound, NEW i \in 1 .. Len(recipients)
    PROVE  /\ Group(i) \in SUBSET (1 .. Len(recipients)) /\ Group(i) \in SUBSET Nat
           /\ IsFiniteSet(Group(i)) /\ i \in Group(i)
           /\ Cardinality(Group(i)) \in Nat
<1>1. Len(recipients) \in Nat /\ DOMAIN recipients = 1 .. Len(recipients)  BY RecipientsTyped
<1>2. Group(i) \in SUBSET (1 .. Len(recipients)) /\ i \in Group(i)  BY <1>1 DEF Group
<1>3. IsFiniteSet(1 .. Len(recipients))  BY <1>1, CountTo
<1> QED  BY <1>1, <1>2, <1>3, FS_Subset, FS_CardinalityType

LEMMA CounterType ==
    ASSUME AddressesSound, NEW i \in 1 .. Len(recipients)
    PROVE  /\ Counter(i) \in Nat /\ Counter(i) < i /\ Counter(i) \in 0 .. MaxRecipients
           /\ Counter(i) < Len(recipients) /\ Counter(i) < Cardinality(Group(i))
<1>1. /\ Group(i) \in SUBSET (1 .. Len(recipients)) /\ Group(i) \in SUBSET Nat
      /\ IsFiniteSet(Group(i)) /\ i \in Group(i)
  BY GroupType
<1>2. Counter(i) \in Nat /\ Counter(i) < Cardinality(Group(i))
  BY <1>1, BelowStrict, BelowType DEF Counter
<1>3. i - 1 \in Nat /\ i \in Nat /\ Len(recipients) \in Nat  BY RecipientsTyped
<1>4. Below(Group(i), i) \in SUBSET (1 .. i - 1)  BY <1>1, <1>3 DEF Below
<1>5. Cardinality(Below(Group(i), i)) <= i - 1  BY <1>3, <1>4, CountTo, FS_Subset
<1>6. Counter(i) <= i - 1  BY <1>5 DEF Counter
<1>7. Len(recipients) <= MaxRecipients /\ MaxRecipients \in Nat
  BY PaymentsAssumption DEF AddressesSound
<1> QED  BY <1>2, <1>3, <1>6, <1>7

LEMMA PaymentTypes ==
    ASSUME Types, NEW i \in 1 .. Len(recipients)
    PROVE  /\ PaymentTweak(i) \in Scalars
           /\ Payee(i).spend_pubkey \in Scalars /\ Payee(i).scan_pubkey \in Scalars
           /\ Plus(Payee(i).spend_pubkey, PaymentTweak(i)) \in Scalars
<1>1. Payee(i).scan_pubkey \in Scalars /\ Payee(i).spend_pubkey \in Scalars
  BY PayeeType, ScalarFacts DEF Types, Recipient
<1>2. Times(a_sum, Payee(i).scan_pubkey) \in Scalars  BY <1>1, ScalarFacts DEF Types
<1>3. Counter(i) \in 0 .. MaxRecipients  BY CounterType DEF Types
<1>4. PaymentTweak(i) \in Scalars  BY <1>2, <1>3, HashType DEF Types, PaymentTweak
<1> QED  BY <1>1, <1>4, ScalarFacts

-----------------------------------------------------------------------------
(* What the actions leave alone *)

LEMMA PaidKept ==
    ASSUME UNCHANGED <<oracle, recipients, a_sum>>, NEW i,
           generated_outputs'[i] = generated_outputs[i]
    PROVE  Paid(i)' <=> Paid(i)
BY DEF Paid, PaymentTweak, Counter, Payee, Group

LEMMA AllPaidKept ==
    ASSUME UNCHANGED <<inputs, oracle, recipients, a_sum, generated_outputs>>
    PROVE  AllPaid' <=> AllPaid
<1>1. \A i : Paid(i)' <=> Paid(i)  BY PaidKept
<1>2. KeysValid' <=> KeysValid  BY DEF KeysValid
<1> QED  BY <1>1, <1>2 DEF AllPaid

LEMMA ReasonKept ==
    ASSUME UNCHANGED <<inputs, oracle, recipients>>
    PROVE  Reason' <=> Reason
<1>1. \A i : Refusable(i)' <=> Refusable(i)  BY DEF Refusable, Counter, Payee, Group
<1> QED  BY <1>1 DEF Reason

LEMMA AddressesKept ==
    ASSUME UNCHANGED <<labels, recipients>>
    PROVE  AddressesSound' <=> AddressesSound
BY DEF AddressesSound, LabeledSpend

\* More labels keep the addresses sound.
LEMMA AddressesGrow ==
    ASSUME AddressesSound, recipients' = recipients,
           \A w \in Receivers : labels[w] \in SUBSET labels'[w]
    PROVE  AddressesSound'
<1> DEFINE Of(p, w, l) == /\ recipients[p].scan_pubkey = ScanKey[w]
                          /\ recipients[p].spend_pubkey = LabeledSpend(w, l)
<1>1. ASSUME NEW p \in 1 .. Len(recipients)
      PROVE  \E w \in Receivers : \E l \in labels'[w] \cup {0} : Of(p, w, l)
  <2>1. PICK w \in Receivers : \E l \in labels[w] \cup {0} : Of(p, w, l)
    BY DEF AddressesSound
  <2>2. PICK l \in labels[w] \cup {0} : Of(p, w, l)  BY <2>1
  <2> HIDE DEF Of
  <2>3. l \in labels'[w] \cup {0}  OBVIOUS
  <2> QED  BY <2>2, <2>3
<1> QED  BY <1>1 DEF AddressesSound, LabeledSpend

\* A step of the receiver leaves the senders' side as it is.
LEMMA ReceiverStep ==
    ASSUME Types, SenderInv, TxInv,
           UNCHANGED <<inputs, oracle, labels, recipients, a_sum, generated_outputs, tx_outputs>>,
           state \in {"tx", "refused"} \cup Rounds, state' \in {"tx", "refused"} \cup Rounds,
           shared_secret' \in Scalars, k' \in Nat
    PROVE  Types' /\ SenderInv' /\ TxInv'
<1>1. AddressesSound'  BY AddressesKept DEF Types
<1>2. Types'  BY <1>1 DEF Types, Rounds
<1>3. SenderInv'  BY AllPaidKept DEF SenderInv, Rounds
<1>4. TxInv'  BY DEF TxInv
<1> QED  BY <1>2, <1>3, <1>4

\* Before the scan, nothing is found.
LEMMA SenderStep ==
    ASSUME ScanInv, UNCHANGED scan,
           state \notin {"refused"} \cup Rounds, state' \notin {"refused"} \cup Rounds
    PROVE  ScanInv'
BY DEF ScanInv, Rounds, scan

-----------------------------------------------------------------------------
(* Addresses *)

LEMMA InitInv ==
    ASSUME Init
    PROVE  PaymentsInv
<1>1. recipients = <<>> /\ generated_outputs = <<>> /\ found = <<>> /\ state = "addresses"
  BY DEF Init
<1>2. AddressesSound
  <2>1. recipients \in Seq(Recipient) /\ Len(recipients) = 0  BY <1>1
  <2>2. MaxRecipients \in Nat  BY PaymentsAssumption
  <2> QED  BY <2>1, <2>2 DEF AddressesSound
<1>3. Types
  <2>1. labels \in [Receivers -> SUBSET Scalars] /\ \A w \in Receivers : labels[w] = {}
    BY DEF Init
  <2> QED  BY <1>1, <1>2, <2>1, ScalarFacts DEF Types, Init
<1>4. SenderInv
  <2>1. Len(recipients) = 0  BY <1>1
  <2> QED  BY <1>1, <2>1 DEF SenderInv, Rounds, Init
<1>5. TxInv /\ ScanInv  BY <1>1 DEF TxInv, ScanInv, Rounds
<1> QED  BY <1>3, <1>4, <1>5 DEF PaymentsInv

LEMMA LabelCreateInv ==
    ASSUME PaymentsInv, NEW w \in Receivers, NEW tweak \in LabelHashes, LabelCreate(w, tweak)
    PROVE  PaymentsInv'
<1>1. labels \in [Receivers -> SUBSET Scalars] /\ tweak \in Scalars /\ tweak # 0
  BY PaymentsAssumption DEF PaymentsInv, Types, LabelCreate
<1>2. labels' = [labels EXCEPT ![w] = @ \cup {tweak}]  BY DEF LabelCreate
<1>3. /\ labels' \in [Receivers -> SUBSET Scalars]
      /\ \A v \in Receivers : /\ labels[v] \in SUBSET labels'[v]
                              /\ labels'[v] \in SUBSET (labels[v] \cup {tweak})
  BY <1>1, <1>2
<1>4. state = "addresses" /\ state' = "addresses" /\ recipients' = recipients  BY DEF LabelCreate
<1>5. AddressesSound'  BY <1>3, <1>4, AddressesGrow DEF PaymentsInv, Types
<1>6. \A v \in Receivers : 0 \notin labels'[v]
  BY <1>1, <1>3 DEF PaymentsInv, Types
<1>7. Types'  BY <1>3, <1>5, <1>6 DEF PaymentsInv, Types, LabelCreate, given, call
<1>8. SenderInv' /\ TxInv'
  BY <1>4 DEF PaymentsInv, SenderInv, TxInv, Rounds, LabelCreate, call
<1>9. ScanInv'  BY <1>4, SenderStep DEF PaymentsInv, Rounds, LabelCreate
<1> QED  BY <1>7, <1>8, <1>9 DEF PaymentsInv

LEMMA AddRecipientInv ==
    ASSUME PaymentsInv, NEW w \in Receivers, NEW label \in labels[w] \cup {0},
           AddRecipient(w, label)
    PROVE  PaymentsInv'
<1> DEFINE n == Len(recipients)
           r == [scan_pubkey |-> ScanKey[w], spend_pubkey |-> LabeledSpend(w, label),
                 index |-> n + 1]
<1>1. /\ recipients \in Seq(Recipient) /\ n \in Nat /\ n < MaxRecipients /\ MaxRecipients \in Nat
      /\ recipients' = Append(recipients, r) /\ state = "addresses" /\ state' = "addresses"
      /\ labels' = labels
  BY PaymentsAssumption DEF PaymentsInv, Types, AddressesSound, AddRecipient
<1>2. r \in Recipient /\ r.index = n + 1
  <2>1. label \in Scalars  BY ScalarFacts DEF PaymentsInv, Types
  <2>2. LabeledSpend(w, label) \in 1 .. N-1
    BY <2>1, SpendType, ScalarFacts DEF AddRecipient
  <2>3. ScanKey[w] \in 1 .. N-1  BY PaymentsAssumption
  <2> QED  BY <1>1, <2>2, <2>3 DEF Recipient
<1>3. /\ recipients' \in Seq(Recipient) /\ Len(recipients') = n + 1
      /\ \A p \in 1 .. n : recipients'[p] = recipients[p]
      /\ recipients'[n + 1] = r
  <2> HIDE DEF r
  <2> QED  BY <1>1, <1>2
<1>4. \A p \in 1 .. n + 1 : p \in 1 .. n \/ p = n + 1  BY <1>1
<1>5. \A p \in 1 .. n : recipients[p].index = p  BY DEF PaymentsInv, SenderInv, AddRecipient
<1>6. \A p \in 1 .. n + 1 : recipients'[p].index = p
  BY <1>2, <1>3, <1>4, <1>5
<1>7. AddressesSound'
  <2>1. ASSUME NEW p \in 1 .. n + 1
        PROVE  \E v \in Receivers : \E l \in labels[v] \cup {0} :
                  /\ recipients'[p].scan_pubkey = ScanKey[v]
                  /\ recipients'[p].spend_pubkey = LabeledSpend(v, l)
    <3>1. CASE p \in 1 .. n
      <4>1. recipients'[p] = recipients[p]  BY <1>3, <3>1
      <4>2. \E v \in Receivers : \E l \in labels[v] \cup {0} :
                  /\ recipients[p].scan_pubkey = ScanKey[v]
                  /\ recipients[p].spend_pubkey = LabeledSpend(v, l)
        BY <3>1 DEF PaymentsInv, Types, AddressesSound
      <4> QED  BY <4>1, <4>2
    <3>2. CASE p = n + 1  BY <1>3, <3>2
    <3> QED  BY <1>4, <3>1, <3>2
  <2>2. /\ \A p \in 1 .. Len(recipients') : recipients'[p].index \in 1 .. Len(recipients')
        /\ \A p, q \in 1 .. Len(recipients') :
              recipients'[p].index = recipients'[q].index => p = q
        /\ \A i \in 1 .. Len(recipients') :
              \E p \in 1 .. Len(recipients') : recipients'[p].index = i
    BY <1>3, <1>6
  <2>3. recipients' \in Seq(Recipient) /\ Len(recipients') <= MaxRecipients  BY <1>1, <1>3
  <2>4. \A p \in 1 .. Len(recipients') : \E v \in Receivers : \E l \in labels'[v] \cup {0} :
                  /\ recipients'[p].scan_pubkey = ScanKey[v]
                  /\ recipients'[p].spend_pubkey = LabeledSpend(v, l)
    <3> HIDE DEF n, r
    <3> QED  BY <1>1, <1>3, <2>1
  <2> HIDE DEF n, r
  <2> QED  BY <2>2, <2>3, <2>4 DEF AddressesSound, LabeledSpend
<1>8. Types'  BY <1>1, <1>7 DEF PaymentsInv, Types, AddRecipient, given, call
<1>9. SenderInv'
  BY <1>1, <1>3, <1>6 DEF PaymentsInv, SenderInv, Rounds, AddRecipient, call
<1>10. TxInv'  BY <1>1 DEF TxInv, Rounds
<1>11. ScanInv'  BY <1>1, SenderStep DEF PaymentsInv, Rounds, AddRecipient
<1> QED  BY <1>8, <1>9, <1>10, <1>11 DEF PaymentsInv

-----------------------------------------------------------------------------
(* The sender *)

LEMMA SumInv ==
    ASSUME PaymentsInv, Sum
    PROVE  PaymentsInv'
<1> DEFINE s == KeySum(inputs)
           bad == 0 \in ToSet(inputs.seckeys) \/ s = 0 \/ InputHash[s] = 0
<1>1. /\ state = "addresses" /\ recipients # <<>> /\ UNCHANGED <<inputs, oracle, labels>>
      /\ UNCHANGED scan /\ UNCHANGED call /\ Types /\ SenderInv /\ ScanInv /\ AddressesSound
  BY DEF PaymentsInv, Sum, given, Types
<1>2. CASE bad
  <2>1. state' = "failed" /\ UNCHANGED <<a_sum, recipients, generated_outputs>>
    BY <1>2 DEF Sum
  <2>2. Reason'  BY <1>1, <1>2, <2>1, ReasonKept DEF Reason
  <2>3. AddressesSound'  BY <1>1, <2>1, AddressesKept
  <2>4. Types'  BY <1>1, <2>1, <2>3 DEF Types, call
  <2>5. SenderInv' /\ TxInv'  BY <2>1, <2>2 DEF SenderInv, TxInv, Rounds
  <2>6. ScanInv'  BY <1>1, <2>1, SenderStep DEF Rounds
  <2> QED  BY <2>4, <2>5, <2>6 DEF PaymentsInv
<1>3. CASE ~bad
  <2>1. /\ state' = "sending" /\ a_sum' = Times(s, InputHash[s])
        /\ recipients' = SortedRecipients
        /\ generated_outputs' = [n \in DOMAIN recipients |-> Unset]
    BY <1>3 DEF Sum
  <2>2. AddressesSound' /\ Sorted' /\ Len(recipients') = Len(recipients)
    BY <1>1, <2>1, SortingSound
  <2>3. Len(recipients) \in Nat /\ DOMAIN recipients = 1 .. Len(recipients) /\ Len(recipients) # 0
    <3>1. recipients \in Seq(Recipient)  BY <1>1 DEF AddressesSound
    <3> QED  BY <1>1, <3>1
  <2>4. recipients' # <<>>  BY <2>2, <2>3
  <2>5. s \in Scalars /\ InputHash[s] \in Scalars  BY <1>1, InputsSound DEF Types
  <2>6. a_sum' \in Scalars  BY <2>1, <2>5, ScalarFacts
  <2>7. KeysValid'  BY <1>1, <1>3, <2>1 DEF KeysValid
  <2>8. generated_outputs' \in [1 .. Len(recipients') -> Points \cup {Unset}]
    BY <2>1, <2>2, <2>3
  <2>9. pos' = 1 /\ pos' \in 1 .. Len(recipients') + 1
    BY <1>1, <2>2, <2>3 DEF SenderInv, call
  <2>10. Sending'
    <3>1. 1 .. pos' - 1 = {}  BY <2>9
    <3>2. ~(pos' > 1)  BY <2>9
    <3> QED  BY <2>2, <2>4, <2>7, <2>8, <2>9, <3>1, <3>2 DEF Sending
  <2>11. Types'  BY <1>1, <2>1, <2>2, <2>6 DEF Types, call
  <2>12. SenderInv' /\ TxInv'  BY <2>1, <2>10 DEF SenderInv, TxInv, Rounds
  <2>13. ScanInv'  BY <1>1, <2>1, SenderStep DEF Rounds
  <2> QED  BY <2>11, <2>12, <2>13 DEF PaymentsInv
<1> QED  BY <1>2, <1>3

LEMMA SortedOrder ==
    ASSUME AddressesSound, Sorted,
           NEW p \in 1 .. Len(recipients), NEW q \in 1 .. Len(recipients),
           Before(recipients[p], recipients[q])
    PROVE  p < q
<1>1. recipients[p] \in Recipient /\ recipients[q] \in Recipient  BY RecipientsTyped
<1>2. p # q  BY <1>1, BeforeIrreflexive
<1>3. q < p => FALSE
  <2>1. ASSUME q < p PROVE FALSE
    <3>1. Before(recipients[q], recipients[p])  BY <2>1 DEF Sorted
    <3> QED  BY <1>1, <3>1, BeforeTransitive, BeforeIrreflexive
  <2> QED  BY <2>1
<1>4. p \in Int /\ q \in Int  OBVIOUS
<1> QED  BY <1>2, <1>3, <1>4

\* Membership of a group, by places in the array.
LEMMA GroupPlaces ==
    ASSUME AddressesSound, NEW p \in 1 .. Len(recipients), NEW j \in Group(recipients[p].index)
    PROVE  \E q \in 1 .. Len(recipients) :
              recipients[q].index = j /\ recipients[q].scan_pubkey = recipients[p].scan_pubkey
<1>1. DOMAIN recipients = 1 .. Len(recipients)  BY RecipientsTyped
<1>2. Payee(recipients[p].index) = recipients[p]  BY PayeeSound
<1>3. j \in 1 .. Len(recipients) /\ Payee(j).scan_pubkey = recipients[p].scan_pubkey
  BY <1>1, <1>2 DEF Group
<1>4. PICK q \in 1 .. Len(recipients) : recipients[q].index = j /\ Payee(j) = recipients[q]
  BY <1>3, PayeeType
<1> QED  BY <1>3, <1>4

\* The first recipient of a group has counter 0.
LEMMA CounterOfFirst ==
    ASSUME AddressesSound, Sorted, NEW p \in 1 .. Len(recipients),
           p = 1 \/ recipients[p - 1].scan_pubkey # recipients[p].scan_pubkey
    PROVE  Counter(recipients[p].index) = 0
<1> DEFINE i == recipients[p].index
<1>1. ASSUME NEW j \in Group(i), j < i PROVE FALSE
  <2>1. PICK q \in 1 .. Len(recipients) :
           recipients[q].index = j /\ recipients[q].scan_pubkey = recipients[p].scan_pubkey
    BY GroupPlaces
  <2>2. recipients[p] \in Recipient /\ recipients[q] \in Recipient  BY RecipientsTyped
  <2>3. Before(recipients[q], recipients[p])  BY <1>1, <2>1, <2>2, BeforeIndex
  <2>4. q < p  BY <2>3, SortedOrder
  <2>5. p - 1 \in 1 .. Len(recipients) /\ p # 1 /\ p - 1 < p /\ (q = p - 1 \/ q < p - 1)
    BY <2>4
  <2>6. recipients[p - 1].scan_pubkey # recipients[p].scan_pubkey  BY <2>5
  <2>7. q < p - 1  BY <2>1, <2>5, <2>6
  <2>8. Before(recipients[q], recipients[p - 1]) /\ Before(recipients[p - 1], recipients[p])
    BY <2>5, <2>7 DEF Sorted
  <2>9. recipients[p - 1] \in Recipient  BY <2>5, RecipientsTyped
  <2> QED  BY <2>1, <2>2, <2>6, <2>8, <2>9, BeforeGroups
<1>2. Below(Group(i), i) = {}  BY <1>1 DEF Below
<1> QED  BY <1>2, FS_EmptySet DEF Counter

\* The next one counts on.
LEMMA CounterOfNext ==
    ASSUME AddressesSound, Sorted, NEW p \in 1 .. Len(recipients), p # 1,
           recipients[p - 1].scan_pubkey = recipients[p].scan_pubkey
    PROVE  Counter(recipients[p].index) = Counter(recipients[p - 1].index) + 1
<1> DEFINE i == recipients[p].index
           h == recipients[p - 1].index
<1>1. p - 1 \in 1 .. Len(recipients) /\ p - 1 < p  OBVIOUS
<1>2. /\ recipients[p] \in Recipient /\ recipients[p - 1] \in Recipient
      /\ DOMAIN recipients = 1 .. Len(recipients)
  BY <1>1, RecipientsTyped
<1>3. i \in 1 .. Len(recipients) /\ h \in 1 .. Len(recipients)
  BY <1>1 DEF AddressesSound
<1>4. Payee(i) = recipients[p] /\ Payee(h) = recipients[p - 1]
  BY <1>1, PayeeSound
<1>5. Group(h) = Group(i)  BY <1>4 DEF Group
<1>6. h < i
  <2>1. Before(recipients[p - 1], recipients[p])  BY <1>1 DEF Sorted
  <2> QED  BY <1>2, <2>1, BeforeIndex
<1>7. ASSUME NEW j \in Group(i), j < i PROVE j <= h
  <2>1. PICK q \in 1 .. Len(recipients) :
           recipients[q].index = j /\ recipients[q].scan_pubkey = recipients[p].scan_pubkey
    BY GroupPlaces
  <2>2. recipients[q] \in Recipient  BY RecipientsTyped
  <2>3. Before(recipients[q], recipients[p])  BY <1>2, <1>7, <2>1, <2>2, BeforeIndex
  <2>4. q < p  BY <2>3, SortedOrder
  <2>5. q = p - 1 \/ q < p - 1  BY <2>4
  <2>6. CASE q = p - 1
    <3>1. j = h  BY <2>1, <2>6
    <3> QED  BY <1>3, <3>1
  <2>7. CASE q < p - 1
    <3>1. Before(recipients[q], recipients[p - 1])  BY <1>1, <2>7 DEF Sorted
    <3>2. j < h  BY <1>2, <2>1, <2>2, <3>1, BeforeIndex
    <3>3. j \in Int  BY <2>1, <2>2 DEF Recipient
    <3> QED  BY <1>3, <3>2, <3>3
  <2> QED  BY <2>5, <2>6, <2>7
<1>8. Group(i) \in SUBSET Nat /\ IsFiniteSet(Group(i)) /\ h \in Group(i) /\ i \in Nat
  BY <1>3, <1>5, GroupType
<1> HIDE DEF i, h
<1>9. Cardinality(Below(Group(i), i)) = Cardinality(Below(Group(i), h)) + 1
  BY <1>6, <1>7, <1>8, BelowNext
<1>10. Counter(i) = Counter(h) + 1  BY <1>5, <1>9 DEF Counter
<1> QED  BY <1>10 DEF i, h

LEMMA CreateOutputInv ==
    ASSUME PaymentsInv, CreateOutput
    PROVE  PaymentsInv'
<1> DEFINE r == recipients[pos]
           new == pos = 1 \/ recipients[pos - 1].scan_pubkey # r.scan_pubkey
           secret == IF new THEN Times(a_sum, r.scan_pubkey) ELSE shared_secret
           n == IF new THEN 0 ELSE k
           t_k == OutputHash[oracle][secret][n]
           output == Plus(r.spend_pubkey, t_k)
           bad == TooMany(n) \/ t_k = 0 \/ output = Infinity
<1>1. /\ state = "sending" /\ UNCHANGED <<inputs, oracle, labels, recipients, a_sum, tx_outputs>>
      /\ UNCHANGED scan /\ Types /\ Sending /\ ScanInv /\ AddressesSound
      /\ pos \in Nat \ {0} /\ pos <= Len(recipients) /\ pos \in 1 .. Len(recipients)
  <2>1. Sending /\ AddressesSound  BY DEF PaymentsInv, SenderInv, Types, CreateOutput
  <2>2. Len(recipients) \in Nat  BY <2>1, RecipientsTyped
  <2> QED  BY <2>1, <2>2 DEF PaymentsInv, CreateOutput, given, address, Sending
<1>2. /\ Sorted /\ KeysValid
      /\ generated_outputs \in [1 .. Len(recipients) -> Points \cup {Unset}]
      /\ pos > 1 => shared_secret = Times(a_sum, recipients[pos - 1].scan_pubkey)
      /\ \A j \in 1 .. Len(recipients) :
            pos > 1 /\ recipients[pos - 1].index = j => k = Counter(j) + 1
      /\ \A j \in 1 .. Len(recipients) :
            (\E p \in 1 .. pos - 1 : recipients[p].index = j) => Paid(j)
  BY <1>1 DEF Sending
<1>2a. PICK i \in 1 .. Len(recipients) : i = r.index  BY <1>1 DEF AddressesSound
<1>3. Payee(i) = r  BY <1>1, <1>2a, PayeeSound
<1>4. n = Counter(i) /\ secret = Times(a_sum, r.scan_pubkey)
  <2>1. CASE new
    <3>1. Counter(i) = 0  BY <1>1, <1>2, <1>2a, <2>1, CounterOfFirst
    <3> QED  BY <2>1, <3>1
  <2>2. CASE ~new
    <3>1. pos # 1 /\ pos > 1 /\ recipients[pos - 1].scan_pubkey = r.scan_pubkey  BY <1>1, <2>2
    <3>2. PICK h \in 1 .. Len(recipients) : h = recipients[pos - 1].index
      <4>1. pos - 1 \in 1 .. Len(recipients)  BY <1>1, <3>1
      <4> QED  BY <1>1, <4>1 DEF AddressesSound
    <3>3. Counter(i) = Counter(h) + 1
      BY <1>1, <1>2, <1>2a, <3>1, <3>2, CounterOfNext
    <3>4. k = Counter(h) + 1  BY <1>2, <3>1, <3>2
    <3> QED  BY <1>2, <2>2, <3>1, <3>3, <3>4
  <2> QED  BY <2>1, <2>2
<1>5. t_k = PaymentTweak(i)  BY <1>3, <1>4 DEF PaymentTweak
<1>6. IF bad THEN state' = "failed" /\ UNCHANGED <<generated_outputs, call>>
      ELSE /\ generated_outputs' = [generated_outputs EXCEPT ![i] = EvenY(output)]
           /\ shared_secret' = secret /\ k' = n + 1 /\ pos' = pos + 1
           /\ UNCHANGED state
  BY <1>2a DEF CreateOutput
<1>7. Counter(i) \in Nat /\ Counter(i) < Cardinality(Group(i)) /\ Cardinality(Group(i)) \in Nat
  BY <1>1, <1>3, CounterType, GroupType
<1>8. secret \in Scalars /\ output \in Scalars
  <2>1. r.scan_pubkey \in Scalars /\ a_sum \in Scalars
    BY <1>1, <1>3, PaymentTypes DEF Types
  <2>2. Plus(r.spend_pubkey, PaymentTweak(i)) \in Scalars  BY <1>1, <1>3, PaymentTypes
  <2> QED  BY <1>4, <1>5, <2>1, <2>2, ScalarFacts
<1>9. AddressesSound'  BY <1>1, AddressesKept
<1> HIDE DEF r, new, secret, n, t_k, output
<1>10. CASE bad
  <2>1. state' = "failed" /\ UNCHANGED <<generated_outputs, call>>  BY <1>6, <1>10
  <2>2. TooMany(n) => Cardinality(Group(i)) > GroupLimit
    BY <1>4, <1>7, PaymentsAssumption DEF TooMany
  <2>3. t_k = OutputHash[oracle][Times(Times(KeySum(inputs), InputHash[KeySum(inputs)]),
                                       Payee(i).scan_pubkey)][Counter(i)]
    BY <1>2, <1>5 DEF PaymentTweak, KeysValid
  <2>4. output = Plus(Payee(i).spend_pubkey, t_k)  BY <1>3 DEF output
  <2>5. Refusable(i)  BY <1>10, <2>2, <2>3, <2>4 DEF Refusable
  <2>6. Reason'  BY <1>1, <1>3, <2>5, ReasonKept DEF Reason
  <2>7. Types'  BY <1>1, <1>9, <2>1 DEF Types, call
  <2>8. SenderInv' /\ TxInv'  BY <2>1, <2>6 DEF SenderInv, TxInv, Rounds
  <2>9. ScanInv'  BY <1>1, <2>1, SenderStep DEF Rounds
  <2> QED  BY <2>7, <2>8, <2>9 DEF PaymentsInv
<1>11. CASE ~bad
  <2>1. /\ generated_outputs' = [generated_outputs EXCEPT ![i] = EvenY(output)]
        /\ shared_secret' = secret /\ k' = n + 1 /\ pos' = pos + 1 /\ state' = "sending"
    BY <1>1, <1>6, <1>11
  <2>2. EvenY(output) \in Points  BY <1>8, ScalarFacts
  <2>3. generated_outputs' \in [1 .. Len(recipients) -> Points \cup {Unset}]
    BY <1>2, <2>1, <2>2
  <2>4. generated_outputs'[i] = EvenY(output)  BY <1>2, <1>3, <2>1
  <2>5. n < GroupLimit /\ t_k # 0 /\ output # Infinity
    BY <1>4, <1>7, <1>11, PaymentsAssumption DEF TooMany
  <2>6. output = Plus(Payee(i).spend_pubkey, PaymentTweak(i))  BY <1>3, <1>5 DEF output
  <2>7. Paid(i)'
    <3>1. PaymentTweak(i)' = PaymentTweak(i) /\ Counter(i)' = Counter(i) /\ Payee(i)' = Payee(i)
      BY <1>1 DEF PaymentTweak, Counter, Payee, Group
    <3> QED  BY <1>4, <1>5, <2>4, <2>5, <2>6, <3>1 DEF Paid
  <2>8. ASSUME NEW j \in 1 .. Len(recipients), NEW p \in 1 .. pos, recipients[p].index = j
        PROVE  Paid(j)'
    <3>1. CASE p = pos
      <4>1. j = i  BY <1>2a, <2>8, <3>1 DEF r
      <4> QED  BY <2>7, <4>1
    <3>2. CASE p # pos
      <4>1. p \in 1 .. pos - 1 /\ p \in 1 .. Len(recipients)  BY <1>1, <3>2
      <4>2. j # i  BY <1>1, <1>2a, <2>8, <3>2, <4>1 DEF AddressesSound, r
      <4>3. generated_outputs'[j] = generated_outputs[j]  BY <1>2, <2>1, <4>2
      <4>4. Paid(j)  BY <1>2, <2>8, <4>1
      <4> QED  BY <1>1, <4>3, <4>4, PaidKept
    <3> QED  BY <3>1, <3>2
  <2>9. Sending'
    <3>1. pos' \in 1 .. Len(recipients') + 1 /\ pos' - 1 = pos /\ recipients' # <<>>
      BY <1>1, <2>1 DEF Sending
    <3>2. k' = Counter(i)' + 1
      <4>1. Counter(i)' = Counter(i)  BY <1>1 DEF Counter, Payee, Group
      <4> QED  BY <1>4, <2>1, <4>1
    <3>3. \A j \in 1 .. Len(recipients') : recipients'[pos' - 1].index = j => k' = Counter(j)' + 1
      BY <1>1, <1>2a, <3>1, <3>2 DEF r
    <3>4. shared_secret' = Times(a_sum', recipients'[pos' - 1].scan_pubkey)
      BY <1>1, <1>4, <2>1, <3>1 DEF r
    <3>5. KeysValid' /\ Sorted'  BY <1>1, <1>2 DEF KeysValid, Sorted, Before
    <3>6. generated_outputs' \in [1 .. Len(recipients') -> Points \cup {Unset}]
      BY <1>1, <2>3
    <3>7. \A j \in 1 .. Len(recipients') :
             (\E p \in 1 .. pos' - 1 : recipients'[p].index = j) => Paid(j)'
      BY <1>1, <2>8, <3>1
    <3> QED  BY <3>1, <3>3, <3>4, <3>5, <3>6, <3>7 DEF Sending
  <2>10. Types'
    <3>1. k' \in Nat  BY <1>4, <1>7, <2>1
    <3> QED  BY <1>1, <1>8, <1>9, <2>1, <3>1 DEF Types
  <2>11. SenderInv' /\ TxInv'  BY <2>1, <2>9 DEF SenderInv, TxInv, Rounds
  <2>12. ScanInv'  BY <1>1, <2>1, SenderStep DEF Rounds
  <2> QED  BY <2>10, <2>11, <2>12 DEF PaymentsInv
<1> QED  BY <1>10, <1>11

LEMMA SentInv ==
    ASSUME PaymentsInv, Sent
    PROVE  PaymentsInv'
<1>1. /\ state = "sending" /\ state' = "sent" /\ pos > Len(recipients)
      /\ UNCHANGED <<inputs, oracle, labels, recipients, a_sum, generated_outputs, tx_outputs>>
      /\ UNCHANGED scan /\ UNCHANGED call /\ Types /\ Sending /\ ScanInv /\ AddressesSound
  BY DEF PaymentsInv, SenderInv, Types, Sent, given, address
<1>2. Len(recipients) \in Nat /\ pos = Len(recipients) + 1
  <2>1. Len(recipients) \in Nat  BY <1>1, RecipientsTyped
  <2> QED  BY <1>1, <2>1 DEF Sending
<1>3. ASSUME NEW i \in 1 .. Len(recipients) PROVE Paid(i)
  <2>1. PICK p \in 1 .. Len(recipients) : recipients[p].index = i  BY <1>1 DEF AddressesSound
  <2>2. p \in 1 .. pos - 1  BY <1>2
  <2>3. \E q \in 1 .. pos - 1 : recipients[q].index = i  BY <2>1, <2>2
  <2> QED  BY <1>1, <2>3 DEF Sending
<1>4. ASSUME NEW i \in 1 .. Len(recipients) PROVE generated_outputs[i] \in Points
  <2>1. generated_outputs[i] = EvenY(Plus(Payee(i).spend_pubkey, PaymentTweak(i)))
    BY <1>3 DEF Paid
  <2> QED  BY <1>1, <2>1, PaymentTypes, ScalarFacts
<1>5. generated_outputs \in [1 .. Len(recipients) -> Points]  BY <1>1, <1>4 DEF Sending
<1>6. AllPaid  BY <1>1, <1>3, <1>5 DEF AllPaid, Sending
<1>7. AllPaid'  BY <1>1, <1>6, AllPaidKept
<1>8. Types'  BY <1>1, AddressesKept DEF Types, call
<1>9. SenderInv' /\ TxInv'  BY <1>1, <1>7 DEF SenderInv, TxInv, Rounds
<1>10. ScanInv'  BY <1>1, SenderStep DEF Rounds
<1> QED  BY <1>8, <1>9, <1>10 DEF PaymentsInv

-----------------------------------------------------------------------------
(* The transaction *)

LEMMA PublishInv ==
    ASSUME PaymentsInv, NEW others \in ForeignOutputs \cup {<<>>}, Publish(others)
    PROVE  PaymentsInv'
<1> DEFINE a == Len(generated_outputs)
           whole == generated_outputs \o others
           X == Points \ OddY
<1>1. /\ state = "sent" /\ state' = "tx" /\ Len(others) <= 1
      /\ UNCHANGED <<inputs, oracle, labels, recipients, a_sum, generated_outputs>>
      /\ UNCHANGED scan /\ UNCHANGED <<shared_secret, k>>
      /\ Types /\ AllPaid /\ ScanInv /\ AddressesSound
  BY DEF PaymentsInv, SenderInv, Types, Publish, given, address
<1>2. /\ a = Len(recipients) /\ a \in Nat /\ a <= MaxRecipients /\ a # 0 /\ MaxRecipients \in Nat
      /\ generated_outputs \in [1 .. a -> Points]
  <2>1. /\ Len(recipients) \in Nat /\ Len(recipients) <= MaxRecipients
        /\ MaxRecipients \in Nat /\ Len(recipients) # 0
    BY <1>1, PaymentsAssumption DEF AddressesSound, AllPaid
  <2>2. generated_outputs \in [1 .. Len(recipients) -> Points]  BY <1>1 DEF AllPaid
  <2> QED  BY <2>1, <2>2
<1>3. ASSUME NEW i \in 1 .. a PROVE generated_outputs[i] \in X
  <2>1. i \in 1 .. Len(recipients) /\ Paid(i)  BY <1>1, <1>2 DEF AllPaid
  <2>2. generated_outputs[i] = EvenY(Plus(Payee(i).spend_pubkey, PaymentTweak(i)))
    BY <2>1 DEF Paid
  <2> QED  BY <1>1, <2>1, <2>2, PaymentTypes, ScalarFacts
<1>4. generated_outputs \in Seq(X)
  <2> HIDE DEF a, X
  <2>1. generated_outputs \in [1 .. a -> X]  BY <1>2, <1>3
  <2> QED  BY <1>2, <2>1
<1>5. others \in Seq(X) /\ Len(others) \in Nat
  <2>1. CASE others \in ForeignOutputs  BY <2>1, PaymentsAssumption
  <2>2. CASE others = <<>>  BY <2>2
  <2>3. others \in Seq(X)  BY <2>1, <2>2
  <2> QED  BY <2>3
<1> HIDE DEF X
<1>6. /\ whole \in Seq(X) /\ Len(whole) = a + Len(others)
      /\ \A i \in 1 .. a : whole[i] = generated_outputs[i]
  BY <1>4, <1>5
<1> HIDE DEF whole, a
<1>7. Len(whole) \in Nat /\ \A i \in 1 .. Len(whole) : whole[i] \in X  BY <1>6, SeqIsFunction
<1>8. PICK order \in SetToSeqs(1 .. Len(whole)) :
         tx_outputs' = [n \in DOMAIN order |-> whole[order[n]]]
  BY DEF Publish, whole
<1> DEFINE m == Len(whole)
<1>9. IsFiniteSet(1 .. m) /\ Cardinality(1 .. m) = m  BY <1>7, CountTo
<1>10. order \in [1 .. m -> 1 .. m] /\ \A p, q \in 1 .. m : order[p] = order[q] => p = q
  <2>1. SetToSeqs(1 .. m) = {g \in [1 .. m -> 1 .. m] : \A i, j \in 1 .. m : i # j => g[i] # g[j]}
    BY <1>9 DEF SetToSeqs
  <2> QED  BY <1>8, <2>1
<1>11. \A j \in 1 .. m : \E p \in 1 .. m : order[p] = j
  <2>1. order \in Injection(1 .. m, 1 .. m)  BY <1>10 DEF Injection, IsInjective
  <2>2. order \in Surjection(1 .. m, 1 .. m)  BY <1>9, <2>1, FS_Injection
  <2> QED  BY <2>2 DEF Surjection
<1> HIDE DEF m
<1>12. tx_outputs' \in [1 .. m -> X] /\ \A p \in 1 .. m : tx_outputs'[p] = whole[order[p]]
  <2>1. DOMAIN order = 1 .. m /\ \A p \in 1 .. m : order[p] \in 1 .. m  BY <1>10
  <2>2. \A p \in 1 .. m : whole[order[p]] \in X  BY <1>7, <2>1 DEF m
  <2> QED  BY <1>8, <2>1, <2>2
<1>13. tx_outputs' \in Seq(X) /\ Len(tx_outputs') = m
  <2>1. m \in Nat  BY <1>7 DEF m
  <2> QED  BY <1>12, <2>1
<1>14. m \in Nat /\ m <= MaxRecipients + 1 /\ a <= m
  BY <1>1, <1>2, <1>5, <1>6, <1>7 DEF m
<1>15. ASSUME NEW i \in 1 .. a
       PROVE  \E p \in 1 .. m : tx_outputs'[p] = generated_outputs[i]
  <2>1. i \in 1 .. m  BY <1>2, <1>14
  <2>2. PICK p \in 1 .. m : order[p] = i  BY <1>11, <2>1
  <2> QED  BY <1>6, <1>12, <2>2
<1>16. TxInv'
  <2>1. generated_outputs' = generated_outputs  BY <1>1
  <2> QED  BY <1>13, <1>14, <1>15, <2>1 DEF TxInv, X, a
<1>17. AllPaid'  BY <1>1, AllPaidKept
<1>18. Types'  BY <1>1, AddressesKept DEF Types
<1>19. SenderInv'  BY <1>1, <1>17 DEF SenderInv, Rounds
<1>20. ScanInv'  BY <1>1, SenderStep DEF Rounds
<1> QED  BY <1>16, <1>18, <1>19, <1>20 DEF PaymentsInv

LEMMA ForeignInv ==
    ASSUME PaymentsInv, NEW outputs \in ForeignOutputs, Foreign(outputs)
    PROVE  PaymentsInv'
<1>1. /\ state = "addresses" /\ state' = "tx" /\ tx_outputs' = outputs
      /\ UNCHANGED <<inputs, oracle, labels, recipients, a_sum, generated_outputs>>
      /\ UNCHANGED scan /\ UNCHANGED call
      /\ Types /\ ScanInv /\ generated_outputs = <<>>
  BY DEF PaymentsInv, SenderInv, Foreign, given, address
<1>2. outputs \in Seq(Points \ OddY) /\ Len(outputs) \in Nat /\ Len(outputs) <= MaxRecipients + 1
  BY PaymentsAssumption
<1>3. Len(generated_outputs') = 0  BY <1>1
<1>4. TxInv'  BY <1>1, <1>2, <1>3 DEF TxInv
<1>5. Types'  BY <1>1, AddressesKept DEF Types, call
<1>6. SenderInv'  BY <1>1 DEF SenderInv, Rounds
<1>7. ScanInv'  BY <1>1, SenderStep DEF Rounds
<1> QED  BY <1>4, <1>5, <1>6, <1>7 DEF PaymentsInv

-----------------------------------------------------------------------------
(* The scan *)

\* What is looked for in a round is the same during the scan.
LEMMA RoundKept ==
    ASSUME UNCHANGED <<oracle, labels, tx_outputs, who, lookup, shared_secret>>, NEW m, NEW n
    PROVE  /\ Tweak(n)' = Tweak(n) /\ (NoRound(n)' <=> NoRound(n)) /\ KMax' = KMax
           /\ (IsDirect(m, n)' <=> IsDirect(m, n)) /\ LabelOf(m, n)' = LabelOf(m, n)
           /\ (Matches(m, n)' <=> Matches(m, n))
<1>1. Tweak(n)' = Tweak(n) /\ Unlabeled(n)' = Unlabeled(n)  BY DEF Tweak, Unlabeled
<1>2. (NoRound(n)' <=> NoRound(n)) /\ KMax' = KMax  BY <1>1 DEF NoRound, KMax
<1>3. (IsDirect(m, n)' <=> IsDirect(m, n)) /\ LabelOf(m, n)' = LabelOf(m, n)
  BY <1>1 DEF IsDirect, LabelOf
<1>4. Matches(m, n)' <=> Matches(m, n)  BY <1>3 DEF Matches
<1> QED  BY <1>1, <1>2, <1>3, <1>4

LEMMA TookKept ==
    ASSUME UNCHANGED <<oracle, labels, tx_outputs, who, lookup, shared_secret>>, NEW n, NEW m,
           found'[n] = found[n]
    PROVE  Took(n, m)' <=> Took(n, m)
<1>1. \A j : Matches(j, n - 1)' <=> Matches(j, n - 1)  BY RoundKept
<1>2. IsFirst(m, n - 1)' <=> IsFirst(m, n - 1)  BY <1>1 DEF IsFirst
<1>3. /\ Tweak(n - 1)' = Tweak(n - 1) /\ (IsDirect(m, n - 1)' <=> IsDirect(m, n - 1))
      /\ LabelOf(m, n - 1)' = LabelOf(m, n - 1)
  BY RoundKept
<1> QED  BY <1>2, <1>3 DEF Took

LEMMA InRoundsKept ==
    ASSUME UNCHANGED <<inputs, oracle, labels, tx_outputs, who, lookup, shared_secret, found, k>>
    PROVE  InRounds' <=> InRounds
<1>1. \A n, m : Took(n, m)' <=> Took(n, m)  BY TookKept
<1>2. FoundInv' <=> FoundInv  BY <1>1 DEF FoundInv
<1>3. KMax' = KMax  BY DEF KMax
<1> QED  BY <1>2, <1>3 DEF InRounds

LEMMA ScanStartInv ==
    ASSUME PaymentsInv, NEW w \in Receivers, NEW with_lookup \in BOOLEAN,
           ScanStart(w, with_lookup)
    PROVE  PaymentsInv'
<1> DEFINE s == PubkeySum(inputs)
<1>1. /\ state = "tx" /\ who' = w /\ lookup' = with_lookup /\ (labels[w] # {} => with_lookup)
      /\ UNCHANGED <<inputs, oracle, labels, recipients, a_sum, generated_outputs, tx_outputs>>
      /\ found' = found /\ batch' = batch /\ found = <<>>
      /\ Types /\ SenderInv /\ TxInv
  BY DEF PaymentsInv, ScanInv, Rounds, ScanStart, given, address
<1>2. s \in Scalars /\ InputHash[s] \in Scalars  BY <1>1, InputsSound DEF Types
<1>3. CASE s = Infinity \/ InputHash[s] = 0
  <2>1. state' = "refused" /\ UNCHANGED call  BY <1>3 DEF ScanStart
  <2>2. Types' /\ SenderInv' /\ TxInv'
    <3>1. shared_secret' \in Scalars /\ k' \in Nat  BY <1>1, <2>1 DEF Types, call
    <3> QED  BY <1>1, <2>1, <3>1, ReceiverStep DEF Rounds
  <2>3. ScanInv'  BY <1>1, <1>3, <2>1 DEF ScanInv, Rounds
  <2> QED  BY <2>2, <2>3 DEF PaymentsInv
<1>4. CASE ~(s = Infinity \/ InputHash[s] = 0)
  <2>1. /\ state' = "round" /\ k' = 0 /\ pos' = 1
        /\ shared_secret' = Times(Times(ScanKey[w], InputHash[s]), s)
    BY <1>4 DEF ScanStart
  <2>2. shared_secret' \in Scalars
    <3>1. ScanKey[w] \in Scalars  BY PaymentsAssumption, ScalarFacts
    <3>2. Times(ScanKey[w], InputHash[s]) \in Scalars  BY <1>2, <3>1, ScalarFacts
    <3> QED  BY <1>2, <2>1, <3>2, ScalarFacts
  <2>3. Types' /\ SenderInv' /\ TxInv'
    BY <1>1, <2>1, <2>2, ReceiverStep DEF Rounds
  <2>4. found' = <<>> /\ Len(found') = 0  BY <1>1
  <2>5. found' \in Seq([output : Points, tweak : Scalars, label : Scalars])  BY <2>4
  <2>6. KMax' \in Nat
    <3>1. Len(tx_outputs') \in Nat  BY <2>1, <2>3 DEF TxInv, Rounds
    <3> QED  BY <3>1, PaymentsAssumption DEF KMax
  <2>7. FoundInv'  BY <2>4 DEF FoundInv
  <2>8. PubkeySum(inputs)' = s  BY <1>1
  <2>9. InRounds'  BY <1>1, <1>4, <2>1, <2>4, <2>5, <2>6, <2>7, <2>8 DEF InRounds
  <2>10. ScanInv'  BY <1>1, <2>1, <2>9 DEF ScanInv, Rounds
  <2> QED  BY <2>3, <2>10 DEF PaymentsInv
<1> QED  BY <1>3, <1>4

\* What stays as it is during the scan.
LEMMA ScanStep ==
    ASSUME PaymentsInv, state \in {"round", "outputs"}, state' \in {"refused"} \cup Rounds,
           UNCHANGED <<inputs, oracle, labels, recipients, a_sum, generated_outputs, tx_outputs,
                       who, lookup, shared_secret>>,
           k' \in Nat
    PROVE  /\ Types' /\ SenderInv' /\ TxInv'
           /\ who' \in Receivers /\ lookup' \in BOOLEAN /\ (labels'[who'] # {} => lookup')
<1>1. Types /\ SenderInv /\ TxInv /\ ScanInv  BY DEF PaymentsInv
<1>2. shared_secret' \in Scalars  BY <1>1 DEF Types
<1>3. Types' /\ SenderInv' /\ TxInv'  BY <1>1, <1>2, ReceiverStep DEF Rounds
<1> QED  BY <1>1, <1>3 DEF ScanInv, Rounds

LEMMA StartRoundInv ==
    ASSUME PaymentsInv, StartRound
    PROVE  PaymentsInv'
<1>1. /\ state = "round" /\ pos' = 1 /\ batch' = <<>> /\ InRounds /\ k \in Nat
      /\ state' = IF k = KMax THEN "scanned" ELSE IF NoRound(k) THEN "refused" ELSE "outputs"
      /\ UNCHANGED <<inputs, oracle, labels, recipients, a_sum, generated_outputs, tx_outputs,
                     who, lookup, shared_secret, found, k>>
  BY DEF PaymentsInv, ScanInv, Types, Rounds, StartRound, given, address
<1>2. state' \in {"scanned", "refused", "outputs"}  BY <1>1
<1>3. /\ Types' /\ SenderInv' /\ TxInv'
      /\ who' \in Receivers /\ lookup' \in BOOLEAN /\ (labels'[who'] # {} => lookup')
  BY <1>1, <1>2, ScanStep DEF Rounds
<1>4. InRounds'  BY <1>1, InRoundsKept
<1>5. KMax' = KMax /\ (NoRound(k)' <=> NoRound(k))  BY <1>1 DEF KMax, NoRound, Tweak, Unlabeled
<1>6. KMax \in Nat /\ Len(tx_outputs) \in Nat
  <2>1. Len(tx_outputs) \in Nat  BY <1>1 DEF PaymentsInv, TxInv, Rounds
  <2> QED  BY <2>1, PaymentsAssumption DEF KMax
<1>7. k # KMax => k' < KMax'
  <2>1. k <= KMax /\ k \in Nat  BY <1>1 DEF InRounds
  <2> QED  BY <1>1, <1>5, <1>6, <2>1
<1>8. state' = "outputs" => InRound'
  <2>1. ASSUME state' = "outputs" PROVE InRound'
    <3>1. k # KMax /\ ~NoRound(k)  BY <1>1, <2>1
    <3>2. Len(tx_outputs') \in Nat /\ ToSet(<<>>) = {}  BY <1>1, <1>6 DEF ToSet
    <3>3. pos' \in 1 .. Len(tx_outputs') + 1 /\ 1 .. pos' - 1 = {}  BY <1>1, <3>2
    <3>4. batch' \in Seq(1 .. Len(tx_outputs')) /\ ToSet(batch') = {}  BY <1>1, <3>2
    <3> QED  BY <1>1, <1>5, <1>7, <3>1, <3>3, <3>4 DEF InRound
  <2> QED  BY <2>1
<1>9. state' = "scanned" => k' = KMax'  BY <1>1, <1>5
<1>10. state' = "refused" => InRounds' /\ k' < KMax' /\ NoRound(k)'
  BY <1>1, <1>4, <1>5, <1>7
<1>11. ScanInv'  BY <1>2, <1>3, <1>4, <1>8, <1>9, <1>10 DEF ScanInv, Rounds
<1> QED  BY <1>3, <1>11 DEF PaymentsInv

LEMMA RoundTypes ==
    ASSUME PaymentsInv, state = "outputs", NEW m \in 1 .. Len(tx_outputs)
    PROVE  /\ LabelOf(m, k) \in Scalars /\ Tweak(k) \in Scalars
           /\ tx_outputs[m] \in Points /\ FoundTweak(LabelOf(m, k)) \in Scalars
           /\ FoundTweak(0) \in Scalars
<1>1. /\ labels[who] \in SUBSET Scalars /\ shared_secret \in Scalars /\ oracle \in DOMAIN OutputHash
  BY DEF PaymentsInv, Types, ScanInv, Rounds
<1>2. LabelOf(m, k) \in labels[who] \cup {0}  BY DEF LabelOf
<1>3. tx_outputs \in Seq(Points \ OddY) /\ Len(tx_outputs) <= MaxRecipients + 1
  BY DEF PaymentsInv, TxInv, Rounds
<1>4. k \in 0 .. MaxRecipients
  <2>1. k < KMax /\ k \in Nat  BY DEF PaymentsInv, ScanInv, InRound, Types
  <2>2. Len(tx_outputs) \in Nat /\ MaxRecipients \in Nat  BY <1>3, PaymentsAssumption
  <2>3. KMax <= Len(tx_outputs) /\ KMax \in Nat  BY <2>2, PaymentsAssumption DEF KMax
  <2> QED  BY <1>3, <2>1, <2>2, <2>3
<1>5. Tweak(k) \in Scalars  BY <1>1, <1>4, HashType DEF Tweak
<1>6. tx_outputs[m] \in Points \ OddY  BY <1>3, SeqIsFunction
<1> QED  BY <1>1, <1>2, <1>5, <1>6, ScalarFacts DEF FoundTweak

\* A round that takes the first match keeps the invariant.
LEMMA RecordInv ==
    ASSUME PaymentsInv, state = "outputs", NEW m \in 1 .. Len(tx_outputs), IsFirst(m, k),
           NEW label, label = IF IsDirect(m, k) THEN 0 ELSE LabelOf(m, k),
           Record(m, label),
           UNCHANGED <<inputs, oracle, labels, recipients, a_sum, generated_outputs, tx_outputs,
                       who, lookup, shared_secret>>
    PROVE  PaymentsInv'
<1> DEFINE e == [output |-> tx_outputs[m], tweak |-> FoundTweak(label), label |-> label]
           n == Len(found)
           E == [output : Points, tweak : Scalars, label : Scalars]
<1>1. InRounds /\ InRound /\ k = n /\ k \in Nat /\ found \in Seq(E) /\ k < KMax
  BY DEF PaymentsInv, ScanInv, Rounds, Types, InRounds, InRound
<1>2. found' = Append(found, e) /\ k' = k + 1 /\ state' = "round"  BY DEF Record
<1>3. e \in E
  <2>1. label \in Scalars /\ FoundTweak(label) \in Scalars  BY RoundTypes, ScalarFacts
  <2>2. tx_outputs[m] \in Points  BY RoundTypes
  <2> QED  BY <2>1, <2>2
<1>4. /\ e.output = tx_outputs[m] /\ e.tweak = FoundTweak(label) /\ e.label = label
  OBVIOUS
<1> HIDE DEF e, E
<1>5. /\ found' \in Seq(E) /\ Len(found') = n + 1 /\ n \in Nat
      /\ \A j \in 1 .. n : found'[j] = found[j]
      /\ found'[n + 1] = e
  BY <1>1, <1>2, <1>3
<1>6. KMax \in Nat /\ KMax' = KMax
  <2>1. Len(tx_outputs) \in Nat  BY DEF PaymentsInv, TxInv, Rounds
  <2> QED  BY <2>1, PaymentsAssumption DEF KMax
<1>7. ASSUME NEW j \in 1 .. n + 1
      PROVE  \E p \in 1 .. Len(tx_outputs) : Took(j, p)'
  <2>1. CASE j \in 1 .. n
    <3>1. PICK p \in 1 .. Len(tx_outputs) : Took(j, p)  BY <1>1, <2>1 DEF InRounds, FoundInv
    <3>2. found'[j] = found[j]  BY <1>5, <2>1
    <3>3. Took(j, p)'  BY <3>1, <3>2, TookKept
    <3> QED  BY <3>3
  <2>2. CASE j = n + 1
    <3>1. j - 1 = k  BY <1>1, <1>5, <2>2
    <3>2. found'[j].output = tx_outputs[m] /\ found'[j].label = label
          /\ found'[j].tweak = FoundTweak(label)
      BY <1>4, <1>5, <2>2
    <3>3. (\A q : Matches(q, j - 1)' <=> Matches(q, j - 1)) /\ Tweak(j - 1)' = Tweak(j - 1)
          /\ (IsDirect(m, j - 1)' <=> IsDirect(m, j - 1)) /\ LabelOf(m, j - 1)' = LabelOf(m, j - 1)
      BY RoundKept
    <3>4. IsFirst(m, j - 1)'  BY <3>1, <3>3 DEF IsFirst
    <3>5. FoundTweak(label) = Plus(Tweak(j - 1), label)  BY <3>1 DEF FoundTweak
    <3>6. found'[j].label = IF IsDirect(m, j - 1)' THEN 0 ELSE LabelOf(m, j - 1)'
      BY <3>1, <3>2, <3>3
    <3>7. tx_outputs'[m] = tx_outputs[m]  OBVIOUS
    <3>8. Took(j, m)'  BY <3>2, <3>3, <3>4, <3>5, <3>6, <3>7 DEF Took
    <3> QED  BY <3>8
  <2> QED  BY <1>5, <2>1, <2>2
<1>8. InRounds'
  <2>1. FoundInv'  BY <1>5, <1>7 DEF FoundInv
  <2>2. k' = Len(found') /\ k' <= KMax'  BY <1>1, <1>2, <1>5, <1>6
  <2>3. /\ PubkeySum(inputs)' = PubkeySum(inputs)
        /\ UNCHANGED <<who, shared_secret>>
    OBVIOUS
  <2> QED  BY <1>1, <1>5, <2>1, <2>2, <2>3 DEF InRounds, E
<1>9. /\ Types' /\ SenderInv' /\ TxInv'
      /\ who' \in Receivers /\ lookup' \in BOOLEAN /\ (labels'[who'] # {} => lookup')
  <2>1. k' \in Nat  BY <1>1, <1>2
  <2> QED  BY <1>2, <2>1, ScanStep DEF Rounds
<1>10. ScanInv'  BY <1>2, <1>8, <1>9 DEF ScanInv, Rounds
<1> QED  BY <1>9, <1>10 DEF PaymentsInv

\* What the check of a batch returns.
LEMMA BatchSound ==
    ASSUME NEW L \in Nat, NEW b \in Seq(1 .. L)
    PROVE  \/ CheckBatch(b) = 0 /\ \A j \in ToSet(b) : LabelOf(j, k) = 0
           \/ /\ CheckBatch(b) \in ToSet(b) /\ CheckBatch(b) # 0 /\ LabelOf(CheckBatch(b), k) # 0
              /\ \A j \in ToSet(b) : LabelOf(j, k) # 0 => CheckBatch(b) <= j
<1> DEFINE hits == {m \in ToSet(b) : LabelOf(m, k) # 0}
<1>1. CheckBatch(b) = IF hits = {} THEN 0 ELSE Min(hits)  BY DEF CheckBatch
<1>2. ToSet(b) \in SUBSET (1 .. L)  BY SeqIsFunction DEF ToSet
<1>3. CASE hits = {}  BY <1>1, <1>3
<1>4. CASE hits # {}
  <2>1. hits \in SUBSET (1 .. L)  BY <1>2
  <2>2. hits \in SUBSET Nat  BY <2>1
  <2> DEFINE H == hits
  <2> HIDE DEF hits
  <2>3. \E x \in hits : \A y \in hits : x <= y  BY <1>4, <2>2, LeastElement
  <2>4. Min(hits) \in hits /\ \A y \in hits : Min(hits) <= y  BY <2>3 DEF Min
  <2>5. Min(hits) # 0  BY <2>1, <2>4
  <2> QED  BY <1>1, <1>4, <2>4, <2>5 DEF hits
<1> QED  BY <1>3, <1>4

\* The first output of a pending batch with a label is the first match.
LEMMA BatchFirst ==
    ASSUME PaymentsInv, state = "outputs", NEW b \in Seq(1 .. Len(tx_outputs)), lookup,
           pos <= Len(tx_outputs),
           ToSet(batch) \in SUBSET ToSet(b), ToSet(b) \in SUBSET (ToSet(batch) \cup {pos}),
           pos \in ToSet(b) => ~IsDirect(pos, k),
           CheckBatch(b) # 0
    PROVE  /\ CheckBatch(b) \in 1 .. Len(tx_outputs) /\ IsFirst(CheckBatch(b), k)
           /\ ~IsDirect(CheckBatch(b), k)
<1> DEFINE m == CheckBatch(b)
<1>1. InRound /\ Len(tx_outputs) \in Nat
  BY DEF PaymentsInv, ScanInv, TxInv, Rounds
<1>2. /\ pos \in 1 .. Len(tx_outputs) /\ batch \in Seq(1 .. Len(tx_outputs))
      /\ \A j \in ToSet(batch) : j < pos
      /\ \A j \in 1 .. pos - 1 : ~IsDirect(j, k) /\ (LabelOf(j, k) # 0 => j \in ToSet(batch))
  BY <1>1 DEF InRound
<1>3. ToSet(b) \in SUBSET (1 .. Len(tx_outputs))  BY SeqIsFunction DEF ToSet
<1>4. /\ m \in ToSet(b) /\ LabelOf(m, k) # 0
      /\ \A j \in ToSet(b) : LabelOf(j, k) # 0 => m <= j
  BY <1>1, BatchSound
<1> HIDE DEF m
<1>5. m \in 1 .. Len(tx_outputs) /\ (m = pos \/ m < pos)  BY <1>2, <1>3, <1>4
<1>6. ~IsDirect(m, k)
  <2>1. CASE m = pos  BY <1>4, <2>1
  <2>2. CASE m < pos
    <3>1. m \in 1 .. pos - 1  BY <1>2, <1>5, <2>2
    <3> QED  BY <1>2, <3>1
  <2> QED  BY <1>5, <2>1, <2>2
<1>7. ASSUME NEW j \in 1 .. m - 1 PROVE ~Matches(j, k)
  <2>1. j \in 1 .. pos - 1 /\ j < m  BY <1>2, <1>5
  <2>2. ~IsDirect(j, k) /\ (LabelOf(j, k) # 0 => j \in ToSet(b))  BY <1>2, <2>1
  <2>3. LabelOf(j, k) # 0 => m <= j  BY <1>4, <2>2
  <2>4. ~(m <= j)  BY <1>5, <2>1
  <2> QED  BY <2>2, <2>3, <2>4 DEF Matches
<1>8. Matches(m, k)  BY <1>4 DEF Matches
<1> QED  BY <1>5, <1>6, <1>7, <1>8 DEF IsFirst, m

LEMMA TryDirectInv ==
    ASSUME PaymentsInv, TryDirect
    PROVE  PaymentsInv'
<1> DEFINE m == CheckBatch(batch)
<1>1. /\ state = "outputs" /\ pos <= Len(tx_outputs) /\ IsDirect(pos, k)
      /\ IF m = 0 THEN Record(pos, 0) ELSE Record(m, LabelOf(m, k))
      /\ UNCHANGED <<inputs, oracle, labels, recipients, a_sum, generated_outputs, tx_outputs,
                     who, lookup, shared_secret>>
  BY DEF TryDirect, given, address
<1>2. InRound /\ Len(tx_outputs) \in Nat
  BY <1>1 DEF PaymentsInv, ScanInv, TxInv, Rounds
<1>3. /\ pos \in 1 .. Len(tx_outputs) /\ batch \in Seq(1 .. Len(tx_outputs))
      /\ \A j \in ToSet(batch) : j < pos
      /\ (~lookup => batch = <<>>)
      /\ \A j \in 1 .. pos - 1 :
            ~IsDirect(j, k) /\ (lookup /\ LabelOf(j, k) # 0 => j \in ToSet(batch))
  BY <1>1, <1>2 DEF InRound
<1>4. CASE m = 0
  <2>1. \A j \in ToSet(batch) : LabelOf(j, k) = 0
    <3>1. CheckBatch(batch) = 0  BY <1>4
    <3>2. \A j \in ToSet(batch) : j # 0
      <4>1. ToSet(batch) \in SUBSET (1 .. Len(tx_outputs))  BY <1>3, SeqIsFunction DEF ToSet
      <4> QED  BY <4>1
    <3> QED  BY <1>2, <1>3, <3>1, BatchSound
  <2>2. \A j \in 1 .. pos - 1 : ~Matches(j, k)  BY <1>3, <2>1 DEF Matches
  <2>3. IsFirst(pos, k)  BY <1>1, <2>2 DEF IsFirst, Matches
  <2>4. Record(pos, 0)  BY <1>1, <1>4
  <2> QED  BY <1>1, <1>3, <2>3, <2>4, RecordInv
<1>5. CASE m # 0
  <2>1. lookup /\ pos \notin ToSet(batch)
    <3>1. pos \notin ToSet(batch)  BY <1>3
    <3>2. ASSUME ~lookup PROVE FALSE
      <4>1. batch = <<>> /\ ToSet(batch) = {}  BY <1>3, <3>2 DEF ToSet
      <4>2. m = 0  BY <4>1 DEF CheckBatch
      <4> QED  BY <1>5, <4>2
    <3>3. lookup \in BOOLEAN  BY <1>1 DEF PaymentsInv, ScanInv, Rounds
    <3> QED  BY <3>1, <3>2, <3>3
  <2>2. m \in 1 .. Len(tx_outputs) /\ IsFirst(m, k) /\ ~IsDirect(m, k)
    BY <1>1, <1>3, <1>5, <2>1, BatchFirst
  <2>3. Record(m, LabelOf(m, k))  BY <1>1, <1>5
  <2> HIDE DEF m
  <2> QED  BY <1>1, <2>2, <2>3, RecordInv
<1> QED  BY <1>4, <1>5

\* The scan goes on to the next output.
LEMMA ContinueInv ==
    ASSUME PaymentsInv, state = "outputs", pos <= Len(tx_outputs), ~IsDirect(pos, k),
           NEW b \in Seq(1 .. Len(tx_outputs)), Continue(b),
           ToSet(b) \in SUBSET (ToSet(batch) \cup {pos}),
           pos = Len(tx_outputs) \/ ~lookup => b = <<>>,
           \A m \in 1 .. pos : lookup /\ LabelOf(m, k) # 0 /\ (m < pos => m \in ToSet(batch))
                                   => m \in ToSet(b),
           UNCHANGED <<inputs, oracle, labels, recipients, a_sum, generated_outputs, tx_outputs,
                       who, lookup, shared_secret>>
    PROVE  PaymentsInv'
<1>1. InRound /\ InRounds /\ Len(tx_outputs) \in Nat /\ k \in Nat
  BY DEF PaymentsInv, ScanInv, TxInv, Types, Rounds
<1>2. pos' = pos + 1 /\ batch' = b /\ state' = "outputs" /\ found' = found /\ k' = k
  BY DEF Continue
<1>3. /\ pos \in 1 .. Len(tx_outputs) /\ \A j \in ToSet(batch) : j < pos
      /\ \A j \in 1 .. pos - 1 :
            ~IsDirect(j, k) /\ (lookup /\ LabelOf(j, k) # 0 => j \in ToSet(batch))
  BY <1>1 DEF InRound
<1>4. \A j \in ToSet(b) : j < pos + 1
  <2>1. ToSet(b) \in SUBSET (1 .. Len(tx_outputs))  BY SeqIsFunction DEF ToSet
  <2>2. \A j \in ToSet(b) : j \in Int /\ (j = pos \/ j < pos)  BY <1>3, <2>1
  <2> QED  BY <1>3, <2>2
<1>5. ASSUME NEW m \in 1 .. pos
      PROVE  ~IsDirect(m, k) /\ (lookup /\ LabelOf(m, k) # 0 => m \in ToSet(b))
  <2>1. CASE m = pos
    <3>1. ~(m < pos)  BY <1>3, <2>1
    <3> QED  BY <2>1, <3>1
  <2>2. CASE m # pos
    <3>1. m \in 1 .. pos - 1  BY <1>3, <2>2
    <3> QED  BY <1>3, <3>1
  <2> QED  BY <2>1, <2>2
<1>6. \A m : (IsDirect(m, k)' <=> IsDirect(m, k)) /\ LabelOf(m, k)' = LabelOf(m, k)
  <2>1. \A m, n : (IsDirect(m, n)' <=> IsDirect(m, n)) /\ LabelOf(m, n)' = LabelOf(m, n)
    BY RoundKept
  <2> QED  BY <1>2, <2>1 DEF IsDirect, LabelOf, Unlabeled, Tweak
<1>7. InRounds'  BY <1>1, <1>2, InRoundsKept
<1>8. InRound'
  <2>1. k' < KMax' /\ ~NoRound(k)'
    BY <1>1, <1>2 DEF InRound, KMax, NoRound, Tweak, Unlabeled
  <2>2. pos' \in 1 .. Len(tx_outputs') + 1 /\ pos' - 1 = pos  BY <1>1, <1>2, <1>3
  <2>3. batch' \in Seq(1 .. Len(tx_outputs')) /\ \A m \in ToSet(batch') : m < pos'
    BY <1>2, <1>4
  <2>4. pos' = Len(tx_outputs') + 1 \/ ~lookup' => batch' = <<>>
    <3>1. pos' = Len(tx_outputs') + 1 => pos = Len(tx_outputs)  BY <1>1, <1>2, <1>3
    <3> QED  BY <1>2, <3>1
  <2>5. \A m \in 1 .. pos' - 1 : /\ ~IsDirect(m, k)'
                                 /\ lookup' /\ LabelOf(m, k)' # 0 => m \in ToSet(batch')
    BY <1>2, <1>5, <1>6, <2>2
  <2> QED  BY <2>1, <2>2, <2>3, <2>4, <2>5 DEF InRound
<1>9. /\ Types' /\ SenderInv' /\ TxInv'
      /\ who' \in Receivers /\ lookup' \in BOOLEAN /\ (labels'[who'] # {} => lookup')
  BY <1>1, <1>2, ScanStep DEF Rounds
<1>10. ScanInv'  BY <1>2, <1>7, <1>8, <1>9 DEF ScanInv, Rounds
<1> QED  BY <1>9, <1>10 DEF PaymentsInv

LEMMA TryLabelsInv ==
    ASSUME PaymentsInv, TryLabels
    PROVE  PaymentsInv'
<1> DEFINE b == Append(batch, pos)
           m == CheckBatch(b)
           full == Len(b) = BatchSize \/ pos = Len(tx_outputs)
<1>1. /\ state = "outputs" /\ pos <= Len(tx_outputs) /\ ~IsDirect(pos, k)
      /\ IF ~lookup THEN Continue(<<>>)
         ELSE IF full THEN IF m # 0 THEN Record(m, LabelOf(m, k)) ELSE Continue(<<>>)
         ELSE Continue(b)
      /\ UNCHANGED <<inputs, oracle, labels, recipients, a_sum, generated_outputs, tx_outputs,
                     who, lookup, shared_secret>>
  BY DEF TryLabels, given, address
<1>2. InRound /\ Len(tx_outputs) \in Nat /\ lookup \in BOOLEAN
  BY <1>1 DEF PaymentsInv, ScanInv, TxInv, Rounds
<1>3. pos \in 1 .. Len(tx_outputs) /\ batch \in Seq(1 .. Len(tx_outputs))
  BY <1>1, <1>2 DEF InRound
<1>4. b \in Seq(1 .. Len(tx_outputs)) /\ ToSet(b) = ToSet(batch) \cup {pos}
  <2>1. /\ b \in Seq(1 .. Len(tx_outputs)) /\ Len(b) = Len(batch) + 1 /\ Len(batch) \in Nat
        /\ \A j \in 1 .. Len(batch) : b[j] = batch[j]
        /\ b[Len(batch) + 1] = pos
    BY <1>3
  <2>2. DOMAIN batch = 1 .. Len(batch) /\ DOMAIN b = 1 .. Len(batch) + 1
    BY <1>3, <2>1
  <2> HIDE DEF b
  <2>3. \A x : x \in ToSet(b) <=> \E j \in 1 .. Len(batch) + 1 : x = b[j]  BY <2>2 DEF ToSet
  <2>4. \A x : x \in ToSet(batch) <=> \E j \in 1 .. Len(batch) : x = batch[j]  BY <2>2 DEF ToSet
  <2>5. \A j \in 1 .. Len(batch) + 1 : j \in 1 .. Len(batch) \/ j = Len(batch) + 1  BY <2>1
  <2>6. \A j \in 1 .. Len(batch) : j \in 1 .. Len(batch) + 1  BY <2>1
  <2>7. Len(batch) + 1 \in 1 .. Len(batch) + 1  BY <2>1
  <2>8. ASSUME NEW x PROVE x \in ToSet(b) <=> x \in ToSet(batch) \/ x = pos
    <3>1. x \in ToSet(b) => x \in ToSet(batch) \/ x = pos  BY <2>1, <2>3, <2>4, <2>5
    <3>2. x \in ToSet(batch) => x \in ToSet(b)  BY <2>1, <2>3, <2>4, <2>6
    <3>3. pos \in ToSet(b)  BY <2>1, <2>3, <2>7
    <3> QED  BY <3>1, <3>2, <3>3
  <2> QED  BY <2>1, <2>8
<1>5. ToSet(<<>>) = {} /\ <<>> \in Seq(1 .. Len(tx_outputs))  BY DEF ToSet
<1> HIDE DEF b, full
<1>6. CASE ~lookup
  <2>1. Continue(<<>>)  BY <1>1, <1>6
  <2> QED  BY <1>1, <1>5, <1>6, <2>1, ContinueInv
<1>7. CASE lookup /\ full /\ m # 0
  <2>1. Record(m, LabelOf(m, k))  BY <1>1, <1>7
  <2>2. m \in 1 .. Len(tx_outputs) /\ IsFirst(m, k) /\ ~IsDirect(m, k)
    BY <1>1, <1>4, <1>7, BatchFirst
  <2> HIDE DEF m
  <2> QED  BY <1>1, <2>1, <2>2, RecordInv
<1>8. CASE lookup /\ full /\ m = 0
  <2>1. Continue(<<>>)  BY <1>1, <1>8
  <2>2. \A j \in ToSet(b) : LabelOf(j, k) = 0
    BY <1>2, <1>4, <1>8, BatchSound
  <2>3. \A j \in 1 .. pos : lookup /\ LabelOf(j, k) # 0 /\ (j < pos => j \in ToSet(batch))
                                   => j \in ToSet(<<>>)
    <3>1. \A j \in 1 .. pos : j = pos \/ j < pos  BY <1>3
    <3> QED  BY <1>4, <2>2, <3>1
  <2> QED  BY <1>1, <1>5, <2>1, <2>3, ContinueInv
<1>9. CASE lookup /\ ~full
  <2>1. Continue(b)  BY <1>1, <1>9
  <2>2. \A j \in 1 .. pos : lookup /\ LabelOf(j, k) # 0 /\ (j < pos => j \in ToSet(batch))
                                   => j \in ToSet(b)
    <3>1. \A j \in 1 .. pos : j = pos \/ j < pos  BY <1>3
    <3> QED  BY <1>4, <3>1
  <2>3. pos # Len(tx_outputs)  BY <1>9 DEF full
  <2> QED  BY <1>1, <1>4, <1>9, <2>1, <2>2, <2>3, ContinueInv
<1> QED  BY <1>2, <1>6, <1>7, <1>8, <1>9

LEMMA NothingFoundInv ==
    ASSUME PaymentsInv, NothingFound
    PROVE  PaymentsInv'
<1>1. /\ state = "outputs" /\ state' = "scanned" /\ pos > Len(tx_outputs)
      /\ UNCHANGED <<inputs, oracle, labels, recipients, a_sum, generated_outputs, tx_outputs,
                     who, lookup, shared_secret, found, k>>
  BY DEF NothingFound, given, address, scan, call
<1>2. InRound /\ InRounds /\ Len(tx_outputs) \in Nat /\ k \in Nat
  BY <1>1 DEF PaymentsInv, ScanInv, TxInv, Types, Rounds
<1>3. pos = Len(tx_outputs) + 1 /\ batch = <<>> /\ pos - 1 = Len(tx_outputs)
  BY <1>1, <1>2 DEF InRound
<1>4. ToSet(batch) = {}  BY <1>3 DEF ToSet
<1>5. \A m \in 1 .. Len(tx_outputs) : ~Matches(m, k)
  BY <1>2, <1>3, <1>4 DEF InRound, Matches
<1>6. \A m : Matches(m, k)' <=> Matches(m, k)
  BY <1>1 DEF Matches, IsDirect, LabelOf, Unlabeled, Tweak
<1>7. \A m \in 1 .. Len(tx_outputs') : ~Matches(m, k)'  BY <1>1, <1>5, <1>6
<1>8. InRounds'  BY <1>1, <1>2, InRoundsKept
<1>9. /\ Types' /\ SenderInv' /\ TxInv'
      /\ who' \in Receivers /\ lookup' \in BOOLEAN /\ (labels'[who'] # {} => lookup')
  BY <1>1, <1>2, ScanStep DEF Rounds
<1>10. ScanInv'  BY <1>1, <1>7, <1>8, <1>9 DEF ScanInv, Rounds
<1> QED  BY <1>9, <1>10 DEF PaymentsInv

LEMMA ReturnedInv ==
    ASSUME PaymentsInv, UNCHANGED vars
    PROVE  PaymentsInv'
<1>1. UNCHANGED <<inputs, oracle, labels, recipients, state, a_sum, generated_outputs, tx_outputs,
                  who, lookup, found, batch, shared_secret, k, pos>>
  BY DEF vars, given, address, scan, call
<1>2. Types'  BY <1>1, AddressesKept DEF PaymentsInv, Types
<1>3. Sending' <=> Sending
  <2>1. \A i : Paid(i)' <=> Paid(i)  BY <1>1, PaidKept
  <2>2. \A i : Counter(i)' = Counter(i)  BY <1>1 DEF Counter, Payee, Group
  <2>3. (Sorted' <=> Sorted) /\ (KeysValid' <=> KeysValid)
    BY <1>1 DEF Sorted, Before, KeysValid
  <2> QED  BY <1>1, <2>1, <2>2, <2>3 DEF Sending
<1>4. SenderInv'  BY <1>1, <1>3, AllPaidKept, ReasonKept DEF PaymentsInv, SenderInv, Rounds
<1>5. TxInv'  BY <1>1 DEF PaymentsInv, TxInv
<1>6. InRounds' <=> InRounds  BY <1>1, InRoundsKept
<1>7. \A m, n : (IsDirect(m, n)' <=> IsDirect(m, n)) /\ LabelOf(m, n)' = LabelOf(m, n)
              /\ (Matches(m, n)' <=> Matches(m, n)) /\ (NoRound(n)' <=> NoRound(n)) /\ KMax' = KMax
  BY <1>1, RoundKept
<1>8. /\ \A m : (IsDirect(m, k)' <=> IsDirect(m, k)) /\ LabelOf(m, k)' = LabelOf(m, k)
      /\ \A m : Matches(m, k)' <=> Matches(m, k)
      /\ (NoRound(k)' <=> NoRound(k)) /\ KMax' = KMax
  BY <1>1, <1>7 DEF IsDirect, LabelOf, Matches, NoRound, Unlabeled, Tweak
<1>9. InRound' <=> InRound  BY <1>1, <1>8 DEF InRound
<1>10. ScanInv'  BY <1>1, <1>6, <1>8, <1>9 DEF PaymentsInv, ScanInv
<1> QED  BY <1>2, <1>4, <1>5, <1>10 DEF PaymentsInv

LEMMA NextInv ==
    ASSUME PaymentsInv, [Next]_vars
    PROVE  PaymentsInv'
<1>1. ASSUME NEW w \in Receivers, NEW tweak \in LabelHashes, LabelCreate(w, tweak)
      PROVE  PaymentsInv'
  BY <1>1, LabelCreateInv
<1>2. ASSUME NEW w \in Receivers, NEW label \in labels[w] \cup {0}, AddRecipient(w, label)
      PROVE  PaymentsInv'
  BY <1>2, AddRecipientInv
<1>3. ASSUME NEW w \in Receivers, NEW with_lookup \in BOOLEAN, ScanStart(w, with_lookup)
      PROVE  PaymentsInv'
  BY <1>3, ScanStartInv
<1>4. CASE Sum  BY <1>4, SumInv
<1>5. CASE CreateOutput  BY <1>5, CreateOutputInv
<1>6. CASE Sent  BY <1>6, SentInv
<1>7. ASSUME NEW others \in ForeignOutputs \cup {<<>>}, Publish(others)
      PROVE  PaymentsInv'
  BY <1>7, PublishInv
<1>8. ASSUME NEW outputs \in ForeignOutputs, Foreign(outputs)
      PROVE  PaymentsInv'
  BY <1>8, ForeignInv
<1>9. CASE StartRound  BY <1>9, StartRoundInv
<1>10. CASE TryDirect  BY <1>10, TryDirectInv
<1>11. CASE TryLabels  BY <1>11, TryLabelsInv
<1>12. CASE NothingFound  BY <1>12, NothingFoundInv
<1>13. CASE Returned \/ UNCHANGED vars  BY <1>13, ReturnedInv DEF Returned
<1> QED
  BY <1>1, <1>2, <1>3, <1>4, <1>5, <1>6, <1>7, <1>8, <1>9, <1>10, <1>11, <1>12, <1>13 DEF Next

\* The inductive invariant holds in every reachable state: k is the counter of
\* the last recipient paid while the sender works, and while a receiver scans,
\* all behind pos that matches waits in the batch (PaymentsInv).
THEOREM PaymentsInvariant == Spec => []PaymentsInv
<1>1. Init => PaymentsInv  BY InitInv
<1>2. PaymentsInv /\ [Next]_vars => PaymentsInv'  BY NextInv
<1> QED  BY <1>1, <1>2, PTL DEF Spec

-----------------------------------------------------------------------------
(* The outputs of the sender *)

\* For every number of recipients in every order: the output with index i pays
\* the recipient with index i, with the tweak of his place among those with
\* the same scan key (OutputsInOrder).
THEOREM PaymentsOutputsInOrder == Spec => []OutputsInOrder
<1>1. ASSUME PaymentsInv PROVE OutputsInOrder
  <2> SUFFICES ASSUME state = "sent", NEW i \in DOMAIN generated_outputs
               PROVE  generated_outputs[i] =
                        EvenY(Plus(Payee(i).spend_pubkey,
                                   OutputHash[oracle][Times(a_sum, Payee(i).scan_pubkey)]
                                             [Cardinality({j \in Group(i) : j < i})]))
    BY DEF OutputsInOrder
  <2>1. AllPaid  BY <1>1 DEF PaymentsInv, SenderInv
  <2>2. i \in 1 .. Len(recipients)  BY <2>1 DEF AllPaid
  <2>3. Paid(i)  BY <2>1, <2>2 DEF AllPaid
  <2> QED  BY <2>3 DEF Paid, PaymentTweak, Counter, Below
<1> QED  BY <1>1, PaymentsInvariant, PTL

\* When all are paid, no group is larger than the limit.
LEMMA GroupsWithinLimit ==
    ASSUME Types, AllPaid, NEW i \in 1 .. Len(recipients)
    PROVE  ~(Cardinality(Group(i)) > GroupLimit)
<1> DEFINE S == Group(i)
<1>1. S \in SUBSET (1 .. Len(recipients)) /\ S \in SUBSET Nat /\ IsFiniteSet(S) /\ i \in S
  BY GroupType DEF Types
<1>2. Len(recipients) \in Nat /\ \A j \in S : j <= Len(recipients)
  <2>1. Len(recipients) \in Nat  BY RecipientsTyped DEF Types
  <2> QED  BY <1>1, <2>1
<1> HIDE DEF S
<1>3. PICK j \in S : \A x \in S : x <= j  BY <1>1, <1>2, LargestElement
<1>4. j \in 1 .. Len(recipients) /\ Group(j) = S
  <2>1. j \in 1 .. Len(recipients)  BY <1>1
  <2>2. Payee(j).scan_pubkey = Payee(i).scan_pubkey  BY DEF S, Group
  <2> QED  BY <2>1, <2>2 DEF S, Group
<1>5. S = Below(S, j) \cup {j} /\ j \notin Below(S, j) /\ Below(S, j) \in SUBSET S
  <2>1. \A x \in S : x \in Nat  BY <1>1
  <2>2. \A x \in S : x < j \/ x = j  BY <1>3, <2>1
  <2>3. ~(j < j)  BY <2>1
  <2> QED  BY <2>2, <2>3 DEF Below
<1>6. Cardinality(S) = Cardinality(Below(S, j)) + 1
  BY <1>1, <1>5, FS_Subset, FS_AddElement
<1>7. Counter(j) < GroupLimit  BY <1>4 DEF AllPaid, Paid
<1>8. Cardinality(Below(S, j)) < GroupLimit  BY <1>4, <1>7 DEF Counter
<1>9. Cardinality(Below(S, j)) \in Nat  BY <1>1, BelowType
<1> QED  BY <1>6, <1>8, <1>9, PaymentsAssumption DEF S

\* For every array of recipients: the sender fails exactly if a key is
\* invalid, a sum is 0, a group is too large or a tweak of some recipient is
\* invalid, though he takes the recipients in another order and stops at the
\* first failure (FailsAsDocumented).
THEOREM PaymentsFailsAsDocumented == Spec => []FailsAsDocumented
<1>1. ASSUME PaymentsInv PROVE FailsAsDocumented
  <2>1. Types /\ DOMAIN recipients = 1 .. Len(recipients)
    BY <1>1, RecipientsTyped DEF PaymentsInv, Types
  <2>2. FailsAsDocumented <=> (state \in {"sent", "failed"} => (state = "failed" <=> Reason))
    BY <2>1 DEF FailsAsDocumented, Reason, Refusable, Counter, Below
  <2>3. state = "failed" => Reason  BY <1>1 DEF PaymentsInv, SenderInv
  <2>4. ASSUME state = "sent" PROVE ~Reason
    <3>1. AllPaid  BY <1>1, <2>4 DEF PaymentsInv, SenderInv
    <3>2. KeysValid  BY <3>1 DEF AllPaid
    <3>3. ASSUME NEW i \in 1 .. Len(recipients) PROVE ~Refusable(i)
      <4>1. Paid(i)  BY <3>1 DEF AllPaid
      <4>2. ~(Cardinality(Group(i)) > GroupLimit)  BY <2>1, <3>1, GroupsWithinLimit
      <4> QED  BY <3>2, <4>1, <4>2 DEF Refusable, Paid, PaymentTweak, KeysValid
    <3> QED  BY <3>2, <3>3 DEF Reason, KeysValid
  <2> QED  BY <2>2, <2>3, <2>4
<1> QED  BY <1>1, PaymentsInvariant, PTL

-----------------------------------------------------------------------------
(* What is found *)

\* The numbers of the rounds have hashes.
LEMMA RoundNumbers ==
    ASSUME PaymentsInv, InRounds, state \in {"refused"} \cup Rounds
    PROVE  /\ \A n \in 0 .. Len(found) - 1 : n \in 0 .. MaxRecipients
           /\ k < KMax => k \in 0 .. MaxRecipients
<1>1. k = Len(found) /\ k <= KMax /\ k \in Nat  BY DEF InRounds, PaymentsInv, Types
<1>2. Len(tx_outputs) \in Nat /\ Len(tx_outputs) <= MaxRecipients + 1 /\ MaxRecipients \in Nat
  BY PaymentsAssumption DEF PaymentsInv, TxInv
<1>3. KMax <= Len(tx_outputs) /\ KMax \in Nat  BY <1>2, PaymentsAssumption DEF KMax
<1> QED  BY <1>1, <1>2, <1>3

LEMMA ScanTypes ==
    ASSUME PaymentsInv, state \in {"refused"} \cup Rounds, NEW n \in 0 .. MaxRecipients
    PROVE  /\ who \in Receivers /\ labels[who] \in SUBSET Scalars /\ 0 \notin labels[who]
           /\ Tweak(n) \in Scalars /\ Unlabeled(n) \in Scalars /\ SpendKey[who] \in Scalars
<1>1. /\ who \in Receivers /\ labels[who] \in SUBSET Scalars /\ 0 \notin labels[who]
      /\ shared_secret \in Scalars /\ oracle \in DOMAIN OutputHash
  BY DEF PaymentsInv, Types, ScanInv
<1>2. Tweak(n) \in Scalars  BY <1>1, HashType DEF Tweak
<1>3. SpendKey[who] \in Scalars  BY <1>1, ScalarFacts, PaymentsAssumption
<1> QED  BY <1>1, <1>2, <1>3, ScalarFacts DEF Unlabeled

\* Adding a candidate label back.
LEMMA LabelAdded ==
    ASSUME NEW U \in Scalars, NEW P \in Scalars, P \notin OddY
    PROVE  /\ EvenY(Plus(U, Plus(P, Neg(U)))) = P
           /\ EvenY(Plus(U, Plus(Neg(P), Neg(U)))) = P
<1>1. ASSUME NEW Q \in Scalars PROVE Plus(U, Plus(Q, Neg(U))) = Q
  <2>1. U \in Int /\ Q \in Int /\ Neg(U) \in Int /\ Neg(U) \in Scalars
    BY ScalarFacts
  <2>2. Plus(Q, Neg(U)) = Plus(Neg(U), Q)  BY <2>1, PlusComm
  <2>3. Plus(U, Plus(Neg(U), Q)) = Plus(Plus(U, Neg(U)), Q)  BY <2>1, PlusAssoc
  <2> QED  BY <2>2, <2>3, PlusNeg, PlusZero
<1>2. Neg(P) \in Scalars  BY ScalarFacts
<1>3. EvenY(P) = P  BY DEF EvenY, IsOdd
<1>4. EvenY(Neg(P)) = P
  <2>1. CASE P = 0  BY <2>1, CurveAssumption DEF EvenY, IsOdd, Neg
  <2>2. CASE P # 0
    <3>1. P \in 1 .. N-1 /\ Neg(P) = N - P  BY <2>2, ScalarFacts DEF Neg
    <3>2. Neg(P) \in OddY  BY <3>1, CurveAssumption
    <3> QED  BY <3>2, NegNeg DEF EvenY, IsOdd
  <2> QED  BY <2>1, <2>2
<1> QED  BY <1>1, <1>2, <1>3, <1>4

\* Whenever something has been found, a scan has reached its rounds.
LEMMA FoundInRounds ==
    ASSUME PaymentsInv, NEW n \in DOMAIN found
    PROVE  /\ InRounds /\ state \in {"refused"} \cup Rounds
           /\ n \in 1 .. Len(found) /\ n - 1 \in 0 .. Len(found) - 1
           /\ \E m \in 1 .. Len(tx_outputs) : Took(n, m)
<1>1. found # <<>>  OBVIOUS
<1>2. state \in {"refused"} \cup Rounds /\ InRounds
  BY <1>1 DEF PaymentsInv, ScanInv, Rounds
<1>3. Len(found) \in Nat /\ DOMAIN found = 1 .. Len(found)  BY <1>2, SeqIsFunction DEF InRounds
<1>4. n \in 1 .. Len(found) /\ n - 1 \in 0 .. Len(found) - 1  BY <1>3
<1>5. \E m \in 1 .. Len(tx_outputs) : Took(n, m)  BY <1>2, <1>4 DEF InRounds, FoundInv
<1> QED  BY <1>2, <1>4, <1>5

\* For every transaction: the spend key plus the tweak of a found output is
\* its secret key, with a label as without, and the label is one of the
\* receiver's (FoundIsSpendable).
THEOREM PaymentsFoundIsSpendable == Spec => []FoundIsSpendable
<1>1. ASSUME PaymentsInv PROVE FoundIsSpendable
  <2> SUFFICES ASSUME NEW n \in DOMAIN found
               PROVE  /\ EvenY(Plus(SpendKey[who], found[n].tweak)) = found[n].output
                      /\ found[n].output \in ToSet(tx_outputs)
                      /\ found[n].label # 0 => found[n].label \in labels[who]
    BY DEF FoundIsSpendable
  <2>1. InRounds /\ state \in {"refused"} \cup Rounds /\ n - 1 \in 0 .. Len(found) - 1
    BY <1>1, FoundInRounds
  <2>2. PICK m \in 1 .. Len(tx_outputs) : Took(n, m)  BY <1>1, FoundInRounds
  <2> DEFINE t == Tweak(n - 1)
             U == Unlabeled(n - 1)
             P == tx_outputs[m]
             l == found[n].label
  <2>3. /\ who \in Receivers /\ labels[who] \in SUBSET Scalars /\ 0 \notin labels[who]
        /\ t \in Scalars /\ U \in Scalars /\ SpendKey[who] \in Scalars
    <3>1. n - 1 \in 0 .. MaxRecipients  BY <1>1, <2>1, RoundNumbers
    <3> QED  BY <1>1, <2>1, <3>1, ScanTypes
  <2>4. tx_outputs \in Seq(Points \ OddY) /\ DOMAIN tx_outputs = 1 .. Len(tx_outputs)
    BY <1>1, <2>1, SeqIsFunction DEF PaymentsInv, TxInv
  <2>5. P \in Scalars /\ P \notin OddY  BY <2>4, SeqIsFunction, ScalarFacts
  <2>6. found[n].output = P /\ P \in ToSet(tx_outputs)  BY <2>2, <2>4 DEF Took, ToSet
  <2>7. found[n].tweak = Plus(t, l)  BY <2>2 DEF Took
  <2>8. l = IF IsDirect(m, n - 1) THEN 0 ELSE LabelOf(m, n - 1)  BY <2>2 DEF Took
  <2>9. U = Plus(SpendKey[who], t)  BY DEF Unlabeled
  <2>10. CASE IsDirect(m, n - 1)
    <3>1. l = 0 /\ P = EvenY(U)  BY <2>8, <2>10 DEF IsDirect
    <3>2. found[n].tweak = t  BY <2>3, <2>7, <3>1, PlusZero
    <3> QED  BY <2>6, <2>9, <3>1, <3>2
  <2>11. CASE ~IsDirect(m, n - 1)
    <3>1. l = LabelOf(m, n - 1) /\ l # 0
      <4>1. l = LabelOf(m, n - 1)  BY <2>8, <2>11
      <4>2. Matches(m, n - 1)  BY <2>2 DEF Took, IsFirst
      <4> QED  BY <2>11, <4>1, <4>2 DEF Matches
    <3>2. l \in labels[who] /\ (l = Plus(P, Neg(U)) \/ l = Plus(Neg(P), Neg(U)))
      BY <3>1 DEF LabelOf
    <3>3. Plus(SpendKey[who], Plus(t, l)) = Plus(U, l)
      <4> DEFINE x == l
      <4>1. x \in Int /\ t \in Int /\ SpendKey[who] \in Int  BY <2>3, <3>2, ScalarFacts
      <4> HIDE DEF x, t, U
      <4>2. Plus(Plus(SpendKey[who], t), x) = Plus(SpendKey[who], Plus(t, x))
        BY <4>1, PlusAssoc
      <4> QED  BY <2>9, <4>2 DEF x
    <3>4. EvenY(Plus(U, l)) = P
      <4> HIDE DEF U, P, l
      <4> QED  BY <2>3, <2>5, <3>2, LabelAdded
    <3> QED  BY <2>6, <2>7, <3>2, <3>3, <3>4
  <2> QED  BY <2>10, <2>11
<1> QED  BY <1>1, PaymentsInvariant, PTL

LEMMA MinIs ==
    ASSUME NEW S \in SUBSET Nat, NEW m \in S, \A x \in S : m <= x
    PROVE  Min(S) = m
<1>1. \A x \in S : x \in Nat  OBVIOUS
<1>2. \E x \in S : \A y \in S : x <= y  OBVIOUS
<1>3. Min(S) \in S /\ \A y \in S : Min(S) <= y  BY <1>2 DEF Min
<1>4. Min(S) <= m /\ m <= Min(S) /\ Min(S) \in Nat /\ m \in Nat  BY <1>1, <1>3
<1> QED  BY <1>4

\* For every batch size: each round takes the first output that matches, and
\* a scan that ends before the limit has no further match (ScanIsSequential).
THEOREM PaymentsScanIsSequential == Spec => []ScanIsSequential
<1>1. ASSUME PaymentsInv PROVE ScanIsSequential
  <2> SUFFICES ASSUME state = "scanned"
               PROVE  /\ \A n \in DOMAIN found :
                            LET first == Min({m \in DOMAIN tx_outputs : Matches(m, n-1)})
                            IN  /\ found[n].output = tx_outputs[first]
                                /\ found[n].label = IF IsDirect(first, n-1) THEN 0
                                                                          ELSE LabelOf(first, n-1)
                      /\ Len(found) < KMax => \A m \in DOMAIN tx_outputs : ~Matches(m, Len(found))
    BY DEF ScanIsSequential
  <2>1. /\ InRounds /\ Len(tx_outputs) \in Nat /\ DOMAIN tx_outputs = 1 .. Len(tx_outputs)
        /\ k = KMax \/ \A m \in 1 .. Len(tx_outputs) : ~Matches(m, k)
    BY <1>1, SeqIsFunction DEF PaymentsInv, ScanInv, TxInv, Rounds
  <2>2. ASSUME NEW n \in DOMAIN found
        PROVE  LET first == Min({m \in DOMAIN tx_outputs : Matches(m, n-1)})
               IN  /\ found[n].output = tx_outputs[first]
                   /\ found[n].label = IF IsDirect(first, n-1) THEN 0 ELSE LabelOf(first, n-1)
    <3>1. PICK m \in 1 .. Len(tx_outputs) : Took(n, m)  BY <1>1, FoundInRounds
    <3> DEFINE S == {j \in DOMAIN tx_outputs : Matches(j, n-1)}
    <3>2. IsFirst(m, n - 1)  BY <3>1 DEF Took
    <3>3. S \in SUBSET Nat /\ m \in S  BY <2>1, <3>2 DEF IsFirst
    <3>4. ASSUME NEW x \in S PROVE m <= x
      <4>1. x \in 1 .. Len(tx_outputs) /\ Matches(x, n - 1)  BY <2>1
      <4>2. x \notin 1 .. m - 1  BY <3>2, <4>1 DEF IsFirst
      <4> QED  BY <4>1, <4>2
    <3>5. Min(S) = m
      <4> HIDE DEF S
      <4> QED  BY <3>3, <3>4, MinIs
    <3> QED  BY <3>1, <3>5 DEF Took
  <2>3. ASSUME Len(found) < KMax, NEW m \in DOMAIN tx_outputs PROVE ~Matches(m, Len(found))
    <3>1. k = Len(found) /\ k \in Nat  BY <1>1, <2>1 DEF InRounds, PaymentsInv, Types
    <3>2. k # KMax  BY <2>3, <3>1
    <3> QED  BY <2>1, <3>1, <3>2
  <2> QED  BY <2>2, <2>3
<1> QED  BY <1>1, PaymentsInvariant, PTL

-----------------------------------------------------------------------------
(* Sender and receiver *)

LEMMA AtMostOne ==
    ASSUME NEW S, IsFiniteSet(S), Cardinality(S) <= 1, NEW x \in S, NEW y \in S
    PROVE  x = y
<1> SUFFICES ASSUME x # y PROVE FALSE  OBVIOUS
<1>1. IsFiniteSet({x}) /\ Cardinality({x}) = 1  BY FS_Singleton
<1>2. IsFiniteSet({x} \cup {y}) /\ Cardinality({x} \cup {y}) = 2
  <2>1. y \notin {x}  OBVIOUS
  <2>2. Cardinality({x} \cup {y}) = Cardinality({x}) + 1 /\ IsFiniteSet({x} \cup {y})
    BY <1>1, <2>1, FS_AddElement
  <2> QED  BY <1>1, <2>2
<1>3. {x} \cup {y} \in SUBSET S  OBVIOUS
<1>4. Cardinality({x} \cup {y}) <= Cardinality(S)  BY <1>3, FS_Subset
<1>5. Cardinality(S) \in Nat  BY FS_CardinalityType
<1> QED  BY <1>2, <1>4, <1>5

\* The receiver computes the shared secret of the sender.
LEMMA SecretsAgree ==
    ASSUME PaymentsInv, InRounds, KeysValid, who \in Receivers
    PROVE  Times(a_sum, ScanKey[who]) = shared_secret
<1> DEFINE s == KeySum(inputs)
           h == InputHash[s]
           b == ScanKey[who]
<1>1. s \in Scalars /\ h \in Scalars /\ PubkeySum(inputs) = s
  BY InputsSound DEF PaymentsInv, Types
<1>2. b \in Scalars  BY PaymentsAssumption, ScalarFacts
<1>3. a_sum = Times(s, h) /\ shared_secret = Times(Times(b, h), s)
  BY <1>1 DEF KeysValid, InRounds
<1>4. s \in Int /\ h \in Int /\ b \in Int /\ Times(s, h) \in Int  BY <1>1, <1>2, ScalarFacts
<1> HIDE DEF s, h, b
<1>5. Times(Times(s, h), b) = Times(b, Times(s, h))  BY <1>4, TimesComm
<1>6. Times(s, h) = Times(h, s)  BY <1>4, TimesComm
<1>7. Times(b, Times(h, s)) = Times(Times(b, h), s)  BY <1>4, TimesAssoc
<1> QED  BY <1>3, <1>5, <1>6, <1>7 DEF b

\* A group is no larger than the set of its recipients.
LEMMA GroupSize ==
    ASSUME AddressesSound, NEW i \in 1 .. Len(recipients), NEW P,
           Payee(i).scan_pubkey = P
    PROVE  /\ Cardinality(Group(i)) <= Cardinality({r \in ToSet(recipients) : r.scan_pubkey = P})
           /\ Cardinality({r \in ToSet(recipients) : r.scan_pubkey = P}) \in Nat
<1> DEFINE S == Group(i)
           T == {r \in ToSet(recipients) : r.scan_pubkey = P}
           f == [j \in S |-> Payee(j)]
<1>1. IsFiniteSet(ToSet(recipients)) /\ DOMAIN recipients = 1 .. Len(recipients)
  BY RecipientsTyped
<1>2. IsFiniteSet(T)  BY <1>1, FS_Subset
<1>3. S \in SUBSET (1 .. Len(recipients))  BY GroupType
<1>4. ASSUME NEW j \in S PROVE Payee(j) \in T /\ Payee(j).index = j
  <2>1. j \in 1 .. Len(recipients) /\ Payee(j).scan_pubkey = P  BY <1>3 DEF Group
  <2>2. PICK p \in 1 .. Len(recipients) : recipients[p].index = j /\ Payee(j) = recipients[p]
    BY <2>1, PayeeType
  <2>3. Payee(j) \in ToSet(recipients)  BY <1>1, <2>2 DEF ToSet
  <2> QED  BY <2>1, <2>2, <2>3
<1> HIDE DEF S, T
<1>5. f \in Injection(S, T)
  <2>1. f \in [S -> T] /\ \A x, y \in S : f[x] = f[y] => x = y
    <3>1. \A x \in S : f[x] = Payee(x)  OBVIOUS
    <3>2. \A x, y \in S : Payee(x) = Payee(y) => x = y  BY <1>4
    <3> QED  BY <1>4, <3>1, <3>2
  <2> HIDE DEF f
  <2> QED  BY <2>1 DEF Injection, IsInjective
<1> HIDE DEF f
<1>6. Cardinality(S) <= Cardinality(T)  BY <1>2, <1>5, FS_Injection
<1>7. Cardinality(T) \in Nat  BY <1>2, FS_CardinalityType
<1> QED  BY <1>6, <1>7 DEF S, T

\* An output for one of his addresses matches in the round of its counter.
LEMMA OwnOutputMatches ==
    ASSUME PaymentsInv, state \in {"scanned", "refused"}, InRounds, AllPaid,
           NEW i \in 1 .. Len(recipients), Payee(i).scan_pubkey = ScanKey[who],
           NEW m \in 1 .. Len(tx_outputs), tx_outputs[m] = generated_outputs[i]
    PROVE  Matches(m, Counter(i))
<1> DEFINE n == Counter(i)
           t == Tweak(n)
           U == Unlabeled(n)
           P == tx_outputs[m]
<1>1. Types /\ AddressesSound /\ who \in Receivers /\ (labels[who] # {} => lookup)
  BY DEF PaymentsInv, Types, ScanInv, Rounds
<1>2. n \in 0 .. MaxRecipients  BY <1>1, CounterType
<1>3. /\ labels[who] \in SUBSET Scalars /\ 0 \notin labels[who]
      /\ t \in Scalars /\ U \in Scalars /\ SpendKey[who] \in Scalars
  BY <1>2, ScanTypes DEF Rounds
<1>4. PaymentTweak(i) = t
  <2>1. Times(a_sum, ScanKey[who]) = shared_secret  BY <1>1, SecretsAgree DEF AllPaid
  <2> QED  BY <2>1 DEF PaymentTweak, Tweak
<1>5. P = EvenY(Plus(Payee(i).spend_pubkey, t))  BY <1>4 DEF AllPaid, Paid
<1>6. PICK l \in labels[who] \cup {0} : Payee(i).spend_pubkey = Plus(SpendKey[who], l)
  <2>1. PICK p \in 1 .. Len(recipients) : recipients[p].index = i /\ Payee(i) = recipients[p]
    BY <1>1, PayeeType
  <2>2. PICK w \in Receivers : \E x \in labels[w] \cup {0} :
           recipients[p].scan_pubkey = ScanKey[w] /\ recipients[p].spend_pubkey = LabeledSpend(w, x)
    BY <1>1 DEF AddressesSound
  <2>3. ScanKey[w] = ScanKey[who]  BY <2>1, <2>2
  <2>4. w = who  BY <1>1, <2>3, PaymentsAssumption
  <2> QED  BY <2>1, <2>2, <2>4 DEF LabeledSpend
<1>7. l \in Scalars  BY <1>3, ScalarFacts
<1>8. U = Plus(SpendKey[who], t)  BY DEF Unlabeled
<1>9. Plus(Payee(i).spend_pubkey, t) = Plus(U, l)
  <2>1. l \in Int /\ t \in Int /\ SpendKey[who] \in Int  BY <1>3, <1>7, ScalarFacts
  <2> HIDE DEF t, U
  <2>2. Plus(Plus(SpendKey[who], l), t) = Plus(SpendKey[who], Plus(l, t))  BY <2>1, PlusAssoc
  <2>3. Plus(l, t) = Plus(t, l)  BY <2>1, PlusComm
  <2>4. Plus(SpendKey[who], Plus(t, l)) = Plus(Plus(SpendKey[who], t), l)  BY <2>1, PlusAssoc
  <2> QED  BY <1>6, <1>8, <2>2, <2>3, <2>4
<1>10. P = EvenY(Plus(U, l))  BY <1>5, <1>9
<1>11. CASE l = 0
  <2>1. P = EvenY(U)  BY <1>3, <1>10, <1>11, PlusZero
  <2> QED  BY <2>1 DEF Matches, IsDirect
<1>12. CASE l # 0
  <2> DEFINE Q == Plus(U, l)
  <2>1. l \in labels[who] /\ lookup  BY <1>1, <1>12
  <2>2. Plus(Q, Neg(U)) = l
    <3> HIDE DEF U
    <3>1. U \in Int /\ l \in Int /\ Neg(U) \in Int  BY <1>3, <1>7, ScalarFacts
    <3>2. Plus(U, l) = Plus(l, U)  BY <3>1, PlusComm
    <3>3. Plus(Plus(l, U), Neg(U)) = Plus(l, Plus(U, Neg(U)))  BY <3>1, PlusAssoc
    <3> QED  BY <1>3, <1>7, <3>2, <3>3, PlusNeg, PlusZero
  <2>3. Q \in Scalars  BY <1>3, <1>7, ScalarFacts
  <2>4. P = Q \/ Neg(P) = Q
    <3> HIDE DEF Q, P
    <3>1. P = EvenY(Q)  BY <1>10 DEF Q
    <3> QED  BY <2>3, <3>1, NegNeg DEF EvenY
  <2>5. Plus(P, Neg(U)) \in labels[who] \/ Plus(Neg(P), Neg(U)) \in labels[who]
    BY <2>1, <2>2, <2>4
  <2>6. LabelOf(m, n) \in labels[who]  BY <2>5 DEF LabelOf
  <2> QED  BY <1>3, <2>1, <2>6 DEF Matches
<1> QED  BY <1>11, <1>12

\* For every number of recipients, labels and outputs: barring collisions of
\* hashes, a receiver who scans the transaction finds each output the sender
\* made for an address of his, labelled or not (ReceiverFindsHisOutputs).
THEOREM PaymentsReceiverFindsHisOutputs == Spec => []ReceiverFindsHisOutputs
<1>1. ASSUME PaymentsInv PROVE ReceiverFindsHisOutputs
  <2> SUFFICES ASSUME state \in {"scanned", "refused"}, generated_outputs # <<>>, NoAccident,
                      NEW i \in DOMAIN recipients, Payee(i).scan_pubkey = ScanKey[who]
               PROVE  \E n \in DOMAIN found : found[n].output = generated_outputs[i]
    BY DEF ReceiverFindsHisOutputs
  <2> DEFINE mine == Cardinality({r \in ToSet(recipients) : r.scan_pubkey = ScanKey[who]})
             L == Len(found)
  <2>1. Types /\ AddressesSound /\ AllPaid /\ KeysValid /\ who \in Receivers
    BY <1>1 DEF PaymentsInv, Types, SenderInv, ScanInv, AllPaid, Rounds
  <2>2. PubkeySum(inputs) # Infinity /\ InputHash[PubkeySum(inputs)] # 0
    <3>1. PubkeySum(inputs) = KeySum(inputs)  BY <2>1, InputsSound DEF Types
    <3> QED  BY <2>1, <3>1, ScalarFacts DEF KeysValid
  <2>3. /\ InRounds
        /\ state = "refused" => k < KMax /\ NoRound(k)
        /\ state = "scanned" => k = KMax \/ \A m \in 1 .. Len(tx_outputs) : ~Matches(m, k)
    BY <1>1, <2>2 DEF PaymentsInv, ScanInv, Rounds
  <2>4. i \in 1 .. Len(recipients) /\ Len(recipients) \in Nat  BY <2>1, RecipientsTyped
  <2>5. k = L /\ L \in Nat /\ DOMAIN found = 1 .. L
    BY <2>3, SeqIsFunction DEF InRounds
  <2>6. Cardinality(Group(i)) <= mine /\ mine \in Nat  BY <2>1, <2>4, GroupSize
  <2>7. /\ Len(tx_outputs) \in Nat /\ Len(generated_outputs) = Len(recipients)
        /\ Len(generated_outputs) <= Len(tx_outputs)
    <3>1. Len(tx_outputs) \in Nat /\ Len(generated_outputs) <= Len(tx_outputs)
      BY <1>1 DEF PaymentsInv, TxInv, Rounds
    <3>2. generated_outputs \in [1 .. Len(recipients) -> Points]  BY <2>1 DEF AllPaid
    <3> QED  BY <2>4, <3>1, <3>2
  <2> HIDE DEF mine, L
  <2>8. ASSUME NEW j \in Group(i)
        PROVE  /\ j \in 1 .. Len(recipients) /\ Group(j) = Group(i)
               /\ Counter(j) \in 0 .. mine /\ Counter(j) < KMax
               /\ \E m \in 1 .. Len(tx_outputs) :
                     tx_outputs[m] = generated_outputs[j] /\ Matches(m, Counter(j))
    <3>1. j \in 1 .. Len(recipients)  BY <2>1, <2>4, GroupType
    <3>2. Payee(j).scan_pubkey = ScanKey[who]  BY DEF Group
    <3>3. Group(j) = Group(i)  BY <3>2 DEF Group
    <3>4. Counter(j) \in Nat /\ Counter(j) < Len(recipients) /\ Counter(j) < Cardinality(Group(i))
      BY <2>1, <3>1, <3>3, CounterType
    <3>5. Cardinality(Group(i)) \in Nat  BY <2>1, <2>4, GroupType
    <3>6. Counter(j) \in 0 .. mine  BY <2>6, <3>4, <3>5
    <3>7. Counter(j) < GroupLimit  BY <2>1, <3>1 DEF AllPaid, Paid
    <3>8. Counter(j) < KMax  BY <2>4, <2>7, <3>4, <3>7, PaymentsAssumption DEF KMax
    <3>9. PICK m \in 1 .. Len(tx_outputs) : tx_outputs[m] = generated_outputs[j]
      BY <1>1, <2>7, <3>1 DEF PaymentsInv, TxInv, Rounds
    <3>10. Matches(m, Counter(j))
      BY <1>1, <2>1, <2>3, <3>1, <3>2, <3>9, OwnOutputMatches
    <3> QED  BY <3>1, <3>3, <3>6, <3>8, <3>9, <3>10
  <2>9. i \in Group(i) /\ Group(i) \in SUBSET Nat /\ IsFiniteSet(Group(i))
    BY <2>1, <2>4, GroupType
  <2>10. Counter(i) < L
    <3> SUFFICES ASSUME L <= Counter(i) PROVE FALSE
      <4>1. Counter(i) \in 0 .. mine  BY <2>8, <2>9
      <4> QED  BY <2>5, <2>6, <4>1
    <3>1. L <= Cardinality(Below(Group(i), i))  BY DEF Counter
    <3>2. PICK j \in Group(i) : Cardinality(Below(Group(i), j)) = L
      BY <2>5, <2>9, <3>1, BelowSegment
    <3>3. Counter(j) = L  BY <2>8, <3>2 DEF Counter
    <3>4. k \in 0 .. mine /\ k < KMax  BY <2>5, <2>8, <3>3
    <3>5. PICK m \in 1 .. Len(tx_outputs) : Matches(m, k)  BY <2>5, <2>8, <3>3
    <3>6. k # KMax
      <4>1. KMax \in Nat  BY <2>7, PaymentsAssumption DEF KMax
      <4> QED  BY <3>4, <4>1
    <3>7. NoRound(k)  BY <2>3, <3>5, <3>6
    <3> QED  BY <3>4, <3>7 DEF NoAccident, mine
  <2>11. Counter(i) \in 0 .. mine /\ Counter(i) + 1 \in 1 .. L
    <3>1. Counter(i) \in 0 .. mine  BY <2>8, <2>9
    <3> QED  BY <2>5, <2>6, <2>10, <3>1
  <2> DEFINE c == Counter(i)
             S == {j \in DOMAIN tx_outputs : Matches(j, c)}
  <2>12. PICK m \in 1 .. Len(tx_outputs) : Took(c + 1, m)
    BY <2>3, <2>11 DEF InRounds, FoundInv, L
  <2>13. PICK p \in 1 .. Len(tx_outputs) : tx_outputs[p] = generated_outputs[i] /\ Matches(p, c)
    BY <2>8, <2>9
  <2>14. (c + 1) - 1 = c  BY <2>6, <2>11
  <2>15. Matches(m, c) /\ found[c + 1].output = tx_outputs[m]
    BY <2>12, <2>14 DEF Took, IsFirst
  <2>16. DOMAIN tx_outputs = 1 .. Len(tx_outputs)
    BY <1>1, SeqIsFunction DEF PaymentsInv, TxInv, Rounds
  <2>17. IsFiniteSet(S) /\ Cardinality(S) <= 1 /\ m \in S /\ p \in S
    <3>1. IsFiniteSet(1 .. Len(tx_outputs))  BY <2>7, CountTo
    <3>2. IsFiniteSet(S)  BY <2>16, <3>1, FS_Subset
    <3>3. Cardinality(S) <= 1  BY <2>11 DEF NoAccident, mine
    <3> QED  BY <2>13, <2>15, <2>16, <3>2, <3>3
  <2>18. m = p
    <3> HIDE DEF S
    <3> QED  BY <2>17, AtMostOne
  <2> QED  BY <2>5, <2>11, <2>13, <2>15, <2>18
<1> QED  BY <1>1, PaymentsInvariant, PTL

=============================================================================
