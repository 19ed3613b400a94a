------------------------- MODULE EcmultMultiProofs -------------------------
(***************************************************************************)
(* Multiplication of many points, for every number of points, scratch      *)
(* space, size of structs and table of windows: the batches cover every    *)
(* term exactly once, their allocations succeed, and the scratch space is  *)
(* given back.                                                             *)
(***************************************************************************)
EXTENDS EcmultMulti, Integers, WellFoundedInduction, TLAPS

\* A set of naturals that is not empty has a least element.
LEMMA LeastElement ==
    ASSUME NEW Numbers \in SUBSET Nat, Numbers # {}
    PROVE  \E x \in Numbers : \A y \in Numbers : x <= y
<1> DEFINE Less == OpToRel(<, Nat)
<1>1. IsWellFoundedOn(Less, Nat)  BY NatLessThanWellFounded
<1>2. Less = {ss \in Nat \X Nat : ss[1] < ss[2]}  BY DEF OpToRel
<1> HIDE DEF Less
<1>3. PICK x \in Numbers : \A y \in Numbers : ~(<<y, x>> \in Less)
  BY <1>1, WFMin
<1>4. \A y \in Numbers : ~(y < x)
  BY <1>2, <1>3
<1> QED  BY <1>4

\* Quotient and remainder, for every dividend.
LEMMA DivMod ==
    ASSUME NEW d \in Nat \ {0}, NEW a \in Int
    PROVE  /\ a \div d \in Int
           /\ a % d \in Nat /\ a % d < d
           /\ a = d * (a \div d) + (a % d)
OBVIOUS

-----------------------------------------------------------------------------
(* Numbers *)

Positive == Nat \ {0}

LEMMA ConstantTypes ==
    /\ SizeMax \in Nat /\ Alignment \in Positive /\ MaxPoints \in 0 .. SizeMax
    /\ Sz.gej \in Positive /\ Sz.ge \in Positive /\ Sz.scalar \in Positive /\ Sz.fe \in Positive
    /\ Sz.strauss_ps \in Positive /\ Sz.pip_state \in Positive /\ Sz.pip_ps \in Positive
    /\ Sz.int \in Positive
    /\ TableSize \in Positive /\ WnafBits \in Positive
    /\ MaxPerBatch \in Positive
<1>1. /\ Sz.gej \in Positive /\ Sz.ge \in Positive /\ Sz.scalar \in Positive
      /\ Sz.fe \in Positive /\ Sz.strauss_ps \in Positive /\ Sz.pip_state \in Positive
      /\ Sz.pip_ps \in Positive /\ Sz.int \in Positive
  <2>1. Sz \in [{"gej", "ge", "scalar", "fe", "strauss_ps", "pip_state", "pip_ps", "int"}
                   -> Positive]
    BY ONLY MultiAssumption DEF Positive
  <2> QED  BY ONLY <2>1
<1>2. /\ SizeMax \in Nat /\ Alignment \in Positive /\ MaxPoints \in 0 .. SizeMax
      /\ TableSize \in Positive /\ WnafBits \in Positive /\ MaxPerBatch \in Positive
  BY ONLY MultiAssumption DEF Positive
<1> QED  BY ONLY <1>1, <1>2

LEMMA WindowTypes ==
    /\ Len(WindowInv) \in Positive /\ Windows = 1 .. Len(WindowInv)
    /\ \A w \in Windows : w \in Positive /\ WindowInv[w] \in 0 .. SizeMax /\ 2^w \in Positive
    /\ WindowInv[Len(WindowInv)] = SizeMax
<1> DEFINE k == Len(WindowInv)
<1>1. /\ WindowInv \in Seq(0 .. SizeMax) /\ WindowInv # <<>> /\ WindowInv[k] = SizeMax
      /\ \A w \in 1 .. k : 2^w \in Positive
  BY ONLY MultiAssumption DEF Positive
<1>2. k \in Positive  BY ONLY <1>1 DEF Positive
<1>3. \A w \in 1 .. k : WindowInv[w] \in 0 .. SizeMax
  <2> DEFINE T == 0 .. SizeMax
  <2>1. WindowInv \in Seq(T)  BY ONLY <1>1
  <2> HIDE DEF T
  <2>2. \A w \in 1 .. k : WindowInv[w] \in T  BY ONLY <2>1
  <2> QED  BY ONLY <2>2 DEF T
<1> HIDE DEF k
<1>4. \A w \in 1 .. k : w \in Positive  BY ONLY <1>2 DEF Positive
<1>5. Windows = 1 .. k  BY DEF Windows, k
<1> QED  BY ONLY <1>1, <1>2, <1>3, <1>4, <1>5 DEF k

LEMMA ProductType ==
    ASSUME NEW a \in Nat, NEW b \in Nat
    PROVE  a * b \in Nat /\ (a # 0 /\ b # 0 => a * b # 0)
OBVIOUS

LEMMA ProductGrows ==
    ASSUME NEW a \in Nat, NEW b \in Nat, NEW c \in Nat, a <= b
    PROVE  a * c <= b * c /\ c * a <= c * b
OBVIOUS

LEMMA CeilDivType ==
    ASSUME NEW a \in Positive, NEW b \in Positive
    PROVE  CeilDiv(a, b) \in Positive /\ b * CeilDiv(a, b) >= a
<1> DEFINE x == a + b - 1
           q == x \div b
           e == x % b
<1>1. a \in Nat /\ a > 0 /\ b \in Nat \ {0} /\ x \in Int /\ x = a + b - 1  BY DEF Positive
<1> HIDE DEF x
<1>2. q \in Int /\ e \in Nat /\ e < b /\ x = b * q + e  BY ONLY <1>1, DivMod
<1>3. q = CeilDiv(a, b)  BY DEF CeilDiv, x
<1> HIDE DEF q, e
<1>4. b * q \in Int /\ b * q >= a  BY <1>1, <1>2
<1>5. q > 0
  <2> SUFFICES ASSUME q <= 0 PROVE FALSE  BY <1>2
  <2>1. b * q <= 0  BY <1>1, <1>2
  <2> QED  BY <1>1, <1>4, <2>1
<1> QED  BY <1>2, <1>3, <1>4, <1>5 DEF Positive

\* CeilDiv(a, b) is the least such number.
LEMMA CeilDivLeast ==
    ASSUME NEW a \in Positive, NEW b \in Positive, NEW c \in Nat, a <= b * c
    PROVE  CeilDiv(a, b) <= c
<1> DEFINE x == a + b - 1
           q == x \div b
           e == x % b
           y == b * c
<1>1. a \in Nat /\ b \in Nat \ {0} /\ x \in Int /\ x = a + b - 1  BY DEF Positive
<1> HIDE DEF x
<1>2. q \in Int /\ e \in Nat /\ x = b * q + e  BY ONLY <1>1, DivMod
<1>3. q = CeilDiv(a, b)  BY DEF CeilDiv, x
<1>4. y \in Int /\ a <= y  BY <1>1
<1> HIDE DEF q, e
<1>5. q <= c
  <2> SUFFICES ASSUME q >= c + 1 PROVE FALSE  BY <1>2
  <2>1. b * q >= b * (c + 1)  BY <1>1, <1>2
  <2>2. b * (c + 1) = y + b  BY <1>1
  <2> HIDE DEF y
  <2>3. b * q \in Int  BY <1>1, <1>2
  <2> QED  BY <1>1, <1>2, <1>4, <2>1, <2>2, <2>3
<1> QED  BY <1>3, <1>5

LEMMA DivType ==
    ASSUME NEW a \in Nat, NEW b \in Positive
    PROVE  a \div b \in Nat
<1> DEFINE q == a \div b
           e == a % b
<1>1. a \in Int /\ b \in Nat \ {0}  BY DEF Positive
<1>2. q \in Int /\ e \in Nat /\ e < b /\ a = b * q + e  BY ONLY <1>1, DivMod
<1> HIDE DEF q, e
<1>3. q >= 0
  <2> SUFFICES ASSUME q <= -1 PROVE FALSE  BY <1>2
  <2>1. b * q <= b * (-1)  BY <1>1, <1>2
  <2> QED  BY <1>1, <1>2, <2>1
<1> QED  BY <1>2, <1>3 DEF q

LEMMA MaxType ==
    ASSUME NEW T \in SUBSET Nat, T # {}, NEW B \in Nat, \A x \in T : x <= B
    PROVE  Max(T) \in T
<1> DEFINE D == {B - x : x \in T}
<1>1. D \in SUBSET Nat /\ D # {}
  <2>1. \A x \in T : B - x \in Nat  OBVIOUS
  <2> QED  BY <2>1
<1>2. PICK d \in D : \A y \in D : d <= y
  <2> HIDE DEF D
  <2> QED  BY <1>1, LeastElement
<1>3. PICK x \in T : d = B - x  OBVIOUS
<1>4. ASSUME NEW y \in T PROVE x >= y
  <2>1. B - y \in D  OBVIOUS
  <2>2. d <= B - y  BY <1>2, <2>1
  <2>3. x \in Nat /\ y \in Nat  OBVIOUS
  <2> QED  BY <1>3, <2>2, <2>3
<1> QED  BY <1>4 DEF Max

-----------------------------------------------------------------------------
(* Sizes *)

Record == [magic : {"NULL", "zero", "scratch"}, alloc_size : Nat, max_size : 0 .. SizeMax]

LEMMA MaxAllocationType ==
    ASSUME scratch \in Record, NEW k \in Nat
    PROVE  S!MaxAllocation(k) \in Nat
<1>1. scratch.alloc_size \in Nat /\ scratch.max_size \in Nat  BY DEF Record
<1>2. S!FreeSize \in Int  BY <1>1 DEF S!FreeSize
<1>3. k * (Alignment - 1) \in Nat  BY ConstantTypes, ProductType DEF Positive
<1> QED  BY <1>2, <1>3 DEF S!MaxAllocation

LEMMA EntryTypes ==
    ASSUME NEW w \in Windows
    PROVE  EntrySize(w) \in Positive /\ Overhead(w) \in Nat
<1>1. w + 1 \in Positive /\ 2^w \in Nat  BY WindowTypes DEF Positive
<1>2. WnafSize(w + 1) \in Positive  BY <1>1, ConstantTypes, CeilDivType DEF WnafSize
<1> DEFINE a == WnafSize(w + 1) + 1
<1>3. a \in Nat /\ Sz.int \in Nat  BY <1>2, ConstantTypes DEF Positive
<1> HIDE DEF a
<1>4. a * Sz.int \in Nat  BY <1>3, ProductType
<1>5. EntrySize(w) \in Positive  BY <1>4, ConstantTypes DEF EntrySize, a, Positive
<1> DEFINE b == 2^w
<1>6. b \in Nat /\ Sz.gej \in Nat  BY <1>1, ConstantTypes DEF Positive
<1> HIDE DEF b
<1>7. b * Sz.gej \in Nat  BY <1>6, ProductType
<1>8. Overhead(w) \in Nat  BY <1>5, <1>7, ConstantTypes DEF Overhead, b, Positive
<1> QED  BY <1>5, <1>8

\* The window the code chooses is the first one the points fit in.
LEMMA WindowChosen ==
    ASSUME NEW points \in 1 .. SizeMax
    PROVE  /\ BucketWindow(points) \in Windows /\ points <= WindowInv[BucketWindow(points)]
           /\ \A v \in Windows : points <= WindowInv[v] => BucketWindow(points) <= v
<1> DEFINE U == {v \in Windows : points <= WindowInv[v]}
<1>1. points \in Nat /\ points <= SizeMax  BY ConstantTypes DEF Positive
<1>2. Len(WindowInv) \in U /\ U \in SUBSET Nat  BY <1>1, WindowTypes DEF Positive
<1>3. U # {}  BY <1>2
<1> HIDE DEF U
<1>4. \E x \in U : \A y \in U : x <= y  BY <1>2, <1>3, LeastElement
<1>5. Min(U) \in U /\ \A y \in U : Min(U) <= y  BY <1>4 DEF Min
<1> QED  BY <1>5 DEF BucketWindow, U

\* A quotient times its divisor is at most the dividend.
LEMMA DivTimes ==
    ASSUME NEW a \in Nat, NEW b \in Positive, NEW c \in Nat, c <= a \div b
    PROVE  b * c <= a
<1> DEFINE q == a \div b
           e == a % b
<1>1. a \in Int /\ b \in Nat \ {0}  BY DEF Positive
<1>2. q \in Int /\ e \in Nat /\ a = b * q + e  BY ONLY <1>1, DivMod
<1>3. c <= q  OBVIOUS
<1> HIDE DEF q, e
<1>4. b * c <= b * q /\ b * q \in Int /\ b * c \in Int
  <2>1. q \in Nat /\ b \in Nat  BY <1>1, <1>2, <1>3
  <2> QED  BY <1>3, <2>1, ProductGrows
<1> QED  BY <1>2, <1>4

\* A batch that is no longer than secp256k1_pippenger_max_points says fits with the
\* window that secp256k1_pippenger_bucket_window chooses for it: a smaller window
\* than the one that gave the maximum was full.
LEMMA PippengerMaxType ==
    ASSUME scratch \in Record
    PROVE  /\ PippengerMaxPoints \in 0 .. SizeMax
           /\ \A k \in 1 .. PippengerMaxPoints :
                 /\ Overhead(BucketWindow(k)) <= S!MaxAllocation(6)
                 /\ 2 * EntrySize(BucketWindow(k)) * k
                        <= S!MaxAllocation(6) - Overhead(BucketWindow(k))
<1> DEFINE m       == S!MaxAllocation(6)
           q(w)    == (m - Overhead(w)) \div (2 * EntrySize(w))
           Fits(w) == IF Overhead(w) > m THEN 0 ELSE Min({WindowInv[w], q(w)})
           U       == {w \in Windows : Fits(w) < WindowInv[w]} \cup {Len(WindowInv)}
           last    == Min(U)
           T       == {0} \cup {Fits(w) : w \in 1 .. last}
<1>1. m \in Nat  BY MaxAllocationType
<1> HIDE DEF m
<1>2. ASSUME NEW w \in Windows
      PROVE  /\ Fits(w) \in 0 .. SizeMax /\ Fits(w) <= WindowInv[w]
             /\ Fits(w) # 0 => Overhead(w) <= m /\ Fits(w) <= q(w)
  <2> DEFINE v == WindowInv[w]
             p == q(w)
  <2>1. v \in 0 .. SizeMax /\ SizeMax \in Nat  BY WindowTypes, ConstantTypes
  <2>2. CASE Overhead(w) > m
    <3>1. Fits(w) = 0  BY <2>2
    <3> HIDE DEF Fits
    <3> QED  BY <2>1, <3>1
  <2>3. CASE ~(Overhead(w) > m)
    <3>1. m - Overhead(w) \in Nat /\ 2 * EntrySize(w) \in Positive /\ Overhead(w) <= m
      BY <1>1, <2>3, EntryTypes DEF Positive
    <3>2. p \in Nat  BY <3>1, DivType
    <3>3. Fits(w) = Min({v, p})  BY <2>3
    <3> HIDE DEF q, v, p
    <3>4. \E x \in {v, p} : \A y \in {v, p} : x <= y  BY <2>1, <3>2
    <3>5. Min({v, p}) \in {v, p} /\ \A y \in {v, p} : Min({v, p}) <= y  BY <3>4 DEF Min
    <3> HIDE DEF Fits
    <3>6. Fits(w) \in {v, p} /\ Fits(w) <= v /\ Fits(w) <= p  BY <3>3, <3>5
    <3>7. Fits(w) \in 0 .. SizeMax  BY <2>1, <3>2, <3>6
    <3> QED  BY <3>1, <3>6, <3>7 DEF v, p
  <2> QED  BY <2>2, <2>3
<1> HIDE DEF q, Fits
<1>3. last \in Windows /\ \A w \in Windows : w < last => ~(Fits(w) < WindowInv[w])
  <2>1. U \in SUBSET Nat /\ U # {} /\ U \subseteq Windows  BY WindowTypes DEF Positive
  <2>2. \A w \in Windows : w \notin U => ~(Fits(w) < WindowInv[w])  OBVIOUS
  <2> HIDE DEF U
  <2>3. \E x \in U : \A y \in U : x <= y  BY <2>1, LeastElement
  <2>4. last \in U /\ \A y \in U : last <= y  BY <2>3 DEF Min
  <2> HIDE DEF last
  <2>5. last \in Nat /\ \A w \in Windows : w \in Nat  BY <2>1, <2>4, WindowTypes DEF Positive
  <2>6. ASSUME NEW w \in Windows, w < last PROVE w \notin U  BY <2>4, <2>5, <2>6
  <2> QED  BY <2>1, <2>2, <2>4, <2>6
<1> HIDE DEF U, last
<1>4. \A w \in 1 .. last : w \in Windows  BY <1>3, WindowTypes DEF Positive
<1>5. T \in SUBSET Nat /\ T # {} /\ \A x \in T : x <= SizeMax
  BY <1>2, <1>4, ConstantTypes
<1>6. Max(T) \in T
  <2> HIDE DEF T
  <2> QED  BY <1>5, ConstantTypes, MaxType
<1>7. PippengerMaxPoints = Max(T)  BY DEF PippengerMaxPoints, T, last, U, Fits, q, m
<1>8. PippengerMaxPoints \in 0 .. SizeMax  BY <1>5, <1>6, <1>7, ConstantTypes
<1>9. ASSUME NEW k \in 1 .. PippengerMaxPoints
      PROVE  Overhead(BucketWindow(k)) <= m
             /\ 2 * EntrySize(BucketWindow(k)) * k <= m - Overhead(BucketWindow(k))
  <2> DEFINE w == BucketWindow(k)
  <2>1. k \in Nat /\ k # 0 /\ k <= PippengerMaxPoints /\ k \in 1 .. SizeMax
    BY <1>8, ConstantTypes
  <2>2. /\ w \in Windows /\ k <= WindowInv[w]
        /\ \A x \in Windows : k <= WindowInv[x] => w <= x
    BY <2>1, WindowChosen
  <2>3. PICK v \in 1 .. last : PippengerMaxPoints = Fits(v)
    <3>1. PippengerMaxPoints \in T /\ PippengerMaxPoints # 0  BY <1>6, <1>7, <1>8, <2>1
    <3> QED  BY <3>1
  <2> HIDE DEF T, w
  <2>4. v \in Windows /\ Fits(v) \in Nat /\ k <= Fits(v) /\ Fits(v) <= WindowInv[v]
        /\ WindowInv[v] \in Nat
    BY <1>2, <1>4, <2>1, <2>3, WindowTypes
  <2>5. w <= v  BY <2>1, <2>2, <2>4
  <2>6. k <= Fits(w) /\ Fits(w) \in Nat
    <3>1. CASE w = v  BY <2>4, <3>1
    <3>2. CASE w # v
      <4>1. w < last
        <5>1. v \in Nat /\ w \in Nat /\ last \in Nat /\ v <= last
          BY <1>3, <2>2, <2>3, WindowTypes DEF Positive
        <5> QED  BY <2>5, <3>2, <5>1
      <4>2. ~(Fits(w) < WindowInv[w])  BY <1>3, <2>2, <4>1
      <4>3. Fits(w) \in Nat /\ WindowInv[w] \in Nat  BY <1>2, <2>2, WindowTypes
      <4> QED  BY <2>1, <2>2, <4>2, <4>3
    <3> QED  BY <3>1, <3>2
  <2>7. Overhead(w) <= m /\ Fits(w) <= q(w)  BY <1>2, <2>1, <2>2, <2>6
  <2>8. m - Overhead(w) \in Nat /\ 2 * EntrySize(w) \in Positive
    BY <1>1, <2>2, <2>7, EntryTypes DEF Positive
  <2>9. k <= q(w)
    <3>1. q(w) \in Nat  BY <2>8, DivType DEF q
    <3> QED  BY <2>1, <2>6, <2>7, <3>1
  <2>10. (2 * EntrySize(w)) * k <= m - Overhead(w)  BY <2>1, <2>8, <2>9, DivTimes DEF q
  <2> QED  BY <2>7, <2>10 DEF w
<1> QED  BY <1>8, <1>9 DEF m

LEMMA StraussMaxType ==
    ASSUME scratch \in Record
    PROVE  StraussMaxPoints \in Nat
<1> DEFINE a == (Sz.ge + Sz.fe) * TableSize
<1>1. Sz.ge + Sz.fe \in Nat /\ TableSize \in Nat  BY ConstantTypes DEF Positive
<1>2. a \in Nat  BY <1>1, ProductType
<1> HIDE DEF a
<1>3. a + Sz.strauss_ps + Sz.gej + Sz.scalar \in Positive  BY <1>2, ConstantTypes DEF Positive
<1>4. S!MaxAllocation(5) \in Nat  BY MaxAllocationType
<1> QED  BY <1>3, <1>4, DivType DEF StraussMaxPoints, a

LEMMA BatchSizes ==
    ASSUME NEW max \in Positive, NEW points \in Positive
    PROVE  /\ NBatches(max, points) \in Positive
           /\ NBatchPoints(max, points) \in Positive
           /\ NBatches(max, points) * NBatchPoints(max, points) >= points
           /\ NBatchPoints(max, points) <= max
<1> DEFINE b == NBatches(max, points)
           m == Min({max, MaxPerBatch})
<1>1. m \in Positive /\ m <= max
  <2>1. MaxPerBatch \in Nat /\ max \in Nat  BY ConstantTypes DEF Positive
  <2>2. \E x \in {max, MaxPerBatch} : \A y \in {max, MaxPerBatch} : x <= y  BY <2>1
  <2>3. m \in {max, MaxPerBatch} /\ m <= max  BY <2>2 DEF Min
  <2> QED  BY <2>3, ConstantTypes
<1> HIDE DEF m
<1>2. b \in Positive /\ m * b >= points  BY <1>1, CeilDivType DEF NBatches, m
<1> HIDE DEF b
<1>3. CeilDiv(points, b) \in Positive /\ b * CeilDiv(points, b) >= points  BY <1>2, CeilDivType
<1>4. CeilDiv(points, b) <= m
  <2>1. m \in Nat /\ b * m = m * b  BY <1>1, <1>2 DEF Positive
  <2>2. m * b \in Int /\ points \in Int  BY <1>1, <1>2 DEF Positive
  <2>3. points <= b * m  BY <1>2, <2>1, <2>2
  <2> QED  BY <1>2, <2>1, <2>3, CeilDivLeast
<1>5. CeilDiv(points, b) <= max  BY <1>1, <1>3, <1>4 DEF Positive
<1> QED  BY <1>2, <1>3, <1>5 DEF NBatchPoints, b

BatchObjects(name, points) ==
    IF name = "strauss" THEN StraussObjects(points) ELSE PippengerObjects(points)

LEMMA StraussTypes ==
    ASSUME NEW points \in Positive
    PROVE  /\ Len(StraussObjects(points)) = 5
           /\ \A k \in 1 .. 5 : StraussObjects(points)[k] \in Positive
<1> DEFINE o1 == points * Sz.gej
           o2 == points * Sz.scalar
           o3 == points * TableSize * Sz.fe
           o4 == points * TableSize * Sz.ge
           o5 == points * Sz.strauss_ps
<1>1. o1 \in Positive /\ o2 \in Positive /\ o5 \in Positive /\ points * TableSize \in Positive
  BY ConstantTypes, ProductType DEF Positive
<1>2. o3 \in Positive /\ o4 \in Positive
  <2> DEFINE pt == points * TableSize
  <2>1. pt \in Nat /\ pt # 0  BY <1>1 DEF Positive
  <2> HIDE DEF pt
  <2>2. pt * Sz.fe \in Positive /\ pt * Sz.ge \in Positive
    BY <2>1, ConstantTypes, ProductType DEF Positive
  <2> QED  BY <2>2 DEF pt
<1>3. StraussObjects(points) = <<o1, o2, o3, o4, o5>>  BY DEF StraussObjects
<1> HIDE DEF o1, o2, o3, o4, o5
<1> QED  BY <1>1, <1>2, <1>3

LEMMA PippengerTypes ==
    ASSUME NEW points \in 1 .. SizeMax
    PROVE  /\ Len(PippengerObjects(points)) = 6
           /\ \A k \in 1 .. 6 : PippengerObjects(points)[k] \in Positive
<1> DEFINE e  == 2 * points + 2
           w  == BucketWindow(points)
           z  == WnafSize(w + 1)
           o1 == e * Sz.ge
           o2 == e * Sz.scalar
           o3 == Sz.pip_state
           o4 == e * Sz.pip_ps
           o5 == e * z * Sz.int
           o6 == 2^w * Sz.gej
<1>1. w \in Windows  BY WindowChosen
<1> HIDE DEF w
<1>2. 2^w \in Positive /\ w + 1 \in Positive  BY <1>1, WindowTypes DEF Positive
<1>3. z \in Positive  BY <1>2, ConstantTypes, CeilDivType DEF WnafSize
<1>4. e \in Positive  BY ConstantTypes DEF Positive
<1> HIDE DEF e, z
<1> DEFINE ez == e * z
           b  == 2^w
<1>5. ez \in Positive /\ b \in Positive  BY <1>2, <1>3, <1>4, ProductType DEF Positive
<1> HIDE DEF b
<1>6. o1 \in Positive /\ o2 \in Positive /\ o3 \in Positive /\ o4 \in Positive
      /\ b * Sz.gej \in Positive
  BY <1>4, <1>5, ConstantTypes, ProductType DEF Positive
<1> HIDE DEF ez
<1>7. ez * Sz.int \in Positive  BY <1>5, ConstantTypes, ProductType DEF Positive
<1>8. o5 \in Positive /\ o6 \in Positive  BY <1>6, <1>7 DEF ez, b
<1>9. PippengerObjects(points) = <<o1, o2, o3, o4, o5, o6>>
  BY DEF PippengerObjects, e, w, z
<1> HIDE DEF o1, o2, o3, o4, o5, o6
<1> QED  BY <1>6, <1>8, <1>9

-----------------------------------------------------------------------------
(* What the objects of a batch take, with the padding of each *)

Pad           == Alignment - 1
Cost(o, j, k) == IF k < j /\ j <= Len(o) THEN o[j] + Pad ELSE 0

\* The objects after the first k.
Rest(o, k) == Cost(o, 1, k) + Cost(o, 2, k) + Cost(o, 3, k)
                  + Cost(o, 4, k) + Cost(o, 5, k) + Cost(o, 6, k)

LEMMA RestStep ==
    ASSUME NEW o, NEW len \in 0 .. 6, Len(o) = len, \A j \in 1 .. len : o[j] \in Nat,
           NEW k \in 0 .. len-1
    PROVE  /\ Rest(o, k) = o[k + 1] + Pad + Rest(o, k + 1)
           /\ Rest(o, k) \in Nat /\ Rest(o, k + 1) \in Nat /\ o[k + 1] \in Nat
<1> DEFINE c1 == IF 1 <= len THEN o[1] + Pad ELSE 0
           c2 == IF 2 <= len THEN o[2] + Pad ELSE 0
           c3 == IF 3 <= len THEN o[3] + Pad ELSE 0
           c4 == IF 4 <= len THEN o[4] + Pad ELSE 0
           c5 == IF 5 <= len THEN o[5] + Pad ELSE 0
           c6 == IF 6 <= len THEN o[6] + Pad ELSE 0
<1>1. Pad \in Nat  BY ConstantTypes DEF Pad, Positive
<1>2. /\ 1 <= len => o[1] \in Nat
      /\ 2 <= len => o[2] \in Nat
      /\ 3 <= len => o[3] \in Nat
      /\ 4 <= len => o[4] \in Nat
      /\ 5 <= len => o[5] \in Nat
      /\ 6 <= len => o[6] \in Nat
  OBVIOUS
<1>3. c1 \in Nat /\ c2 \in Nat /\ c3 \in Nat /\ c4 \in Nat /\ c5 \in Nat /\ c6 \in Nat
  BY ONLY <1>1, <1>2
<1>4. /\ Rest(o, 0) = c1 + c2 + c3 + c4 + c5 + c6
      /\ Rest(o, 1) = 0 + c2 + c3 + c4 + c5 + c6
      /\ Rest(o, 2) = 0 + 0 + c3 + c4 + c5 + c6
      /\ Rest(o, 3) = 0 + 0 + 0 + c4 + c5 + c6
      /\ Rest(o, 4) = 0 + 0 + 0 + 0 + c5 + c6
      /\ Rest(o, 5) = 0 + 0 + 0 + 0 + 0 + c6
      /\ Rest(o, 6) = 0 + 0 + 0 + 0 + 0 + 0
  BY DEF Rest, Cost
<1>5. \A m \in 0 .. 5 : k = m => o[k + 1] \in Nat /\ m + 1 <= len  OBVIOUS
<1>6. CASE k = 0
  <2>1. c1 = o[1] + Pad /\ o[1] \in Nat  BY <1>5, <1>6
  <2> HIDE DEF c1, c2, c3, c4, c5, c6
  <2> QED  BY ONLY <1>1, <1>3, <1>4, <1>6, <2>1
<1>7. CASE k = 1
  <2>1. c2 = o[2] + Pad /\ o[2] \in Nat  BY <1>5, <1>7
  <2> HIDE DEF c1, c2, c3, c4, c5, c6
  <2> QED  BY ONLY <1>1, <1>3, <1>4, <1>7, <2>1
<1>8. CASE k = 2
  <2>1. c3 = o[3] + Pad /\ o[3] \in Nat  BY <1>5, <1>8
  <2> HIDE DEF c1, c2, c3, c4, c5, c6
  <2> QED  BY ONLY <1>1, <1>3, <1>4, <1>8, <2>1
<1>9. CASE k = 3
  <2>1. c4 = o[4] + Pad /\ o[4] \in Nat  BY <1>5, <1>9
  <2> HIDE DEF c1, c2, c3, c4, c5, c6
  <2> QED  BY ONLY <1>1, <1>3, <1>4, <1>9, <2>1
<1>10. CASE k = 4
  <2>1. c5 = o[5] + Pad /\ o[5] \in Nat  BY <1>5, <1>10
  <2> HIDE DEF c1, c2, c3, c4, c5, c6
  <2> QED  BY ONLY <1>1, <1>3, <1>4, <1>10, <2>1
<1>11. CASE k = 5
  <2>1. c6 = o[6] + Pad /\ o[6] \in Nat  BY <1>5, <1>11
  <2> HIDE DEF c1, c2, c3, c4, c5, c6
  <2> QED  BY ONLY <1>1, <1>3, <1>4, <1>11, <2>1
<1>12. k \in 0 .. 5  OBVIOUS
<1> QED  BY <1>6, <1>7, <1>8, <1>9, <1>10, <1>11, <1>12

LEMMA MaxAllocationHolds ==
    ASSUME scratch \in Record, NEW k \in Nat, S!MaxAllocation(k) # 0
    PROVE  /\ S!IsScratch /\ S!FreeSize \in Int
           /\ S!MaxAllocation(k) + k * Pad = S!FreeSize
<1>1. S!FreeSize \in Int  BY DEF Record, S!FreeSize
<1>2. k * Pad \in Int  BY ConstantTypes DEF Pad, Positive
<1> QED  BY <1>1, <1>2 DEF S!MaxAllocation, Pad

LEMMA Times ==
    ASSUME NEW a \in Int, NEW b \in Int, NEW c \in Int
    PROVE  a * b * c = a * (b * c) /\ a * b = b * a /\ a * b \in Int
OBVIOUS

\* A batch of Strauss fits if it is no longer than secp256k1_strauss_max_points says.
LEMMA StraussFits ==
    ASSUME scratch \in Record, StraussMaxPoints # 0, NEW k \in 1 .. StraussMaxPoints
    PROVE  S!IsScratch /\ Rest(StraussObjects(k), 0) <= S!FreeSize
<1> DEFINE fg == Sz.ge + Sz.fe
           a  == fg * TableSize
           d  == a + Sz.strauss_ps + Sz.gej + Sz.scalar
           ma == S!MaxAllocation(5)
<1>1. fg \in Nat /\ TableSize \in Nat /\ Sz.ge \in Nat /\ Sz.fe \in Nat /\ Sz.gej \in Nat
      /\ Sz.scalar \in Nat /\ Sz.strauss_ps \in Nat /\ Sz.gej > 0
  BY ConstantTypes DEF Positive
<1> HIDE DEF fg
<1>2. a \in Nat  BY <1>1, ProductType
<1>3. StraussMaxPoints = ma \div d  BY DEF StraussMaxPoints, a, fg, d
<1> HIDE DEF a
<1>4. d \in Positive /\ ma \in Nat  BY <1>1, <1>2, MaxAllocationType DEF Positive
<1>5. StraussMaxPoints \in Nat /\ k \in Nat /\ k # 0 /\ k <= StraussMaxPoints
  BY StraussMaxType
<1> HIDE DEF d, ma
<1>6. d * k <= ma  BY <1>3, <1>4, <1>5, DivTimes
<1>7. d * k \in Nat /\ d * k # 0  BY <1>4, <1>5, ProductType DEF Positive
<1>8. ma # 0  BY <1>4, <1>6, <1>7
<1>9. S!IsScratch /\ S!FreeSize \in Int /\ ma + 5 * Pad = S!FreeSize
  BY <1>8, MaxAllocationHolds DEF ma
<1>10. Pad \in Nat  BY ConstantTypes DEF Pad, Positive
<1> DEFINE o1 == k * Sz.gej
           o2 == k * Sz.scalar
           o3 == k * TableSize * Sz.fe
           o4 == k * TableSize * Sz.ge
           o5 == k * Sz.strauss_ps
<1>11. d * k = o1 + o2 + o3 + o4 + o5
  <2>1. d * k = a * k + Sz.strauss_ps * k + Sz.gej * k + Sz.scalar * k
    <3>1. \A t, u, v, x, y \in Int : (t + u + v + x) * y = t * y + u * y + v * y + x * y
      OBVIOUS
    <3> QED  BY <1>1, <1>2, <1>5, <3>1 DEF d
  <2>2. a * k = o3 + o4
    <3>1. \A g, h, t, y \in Int : ((g + h) * t) * y = y * t * h + y * t * g  OBVIOUS
    <3> QED  BY <1>1, <1>5, <3>1 DEF a, fg
  <2>3. Sz.strauss_ps * k = o5 /\ Sz.gej * k = o1 /\ Sz.scalar * k = o2  BY <1>1, <1>5, Times
  <2>4. o1 \in Int /\ o2 \in Int /\ o5 \in Int /\ a * k \in Int  BY <1>1, <1>2, <1>5, Times
  <2>5. o3 \in Int /\ o4 \in Int
    <3>1. k * TableSize \in Int  BY <1>1, <1>5, Times
    <3> QED  BY <1>1, <3>1, Times
  <2> HIDE DEF o1, o2, o3, o4, o5
  <2> QED  BY <2>1, <2>2, <2>3, <2>4, <2>5
<1>12. Rest(StraussObjects(k), 0) = d * k + 5 * Pad
  <2> DEFINE o == StraussObjects(k)
  <2>1. o = <<o1, o2, o3, o4, o5>>  BY DEF StraussObjects
  <2>2. Len(o) = 5 /\ \A j \in 1 .. 5 : o[j] \in Nat
    BY <1>5, StraussTypes DEF Positive
  <2> HIDE DEF o1, o2, o3, o4, o5
  <2>3. o[1] = o1 /\ o[2] = o2 /\ o[3] = o3 /\ o[4] = o4 /\ o[5] = o5  BY <2>1
  <2> HIDE DEF o
  <2>4. Rest(o, 0) = (o[1] + Pad) + (o[2] + Pad) + (o[3] + Pad) + (o[4] + Pad) + (o[5] + Pad) + 0
    BY <2>2 DEF Rest, Cost
  <2>5. o1 \in Nat /\ o2 \in Nat /\ o3 \in Nat /\ o4 \in Nat /\ o5 \in Nat  BY <2>2, <2>3
  <2>6. Rest(o, 0) = (o1 + o2 + o3 + o4 + o5) + 5 * Pad  BY <1>10, <2>3, <2>4, <2>5
  <2> QED  BY <1>11, <2>6 DEF o
<1> QED  BY <1>4, <1>6, <1>7, <1>9, <1>10, <1>12

\* So does a batch of Pippenger.
LEMMA PippengerFits ==
    ASSUME scratch \in Record, NEW k \in 1 .. PippengerMaxPoints
    PROVE  S!IsScratch /\ Rest(PippengerObjects(k), 0) <= S!FreeSize
<1> DEFINE w   == BucketWindow(k)
           b   == 2^w
           z   == WnafSize(w + 1)
           E   == EntrySize(w)
           Ov  == Overhead(w)
           e   == 2 * k + 2
           ma  == S!MaxAllocation(6)
           ge  == Sz.ge
           sc  == Sz.scalar
           ps  == Sz.pip_ps
           int == Sz.int
           gej == Sz.gej
           st  == Sz.pip_state
<1>1. k \in Nat /\ k # 0 /\ k \in 1 .. SizeMax  BY PippengerMaxType, ConstantTypes
<1>2. w \in Windows  BY <1>1, WindowChosen
<1>3. Ov <= ma /\ 2 * E * k <= ma - Ov  BY PippengerMaxType
<1>4. E = ge + sc + ps + (z + 1) * int /\ Ov = b * gej + 2 * E + st  BY DEF EntrySize, Overhead
<1> HIDE DEF E, Ov
<1>5. E \in Positive /\ Ov \in Nat /\ ma \in Nat  BY <1>2, EntryTypes, MaxAllocationType DEF E, Ov
<1>6. PippengerObjects(k) = <<e * ge, e * sc, st, e * ps, e * z * int, b * gej>>
  BY DEF PippengerObjects
<1>7. b \in Nat /\ z \in Nat
  <2>1. b \in Nat /\ w + 1 \in Positive  BY <1>2, WindowTypes DEF Positive
  <2> QED  BY <2>1, ConstantTypes, CeilDivType DEF WnafSize, Positive
<1> HIDE DEF w, b, z, ma
<1>8. /\ ge \in Nat /\ sc \in Nat /\ ps \in Nat /\ int \in Nat /\ gej \in Nat /\ st \in Nat
      /\ Pad \in Nat
  BY ConstantTypes DEF Pad, Positive
<1> HIDE DEF ge, sc, ps, int, gej, st
<1>9. e \in Nat /\ e = 2 * k + 2  BY <1>1
<1> HIDE DEF e
<1> DEFINE o1 == e * ge
           o2 == e * sc
           o4 == e * ps
           o5 == e * z * int
           o6 == b * gej
           ei == e * int
<1>10. o1 \in Nat /\ o2 \in Nat /\ o4 \in Nat /\ o6 \in Nat /\ ei \in Nat /\ e * z \in Nat
  BY <1>7, <1>8, <1>9, ProductType
<1>11. o5 \in Nat
  <2> DEFINE y == e * z
  <2>1. y \in Nat  BY <1>10
  <2> HIDE DEF y
  <2>2. y * int \in Nat  BY <1>8, <2>1, ProductType
  <2> QED  BY <2>2 DEF y
<1>12. o1 + o2 + o4 + o5 + ei = e * E
  <2>1. \A g, s, p, y, x, t \in Int :
            t * (g + s + p + (y + 1) * x) = t * g + t * s + t * p + t * y * x + t * x
    OBVIOUS
  <2>2. e * E = o1 + o2 + o4 + o5 + ei  BY ONLY <1>4, <1>7, <1>8, <1>9, <2>1
  <2> QED  BY <2>2
<1>13. e * E = 2 * E * k + 2 * E
  <2>1. \A x, y \in Int : (2 * y + 2) * x = 2 * x * y + 2 * x  OBVIOUS
  <2>2. E \in Int /\ k \in Int  BY <1>1, <1>5 DEF Positive
  <2> QED  BY ONLY <1>9, <2>1, <2>2
<1> DEFINE o == PippengerObjects(k)
<1>14. Rest(o, 0) = (o1 + o2 + o4 + o5) + (st + o6) + 6 * Pad
  <2>1. Len(o) = 6  BY <1>1, PippengerTypes
  <2>2. o[1] = o1 /\ o[2] = o2 /\ o[3] = st /\ o[4] = o4 /\ o[5] = o5 /\ o[6] = o6  BY <1>6
  <2> HIDE DEF o, o1, o2, o4, o5, o6
  <2>3. Rest(o, 0) = (o[1] + Pad) + (o[2] + Pad) + (o[3] + Pad) + (o[4] + Pad) + (o[5] + Pad)
                         + (o[6] + Pad)
    BY <2>1 DEF Rest, Cost
  <2> QED  BY ONLY <1>8, <1>10, <1>11, <2>2, <2>3
<1> HIDE DEF o, o1, o2, o4, o5, o6, ei
<1> DEFINE ek == 2 * E * k
<1>15. ek \in Nat /\ 2 * E \in Nat
  <2>1. 2 * E \in Nat /\ k \in Nat  BY <1>1, <1>5 DEF Positive
  <2> QED  BY <2>1, ProductType
<1>16. Ov = o6 + 2 * E + st  BY <1>4 DEF o6
<1>17. o1 + o2 + o4 + o5 + ei = ek + 2 * E  BY <1>12, <1>13
<1>18. ek <= ma - Ov  BY <1>3
<1> HIDE DEF ek
<1>19. Rest(o, 0) <= ma + 6 * Pad
  BY ONLY <1>5, <1>8, <1>10, <1>11, <1>14, <1>15, <1>16, <1>17, <1>18
<1>20. ma # 0
  <2>1. st > 0  BY ConstantTypes DEF st, Positive
  <2> QED  BY ONLY <1>5, <1>8, <1>10, <1>15, <1>16, <1>18, <2>1
<1>21. S!IsScratch /\ S!FreeSize \in Int /\ ma + 6 * Pad = S!FreeSize
  BY <1>20, MaxAllocationHolds DEF ma
<1> QED  BY <1>19, <1>21 DEF o

-----------------------------------------------------------------------------
(* Bags of terms *)

\* The generator if g, and the points from lo to hi-1, once each.
Part(g, lo, hi) ==
    [t \in Terms |-> IF t = G THEN (IF g THEN 1 ELSE 0)
                     ELSE IF lo <= t /\ t < hi THEN 1 ELSE 0]

LEMMA TermTypes == \A t \in Terms : t # G => t \in Int /\ 0 <= t
<1> SUFFICES ASSUME NEW t \in Terms, t # G PROVE t \in Int /\ 0 <= t  OBVIOUS
<1> QED  BY DEF Terms, G

LEMMA PartEmpty ==
    ASSUME NEW k \in Int
    PROVE  Part(FALSE, k, k) = Nothing
BY DEF Part, Nothing, Terms, G

LEMMA PartG ==
    ASSUME NEW k \in Int
    PROVE  Part(TRUE, k, k) = Term(G)
<1>1. \A t \in Terms : t # G => ~(k <= t /\ t < k)  BY DEF Terms, G
<1>2. G \in Terms  BY DEF Terms
<1> QED  BY <1>1, <1>2 DEF Part, Term, Nothing

LEMMA PartPoint ==
    ASSUME NEW g \in BOOLEAN, NEW lo \in Nat, NEW hi \in 0 .. MaxPoints-1, lo <= hi
    PROVE  Add(Part(g, lo, hi), Term(hi)) = Part(g, lo, hi + 1)
<1>1. hi \in Terms /\ hi # G  BY DEF Terms, G
<1>2. Term(hi) = [t \in Terms |-> IF t = hi THEN 1 ELSE 0]  BY <1>1 DEF Term, Nothing
<1>3. ASSUME NEW t \in Terms
      PROVE  Part(g, lo, hi)[t] + Term(hi)[t] = Part(g, lo, hi + 1)[t]
  <2>1. CASE t = G  BY <1>1, <1>2, <2>1 DEF Part
  <2>2. CASE t # G
    <3>1. t \in Int /\ hi \in Int /\ MaxPoints \in Int  BY <2>2, ConstantTypes DEF Terms, G
    <3> QED  BY <1>2, <2>2, <3>1 DEF Part
  <2> QED  BY <2>1, <2>2
<1>4. Add(Part(g, lo, hi), Term(hi)) = [t \in Terms |-> Part(g, lo, hi + 1)[t]]
  BY <1>3 DEF Add
<1> QED  BY <1>4 DEF Part

LEMMA PartWithG ==
    ASSUME NEW lo \in Nat, NEW hi \in Nat
    PROVE  Add(Part(FALSE, lo, hi), Term(G)) = Part(TRUE, lo, hi)
<1>1. Term(G) = [t \in Terms |-> IF t = G THEN 1 ELSE 0]  BY DEF Term, Nothing, Terms
<1>2. ASSUME NEW t \in Terms
      PROVE  Part(FALSE, lo, hi)[t] + Term(G)[t] = Part(TRUE, lo, hi)[t]
  BY <1>1 DEF Part
<1>3. Add(Part(FALSE, lo, hi), Term(G)) = [t \in Terms |-> Part(TRUE, lo, hi)[t]]
  BY <1>2 DEF Add
<1> QED  BY <1>3 DEF Part

LEMMA PartsJoin ==
    ASSUME NEW g \in BOOLEAN, NEW h \in BOOLEAN, ~(g /\ h),
           NEW k \in Nat, NEW m \in Nat, k <= m
    PROVE  Add(Part(g, 0, k), Part(h, k, m)) = Part(g \/ h, 0, m)
<1>1. ASSUME NEW t \in Terms
      PROVE  Part(g, 0, k)[t] + Part(h, k, m)[t] = Part(g \/ h, 0, m)[t]
  <2>1. CASE t = G  BY <2>1 DEF Part
  <2>2. CASE t # G
    <3>1. t \in Int /\ 0 <= t  BY <2>2 DEF Terms, G
    <3> QED  BY <2>2, <3>1 DEF Part
  <2> QED  BY <2>1, <2>2
<1>2. Add(Part(g, 0, k), Part(h, k, m)) = [t \in Terms |-> Part(g \/ h, 0, m)[t]]
  BY <1>1 DEF Add
<1> QED  BY <1>2 DEF Part

-----------------------------------------------------------------------------
(* The scratch space *)

SpaceTyped ==
    /\ scratch \in Record
    /\ \A fr \in frames : fr.at \in Nat /\ fr.len \in Positive
                          /\ fr.at + fr.len <= scratch.alloc_size
    /\ ~S!IsScratch => frames = {}

\* Between a checkpoint and its application: what the caller had is below it.
InBatch ==
    /\ entry[1] \in Record
    /\ checkpoint = entry[1].alloc_size /\ checkpoint <= scratch.alloc_size
    /\ scratch.magic = entry[1].magic /\ scratch.max_size = entry[1].max_size
    /\ entry[2] = {fr \in frames : fr.at + fr.len <= checkpoint}
    /\ ~S!IsScratch => scratch.alloc_size = checkpoint

LEMMA RoundType ==
    ASSUME NEW size \in Nat
    PROVE  S!RoundToAlign(size) \in Nat
<1> DEFINE pred == IF size = 0 THEN SizeMax ELSE size - 1
           q    == pred \div Alignment
           x    == (1 + q) * Alignment
           M    == SizeMax + 1
<1>1. pred \in Nat /\ Alignment \in Nat \ {0} /\ M \in Nat \ {0}
  BY ConstantTypes DEF Positive
<1>2. S!RoundToAlign(size) = x % M  BY DEF S!RoundToAlign
<1> HIDE DEF pred, M
<1>3. pred \in Int  BY <1>1
<1>4. q \in Int  BY ONLY <1>1, <1>3, DivMod
<1> HIDE DEF q
<1>5. x \in Int  BY <1>1, <1>4
<1> HIDE DEF x
<1>6. x % M \in Nat  BY ONLY <1>1, <1>5, DivMod
<1> QED  BY <1>2, <1>6

\* A size that leaves room for its padding is rounded up by less than Alignment.
LEMMA RoundUp ==
    ASSUME NEW size \in Positive, size + Pad <= SizeMax
    PROVE  /\ S!RoundToAlign(size) \in Nat
           /\ size <= S!RoundToAlign(size) /\ S!RoundToAlign(size) <= size + Pad
<1> DEFINE pred == size - 1
           q    == pred \div Alignment
           e    == pred % Alignment
           x    == (1 + q) * Alignment
           M    == SizeMax + 1
<1>1. /\ size \in Nat /\ size # 0 /\ Alignment \in Nat \ {0} /\ M \in Nat \ {0}
      /\ M = SizeMax + 1 /\ SizeMax \in Nat /\ Pad = Alignment - 1
  BY ConstantTypes DEF Positive, Pad
<1>2. pred \in Int /\ pred = size - 1  BY <1>1
<1>3. S!RoundToAlign(size) = x % M  BY <1>1 DEF S!RoundToAlign
<1> HIDE DEF pred, M
<1>4. q \in Int /\ e \in Nat /\ e < Alignment /\ pred = Alignment * q + e
  BY ONLY <1>1, <1>2, DivMod
<1> HIDE DEF q, e
<1>5. x = Alignment * q + Alignment  BY <1>1, <1>4
<1> HIDE DEF x
<1>6. x \in Int /\ size <= x /\ x <= size + Pad
  <2>1. Alignment * q \in Int /\ Alignment * q = pred - e  BY <1>1, <1>2, <1>4
  <2> QED  BY <1>1, <1>2, <1>4, <1>5, <2>1
<1>7. x \in 0 .. M - 1  BY <1>1, <1>6
<1>8. x % M = x  BY <1>1, <1>7
<1> QED  BY <1>1, <1>3, <1>6, <1>8

\* An object for which, with what comes after it, there is room: its allocation
\* succeeds and leaves room for what comes after it.
LEMMA AllocSucceeds ==
    ASSUME SpaceTyped, S!IsScratch, NEW size \in Positive, NEW rest \in Nat,
           size + Pad + rest <= S!FreeSize
    PROVE  /\ S!AllocFits(size)
           /\ S!Alloc(size) => (S!IsScratch)' /\ rest <= (S!FreeSize)'
<1> DEFINE rounded == S!RoundToAlign(size)
<1>1. /\ scratch \in Record /\ scratch.alloc_size \in Nat /\ scratch.max_size \in 0 .. SizeMax
      /\ SizeMax \in Nat /\ Pad \in Nat
  BY ConstantTypes DEF SpaceTyped, Record, Pad, Positive
<1>2. /\ S!FreeSize \in Int /\ S!FreeSize <= SizeMax
      /\ S!FreeSize = scratch.max_size - scratch.alloc_size
  BY <1>1 DEF S!FreeSize
<1>3. size + Pad <= SizeMax  BY <1>1, <1>2 DEF Positive
<1>4. rounded \in Nat /\ size <= rounded /\ rounded <= size + Pad  BY <1>3, RoundUp
<1>5. rounded <= S!FreeSize  BY <1>1, <1>2, <1>4 DEF Positive
<1>6. S!AllocFits(size)  BY <1>4, <1>5 DEF S!AllocFits
<1>7. ASSUME S!Alloc(size) PROVE (S!IsScratch)' /\ rest <= (S!FreeSize)'
  <2>1. scratch' = [scratch EXCEPT !.alloc_size = scratch.alloc_size + rounded]
    BY <1>6, <1>7 DEF S!Alloc
  <2> HIDE DEF rounded
  <2>2. /\ scratch'.magic = scratch.magic /\ scratch'.max_size = scratch.max_size
        /\ scratch'.alloc_size = scratch.alloc_size + rounded
    BY <1>1, <2>1 DEF Record
  <2>3. (S!FreeSize)' = S!FreeSize - rounded  BY <1>1, <1>4, <2>2 DEF S!FreeSize
  <2>4. rest <= S!FreeSize - rounded  BY <1>1, <1>2, <1>4 DEF Positive
  <2> QED  BY <2>2, <2>3, <2>4 DEF S!IsScratch
<1> QED  BY <1>6, <1>7

LEMMA AllocTyped ==
    ASSUME SpaceTyped, NEW size \in Nat, S!Alloc(size)
    PROVE  /\ SpaceTyped'
           /\ \/ scratch' = scratch /\ frames' = frames
              \/ /\ S!IsScratch
                 /\ scratch'.alloc_size >= scratch.alloc_size
                 /\ scratch'.magic = scratch.magic /\ scratch'.max_size = scratch.max_size
                 /\ \/ frames' = frames
                    \/ \E fr : /\ frames' = frames \cup {fr} /\ fr.at = scratch.alloc_size
                               /\ fr.len \in Positive
<1> DEFINE rounded == S!RoundToAlign(size)
           fr0     == [at |-> scratch.alloc_size, len |-> size]
<1>1. rounded \in Nat /\ scratch \in Record /\ scratch.alloc_size \in Nat
  BY RoundType DEF SpaceTyped, Record
<1>2. CASE scratch' = scratch /\ frames' = frames
  BY <1>2 DEF SpaceTyped, S!IsScratch
<1>3. CASE S!AllocFits(size)
  <2>1. /\ rounded >= size /\ S!IsScratch
        /\ scratch' = [scratch EXCEPT !.alloc_size = scratch.alloc_size + rounded]
        /\ frames' = IF size = 0 THEN frames ELSE frames \cup {fr0}
    BY <1>3 DEF S!Alloc, S!AllocFits
  <2> HIDE DEF rounded
  <2>2. /\ scratch' \in Record /\ scratch'.alloc_size = scratch.alloc_size + rounded
        /\ scratch'.magic = scratch.magic /\ scratch'.max_size = scratch.max_size
    BY <1>1, <2>1 DEF Record
  <2>3. scratch'.alloc_size >= scratch.alloc_size  BY <1>1, <2>2
  <2>4. (S!IsScratch)'  BY <2>1, <2>2 DEF S!IsScratch
  <2>5. \A fr \in frames : /\ fr.at \in Nat /\ fr.len \in Positive
                           /\ fr.at + fr.len <= scratch'.alloc_size
    BY <1>1, <2>2 DEF SpaceTyped, Positive
  <2>6. CASE size = 0  BY <2>1, <2>2, <2>3, <2>4, <2>5, <2>6 DEF SpaceTyped
  <2>7. CASE size # 0
    <3>1. /\ fr0.at = scratch.alloc_size /\ fr0.len \in Positive /\ fr0.at \in Nat
          /\ fr0.at + fr0.len <= scratch'.alloc_size
      BY <1>1, <2>1, <2>2, <2>7 DEF Positive
    <3>2. frames' = frames \cup {fr0}  BY <2>1, <2>7
    <3> HIDE DEF fr0
    <3>3. SpaceTyped'  BY <2>2, <2>4, <2>5, <3>1, <3>2 DEF SpaceTyped
    <3> QED  BY <2>1, <2>2, <2>3, <3>1, <3>2, <3>3
  <2> QED  BY <2>6, <2>7
<1> QED  BY <1>2, <1>3 DEF S!Alloc

LEMMA CreateTyped ==
    ASSUME SpaceTyped, NEW size \in 0 .. SizeMax, S!Create(size)
    PROVE  SpaceTyped'
<1>1. ~S!IsScratch /\ frames = {} /\ frames' = {}
  BY DEF S!Create, S!IsPtr, S!IsScratch, SpaceTyped
<1>2. scratch' \in Record  BY ConstantTypes DEF S!Create, SpaceTyped, Record
<1> QED  BY <1>1, <1>2 DEF SpaceTyped

\* The checkpoint of a batch gives the caller his scratch space back.
LEMMA ApplyReturns ==
    ASSUME SpaceTyped, InBatch, S!ApplyCheckpoint(checkpoint)
    PROVE  SpaceTyped' /\ scratch' = entry[1] /\ frames' = entry[2]
<1>1. /\ scratch \in Record /\ entry[1] \in Record /\ checkpoint \in Nat
      /\ checkpoint <= scratch.alloc_size /\ scratch.alloc_size \in Nat
  BY DEF SpaceTyped, InBatch, Record
<1>2. CASE ~S!IsScratch
  <2>1. scratch' = scratch /\ frames' = frames  BY <1>2 DEF S!ApplyCheckpoint
  <2>2. scratch = entry[1]  BY <1>1, <1>2 DEF InBatch, Record
  <2>3. frames = {} /\ entry[2] = {}  BY <1>2 DEF SpaceTyped, InBatch
  <2> QED  BY <2>1, <2>2, <2>3 DEF SpaceTyped, S!IsScratch
<1>3. CASE S!IsScratch
  <2>1. /\ scratch' = [scratch EXCEPT !.alloc_size = checkpoint]
        /\ frames' = {fr \in frames : fr.at + fr.len <= checkpoint}
    BY <1>1, <1>3 DEF S!ApplyCheckpoint
  <2>2. scratch' = entry[1]  BY <1>1, <2>1 DEF InBatch, Record
  <2>3. frames' = entry[2]  BY <2>1 DEF InBatch
  <2>4. scratch'.alloc_size = checkpoint /\ (S!IsScratch)'
    BY <1>1, <1>3, <2>1 DEF Record, S!IsScratch
  <2>5. \A fr \in frames' : fr.at \in Nat /\ fr.len \in Positive
                           /\ fr.at + fr.len <= scratch'.alloc_size
    BY <2>1, <2>4 DEF SpaceTyped
  <2> QED  BY <1>1, <2>2, <2>3, <2>4, <2>5 DEF SpaceTyped
<1> QED  BY <1>2, <1>3

\* What a batch allocates lies above its checkpoint.
LEMMA AllocInBatch ==
    ASSUME SpaceTyped, InBatch, NEW size \in Nat, S!Alloc(size),
           UNCHANGED <<entry, checkpoint>>
    PROVE  SpaceTyped' /\ InBatch'
<1>1. SpaceTyped'  BY AllocTyped
<1>2. /\ scratch.alloc_size \in Nat /\ checkpoint \in Nat
      /\ scratch'.alloc_size \in Nat
  BY <1>1 DEF SpaceTyped, InBatch, Record
<1>3. CASE scratch' = scratch /\ frames' = frames
  BY <1>1, <1>3 DEF InBatch, S!IsScratch
<1>4. ASSUME S!IsScratch, scratch'.alloc_size >= scratch.alloc_size,
             scratch'.magic = scratch.magic, scratch'.max_size = scratch.max_size,
             \/ frames' = frames
             \/ \E fr : /\ frames' = frames \cup {fr} /\ fr.at = scratch.alloc_size
                        /\ fr.len \in Positive
      PROVE  InBatch'
  <2>1. {fr \in frames' : fr.at + fr.len <= checkpoint}
            = {fr \in frames : fr.at + fr.len <= checkpoint}
    <3>1. CASE frames' = frames  BY <3>1
    <3>2. ASSUME NEW fr, frames' = frames \cup {fr}, fr.at = scratch.alloc_size,
                 fr.len \in Positive
          PROVE  {g \in frames' : g.at + g.len <= checkpoint}
                     = {g \in frames : g.at + g.len <= checkpoint}
      <4>1. ~(fr.at + fr.len <= checkpoint)  BY <1>2, <3>2 DEF InBatch, Positive
      <4> QED  BY <3>2, <4>1
    <3> QED  BY <1>4, <3>1, <3>2
  <2>2. checkpoint <= scratch'.alloc_size  BY <1>2, <1>4 DEF InBatch
  <2>3. (S!IsScratch)'  BY <1>4 DEF S!IsScratch
  <2> QED  BY <1>4, <2>1, <2>2, <2>3 DEF InBatch
<1> QED  BY <1>1, <1>3, <1>4, AllocTyped

-----------------------------------------------------------------------------
(* The inductive invariant: the points that have been summed up are those  *)
(* below total - n, and the generator is among the terms after batch 0     *)

ArgsInv == total \in 0 .. MaxPoints /\ with_g \in BOOLEAN

SpaceInv ==
    /\ SpaceTyped
    /\ pc # "idle" => entry = <<entry[1], entry[2]>>
    /\ pc \in {"simple", "batch", "batch done", "returned 0", "returned 1"} =>
          entry[1] = scratch /\ entry[2] = frames
    /\ pc \in {"alloc", "points"} => InBatch

\* Every batch fits into what was free when multi_var was called.
PlanFits ==
    /\ entry[1].magic = "scratch"
    /\ \A k \in 1 .. n_batch_points :
          Rest(BatchObjects(f, k), 0) <= entry[1].max_size - entry[1].alloc_size

Looping == pc \in {"batch", "alloc", "points", "batch done"}

LoopInv ==
    /\ total > 0 /\ PlanFits
    /\ n_batches \in Positive /\ n_batch_points \in Positive
    /\ n_batches * n_batch_points >= total
    /\ f \in {"strauss", "pippenger"}
    /\ i \in 0 .. n_batches /\ (pc # "batch" => i < n_batches)
    /\ n = IF Offset < total THEN total - Offset ELSE 0
    /\ r = Part(with_g /\ i > 0, 0, total - n)

SumInv ==
    /\ pc = "idle" => i = 0
    /\ pc = "simple" => point_idx \in 0 .. total /\ r = Part(with_g, 0, point_idx)
    /\ pc = "alloc" =>
          /\ alloc \in Nat /\ point_idx = 0 /\ tmp = Nothing
          /\ nbp > 0 /\ S!IsScratch /\ Rest(Objects, alloc) <= S!FreeSize
    /\ pc = "points" => point_idx \in 0 .. nbp
                       /\ tmp = Part(FALSE, total - n, (total - n) + point_idx)
    /\ pc = "batch done" => tmp = Part(TakesG, total - n, (total - n) + nbp)
    /\ pc = "returned 1" => r = Part(with_g, 0, total)
    /\ pc = "returned 0" => cb_failed

IInv == ArgsInv /\ SpaceInv /\ (Looping => LoopInv) /\ SumInv

\* Where a batch is.
LEMMA BatchTypes ==
    ASSUME ArgsInv, LoopInv
    PROVE  /\ Offset \in Nat /\ total \in Nat /\ total <= MaxPoints /\ MaxPoints \in Nat
           /\ n \in 0 .. total /\ total - n \in Nat
           /\ nbp \in 0 .. n /\ nbp <= n_batch_points
           /\ n > 0 => Offset = total - n
           /\ n_batch_points \in Nat /\ i \in Nat
<1>1. total \in Nat /\ total <= MaxPoints /\ MaxPoints \in Nat  BY ConstantTypes DEF ArgsInv
<1>2. n_batch_points \in Nat /\ i \in Nat /\ n_batches \in Nat  BY DEF LoopInv, Positive
<1>3. Offset \in Nat  BY <1>2, ProductType DEF Offset
<1>4. n = IF Offset < total THEN total - Offset ELSE 0  BY DEF LoopInv
<1> QED  BY <1>1, <1>2, <1>3, <1>4 DEF nbp

LEMMA InitIInv == Init => IInv
<1> SUFFICES ASSUME Init PROVE IInv  OBVIOUS
<1>1. ArgsInv
  <2>1. total \in 0 .. MaxPoints  BY ConstantTypes DEF Init
  <2>2. with_g \in BOOLEAN  BY DEF Init
  <2> QED  BY <2>1, <2>2 DEF ArgsInv
<1>2. scratch \in Record /\ frames = {}  BY ConstantTypes DEF Init, S!Init, S!Null, S!Zeroed, Record
<1>3. SpaceInv  BY <1>2 DEF Init, SpaceInv, SpaceTyped
<1> QED  BY <1>1, <1>3 DEF Init, IInv, Looping, SumInv

LEMMA CallerCreateIInv ==
    ASSUME IInv, NEW size \in SpaceSizes, CallerCreate(size)
    PROVE  IInv'
<1>1. size \in 0 .. SizeMax  BY MultiAssumption
<1>2. /\ pc = "idle" /\ S!Create(size)
      /\ UNCHANGED <<pc, total, with_g, entry, i>>
  BY DEF CallerCreate, args, loop
<1>3. SpaceTyped'  BY <1>1, <1>2, CreateTyped DEF IInv, SpaceInv
<1> QED  BY <1>2, <1>3 DEF IInv, ArgsInv, SpaceInv, Looping, SumInv

LEMMA CallerAllocIInv ==
    ASSUME IInv, NEW size \in FrameSizes, CallerAlloc(size)
    PROVE  IInv'
<1>1. size \in Nat  BY MultiAssumption
<1>2. /\ pc = "idle" /\ S!Alloc(size)
      /\ UNCHANGED <<pc, total, with_g, entry, i>>
  BY DEF CallerAlloc, args, loop
<1>3. SpaceTyped'  BY <1>1, <1>2, AllocTyped DEF IInv, SpaceInv
<1> QED  BY <1>2, <1>3 DEF IInv, ArgsInv, SpaceInv, Looping, SumInv

\* The plan of the batches covers all points.
LEMMA BatchesLoopInv ==
    ASSUME NEW name \in {"strauss", "pippenger"}, NEW max \in Nat, max # 0,
           NEW points \in 1 .. MaxPoints, NEW g \in BOOLEAN,
           Batches(name, max, points), total' = points, with_g' = g, i = 0, i' = i,
           entry' = <<scratch, frames>>, S!IsScratch,
           \A k \in 1 .. max : Rest(BatchObjects(name, k), 0) <= S!FreeSize
    PROVE  LoopInv'
<1>1. points \in Positive /\ max \in Positive  BY ConstantTypes DEF Positive
<1>2. /\ n_batches' \in Positive /\ n_batch_points' \in Positive
      /\ n_batches' * n_batch_points' >= total'
      /\ n_batch_points' <= max
  BY <1>1, BatchSizes DEF Batches
<1>3. i' = 0 /\ i' \in 0 .. n_batches'  BY <1>2 DEF Positive
<1>4. Offset' = 0
  <2>1. \A a \in Nat : a * 0 = 0  OBVIOUS
  <2>2. n_batch_points' \in Nat  BY <1>2 DEF Positive
  <2>3. Offset' = n_batch_points' * 0  BY <1>3 DEF Offset
  <2> QED  BY ONLY <2>1, <2>2, <2>3
<1>5. n' = points /\ r' = Nothing /\ pc' = "batch" /\ f' = name  BY DEF Batches
<1>6. r' = Part((with_g /\ i > 0)', 0, 0)
  <2>1. (with_g' /\ i' > 0) = FALSE  BY <1>3
  <2>2. Part(FALSE, 0, 0) = Nothing  BY 0 \in Int, PartEmpty
  <2> QED  BY <1>5, <2>1, <2>2
<1>7. total' - n' = 0 /\ 0 < total' /\ n' = total' - 0  BY <1>1, <1>5 DEF Positive
<1>8. PlanFits'
  <2>1. entry'[1] = scratch /\ f' = name  BY <1>5
  <2>2. \A k \in 1 .. n_batch_points' : k \in 1 .. max  BY <1>2 DEF Positive
  <2>3. scratch.magic = "scratch" /\ S!FreeSize = scratch.max_size - scratch.alloc_size
    BY DEF S!IsScratch, S!FreeSize
  <2> QED  BY <2>1, <2>2, <2>3 DEF PlanFits
<1> QED  BY <1>2, <1>3, <1>4, <1>5, <1>6, <1>7, <1>8 DEF LoopInv

LEMMA CallIInv ==
    ASSUME IInv, NEW points \in 0 .. MaxPoints, NEW g \in BOOLEAN, Call(points, g)
    PROVE  IInv'
<1>1. /\ pc = "idle" /\ total' = points /\ with_g' = g /\ entry' = <<scratch, frames>>
      /\ scratch' = scratch /\ frames' = frames /\ i' = i /\ i = 0
  BY DEF Call, space, IInv, SumInv
<1>2. SpaceTyped /\ SpaceTyped' /\ scratch \in Record
  BY <1>1 DEF IInv, SpaceInv, SpaceTyped, S!IsScratch
<1>3. ArgsInv'  BY <1>1 DEF ArgsInv
<1>4. entry' = <<entry'[1], entry'[2]>> /\ entry'[1] = scratch' /\ entry'[2] = frames'
  BY <1>1
<1>5. pc' \notin {"idle", "alloc", "points"} => SpaceInv'  BY <1>2, <1>4 DEF SpaceInv
<1>6. (IF g THEN Term(G) ELSE Nothing) = Part(g, 0, 0)
  <2>1. Part(TRUE, 0, 0) = Term(G) /\ Part(FALSE, 0, 0) = Nothing
    BY 0 \in Int, PartG, PartEmpty
  <2> QED  BY <2>1
<1>7. CASE points = 0
  <2>1. pc' = "returned 1" /\ r' = Part(with_g', 0, total')  BY <1>1, <1>6, <1>7 DEF Call
  <2> QED  BY <1>3, <1>5, <2>1 DEF IInv, Looping, SumInv
<1>8. ASSUME Simple(g) PROVE IInv'
  <2>1. pc' = "simple" /\ r' = Part(with_g', 0, 0) /\ point_idx' = 0
    BY <1>1, <1>6, <1>8 DEF Simple
  <2>2. point_idx' \in 0 .. total'  BY <1>1, <2>1
  <2> QED  BY <1>3, <1>5, <2>1, <2>2 DEF IInv, Looping, SumInv
<1>9. ASSUME points # 0, NEW name \in {"strauss", "pippenger"}, NEW max \in Nat, max # 0,
             Batches(name, max, points), S!IsScratch,
             \A k \in 1 .. max : Rest(BatchObjects(name, k), 0) <= S!FreeSize
      PROVE  IInv'
  <2>1. pc' = "batch"  BY <1>9 DEF Batches
  <2>2. points \in 1 .. MaxPoints  BY <1>9
  <2>3. LoopInv'  BY <1>1, <1>9, <2>2, BatchesLoopInv
  <2> QED  BY <1>3, <1>5, <2>1, <2>3 DEF IInv, Looping, SumInv
<1>10. /\ PippengerMaxPoints \in Nat /\ StraussMaxPoints \in Nat
       /\ PippengerMaxPoints # 0 => 1 \in 1 .. PippengerMaxPoints
  BY <1>2, PippengerMaxType, StraussMaxType, ConstantTypes
<1>12. ASSUME PippengerMaxPoints # 0
       PROVE  S!IsScratch /\ \A k \in 1 .. PippengerMaxPoints :
                                Rest(BatchObjects("pippenger", k), 0) <= S!FreeSize
  BY <1>2, <1>10, <1>12, PippengerFits DEF BatchObjects
<1>13. ASSUME StraussMaxPoints # 0
       PROVE  S!IsScratch /\ \A k \in 1 .. StraussMaxPoints :
                                Rest(BatchObjects("strauss", k), 0) <= S!FreeSize
  <2>1. 1 \in 1 .. StraussMaxPoints  BY <1>10, <1>13
  <2> QED  BY <1>2, <1>13, <2>1, StraussFits DEF BatchObjects
<1>11. CASE points # 0
  <2>1. \/ Simple(g)
        \/ PippengerMaxPoints # 0 /\ Batches("pippenger", PippengerMaxPoints, points)
        \/ StraussMaxPoints # 0 /\ Batches("strauss", StraussMaxPoints, points)
    BY <1>11 DEF Call
  <2>2. ASSUME PippengerMaxPoints # 0, Batches("pippenger", PippengerMaxPoints, points)
        PROVE  IInv'
    BY <1>9, <1>10, <1>11, <1>12, <2>2
  <2>3. ASSUME StraussMaxPoints # 0, Batches("strauss", StraussMaxPoints, points)
        PROVE  IInv'
    BY <1>9, <1>10, <1>11, <1>13, <2>3
  <2> QED  BY <1>8, <2>1, <2>2, <2>3
<1> QED  BY <1>7, <1>11

-----------------------------------------------------------------------------
(* The simple loop *)

LEMMA SimplePointIInv == ASSUME IInv, SimplePoint PROVE IInv'
<1>1. /\ pc = "simple" /\ point_idx < total /\ point_idx \in 0 .. total
      /\ r = Part(with_g, 0, point_idx)
      /\ total' = total /\ with_g' = with_g /\ entry' = entry
      /\ scratch' = scratch /\ frames' = frames
  BY DEF SimplePoint, IInv, SumInv, args, space
<1>2. ArgsInv /\ ArgsInv'  BY <1>1 DEF IInv, ArgsInv
<1>3. pc' \in {"simple", "returned 0"} => SpaceInv'
  BY <1>1 DEF IInv, SpaceInv, SpaceTyped, S!IsScratch
<1>4. CASE r' = Add(r, Term(point_idx)) /\ point_idx' = point_idx + 1 /\ pc' = pc
  <2>1. point_idx \in 0 .. MaxPoints-1 /\ with_g \in BOOLEAN
    BY <1>1, <1>2, ConstantTypes DEF ArgsInv
  <2>2. r' = Part(with_g', 0, point_idx')  BY <1>1, <1>4, <2>1, PartPoint
  <2>3. point_idx' \in 0 .. total'  BY <1>1, <1>2, <1>4 DEF ArgsInv
  <2> QED  BY <1>1, <1>2, <1>3, <1>4, <2>2, <2>3 DEF IInv, Looping, SumInv
<1>5. CASE pc' = "returned 0" /\ cb_failed'
  BY <1>2, <1>3, <1>5 DEF IInv, Looping, SumInv
<1> QED  BY <1>4, <1>5 DEF SimplePoint, Callback

LEMMA SimpleDoneIInv == ASSUME IInv, SimpleDone PROVE IInv'
<1>1. /\ pc = "simple" /\ point_idx = total /\ pc' = "returned 1"
      /\ r = Part(with_g, 0, point_idx) /\ r' = r
      /\ total' = total /\ with_g' = with_g /\ entry' = entry
      /\ scratch' = scratch /\ frames' = frames
  BY DEF SimpleDone, IInv, SumInv, args, space
<1>2. ArgsInv'  BY <1>1 DEF IInv, ArgsInv
<1>3. SpaceInv'  BY <1>1 DEF IInv, SpaceInv, SpaceTyped, S!IsScratch
<1> QED  BY <1>1, <1>2, <1>3 DEF IInv, Looping, SumInv

-----------------------------------------------------------------------------
(* The batches *)

\* What a step within a batch leaves alone.
LEMMA SameBatch ==
    ASSUME IInv, Looping, pc' # "batch", Looping', i < n_batches,
           UNCHANGED <<total, with_g, entry, f, n_batches, n_batch_points, i, n, r>>
    PROVE  ArgsInv' /\ LoopInv' /\ nbp' = nbp /\ Offset' = Offset /\ TakesG' = TakesG
<1>1. ArgsInv /\ LoopInv  BY DEF IInv
<1>2. nbp' = nbp /\ Offset' = Offset /\ TakesG' = TakesG  BY DEF nbp, Offset, TakesG
<1>3. ArgsInv'  BY <1>1 DEF ArgsInv
<1>4. PlanFits'
  <2>1. PlanFits  BY <1>1 DEF LoopInv
  <2>2. entry' = entry /\ f' = f /\ n_batch_points' = n_batch_points  OBVIOUS
  <2> QED  BY <2>1, <2>2 DEF PlanFits
<1>5. LoopInv'  BY <1>1, <1>2, <1>4 DEF LoopInv
<1> QED  BY <1>2, <1>3, <1>5

LEMMA BatchStartIInv == ASSUME IInv, BatchStart PROVE IInv'
<1>1. /\ pc = "batch" /\ i < n_batches /\ pc' \in {"batch done", "alloc"}
      /\ pc' = (IF ~TakesG /\ nbp = 0 THEN "batch done" ELSE "alloc")
      /\ scratch' = scratch /\ frames' = frames
      /\ checkpoint' = scratch.alloc_size /\ tmp' = Nothing /\ alloc' = 0 /\ point_idx' = 0
      /\ UNCHANGED <<total, with_g, entry, f, n_batches, n_batch_points, i, n, r>>
  BY DEF BatchStart, S!Checkpoint, args, plan
<1>2. Looping /\ Looping' /\ pc' # "batch"  BY <1>1 DEF Looping
<1>3. ArgsInv' /\ LoopInv' /\ nbp' = nbp /\ TakesG' = TakesG  BY <1>1, <1>2, SameBatch
<1>4. /\ SpaceTyped /\ entry[1] = scratch /\ entry[2] = frames /\ scratch \in Record
      /\ entry = <<entry[1], entry[2]>>
  BY <1>1 DEF IInv, SpaceInv, SpaceTyped
<1>5. SpaceInv'
  <2>1. SpaceTyped'  BY <1>1, <1>4 DEF SpaceTyped, S!IsScratch
  <2>2. frames = {fr \in frames : fr.at + fr.len <= scratch.alloc_size}
    BY <1>4 DEF SpaceTyped
  <2>3. scratch.alloc_size \in Nat  BY <1>4 DEF Record
  <2>4. /\ entry' = entry /\ checkpoint' = entry[1].alloc_size
        /\ checkpoint' <= scratch'.alloc_size
    <3>1. entry' = entry /\ checkpoint' = scratch.alloc_size /\ scratch' = scratch  BY <1>1
    <3>2. scratch.alloc_size <= scratch.alloc_size  BY <2>3
    <3> QED  BY <1>4, <3>1, <3>2
  <2>5. entry'[2] = {fr \in frames' : fr.at + fr.len <= checkpoint'}
    BY <1>1, <1>4, <2>2
  <2>6. InBatch'  BY <1>1, <1>4, <2>4, <2>5 DEF InBatch
  <2> QED  BY <1>1, <1>4, <2>1, <2>6 DEF SpaceInv
<1>6. SumInv'
  <2>1. CASE pc' = "alloc"
    <3>1. ArgsInv /\ LoopInv  BY <1>2 DEF IInv
    <3>2. nbp > 0 /\ nbp \in 1 .. n_batch_points
      <4>1. /\ nbp \in 0 .. n /\ nbp <= n_batch_points /\ n \in Nat /\ n_batch_points \in Nat
            /\ total \in Nat /\ total > 0
        BY <3>1, BatchTypes DEF LoopInv
      <4>2. n_batch_points > 0  BY <3>1 DEF LoopInv, Positive
      <4>3. nbp # 0
        <5>1. SUFFICES ASSUME nbp = 0 PROVE FALSE  OBVIOUS
        <5>2. i = 0  BY <1>1, <2>1, <5>1 DEF TakesG
        <5>3. Offset = 0
          <6>1. \A a \in Nat : a * 0 = 0  OBVIOUS
          <6> QED  BY <4>1, <5>2, <6>1 DEF Offset
        <5>4. n = total - 0  BY <3>1, <4>1, <5>3 DEF LoopInv
        <5> QED  BY <4>1, <4>2, <5>1, <5>4 DEF nbp
      <4> QED  BY <4>1, <4>3
    <3>3. Objects = BatchObjects(f, nbp)  BY DEF Objects, BatchObjects
    <3>4. S!IsScratch /\ Rest(Objects, 0) <= S!FreeSize
      BY <1>4, <3>1, <3>2, <3>3 DEF LoopInv, PlanFits, S!IsScratch, S!FreeSize
    <3>5. /\ (S!IsScratch)' /\ (S!FreeSize)' = S!FreeSize /\ Objects' = Objects
      BY <1>1, <1>3, <3>4 DEF S!IsScratch, S!FreeSize, Objects
    <3> QED  BY <1>1, <1>3, <2>1, <3>2, <3>4, <3>5 DEF SumInv
  <2>2. CASE pc' = "batch done"
    <3>1. ~TakesG /\ nbp = 0 /\ TakesG = FALSE  BY <1>1, <2>2 DEF TakesG
    <3>2. total - n \in Int /\ (total - n) + 0 = total - n  BY <1>2, BatchTypes DEF IInv
    <3>3. Part(FALSE, total - n, total - n) = Nothing  BY <3>2, PartEmpty
    <3>4. (tmp = Part(TakesG, total - n, (total - n) + nbp))'
      BY <1>1, <1>3, <3>1, <3>2, <3>3
    <3> QED  BY <2>2, <3>4 DEF SumInv
  <2> QED  BY <1>1, <2>1, <2>2
<1> QED  BY <1>3, <1>5, <1>6 DEF IInv

\* No allocation of a batch fails.
LEMMA BatchAllocIInv == ASSUME IInv, BatchAlloc PROVE IInv'
<1> DEFINE size == Objects[alloc + 1]
           len  == Len(Objects)
<1>1. /\ pc = "alloc" /\ alloc < len /\ alloc \in Nat /\ nbp > 0 /\ S!IsScratch
      /\ Rest(Objects, alloc) <= S!FreeSize
      /\ UNCHANGED <<total, with_g, entry, f, n_batches, n_batch_points,
                     point_idx, checkpoint, tmp>>
  BY DEF BatchAlloc, args, plan, IInv, SumInv
<1>2. Looping /\ ArgsInv /\ LoopInv /\ SpaceTyped /\ InBatch /\ entry = <<entry[1], entry[2]>>
      /\ i < n_batches /\ point_idx = 0 /\ tmp = Nothing
  BY <1>1 DEF Looping, IInv, SpaceInv, LoopInv, SumInv
<1>3. len \in 0 .. 6 /\ \A k \in 1 .. len : Objects[k] \in Positive
  <2>1. nbp \in Nat /\ nbp <= MaxPoints  BY <1>2, BatchTypes
  <2>2. nbp \in 1 .. SizeMax /\ nbp \in Positive  BY <1>1, <2>1, ConstantTypes DEF Positive
  <2>3. CASE f = "strauss"  BY <2>2, <2>3, StraussTypes DEF Objects
  <2>4. CASE f # "strauss"  BY <2>2, <2>4, PippengerTypes DEF Objects
  <2> QED  BY <2>3, <2>4
<1>4. alloc \in 0 .. len-1 /\ alloc + 1 \in 1 .. len  BY <1>1, <1>3
<1>5. /\ Rest(Objects, alloc) = size + Pad + Rest(Objects, alloc + 1)
      /\ Rest(Objects, alloc + 1) \in Nat /\ size \in Positive
  <2>1. \A k \in 1 .. len : Objects[k] \in Nat  BY <1>3 DEF Positive
  <2> QED  BY <1>3, <1>4, <2>1, RestStep
<1> HIDE DEF size, len
<1>6. /\ S!AllocFits(size)
      /\ S!Alloc(size) => (S!IsScratch)' /\ Rest(Objects, alloc + 1) <= (S!FreeSize)'
  <2>1. size + Pad + Rest(Objects, alloc + 1) <= S!FreeSize  BY <1>1, <1>5
  <2> QED  BY <1>1, <1>2, <1>5, <2>1, AllocSucceeds
<1>7. S!Alloc(size) /\ alloc' = alloc + 1 /\ UNCHANGED <<pc, r, n, i>>
  BY <1>6 DEF BatchAlloc, size
<1>8. Looping' /\ pc' # "batch" /\ pc' = "alloc"  BY <1>1, <1>7 DEF Looping
<1>9. ArgsInv' /\ LoopInv' /\ nbp' = nbp  BY <1>1, <1>2, <1>7, <1>8, SameBatch
<1>10. SpaceTyped' /\ InBatch'
  <2>1. size \in Nat  BY <1>5 DEF Positive
  <2> QED  BY <1>1, <1>2, <1>7, <2>1, AllocInBatch
<1>11. SpaceInv'  BY <1>1, <1>2, <1>8, <1>10 DEF SpaceInv
<1>12. SumInv'
  <2>1. Objects' = Objects  BY <1>1, <1>9 DEF Objects
  <2>2. alloc' \in Nat  BY <1>4, <1>7
  <2>3. (nbp > 0)' /\ Rest(Objects', alloc') <= (S!FreeSize)' /\ (S!IsScratch)'
    BY <1>1, <1>6, <1>7, <1>9, <2>1
  <2> QED  BY <1>1, <1>2, <1>7, <1>8, <2>2, <2>3 DEF SumInv
<1> QED  BY <1>9, <1>11, <1>12 DEF IInv

LEMMA BatchAllocatedIInv == ASSUME IInv, BatchAllocated PROVE IInv'
<1>1. /\ pc = "alloc" /\ pc' = "points"
      /\ UNCHANGED <<scratch, frames, total, with_g, entry, f, n_batches, n_batch_points,
                     i, n, r, point_idx, checkpoint, tmp>>
  BY DEF BatchAllocated, space, args, plan, loop
<1>2. Looping /\ Looping' /\ pc' # "batch" /\ i < n_batches /\ SpaceTyped /\ InBatch
      /\ point_idx = 0 /\ tmp = Nothing /\ entry = <<entry[1], entry[2]>>
  BY <1>1 DEF Looping, IInv, SpaceInv, LoopInv, SumInv
<1>3. ArgsInv' /\ LoopInv' /\ nbp' = nbp  BY <1>1, <1>2, SameBatch
<1>4. SpaceInv'  BY <1>1, <1>2 DEF SpaceInv, SpaceTyped, InBatch, S!IsScratch
<1>5. SumInv'
  <2>1. nbp \in Nat /\ total - n \in Int /\ (total - n) + 0 = total - n
    BY <1>2, BatchTypes DEF IInv
  <2>2. Part(FALSE, total - n, total - n) = Nothing  BY <2>1, PartEmpty
  <2>3. point_idx' \in 0 .. nbp'  BY <1>1, <1>2, <1>3, <2>1
  <2>4. tmp' = Part(FALSE, total' - n', (total' - n') + point_idx')
    BY <1>1, <1>2, <2>1, <2>2
  <2> QED  BY <1>1, <2>3, <2>4 DEF SumInv
<1> QED  BY <1>3, <1>4, <1>5 DEF IInv

LEMMA BatchPointIInv == ASSUME IInv, BatchPoint PROVE IInv'
<1>1. /\ pc = "points" /\ pc' = pc /\ point_idx < nbp /\ point_idx' = point_idx + 1
      /\ tmp' = Add(tmp, Term(point_idx + Offset))
      /\ UNCHANGED <<scratch, frames, total, with_g, entry, f, n_batches, n_batch_points,
                     i, n, r, checkpoint>>
  BY DEF BatchPoint, space, args, plan
<1>2. Looping /\ Looping' /\ pc' # "batch" /\ i < n_batches /\ SpaceTyped /\ InBatch
      /\ point_idx \in 0 .. nbp /\ entry = <<entry[1], entry[2]>>
      /\ tmp = Part(FALSE, total - n, (total - n) + point_idx)
  BY <1>1 DEF Looping, IInv, SpaceInv, LoopInv, SumInv
<1>3. ArgsInv' /\ LoopInv' /\ nbp' = nbp  BY <1>1, <1>2, SameBatch
<1>4. SpaceInv'  BY <1>1, <1>2 DEF SpaceInv, SpaceTyped, InBatch, S!IsScratch
<1>5. SumInv'
  <2> DEFINE lo == total - n
             hi == lo + point_idx
  <2>1. /\ Offset \in Nat /\ total \in Nat /\ total <= MaxPoints /\ MaxPoints \in Nat
        /\ n \in 0 .. total /\ lo \in Nat /\ nbp \in 0 .. n /\ (n > 0 => Offset = lo)
    BY <1>2, BatchTypes DEF IInv
  <2>2. Offset = lo /\ point_idx + Offset = hi  BY <1>1, <1>2, <2>1
  <2>3. hi \in 0 .. MaxPoints-1 /\ lo <= hi /\ hi + 1 = lo + (point_idx + 1)
    BY <1>1, <1>2, <2>1
  <2> HIDE DEF hi
  <2>4. Add(Part(FALSE, lo, hi), Term(hi)) = Part(FALSE, lo, hi + 1)
    BY <2>1, <2>3, PartPoint
  <2>5. tmp' = Part(FALSE, lo, lo + (point_idx + 1))
    BY <1>1, <1>2, <2>2, <2>3, <2>4 DEF hi
  <2>6. point_idx' \in 0 .. nbp'  BY <1>1, <1>2, <1>3, <2>1
  <2>7. tmp' = Part(FALSE, total' - n', (total' - n') + point_idx')  BY <1>1, <2>5
  <2> QED  BY <1>1, <2>6, <2>7 DEF SumInv
<1> QED  BY <1>3, <1>4, <1>5 DEF IInv

LEMMA BatchPointFailsIInv == ASSUME IInv, BatchPointFails PROVE IInv'
<1>1. /\ pc = "points" /\ pc' = "returned 0" /\ S!ApplyCheckpoint(checkpoint) /\ cb_failed'
      /\ UNCHANGED <<total, with_g, entry>>
  BY DEF BatchPointFails, BatchReturns, Callback, args
<1>2. SpaceTyped /\ InBatch /\ entry = <<entry[1], entry[2]>>  BY <1>1 DEF IInv, SpaceInv
<1>3. SpaceTyped' /\ scratch' = entry[1] /\ frames' = entry[2]  BY <1>1, <1>2, ApplyReturns
<1>4. SpaceInv'  BY <1>1, <1>2, <1>3 DEF SpaceInv
<1>5. ArgsInv'  BY <1>1 DEF IInv, ArgsInv
<1> QED  BY <1>1, <1>4, <1>5 DEF IInv, Looping, SumInv

LEMMA BatchSumIInv == ASSUME IInv, BatchSum PROVE IInv'
<1>1. /\ pc = "points" /\ pc' = "batch done" /\ point_idx = nbp
      /\ S!ApplyCheckpoint(checkpoint)
      /\ tmp' = (IF TakesG THEN Add(tmp, Term(G)) ELSE tmp)
      /\ UNCHANGED <<total, with_g, entry, f, n_batches, n_batch_points, i, n, r>>
  BY DEF BatchSum, args, plan, loop
<1>2. Looping /\ Looping' /\ pc' # "batch" /\ i < n_batches /\ SpaceTyped /\ InBatch
      /\ entry = <<entry[1], entry[2]>>
      /\ tmp = Part(FALSE, total - n, (total - n) + nbp)
  BY <1>1 DEF Looping, IInv, SpaceInv, LoopInv, SumInv
<1>3. ArgsInv' /\ LoopInv' /\ nbp' = nbp /\ TakesG' = TakesG  BY <1>1, <1>2, SameBatch
<1>4. SpaceInv'
  <2>1. SpaceTyped' /\ scratch' = entry[1] /\ frames' = entry[2]  BY <1>1, <1>2, ApplyReturns
  <2> QED  BY <1>1, <1>2, <2>1 DEF SpaceInv
<1>5. SumInv'
  <2> DEFINE lo == total - n
             hi == lo + nbp
  <2>1. lo \in Nat /\ nbp \in Nat /\ hi \in Nat  BY <1>2, BatchTypes DEF IInv
  <2> HIDE DEF lo, hi
  <2>2. tmp' = Part(TakesG, lo, hi)
    <3>1. CASE TakesG
      <4>1. Add(Part(FALSE, lo, hi), Term(G)) = Part(TRUE, lo, hi)  BY <2>1, PartWithG
      <4>2. TakesG = TRUE  BY <3>1 DEF TakesG
      <4> QED  BY <1>1, <1>2, <4>1, <4>2 DEF lo, hi
    <3>2. CASE ~TakesG
      <4>1. TakesG = FALSE  BY <3>2 DEF TakesG
      <4> QED  BY <1>1, <1>2, <4>1 DEF lo, hi
    <3> QED  BY <3>1, <3>2
  <2>3. tmp' = Part(TakesG', total' - n', (total' - n') + nbp')
    BY <1>1, <1>3, <2>2 DEF lo, hi
  <2> QED  BY <1>1, <2>3 DEF SumInv
<1> QED  BY <1>3, <1>4, <1>5 DEF IInv

\* The last batch may be short; after it nothing is left.
LEMMA BatchDoneIInv == ASSUME IInv, BatchDone PROVE IInv'
<1>1. /\ pc = "batch done" /\ pc' = "batch"
      /\ r' = Add(r, tmp) /\ n' = n - nbp /\ i' = i + 1
      /\ UNCHANGED <<scratch, frames, total, with_g, entry, f, n_batches, n_batch_points>>
  BY DEF BatchDone, BatchReturns, space, args, plan
<1>2. Looping /\ ArgsInv /\ LoopInv /\ i < n_batches /\ SpaceTyped
      /\ entry = <<entry[1], entry[2]>> /\ entry[1] = scratch /\ entry[2] = frames
      /\ tmp = Part(TakesG, total - n, (total - n) + nbp)
  BY <1>1 DEF Looping, IInv, SpaceInv, LoopInv, SumInv
<1>3. ArgsInv'  BY <1>1, <1>2 DEF ArgsInv
<1>4. SpaceInv'  BY <1>1, <1>2 DEF SpaceInv, SpaceTyped, S!IsScratch
<1>5. LoopInv'
  <2> DEFINE lo == total - n
             hi == lo + nbp
  <2>1. /\ Offset \in Nat /\ total \in Nat /\ n \in 0 .. total /\ lo \in Nat
        /\ nbp \in 0 .. n /\ nbp <= n_batch_points /\ (n > 0 => Offset = lo)
        /\ n_batch_points \in Nat /\ i \in Nat
    BY <1>2, BatchTypes
  <2>2. Offset' = Offset + n_batch_points
    <3>1. \A a, b \in Nat : a * (b + 1) = a * b + a  OBVIOUS
    <3>2. Offset' = n_batch_points * (i + 1) /\ Offset = n_batch_points * i  BY <1>1 DEF Offset
    <3> QED  BY <2>1, <3>1, <3>2
  <2>3. n = IF Offset < total THEN total - Offset ELSE 0  BY <1>2 DEF LoopInv
  <2>4. nbp = IF n < n_batch_points THEN n ELSE n_batch_points  BY DEF nbp
  <2>5. n' = IF Offset' < total' THEN total' - Offset' ELSE 0
    <3>1. n' = n - nbp /\ total' = total  BY <1>1
    <3>2. CASE n < n_batch_points
      <4>1. n' = 0  BY <2>1, <2>4, <3>1, <3>2
      <4>2. ~(Offset + n_batch_points < total)  BY <2>1, <2>3, <3>2
      <4> QED  BY <2>2, <3>1, <4>1, <4>2
    <3>3. CASE ~(n < n_batch_points)
      <4>1. n' = n - n_batch_points  BY <2>4, <3>1, <3>3
      <4>2. n = n_batch_points \/ n > n_batch_points  BY <2>1, <3>3
      <4> QED  BY <2>1, <2>2, <2>3, <3>1, <3>3, <4>1, <4>2
    <3> QED  BY <3>2, <3>3
  <2>6. total' - n' = hi /\ hi \in Nat /\ lo <= hi
    <3>1. n' = n - nbp /\ total' = total  BY <1>1
    <3>2. n \in Int /\ nbp \in Int /\ nbp >= 0  BY <2>1
    <3> QED  BY <2>1, <3>1, <3>2
  <2>7. i' \in 0 .. n_batches' /\ i' > 0
    <3>1. n_batches \in Nat /\ i < n_batches /\ i \in Nat  BY <1>2, <2>1 DEF LoopInv, Positive
    <3>2. i' = i + 1 /\ n_batches' = n_batches  BY <1>1
    <3> QED  BY <3>1, <3>2
  <2>8. r' = Part(with_g' /\ i' > 0, 0, total' - n')
    <3> DEFINE g == with_g /\ i > 0
               h == TakesG
    <3>1. g \in BOOLEAN /\ h \in BOOLEAN /\ with_g \in BOOLEAN
      <4>1. with_g \in BOOLEAN  BY <1>2 DEF ArgsInv
      <4> QED  BY <4>1 DEF TakesG
    <3>2. ~(g /\ h) /\ ((g \/ h) <=> with_g)
      <4>1. i = 0 \/ i > 0  BY <2>1
      <4>2. ~(i = 0 /\ i > 0)  OBVIOUS
      <4> QED  BY <4>1, <4>2 DEF TakesG
    <3>3. r = Part(g, 0, lo) /\ tmp = Part(h, lo, hi)  BY <1>2 DEF LoopInv
    <3> HIDE DEF g, h, lo, hi
    <3>4. Add(r, tmp) = Part(g \/ h, 0, hi)  BY <2>1, <2>6, <3>1, <3>2, <3>3, PartsJoin
    <3>5. (g \/ h) = with_g  BY <3>1, <3>2
    <3>6. (with_g' /\ i' > 0) = with_g  BY <1>1, <2>7, <3>1
    <3>7. r' = Part(with_g, 0, hi)  BY <1>1, <3>4, <3>5
    <3> QED  BY <2>6, <3>6, <3>7
  <2>9. /\ n_batches' \in Positive /\ n_batch_points' \in Positive
        /\ n_batches' * n_batch_points' >= total' /\ f' \in {"strauss", "pippenger"}
    BY <1>1, <1>2 DEF LoopInv
  <2>10. (total > 0)' /\ PlanFits'  BY <1>1, <1>2 DEF LoopInv, PlanFits
  <2> QED  BY <1>1, <2>5, <2>7, <2>8, <2>9, <2>10 DEF LoopInv
<1> QED  BY <1>1, <1>3, <1>4, <1>5 DEF IInv, SumInv

\* The batches together are at least as long as the list of the points.
LEMMA AllDoneIInv == ASSUME IInv, AllDone PROVE IInv'
<1>1. /\ pc = "batch" /\ i = n_batches /\ pc' = "returned 1"
      /\ UNCHANGED <<scratch, frames, total, with_g, entry, f, n_batches, n_batch_points,
                     i, n, r>>
  BY DEF AllDone, space, args, plan, loop
<1>2. ArgsInv /\ LoopInv /\ SpaceTyped
      /\ entry = <<entry[1], entry[2]>> /\ entry[1] = scratch /\ entry[2] = frames
  BY <1>1 DEF Looping, IInv, SpaceInv
<1>3. ArgsInv'  BY <1>1, <1>2 DEF ArgsInv
<1>4. SpaceInv'  BY <1>1, <1>2 DEF SpaceInv, SpaceTyped, S!IsScratch
<1>5. r = Part(with_g, 0, total)
  <2>1. n_batches \in Nat /\ n_batch_points \in Nat /\ i > 0 /\ total \in Nat
    <3>1. n_batches \in Positive /\ n_batch_points \in Positive  BY <1>2 DEF LoopInv
    <3>2. total \in Nat  BY <1>2, BatchTypes
    <3>3. i = n_batches  BY <1>1
    <3> QED  BY <3>1, <3>2, <3>3 DEF Positive
  <2>2. Offset = n_batches * n_batch_points
    <3>1. \A a, b \in Nat : a * b = b * a  OBVIOUS
    <3> QED  BY <1>1, <2>1, <3>1 DEF Offset
  <2>3. Offset \in Nat /\ Offset >= total  BY <1>2, <2>1, <2>2, ProductType DEF LoopInv
  <2>4. n = 0 /\ total - n = total  BY <1>2, <2>1, <2>3 DEF LoopInv
  <2>5. (with_g /\ i > 0) = with_g  BY <1>2, <2>1 DEF ArgsInv
  <2> QED  BY <1>2, <2>4, <2>5 DEF LoopInv
<1>6. SumInv'  BY <1>1, <1>5 DEF SumInv
<1> QED  BY <1>1, <1>3, <1>4, <1>6 DEF IInv, Looping

-----------------------------------------------------------------------------

LEMMA StutterIInv == ASSUME IInv, UNCHANGED vars PROVE IInv'
<1>1. UNCHANGED <<scratch, frames, pc, total, with_g, entry, f, n_batches, n_batch_points,
                  i, n, alloc, point_idx, checkpoint, r, tmp, cb_failed>>
  BY DEF vars, space, args, plan, loop
<1>2. ArgsInv'  BY <1>1 DEF IInv, ArgsInv
<1>3. SpaceInv'  BY <1>1 DEF IInv, SpaceInv, SpaceTyped, InBatch, S!IsScratch
<1>4. (Looping => LoopInv)'  BY <1>1 DEF IInv, Looping, LoopInv, PlanFits, Offset
<1>5. SumInv'
  <2>1. Objects' = Objects /\ nbp' = nbp  BY <1>1 DEF Objects, nbp
  <2> QED  BY <1>1, <2>1 DEF IInv, SumInv, TakesG, S!IsScratch, S!FreeSize
<1> QED  BY <1>2, <1>3, <1>4, <1>5 DEF IInv

LEMMA IInvInductive == IInv /\ [Next]_vars => IInv'
<1> SUFFICES ASSUME IInv, [Next]_vars PROVE IInv'  OBVIOUS
<1>1. ASSUME NEW size \in SpaceSizes, CallerCreate(size) PROVE IInv'
  BY <1>1, CallerCreateIInv
<1>2. ASSUME NEW size \in FrameSizes, CallerAlloc(size) PROVE IInv'
  BY <1>2, CallerAllocIInv
<1>3. ASSUME NEW points \in 0 .. MaxPoints, NEW g \in BOOLEAN, Call(points, g) PROVE IInv'
  BY <1>3, CallIInv
<1>4. CASE SimplePoint     BY <1>4, SimplePointIInv
<1>5. CASE SimpleDone      BY <1>5, SimpleDoneIInv
<1>6. CASE BatchStart      BY <1>6, BatchStartIInv
<1>7. CASE BatchAlloc      BY <1>7, BatchAllocIInv
<1>8. CASE BatchAllocated  BY <1>8, BatchAllocatedIInv
<1>9. CASE BatchPoint      BY <1>9, BatchPointIInv
<1>10. CASE BatchPointFails  BY <1>10, BatchPointFailsIInv
<1>11. CASE BatchSum       BY <1>11, BatchSumIInv
<1>12. CASE BatchDone      BY <1>12, BatchDoneIInv
<1>13. CASE AllDone        BY <1>13, AllDoneIInv
<1>14. CASE UNCHANGED vars BY <1>14, StutterIInv
<1> QED
  BY <1>1, <1>2, <1>3, <1>4, <1>5, <1>6, <1>7, <1>8, <1>9, <1>10, <1>11, <1>12, <1>13, <1>14
  DEF Next, Returned

(***************************************************************************)
(* A call of secp256k1_ecmult_multi_var that returns 1 has summed every    *)
(* point and the generator exactly once, for every number of points, every *)
(* scratch space and every size of the structs: the batches that           *)
(* secp256k1_ecmult_multi_batch_size_helper plans have neither gap nor     *)
(* overlap, and the generator is in the first one only.                    *)
(***************************************************************************)
THEOREM EcmultMultiEveryTermOnce == Spec => []EveryTermOnce
<1>1. IInv => EveryTermOnce
  <2> SUFFICES ASSUME IInv, pc = "returned 1"
               PROVE  r = [t \in Terms |-> IF t = G THEN (IF with_g THEN 1 ELSE 0)
                                           ELSE IF t < total THEN 1 ELSE 0]
    BY DEF EveryTermOnce
  <2>1. r = Part(with_g, 0, total)  BY DEF IInv, SumInv
  <2>2. \A t \in Terms : t # G => 0 <= t  BY TermTypes
  <2> QED  BY <2>1, <2>2 DEF Part
<1> QED  BY <1>1, InitIInv, IInvInductive, PTL DEF Spec

(***************************************************************************)
(* The call fails only if the callback does, for every scratch space, size *)
(* of the structs and table of windows: a batch that is no longer than     *)
(* secp256k1_strauss_max_points or secp256k1_pippenger_max_points says     *)
(* gets all its objects, although each of them is padded and Pippenger     *)
(* chooses its window by the length of the batch.                          *)
(***************************************************************************)
THEOREM EcmultMultiFailsOnlyByCallback == Spec => []FailsOnlyByCallback
<1>1. IInv => FailsOnlyByCallback  BY DEF IInv, SumInv, FailsOnlyByCallback
<1> QED  BY <1>1, InitIInv, IInvInductive, PTL DEF Spec

(***************************************************************************)
(* However the call ends, the caller's scratch space and the objects he    *)
(* has in it are as they were: each batch applies its checkpoint on each   *)
(* of its ways out.                                                        *)
(***************************************************************************)
THEOREM EcmultMultiSpaceReturned == Spec => []SpaceReturned
<1>1. IInv => SpaceReturned
  <2> SUFFICES ASSUME IInv, pc \in {"returned 0", "returned 1"}
               PROVE  <<scratch, frames>> = entry
    BY DEF SpaceReturned
  <2>1. entry = <<entry[1], entry[2]>> /\ entry[1] = scratch /\ entry[2] = frames
    BY DEF IInv, SpaceInv
  <2> QED  BY <2>1
<1> QED  BY <1>1, InitIInv, IInvInductive, PTL DEF Spec
=============================================================================
