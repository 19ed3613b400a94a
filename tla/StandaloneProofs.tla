-------------------------- MODULE StandaloneProofs --------------------------
(***************************************************************************)
(* Components that share nothing with the others.  The scratch space, for  *)
(* every size_t width, alignment, header size and set of requested sizes:  *)
(* types, disjoint frames, checkpoints that undo exactly what was          *)
(* allocated since, and a max_allocation that is honest.  The test runner, *)
(* for every number of jobs, targets and bytes of the pipe: its status     *)
(* tells whether every test passed, and a crash of a test harms no other.  *)
(* The 128-bit integers, for words of any even number of bits: the pair of *)
(* words and the compiler's type agree.  The points in jacobian and affine *)
(* coordinates, for every prime field and every curve that the generator   *)
(* makes a cyclic group of: every sequence of operations computes the      *)
(* group law, within the magnitudes that the field operations ask for, and *)
(* what is then read of the points, by comparison, serialization, a shared *)
(* inversion or a table of odd multiples, is true of them.                 *)
(***************************************************************************)
EXTENDS Scratch, TestRunner, Int128, GroupOps, SequenceTheorems, WellFoundedInduction, TLAPS

-----------------------------------------------------------------------------
(* Division with remainder *)

\* Quotient and remainder, for every dividend.
LEMMA DivMod ==
    ASSUME NEW n \in Nat \ {0}, NEW a \in Int
    PROVE  /\ a \div n \in Int
           /\ a % n \in Nat /\ a % n < n
           /\ a = n * (a \div n) + (a % n)
OBVIOUS

\* The quotient and the remainder are the only ones.
LEMMA QuotientUnique ==
    ASSUME NEW n \in Nat \ {0}, NEW a \in Int, NEW q \in Int, NEW r \in Int,
           a = n * q + r, 0 <= r, r < n
    PROVE  a \div n = q /\ a % n = r
<1> DEFINE p == a \div n
           s == a % n
<1>1. p \in Int /\ s \in Nat /\ s < n /\ a = n * p + s  BY DivMod
<1> HIDE DEF p, s
<1>2. n * (q - p) = s - r  BY <1>1
<1>3. q - p <= 0
  <2> SUFFICES ASSUME q - p >= 1 PROVE FALSE  BY <1>1
  <2>1. n * (q - p) >= n  BY <1>1
  <2> QED  BY <2>1, <1>1, <1>2
<1>4. q - p >= 0
  <2> SUFFICES ASSUME q - p <= -1 PROVE FALSE  BY <1>1
  <2>1. n * (q - p) <= -n  BY <1>1
  <2> QED  BY <2>1, <1>1, <1>2
<1>5. q = p  BY <1>1, <1>3, <1>4
<1>6. r = s  BY <1>1, <1>5
<1> QED  BY <1>5, <1>6 DEF p, s

\* A multiple of b leaves no remainder.
LEMMA ModOfMultiple ==
    ASSUME NEW b \in Nat \ {0}, NEW j \in Int
    PROVE  (b * j) % b = 0
<1> DEFINE n == b * j
<1>1. n \in Int /\ n = b * j + 0 /\ 0 < b  OBVIOUS
<1> HIDE DEF n
<1>2. n % b = 0  BY <1>1, QuotientUnique
<1> QED  BY <1>2 DEF n

\* Sums and differences of aligned offsets are aligned.
LEMMA ModAdd ==
    ASSUME NEW b \in Nat \ {0}, NEW x \in Nat, NEW y \in Nat,
           x % b = 0, y % b = 0
    PROVE  (x + y) % b = 0
<1>1. x = b * (x \div b) /\ y = b * (y \div b)  OBVIOUS
<1>2. (x \div b) \in Int /\ (y \div b) \in Int  OBVIOUS
<1>3. x + y = b * ((x \div b) + (y \div b))  BY <1>1, <1>2
<1> DEFINE j == (x \div b) + (y \div b)
<1>4. j \in Int /\ b * j \in Nat /\ x + y = b * j  BY <1>2, <1>3
<1> HIDE DEF j
<1>5. (b * j) % b = 0  BY <1>4, ModOfMultiple
<1> QED  BY <1>4, <1>5

-----------------------------------------------------------------------------
(* The scratch space *)

\* What ROUND_TO_ALIGN returns is an aligned size_t, wrapped or not.
LEMMA RoundAligned ==
    ASSUME NEW request \in SizeT
    PROVE  /\ RoundToAlign(request) \in SizeT
           /\ RoundToAlign(request) % Alignment = 0
<1> DEFINE M == SizeMax + 1
           pred == IF request = 0 THEN SizeMax ELSE request - 1
           k == 1 + pred \div Alignment
           x == k * Alignment
           r == x % M
           c == M \div Alignment
           q == x \div M
<1> USE ScratchAssumption
<1>1. M \in Nat \ {0} /\ M = SizeMax + 1 /\ pred \in Nat  BY DEF SizeT
<1>2. pred \div Alignment \in Nat  BY <1>1
<1>3. k \in Nat /\ x \in Nat /\ x = k * Alignment  BY <1>2
<1>4. r = RoundToAlign(request)  BY DEF RoundToAlign
<1> HIDE DEF pred, k, x, M
<1>5. c \in Int /\ M = Alignment * c
  <2>1. M = Alignment * c + (M % Alignment)  BY <1>1
  <2> QED  BY <2>1, <1>1
<1>6. q \in Int /\ r \in Nat /\ r < M /\ x = M * q + r
  <2>1. x \in Int /\ M \in Nat \ {0}  BY <1>1, <1>3
  <2> QED  BY ONLY <2>1, DivMod
<1> HIDE DEF c, q, r
<1> DEFINE j == k - c * q
<1>7. j \in Int /\ r = Alignment * j
  <2>1. Alignment * (k - c * q) = x - (Alignment * c) * q  BY <1>3, <1>5, <1>6
  <2> QED  BY <2>1, <1>3, <1>5, <1>6
<1> HIDE DEF j
<1>8. (Alignment * j) % Alignment = 0  BY <1>6, <1>7, ModOfMultiple
<1>9. RoundToAlign(request) <= SizeMax  BY <1>1, <1>4, <1>6
<1> QED  BY <1>4, <1>6, <1>7, <1>8, <1>9 DEF SizeT

\* A request for nothing takes nothing: both the predecessor and the product wrap.
LEMMA ZeroRounds == RoundToAlign(0) = 0
<1> DEFINE M == SizeMax + 1
<1>0. M \in Nat \ {0} /\ Alignment \in Nat \ {0} /\ M = SizeMax + 1 /\ SizeMax \in Nat
      /\ M % Alignment = 0
  BY ScratchAssumption
<1> HIDE DEF M
<1> DEFINE c == M \div Alignment
           q == SizeMax \div Alignment
<1>1. c \in Int /\ M = Alignment * c
  <2>1. M \in Int  BY <1>0
  <2>2. c \in Int /\ M = Alignment * c + (M % Alignment)  BY ONLY <1>0, <2>1, DivMod
  <2> QED  BY <1>0, <2>2
<1>2. q \in Int /\ SizeMax % Alignment \in Nat /\ SizeMax % Alignment < Alignment
      /\ SizeMax = Alignment * q + (SizeMax % Alignment)
  <2>1. SizeMax \in Int  BY <1>0
  <2> QED  BY ONLY <1>0, <2>1, DivMod
<1> HIDE DEF c, q
<1>3. c = q + 1
  <2> DEFINE e == SizeMax % Alignment
             d == c - q
  <2>1. e \in Nat /\ e < Alignment /\ d \in Int  BY <1>1, <1>2
  <2>2. Alignment * d = e + 1
    <3>1. Alignment * (c - q) = Alignment * c - Alignment * q
      BY ONLY <1>0, <1>1, <1>2
    <3>2. Alignment * c = SizeMax + 1 /\ Alignment * q = SizeMax - e
      BY <1>0, <1>1, <1>2, <2>1
    <3> QED  BY <1>0, <2>1, <3>1, <3>2
  <2> HIDE DEF d, e
  <2>3. d > 0  BY <1>0, <2>1, <2>2
  <2>4. d < 2
    <3>1. SUFFICES ASSUME d >= 2 PROVE FALSE  BY <2>1
    <3>2. Alignment * d >= Alignment * 2  BY <1>0, <2>1, <3>1
    <3> QED  BY <1>0, <2>1, <2>2, <3>2
  <2> QED  BY <1>1, <1>2, <2>1, <2>3, <2>4 DEF d
<1>4. (1 + q) * Alignment = M  BY <1>0, <1>1, <1>2, <1>3
<1>5. M % M = 0  BY <1>0
<1>6. RoundToAlign(0) = ((1 + q) * Alignment) % M  BY DEF RoundToAlign, q, M
<1>7. RoundToAlign(0) = 0  BY <1>4, <1>5, <1>6
<1> QED  BY <1>7

\* A request that leaves room for the padding is rounded up by less than Alignment.
LEMMA RoundUp ==
    ASSUME NEW request \in Nat, request = 0 \/ request + (Alignment - 1) <= SizeMax
    PROVE  /\ RoundToAlign(request) \in Nat
           /\ request <= RoundToAlign(request)
           /\ RoundToAlign(request) <= request + (Alignment - 1)
<1> DEFINE M == SizeMax + 1
<1>0. M \in Nat \ {0} /\ Alignment \in Nat \ {0} /\ M = SizeMax + 1 /\ SizeMax \in Nat
      /\ M % Alignment = 0
  BY ScratchAssumption
<1> HIDE DEF M
<1>1. CASE request = 0  BY <1>0, <1>1, ZeroRounds
<1>2. CASE request # 0
  <2> DEFINE pred == request - 1
             q    == pred \div Alignment
             e    == pred % Alignment
             x    == (1 + q) * Alignment
  <2>1. pred \in Int /\ pred = request - 1  BY <1>2
  <2>2. q \in Int /\ e \in Nat /\ e < Alignment /\ pred = Alignment * q + e
    <3> HIDE DEF pred
    <3> QED  BY ONLY <1>0, <2>1, DivMod
  <2>3. RoundToAlign(request) = x % M  BY <1>2 DEF RoundToAlign, M
  <2> HIDE DEF pred, q, e
  <2>4. x = Alignment * q + Alignment  BY <1>0, <2>2
  <2> HIDE DEF x
  <2>5. x \in Int /\ request <= x /\ x <= request + (Alignment - 1)
    <3>1. Alignment * q \in Int /\ Alignment * q = pred - e  BY <1>0, <2>1, <2>2
    <3> QED  BY <1>0, <2>1, <2>2, <2>4, <3>1
  <2>6. x \in 0 .. M - 1  BY <1>0, <1>2, <2>5
  <2>7. x % M = x  BY <1>0, <2>6
  <2> QED  BY <1>2, <2>3, <2>5, <2>6, <2>7
<1> QED  BY <1>1, <1>2

(***************************************************************************)
(* The invariants of the runs, strengthened to be inductive: the offset is *)
(* aligned and in bounds, so are the offsets of the checkpoints, frames    *)
(* are not empty, and only a created object has any.                       *)
(***************************************************************************)
Offsets ==
    /\ scratch.alloc_size <= scratch.max_size
    /\ scratch.alloc_size % Alignment = 0
    /\ \A m \in marks : m.at % Alignment = 0
    /\ \A f \in frames : f.len > 0
    /\ ~IsScratch => frames = {} /\ marks = {}

IInv == TypeOK /\ FramesSound /\ MarksSound /\ Offsets

\* A request that leaves room for its padding fits.
LEMMA OneFits ==
    ASSUME IInv, IsScratch, NEW a \in Nat, a = 0 \/ a + (Alignment - 1) <= FreeSize
    PROVE  AllocFits(a)
<1>1. FreeSize \in Nat /\ FreeSize <= SizeMax
      /\ SizeMax \in Nat /\ Alignment \in Nat \ {0}
  BY ScratchAssumption DEF IInv, TypeOK, Struct, SizeT, Offsets, FreeSize
<1>2. a = 0 \/ a + (Alignment - 1) <= SizeMax  BY <1>1
<1>3. /\ RoundToAlign(a) \in Nat /\ a <= RoundToAlign(a)
      /\ RoundToAlign(a) <= a + (Alignment - 1)
  BY <1>2, RoundUp
<1>4. a = 0 => RoundToAlign(a) = 0  BY ZeroRounds
<1> QED  BY <1>1, <1>3, <1>4 DEF AllocFits

\* Two requests within a budget that leaves room for both paddings fit, one after
\* the other.
LEMMA BothFit ==
    ASSUME IInv, IsScratch, NEW a \in Nat, NEW b \in Nat,
           (a = 0 /\ b = 0) \/ (a + b) + 2 * (Alignment - 1) <= FreeSize
    PROVE  AllocFits(a) /\ AllocFits(b) /\ RoundToAlign(a) + RoundToAlign(b) <= FreeSize
<1>1. FreeSize \in Nat /\ FreeSize <= SizeMax
      /\ SizeMax \in Nat /\ Alignment \in Nat \ {0}
  BY ScratchAssumption DEF IInv, TypeOK, Struct, SizeT, Offsets, FreeSize
<1>2. CASE a = 0 /\ b = 0
  <2>1. RoundToAlign(0) = 0  BY ZeroRounds
  <2> QED  BY <1>1, <1>2, <2>1 DEF AllocFits
<1>3. CASE (a + b) + 2 * (Alignment - 1) <= FreeSize
  <2>1. a + (Alignment - 1) <= SizeMax /\ b + (Alignment - 1) <= SizeMax  BY <1>1, <1>3
  <2>2. /\ RoundToAlign(a) \in Nat /\ a <= RoundToAlign(a)
        /\ RoundToAlign(a) <= a + (Alignment - 1)
    BY <2>1, RoundUp
  <2>3. /\ RoundToAlign(b) \in Nat /\ b <= RoundToAlign(b)
        /\ RoundToAlign(b) <= b + (Alignment - 1)
    BY <2>1, RoundUp
  <2>4. RoundToAlign(a) + RoundToAlign(b) <= FreeSize  BY <1>1, <1>3, <2>2, <2>3
  <2> QED  BY <1>1, <2>2, <2>3, <2>4 DEF AllocFits
<1> QED  BY <1>2, <1>3

LEMMA ZeroAligned == 0 % Alignment = 0
BY ScratchAssumption

LEMMA InitIInv == Init => IInv
<1> SUFFICES ASSUME Init PROVE IInv  OBVIOUS
<1> USE ScratchAssumption DEF Init, Null, Zeroed
<1>1. scratch \in Struct
  <2>1. Null \in Struct  BY DEF Null, Struct, SizeT
  <2>2. Zeroed \in Struct  BY DEF Zeroed, Struct, SizeT
  <2> QED  BY <2>1, <2>2
<1>0. TypeOK  BY <1>1 DEF TypeOK
<1>2. FramesSound /\ MarksSound  BY DEF FramesSound, MarksSound
<1>3. Offsets  BY ZeroAligned DEF Offsets, IsScratch
<1> QED  BY <1>0, <1>2, <1>3 DEF IInv

LEMMA CreateIInv ==
    ASSUME IInv, NEW request \in Sizes, Create(request) PROVE IInv'
<1> USE ScratchAssumption DEF IInv, Create
<1>0. request \in SizeT  BY DEF SizeT
<1>1. CASE scratch' = scratch
  <2>1. TypeOK'  BY <1>1 DEF TypeOK
  <2>2. FramesSound' /\ MarksSound'  BY <1>1 DEF FramesSound, MarksSound
  <2>3. Offsets'  BY <1>1 DEF Offsets, IsScratch
  <2> QED  BY <2>1, <2>2, <2>3
<1>2. CASE scratch' = [magic |-> "scratch", alloc_size |-> 0, max_size |-> request]
  <2>1. frames' = {} /\ marks' = {} /\ err' \in BOOLEAN
    BY DEF Offsets, IsScratch, IsPtr
  <2>s. scratch' \in Struct  BY <1>0, <1>2 DEF Struct, SizeT
  <2>2. TypeOK'  BY <1>2, <2>1, <2>s DEF TypeOK
  <2>3. frames' = {} /\ marks' = {}  BY DEF Offsets, IsScratch, IsPtr
  <2>4. FramesSound' /\ MarksSound'  BY <2>3 DEF FramesSound, MarksSound
  <2>5. Offsets'  BY <1>0, <1>2, <2>3, ZeroAligned DEF Offsets, IsScratch, SizeT
  <2> QED  BY <2>2, <2>4, <2>5
<1> QED  BY <1>1, <1>2

LEMMA DestroyIInv ==
    ASSUME IInv, Destroy PROVE IInv'
<1> USE ScratchAssumption DEF IInv
<1>1. CASE UNCHANGED <<scratch, frames, marks>>
  <2>1. err' \in BOOLEAN  BY DEF Destroy
  <2>2. TypeOK'  BY <1>1, <2>1 DEF TypeOK
  <2>3. FramesSound' /\ MarksSound'  BY <1>1 DEF FramesSound, MarksSound
  <2>4. Offsets'  BY <1>1 DEF Offsets, IsScratch
  <2> QED  BY <2>2, <2>3, <2>4
<1>2. CASE scratch' = Null /\ frames' = {} /\ marks' = {} /\ err' = FALSE
  <2>s. scratch' \in Struct  BY <1>2 DEF Struct, SizeT, Null
  <2>1. TypeOK'  BY <1>2, <2>s DEF TypeOK
  <2>2. FramesSound' /\ MarksSound'  BY <1>2 DEF FramesSound, MarksSound
  <2>3. Offsets'  BY <1>2, ZeroAligned DEF Offsets, IsScratch, Null
  <2> QED  BY <2>1, <2>2, <2>3
<1> QED  BY <1>1, <1>2 DEF Destroy

LEMMA CheckpointIInv ==
    ASSUME IInv, Checkpoint PROVE IInv'
<1> USE ScratchAssumption DEF IInv
<1> DEFINE new == [at |-> scratch.alloc_size, live |-> frames, stale |-> FALSE]
<1>1. scratch' = scratch /\ frames' = frames /\ err' \in BOOLEAN  BY DEF Checkpoint
<1>2. marks' = marks \/ (IsScratch /\ marks' = marks \cup {new})
  BY DEF Checkpoint
<1>3. new \in Mark
  BY DEF Mark, TypeOK, Struct, Frame
<1>4. TypeOK'  BY <1>1, <1>2, <1>3 DEF TypeOK
<1>5. FramesSound'  BY <1>1 DEF FramesSound
<1>6. MarksSound'
  <2>1. scratch.alloc_size \in Nat  BY DEF TypeOK, Struct, SizeT
  <2>2. new.live = {f \in frames : f.at + f.len <= new.at}
    BY DEF FramesSound
  <2> QED  BY <1>1, <1>2, <2>1, <2>2 DEF MarksSound
<1>7. Offsets'
  BY <1>1, <1>2 DEF Offsets, IsScratch
<1> QED  BY <1>4, <1>5, <1>6, <1>7

\* The values callers pass to apply_checkpoint in Next.
Given == {m.at : m \in marks} \cup {SizeMax}

LEMMA ApplyCheckpointIInv ==
    ASSUME IInv, NEW checkpoint \in Given, ApplyCheckpoint(checkpoint)
    PROVE  IInv'
<1> USE ScratchAssumption DEF IInv
<1>0. checkpoint \in SizeT  BY DEF Given, TypeOK, Mark, SizeT
<1>1. CASE UNCHANGED <<scratch, frames, marks>> /\ err' = TRUE
  <2>2. TypeOK'  BY <1>1 DEF TypeOK
  <2>3. FramesSound' /\ MarksSound'  BY <1>1 DEF FramesSound, MarksSound
  <2>4. Offsets'  BY <1>1 DEF Offsets, IsScratch
  <2> QED  BY <2>2, <2>3, <2>4
<1>2. CASE /\ IsScratch /\ checkpoint <= scratch.alloc_size
           /\ scratch' = [scratch EXCEPT !.alloc_size = checkpoint]
           /\ frames' = {f \in frames : f.at + f.len <= checkpoint}
           /\ marks' = {[m EXCEPT !.stale = m.stale \/ m.at > checkpoint] : m \in marks}
           /\ err' = FALSE
  <2>1. checkpoint % Alignment = 0
    <3>1. CASE \E m \in marks : checkpoint = m.at  BY <3>1 DEF Offsets
    <3>2. CASE checkpoint = SizeMax
      <4>1. checkpoint = scratch.alloc_size  BY <1>2, <3>2 DEF TypeOK, Struct, SizeT
      <4> QED  BY <4>1 DEF Offsets
    <3> QED  BY <3>1, <3>2 DEF Given
  <2>2. /\ scratch' \in Struct /\ IsScratch'
        /\ scratch'.alloc_size = checkpoint /\ scratch'.max_size = scratch.max_size
    BY <1>0, <1>2 DEF TypeOK, Struct, IsScratch
  <2>3. \A m \in marks' : \E o \in marks :
            /\ m.at = o.at /\ m.live = o.live
            /\ m.stale = (o.stale \/ o.at > checkpoint)
            /\ m \in Mark
    <3>1. \A o \in marks : LET m == [o EXCEPT !.stale = o.stale \/ o.at > checkpoint]
                           IN  /\ m.at = o.at /\ m.live = o.live
                               /\ m.stale = (o.stale \/ o.at > checkpoint)
                               /\ m \in Mark
      BY DEF TypeOK, Mark
    <3> SUFFICES ASSUME NEW m \in marks'
                 PROVE  \E o \in marks :
                           /\ m.at = o.at /\ m.live = o.live
                           /\ m.stale = (o.stale \/ o.at > checkpoint)
                           /\ m \in Mark
      OBVIOUS
    <3>2. PICK o \in marks : m = [o EXCEPT !.stale = o.stale \/ o.at > checkpoint]  BY ONLY <1>2
    <3>3. /\ m.at = o.at /\ m.live = o.live /\ m.stale = (o.stale \/ o.at > checkpoint)
          /\ m \in Mark
      BY ONLY <3>1, <3>2
    <3> QED  BY <3>3
  <2>4. TypeOK'  BY <1>2, <2>2, <2>3 DEF TypeOK
  <2>5. FramesSound'
    BY <1>0, <1>2, <2>2 DEF FramesSound, SizeT, TypeOK, Frame
  <2>6. MarksSound'
    <3> SUFFICES ASSUME NEW m \in marks', ~m.stale
                 PROVE  /\ m.at <= checkpoint
                        /\ m.live = {f \in frames' : f.at + f.len <= m.at}
      BY <2>2 DEF MarksSound
    <3>1. PICK o \in marks : /\ m.at = o.at /\ m.live = o.live
                             /\ ~o.stale /\ ~(o.at > checkpoint)
      BY <2>3
    <3>2. o.at \in SizeT  BY DEF TypeOK, Mark
    <3>3. o.at <= checkpoint  BY <3>1, <3>2, <1>0 DEF SizeT
    <3>4. o.live = {f \in frames : f.at + f.len <= o.at}  BY <3>1 DEF MarksSound
    <3>5. \A f \in frames : f.at \in Nat /\ f.len \in Nat  BY DEF TypeOK, Frame, SizeT
    <3>6. \A f \in frames : f.at + f.len <= o.at => f.at + f.len <= checkpoint
      BY <3>2, <3>3, <3>5, <1>0 DEF SizeT
    <3> QED  BY <1>2, <3>1, <3>3, <3>4, <3>6
  <2>7. Offsets'
    <3>1. checkpoint <= scratch.max_size
      BY <1>0, <1>2 DEF Offsets, TypeOK, Struct, SizeT
    <3>2. \A m \in marks' : m.at % Alignment = 0  BY <2>3 DEF Offsets
    <3>3. \A f \in frames' : f.len > 0  BY <1>2 DEF Offsets
    <3> QED  BY <2>1, <2>2, <3>1, <3>2, <3>3 DEF Offsets
  <2> QED  BY <2>4, <2>5, <2>6, <2>7
<1>3. IsScratch \/ ~IsScratch  OBVIOUS
<1>4. checkpoint > scratch.alloc_size \/ checkpoint <= scratch.alloc_size
  BY <1>0 DEF TypeOK, Struct, SizeT
<1> QED  BY <1>1, <1>2, <1>4 DEF ApplyCheckpoint

LEMMA AllocIInv ==
    ASSUME IInv, NEW request \in Sizes, Alloc(request) PROVE IInv'
<1> USE ScratchAssumption DEF IInv
<1> DEFINE r == RoundToAlign(request)
           new == [at |-> scratch.alloc_size, len |-> request]
           top == scratch.alloc_size + r
<1>0. request \in SizeT  BY DEF SizeT
<1>r. r \in SizeT /\ r % Alignment = 0  BY <1>0, RoundAligned
<1>s. scratch.alloc_size \in Nat /\ scratch.max_size \in Nat /\ scratch.max_size <= SizeMax
  BY DEF TypeOK, Struct, SizeT
<1>m. marks' = marks  BY DEF Alloc
<1>1. CASE ~AllocFits(request)
  <2>1. scratch' = scratch /\ frames' = frames /\ err' \in BOOLEAN  BY <1>1 DEF Alloc
  <2>2. TypeOK'  BY <1>m, <2>1 DEF TypeOK
  <2>3. FramesSound' /\ MarksSound'  BY <1>m, <2>1 DEF FramesSound, MarksSound
  <2>4. Offsets'  BY <1>m, <2>1 DEF Offsets, IsScratch
  <2> QED  BY <2>2, <2>3, <2>4
<1>2. CASE AllocFits(request)
  <2>1. /\ scratch' = [scratch EXCEPT !.alloc_size = @ + RoundToAlign(request)]
        /\ frames' = (IF request = 0 THEN frames ELSE frames \cup {new})
        /\ err' = FALSE
    BY <1>2 DEF Alloc
  <2>2. r >= request /\ IsScratch /\ r <= scratch.max_size - scratch.alloc_size
    BY <1>2 DEF AllocFits, FreeSize
  <2> HIDE DEF r
  <2>3. top \in SizeT /\ top <= scratch.max_size /\ scratch.alloc_size + request <= top
    BY <1>0, <1>r, <1>s, <2>2 DEF SizeT
  <2>4. /\ scratch' \in Struct /\ IsScratch'
        /\ scratch'.alloc_size = top /\ scratch'.max_size = scratch.max_size
    BY <2>1, <2>2, <2>3 DEF TypeOK, Struct, IsScratch, r
  <2>5. new \in Frame /\ new.at = scratch.alloc_size /\ new.len = request
    BY <1>0, <1>s DEF Frame, TypeOK, Struct
  <2>6. \A f \in frames' : f \in frames \/ (f = new /\ request > 0)
    BY <1>0, <2>1 DEF SizeT
  <2>t. \A f \in frames : f.at \in Nat /\ f.len \in Nat  BY DEF TypeOK, Frame, SizeT
  <2> HIDE DEF new, top
  <2>7. TypeOK'  BY <1>m, <2>1, <2>4, <2>5, <2>6 DEF TypeOK
  <2>8. FramesSound'
    <3>1. \A f \in frames : f.at + f.len <= scratch.alloc_size
      BY DEF FramesSound
    <3>2. top \in Nat /\ scratch.alloc_size <= top  BY <1>0, <1>s, <2>3 DEF SizeT
    <3>3. \A f \in frames : f.at + f.len <= top /\ f.at + f.len <= scratch.max_size
      BY <1>s, <2>t, <2>3, <3>1, <3>2
    <3>4. new.at % Alignment = 0 /\ new.at + new.len <= top
          /\ new.at + new.len <= scratch.max_size
      BY <1>0, <1>s, <2>3, <2>5 DEF Offsets, SizeT
    <3>5. \A f \in frames : f.at % Alignment = 0  BY DEF FramesSound
    <3>6. \A f \in frames' : f.at % Alignment = 0 /\ f.at + f.len <= top
                             /\ f.at + f.len <= scratch.max_size
      BY <2>6, <3>3, <3>4, <3>5
    <3>7. ASSUME NEW f \in frames', NEW g \in frames', f # g
          PROVE  f.at + f.len <= g.at \/ g.at + g.len <= f.at
      <4>1. CASE f \in frames /\ g \in frames  BY <3>7, <4>1 DEF FramesSound
      <4>2. CASE f \in frames /\ g = new  BY <3>1, <4>2, <2>5
      <4>3. CASE f = new /\ g \in frames  BY <3>1, <4>3, <2>5
      <4> QED  BY <2>6, <3>7, <4>1, <4>2, <4>3
    <3> QED  BY <2>4, <3>6, <3>7 DEF FramesSound
  <2>9. MarksSound'
    <3> SUFFICES ASSUME NEW m \in marks, ~m.stale
                 PROVE  /\ m.at <= top
                        /\ m.live = {f \in frames' : f.at + f.len <= m.at}
      BY <1>m, <2>4 DEF MarksSound
    <3>1. m.at \in Nat /\ m.at <= scratch.alloc_size
          /\ m.live = {f \in frames : f.at + f.len <= m.at}
      BY DEF MarksSound, TypeOK, Mark, SizeT
    <3>2. request > 0 => ~(new.at + new.len <= m.at)
      BY <1>0, <1>s, <2>5, <3>1 DEF SizeT
    <3>3. m.at <= top  BY <1>0, <1>s, <2>3, <3>1 DEF SizeT
    <3>4. frames \subseteq frames'  BY <2>1
    <3>5. {f \in frames' : f.at + f.len <= m.at} = {f \in frames : f.at + f.len <= m.at}
      BY <2>6, <3>2, <3>4
    <3> QED  BY <3>1, <3>3, <3>5
  <2>10. Offsets'
    <3>1. top % Alignment = 0
      BY <1>r, <1>s, ModAdd DEF Offsets, top, SizeT
    <3>2. \A f \in frames' : f.len > 0  BY <2>5, <2>6 DEF Offsets
    <3> QED  BY <1>m, <2>3, <2>4, <3>1, <3>2 DEF Offsets
  <2> QED  BY <2>7, <2>8, <2>9, <2>10
<1> QED  BY <1>1, <1>2

LEMMA NextIInv == IInv /\ [Next]_vars => IInv'
<1> SUFFICES ASSUME IInv, [Next]_vars PROVE IInv'  OBVIOUS
<1>1. ASSUME NEW request \in Sizes, Create(request) PROVE IInv'  BY <1>1, CreateIInv
<1>2. CASE Destroy  BY <1>2, DestroyIInv
<1>3. CASE Checkpoint  BY <1>3, CheckpointIInv
<1>4. ASSUME NEW checkpoint \in Given, ApplyCheckpoint(checkpoint) PROVE IInv'
  BY <1>4, ApplyCheckpointIInv
<1>5. ASSUME NEW request \in Sizes, Alloc(request) PROVE IInv'  BY <1>5, AllocIInv
<1>6. CASE UNCHANGED vars
  BY <1>6 DEF vars, IInv, TypeOK, FramesSound, MarksSound, Offsets, IsScratch
<1> QED  BY <1>1, <1>2, <1>3, <1>4, <1>5, <1>6 DEF Next, Given

\* The state of the scratch space keeps its types.
THEOREM ScratchTypeOK == Spec => []TypeOK
<1>1. IInv => TypeOK  BY DEF IInv
<1> QED  BY InitIInv, NextIInv, <1>1, PTL DEF Spec

\* Frames that callers own are aligned, in bounds and pairwise disjoint.
THEOREM ScratchFramesSound == Spec => []FramesSound
<1>1. IInv => FramesSound  BY DEF IInv
<1> QED  BY InitIInv, NextIInv, <1>1, PTL DEF Spec

\* A checkpoint nobody rolled back past stands for the frames live at its time.
THEOREM ScratchMarksSound == Spec => []MarksSound
<1>1. IInv => MarksSound  BY DEF IInv
<1> QED  BY InitIInv, NextIInv, <1>1, PTL DEF Spec

\* Applying such a checkpoint undoes exactly the allocations made since.
THEOREM ScratchCheckpointUndoes == Spec => CheckpointUndoes
<1> DEFINE A == \A m \in marks :
                  (~m.stale /\ IsScratch /\ ApplyCheckpoint(m.at)) => frames' = m.live
<1>1. IInv => [A]_vars
  <2> SUFFICES ASSUME IInv, NEW m \in marks,
                      ~m.stale, IsScratch, ApplyCheckpoint(m.at)
               PROVE  frames' = m.live
    OBVIOUS
  <2>1. m.at <= scratch.alloc_size /\ m.at \in Nat /\ scratch.alloc_size \in Nat
    BY DEF IInv, MarksSound, TypeOK, Mark, Struct, SizeT
  <2>2. frames' = {f \in frames : f.at + f.len <= m.at}
    BY <2>1 DEF ApplyCheckpoint
  <2> QED  BY <2>2 DEF IInv, MarksSound
<1> QED  BY InitIInv, NextIInv, <1>1, PTL DEF Spec, CheckpointUndoes

\* n = 1 and 2 requests within max_allocation(n) all succeed.
THEOREM ScratchMaxAllocationHonest == Spec => []MaxAllocationHonest
<1>1. IInv => MaxAllocationHonest
  <2> SUFFICES ASSUME IInv, IsScratch
               PROVE  /\ \A a \in Sizes : a <= MaxAllocation(1) => AllocFits(a)
                      /\ \A a, b \in Sizes : a + b <= MaxAllocation(2) =>
                            /\ AllocFits(a) /\ AllocFits(b)
                            /\ RoundToAlign(a) + RoundToAlign(b) <= FreeSize
    BY DEF MaxAllocationHonest
  <2>1. FreeSize \in Nat /\ Alignment \in Nat \ {0} /\ Sizes \subseteq Nat
    BY ScratchAssumption DEF IInv, TypeOK, Struct, SizeT, Offsets, FreeSize
  <2>2. MaxAllocation(1) = 0 \/ MaxAllocation(1) = FreeSize - (Alignment - 1)
    BY <2>1 DEF MaxAllocation
  <2>3. MaxAllocation(2) = 0 \/ MaxAllocation(2) = FreeSize - 2 * (Alignment - 1)
    BY <2>1 DEF MaxAllocation
  <2>4. ASSUME NEW a \in Sizes, a <= MaxAllocation(1) PROVE AllocFits(a)
    BY <2>1, <2>2, <2>4, OneFits
  <2>5. ASSUME NEW a \in Sizes, NEW b \in Sizes, a + b <= MaxAllocation(2)
        PROVE  /\ AllocFits(a) /\ AllocFits(b)
               /\ RoundToAlign(a) + RoundToAlign(b) <= FreeSize
    BY <2>1, <2>3, <2>5, BothFit
  <2> QED  BY <2>4, <2>5
<1> QED  BY InitIInv, NextIInv, <1>1, PTL DEF Spec

-----------------------------------------------------------------------------
(* The test runner: what the processes have in hand *)

Alive(w)   == worker[w] \in {"forked", "reading", "running"}
Holding(w) == worker[w] \in {"running", "aborted"}
Piped(t)   == \E j \in 1 .. Len(pipe) : pipe[j] = t
Started(t) == started[t] = 1

\* No test has begun.
Untouched == pipe = <<>> /\ passed = {} /\ (\A t \in Slots : started[t] = 0)
\* Once a worker has seen the end of the pipe, every test was started.
Contained == (\E w \in Workers : worker[w] = "exited") => \A t \in Slots : Started(t)

\* Every test that was started has passed; and no worker could read the pipe.
NoneFailed == \A t \in Slots : Started(t) => t \in passed
AllGaveUp  == \A w \in 1 .. num_processes : worker[w] = "gave_up"

WorkerStates == {"none", "forked", "reading", "running", "exited", "gave_up", "aborted"}
\* The values of the variables, and when tf_run has returned.
RunnerTypes ==
    /\ num_processes \in Jobs /\ size \in 1 .. MaxArgs /\ run_all \in BOOLEAN
    /\ pc \in {"no_rng", "setup", "sequential", "pipe", "fork", "write", "wait", "teardown", "gone"}
    /\ it \in Nat /\ status \in {0, 1} /\ failed \in BOOLEAN
    /\ exit \in {Running, Killed, 0, 1} /\ (exit = Running <=> pc # "gone")
    /\ worker \in [Workers -> WorkerStates]
    /\ idx \in [Workers -> Nat]
    /\ pipe \in Seq(Slots)
    /\ started \in [Slots -> {0, 1}] /\ passed \subseteq Slots
    /\ readers \subseteq Workers \cup {Parent} /\ writers \subseteq Workers \cup {Parent}

(***************************************************************************)
(* Every test is at one place: in the pipe and not started, in the hands   *)
(* of one worker, or passed.  No index is in the pipe twice.               *)
(***************************************************************************)
TestsInv ==
    /\ \A j, l \in 1 .. Len(pipe) : pipe[j] = pipe[l] => j = l
    /\ \A j \in 1 .. Len(pipe) : ~Started(pipe[j])
    /\ \A t \in passed : Started(t)
    /\ \A w \in Workers : Holding(w) =>
          idx[w] \in Slots /\ Started(idx[w]) /\ idx[w] \notin passed
    /\ \A w, v \in Workers : Holding(w) /\ Holding(v) /\ idx[w] = idx[v] => w = v
    /\ num_processes > 1 => \A t \in Slots : Started(t) =>
          t \in passed \/ \E w \in Workers : Holding(w) /\ idx[w] = t

(***************************************************************************)
(* Who holds the ends of the pipe: a worker that is alive reads, one that  *)
(* has not closed the write end could still write, and the parent keeps    *)
(* its own write end as long as it has indices to write.  A worker that    *)
(* sees the end of the pipe therefore sees it after the last index.        *)
(***************************************************************************)
EndsInv ==
    /\ \A w \in Workers : (w \in readers <=> Alive(w)) /\ (w \in writers <=> worker[w] = "forked")
    /\ pc \in {"fork", "write"} => Parent \in writers

\* The first n workers have been forked.
Forked(n) == \A w \in Workers : worker[w] = "none" <=> w > n

\* What holds at each place of the parent.
AtStart == Untouched /\ Forked(0) /\ status = 0 /\ ~failed
AtSequential ==
    /\ num_processes <= 1 /\ Forked(0) /\ status = 0 /\ ~failed /\ pipe = <<>>
    /\ it \in 0 .. size /\ passed = 0 .. it-1 /\ \A t \in Slots : Started(t) <=> t < it
Concurrent == num_processes > 1 /\ size <= MaxTargets
NoneExited == \A w \in Workers : worker[w] # "exited"
AtFork ==
    /\ Concurrent /\ Untouched /\ NoneExited /\ status = 0 /\ ~failed
    /\ it \in 0 .. num_processes /\ Forked(it)
AtWrite ==
    /\ Concurrent /\ NoneExited /\ status = 0 /\ ~failed
    /\ it \in 0 .. size /\ Forked(num_processes)
    /\ \A t \in Slots : IF t < it THEN Started(t) \/ Piped(t) ELSE ~Started(t) /\ ~Piped(t)
AtWait ==
    /\ Concurrent /\ it \in 0 .. num_processes /\ Forked(num_processes)
    /\ \A t \in Slots : Started(t) \/ Piped(t)
    /\ NoneExited \/ pipe = <<>>
    /\ failed => status = 1
    /\ ~failed => /\ \A w \in 1 .. it : Gone(w)
                  /\ status = 1 <=> \E w \in 1 .. it : worker[w] = "aborted"
AtTeardown ==
    IF failed THEN status = 1
    ELSE /\ \A w \in Workers : Gone(w)
         /\ passed = Slots => status = 0
         /\ status = 0 => NoneFailed /\ (passed = Slots \/ AllGaveUp)
         /\ Contained
AtGone ==
    /\ passed = Slots /\ ~failed => exit = 0
    /\ exit = 0 => ~failed /\ NoneFailed /\ (passed = Slots \/ AllGaveUp)
    /\ ~failed => (\A w \in Workers : Gone(w)) /\ Contained

Control ==
    /\ pc \in {"no_rng", "setup", "pipe"} => AtStart
    /\ pc = "pipe" => Concurrent
    /\ pc = "sequential" => AtSequential
    /\ pc = "fork" => AtFork
    /\ pc = "write" => AtWrite
    /\ pc = "wait" => AtWait
    /\ pc = "teardown" => AtTeardown
    /\ pc = "gone" => AtGone

(***************************************************************************)
(* The inductive invariant: what the parent has established at each place, *)
(* the place of every test, and the ends of the pipe.                      *)
(***************************************************************************)
RunnerInv == RunnerTypes /\ TestsInv /\ EndsInv /\ Control

LEMMA WorkerNumbers ==
    ASSUME RunnerTypes
    PROVE  /\ \A w \in Workers : w \in Nat /\ w # 0
           /\ Parent \notin Workers
           /\ num_processes \in Nat
           /\ \A w \in 1 .. num_processes : w \in Workers
<1>1. num_processes \in Jobs /\ Jobs \subseteq Nat  BY RunnerAssumption DEF RunnerTypes
<1>2. \A w \in Workers : w \in Nat /\ w # 0  BY <1>1 DEF Workers
<1> QED  BY <1>1, <1>2 DEF Workers, Parent

LEMMA RunnerInitInv == RunnerInit => RunnerInv
<1> SUFFICES ASSUME RunnerInit PROVE RunnerInv  OBVIOUS
<1>1. pipe = <<>> /\ Len(pipe) = 0 /\ pipe \in Seq(Slots)  BY DEF RunnerInit
<1>2. RunnerTypes
  BY <1>1, RunnerAssumption DEF RunnerInit, RunnerTypes, WorkerStates, Running, Killed, Slots
<1>3. \A t \in Slots : started[t] = 0  BY DEF RunnerInit
<1>4. TestsInv  BY <1>1, <1>3 DEF RunnerInit, TestsInv, Holding, Started
<1>5. EndsInv  BY DEF RunnerInit, EndsInv, Alive
<1>6. AtStart
  BY <1>3, <1>2, WorkerNumbers DEF RunnerInit, AtStart, Untouched, Forked
<1> QED  BY <1>2, <1>4, <1>5, <1>6 DEF RunnerInv, Control, RunnerInit

-----------------------------------------------------------------------------
(* The parent.  What the workers, the pipe and the tests do is unchanged   *)
(* by most of its steps.                                                   *)

\* A step that leaves workers, pipe and tests alone.
LEMMA SameTests ==
    ASSUME TestsInv, UNCHANGED <<config, worker, idx, pipe, tests>>
    PROVE  TestsInv'
BY DEF TestsInv, Holding, Started, Slots, config, tests

\* No test is started and no index moves.
SameSlots ==
    Slots' = Slots /\ \A t \in Slots : (Started(t)' <=> Started(t)) /\ (Piped(t)' <=> Piped(t))

\* A step that leaves pipe and tests alone.
LEMMA SlotsKept == ASSUME UNCHANGED <<config, pipe, tests>> PROVE SameSlots
BY DEF SameSlots, Slots, Started, Piped, config, tests

LEMMA NoRngInv == ASSUME RunnerInv, NoRng PROVE RunnerInv'
<1> USE DEF RunnerInv, NoRng, config, tests, ends
<1>1. TestsInv'  BY SameTests
<1>2. AtStart  BY DEF Control
<1>3. CASE Goto("setup") /\ UNCHANGED <<exit, ends>>
  <2>1. RunnerTypes'  BY <1>3 DEF RunnerTypes, Goto, Slots
  <2>2. EndsInv'  BY <1>3 DEF EndsInv, Alive, Goto
  <2>3. AtStart'
    BY <1>2 DEF AtStart, Untouched, Forked, Slots
  <2>4. Control'  BY <1>3, <2>3 DEF Control, Goto
  <2> QED  BY <1>1, <2>1, <2>2, <2>4
<1>4. CASE run_all /\ Exit(Killed) /\ UNCHANGED it
  <2>1. RunnerTypes'  BY <1>4 DEF RunnerTypes, Exit, Slots, Running, Killed
  <2>2. EndsInv'  BY <1>4, WorkerNumbers DEF EndsInv, Alive, Exit
  <2>3. passed # Slots
    <3>1. size \in Nat /\ size > 0  BY RunnerAssumption DEF RunnerTypes
    <3>2. 0 \in Slots  BY <3>1 DEF Slots
    <3> QED  BY <1>2, <3>2 DEF AtStart, Untouched
  <2>4. \A w \in Workers : worker[w] = "none"  BY <1>2, WorkerNumbers DEF AtStart, Forked
  <2>5. AtGone'  BY <1>4, <2>3, <2>4 DEF AtGone, Exit, Killed, Gone, Contained, Slots
  <2> QED  BY <1>1, <1>4, <2>1, <2>2, <2>5 DEF Control, Exit
<1> QED  BY <1>3, <1>4

LEMMA SetupInv == ASSUME RunnerInv, Setup PROVE RunnerInv'
<1> USE DEF RunnerInv, Setup, config, tests, ends
<1>1. TestsInv'  BY SameTests
<1>2. AtStart  BY DEF Control
<1>3. size \in Nat /\ size > 0 /\ num_processes \in Nat /\ MaxTargets \in Nat
  BY RunnerAssumption, WorkerNumbers DEF RunnerTypes
<1>4. \A w \in Workers : worker[w] = "none"  BY <1>2, WorkerNumbers DEF AtStart, Forked
<1>5. CASE num_processes <= 1 /\ Goto("sequential") /\ UNCHANGED <<exit, failed, ends>>
  <2>1. RunnerTypes'  BY <1>5 DEF RunnerTypes, Goto, Slots
  <2>2. EndsInv'  BY <1>5 DEF EndsInv, Alive, Goto
  <2>3. AtSequential'
    BY <1>2, <1>3, <1>5 DEF AtStart, AtSequential, Untouched, Forked, Started, Slots, Goto
  <2> QED  BY <1>1, <1>5, <2>1, <2>2, <2>3 DEF Control, Goto
<1>6. CASE /\ num_processes > 1 /\ size <= MaxTargets
           /\ Goto("pipe") /\ UNCHANGED <<exit, failed, ends>>
  <2>1. RunnerTypes'  BY <1>6 DEF RunnerTypes, Goto, Slots
  <2>2. EndsInv'  BY <1>6 DEF EndsInv, Alive, Goto
  <2>3. AtStart' /\ Concurrent'
    BY <1>2, <1>6 DEF AtStart, Untouched, Forked, Slots, Concurrent
  <2> QED  BY <1>1, <1>6, <2>1, <2>2, <2>3 DEF Control, Goto
<1>7. CASE Exit(1) /\ failed' = TRUE /\ UNCHANGED it
  <2>1. RunnerTypes'  BY <1>7 DEF RunnerTypes, Exit, Slots, Running
  <2>2. EndsInv'  BY <1>7, WorkerNumbers DEF EndsInv, Alive, Exit
  <2>3. AtGone'  BY <1>7 DEF AtGone, Exit
  <2> QED  BY <1>1, <1>7, <2>1, <2>2, <2>3 DEF Control, Exit
<1>8. CASE IF num_processes <= 1
                THEN Goto("sequential") /\ UNCHANGED <<exit, failed, ends>>
                ELSE IF size > MaxTargets
                THEN Exit(1) /\ failed' = TRUE /\ UNCHANGED it
                ELSE Goto("pipe") /\ UNCHANGED <<exit, failed, ends>>
  <2>1. CASE num_processes <= 1  BY <1>5, <1>8, <2>1
  <2>2. CASE ~(num_processes <= 1) /\ size > MaxTargets  BY <1>7, <1>8, <2>2
  <2>3. CASE ~(num_processes <= 1) /\ ~(size > MaxTargets)
    <3>1. num_processes > 1 /\ size <= MaxTargets  BY <1>3, <2>3
    <3> QED  BY <1>6, <1>8, <2>3, <3>1
  <2> QED  BY <2>1, <2>2, <2>3
<1> QED  BY <1>7, <1>8

LEMMA RunNextInv == ASSUME RunnerInv, RunNext PROVE RunnerInv'
<1> USE DEF RunnerInv, RunNext, config, ends
<1>1. AtSequential  BY DEF Control
<1>2. /\ size \in Nat /\ it \in Nat /\ it < size /\ it \in Slots /\ Slots' = Slots
      /\ started \in [Slots -> {0, 1}] /\ ~Started(it) /\ passed \subseteq Slots
  BY <1>1, RunnerAssumption DEF RunnerTypes, AtSequential, Slots
<1>3. started[it] = 0  BY <1>2 DEF Started
<1>4. /\ started' \in [Slots -> {0, 1}]
      /\ \A t \in Slots : Started(t)' <=> Started(t) \/ t = it
  BY <1>2, <1>3 DEF Started
<1>5. \A w \in Workers : worker[w] = "none"  BY <1>1, WorkerNumbers DEF AtSequential, Forked
<1>6. ~(num_processes > 1) /\ pipe = <<>> /\ Len(pipe) = 0
  BY <1>1, WorkerNumbers DEF AtSequential
<1>7. CASE passed' = passed \cup {it} /\ it' = it + 1 /\ UNCHANGED <<pc, exit, ends>>
  <2>1. RunnerTypes'  BY <1>2, <1>4, <1>7 DEF RunnerTypes
  <2>2. EndsInv'  BY <1>7 DEF EndsInv, Alive
  <2>3. TestsInv'  BY <1>2, <1>4, <1>5, <1>6, <1>7 DEF TestsInv, Holding
  <2>4. passed' = 0 .. it'-1  BY <1>1, <1>2, <1>7 DEF AtSequential
  <2>5. \A t \in Slots : Started(t)' <=> t < it'
    BY <1>1, <1>2, <1>4, <1>7 DEF AtSequential, Slots
  <2>6. AtSequential'  BY <1>1, <1>2, <1>7, <2>4, <2>5 DEF AtSequential, Forked
  <2> QED  BY <1>7, <2>1, <2>2, <2>3, <2>6 DEF Control
<1>8. CASE Exit(Killed) /\ UNCHANGED <<passed, it>>
  <2>1. RunnerTypes'  BY <1>2, <1>4, <1>8 DEF RunnerTypes, Exit, Running, Killed
  <2>2. EndsInv'  BY <1>8, WorkerNumbers DEF EndsInv, Alive, Exit
  <2>3. TestsInv'  BY <1>2, <1>4, <1>5, <1>6, <1>8 DEF TestsInv, Holding
  <2>4. passed # Slots  BY <1>1, <1>2 DEF AtSequential
  <2>5. AtGone'  BY <1>2, <1>5, <1>8, <2>4 DEF AtGone, Exit, Killed, Gone, Contained
  <2> QED  BY <1>8, <2>1, <2>2, <2>3, <2>5 DEF Control, Exit
<1> QED  BY <1>7, <1>8

LEMMA SequentialDoneInv == ASSUME RunnerInv, SequentialDone PROVE RunnerInv'
<1> USE DEF RunnerInv, SequentialDone, config, tests, ends
<1>1. AtSequential  BY DEF Control
<1>2. TestsInv'  BY SameTests
<1>3. RunnerTypes'  BY DEF RunnerTypes, Goto, Slots
<1>4. EndsInv'  BY DEF EndsInv, Alive, Goto
<1>5. \A w \in Workers : worker[w] = "none"  BY <1>1, WorkerNumbers DEF AtSequential, Forked
<1>6. passed = Slots  BY <1>1 DEF AtSequential, Slots
<1>7. AtTeardown'
  BY <1>1, <1>5, <1>6 DEF AtSequential, AtTeardown, Gone, Contained, Slots, NoneFailed
<1> QED  BY <1>2, <1>3, <1>4, <1>7 DEF Control, Goto

LEMMA TeardownInv == ASSUME RunnerInv, Teardown PROVE RunnerInv'
<1> USE DEF RunnerInv, Teardown, config, tests, ends
<1>1. AtTeardown  BY DEF Control
<1>2. TestsInv'  BY SameTests
<1>3. CASE Exit(status) /\ UNCHANGED failed
  <2>1. RunnerTypes'  BY <1>3 DEF RunnerTypes, Exit, Slots, Running, Killed
  <2>2. EndsInv'  BY <1>3, WorkerNumbers DEF EndsInv, Alive, Exit
  <2>3. /\ Slots' = Slots /\ (Contained => Contained') /\ \A w \in Workers : Gone(w)' <=> Gone(w)
        /\ (NoneFailed => NoneFailed') /\ (AllGaveUp => AllGaveUp')
    BY DEF Slots, Contained, Gone, Started, NoneFailed, AllGaveUp
  <2>4. AtGone'  BY <1>1, <1>3, <2>3 DEF AtTeardown, AtGone, Exit, RunnerTypes
  <2> QED  BY <1>2, <1>3, <2>1, <2>2, <2>4 DEF Control, Exit
<1>4. CASE Exit(1) /\ failed' = TRUE
  <2>1. RunnerTypes'  BY <1>4 DEF RunnerTypes, Exit, Slots, Running
  <2>2. EndsInv'  BY <1>4, WorkerNumbers DEF EndsInv, Alive, Exit
  <2>3. AtGone'  BY <1>4 DEF AtGone, Exit
  <2> QED  BY <1>2, <1>4, <2>1, <2>2, <2>3 DEF Control, Exit
<1> QED  BY <1>3, <1>4

\* A failed system call.
LEMMA FailInv ==
    ASSUME RunnerInv, Fail, UNCHANGED <<config, exit, worker, idx, pipe, ends, tests>>, pc # "gone"
    PROVE  RunnerInv'
<1> USE DEF RunnerInv, Fail, config, tests, ends
<1>1. TestsInv'  BY SameTests
<1>2. RunnerTypes'  BY DEF RunnerTypes, Goto, Slots
<1>3. EndsInv'  BY DEF EndsInv, Alive, Goto
<1>4. AtTeardown'  BY DEF AtTeardown
<1> QED  BY <1>1, <1>2, <1>3, <1>4 DEF Control, Goto

LEMMA PipeInv == ASSUME RunnerInv, Pipe PROVE RunnerInv'
<1> USE DEF RunnerInv, Pipe, config, tests, ends
<1>1. AtStart /\ Concurrent  BY DEF Control
<1>2. CASE Fail /\ UNCHANGED ends  BY <1>2, FailInv
<1>3. CASE /\ Goto("fork")
           /\ readers' = {Parent} /\ writers' = {Parent}
           /\ UNCHANGED <<status, failed>>
  <2>1. TestsInv'  BY SameTests
  <2>2. RunnerTypes'  BY <1>3 DEF RunnerTypes, Goto, Slots
  <2>3. \A w \in Workers : worker[w] = "none"  BY <1>1, WorkerNumbers DEF AtStart, Forked
  <2>4. EndsInv'  BY <1>3, <2>3, WorkerNumbers DEF EndsInv, Alive
  <2>5. AtFork'
    BY <1>1, <1>3, <2>3, WorkerNumbers
    DEF AtStart, AtFork, Concurrent, Untouched, NoneExited, Goto, Forked, Slots
  <2> QED  BY <1>3, <2>1, <2>2, <2>4, <2>5 DEF Control, Goto
<1> QED  BY <1>2, <1>3

LEMMA ForkInv == ASSUME RunnerInv, Fork PROVE RunnerInv'
<1> USE DEF RunnerInv, Fork, config, tests, ends
<1>1. AtFork  BY DEF Control
<1>2. CASE Fail /\ UNCHANGED <<worker, ends>>  BY <1>2, FailInv
<1>3. CASE /\ worker' = [worker EXCEPT ![it + 1] = "forked"]
           /\ readers' = readers \cup {it + 1}
           /\ writers' = writers \cup {it + 1}
           /\ it' = it + 1
           /\ UNCHANGED <<pc, status, failed>>
  <2>1. it \in Nat /\ it + 1 \in Workers /\ it + 1 # Parent /\ num_processes \in Nat
    BY WorkerNumbers DEF RunnerTypes, Parent
  <2>2. worker[it + 1] = "none"
    BY <1>1, <2>1 DEF AtFork, Forked
  <2>3. \A w \in Workers : worker'[w] = IF w = it + 1 THEN "forked" ELSE worker[w]
    BY <1>3, <2>1 DEF RunnerTypes
  <2>4. RunnerTypes'  BY <1>3, <2>1 DEF RunnerTypes, WorkerStates, Slots
  <2>5. \A w \in Workers : Holding(w)' <=> Holding(w)  BY <2>2, <2>3 DEF Holding
  <2>6. TestsInv'  BY <1>3, <2>5 DEF TestsInv, Started, Slots
  <2>7. EndsInv'  BY <1>3, <2>1, <2>2, <2>3 DEF EndsInv, Alive
  <2>8. Forked(it)'
    <3> SUFFICES ASSUME NEW w \in Workers PROVE worker'[w] = "none" <=> w > it + 1
      BY <1>3 DEF Forked
    <3>1. worker[w] = "none" <=> w > it  BY <1>1 DEF AtFork, Forked
    <3>2. w \in Nat  BY WorkerNumbers
    <3> QED  BY <2>1, <2>3, <3>1, <3>2
  <2>9. AtFork'
    BY <1>1, <1>3, <2>1, <2>3, <2>8 DEF AtFork, Concurrent, Untouched, NoneExited, Slots
  <2> QED  BY <1>3, <2>4, <2>6, <2>7, <2>9 DEF Control
<1> QED  BY <1>2, <1>3

LEMMA CloseReadInv == ASSUME RunnerInv, CloseRead PROVE RunnerInv'
<1> USE DEF RunnerInv, CloseRead, config, tests, ends
<1>1. AtFork  BY DEF Control
<1>2. TestsInv'  BY SameTests
<1>3. RunnerTypes'  BY DEF RunnerTypes, Goto, Slots
<1>4. EndsInv'  BY WorkerNumbers DEF EndsInv, Alive, Goto
<1>5. Len(pipe) = 0 /\ size \in Nat  BY <1>1, RunnerAssumption DEF AtFork, Untouched, RunnerTypes
<1>6. \A t \in Slots : ~Started(t)' /\ ~Piped(t)' /\ ~(t < 0)
  BY <1>1, <1>5 DEF AtFork, Untouched, Started, Piped, Slots
<1>7. Slots' = Slots  BY DEF Slots
<1>8. AtWrite'
  BY <1>1, <1>5, <1>6, <1>7 DEF AtFork, AtWrite, Concurrent, NoneExited, Forked, Goto
<1> QED  BY <1>2, <1>3, <1>4, <1>8 DEF Control, Goto

LEMMA WriteInv == ASSUME RunnerInv, Write PROVE RunnerInv'
<1> USE DEF RunnerInv, Write, config, tests
<1>1. AtWrite  BY DEF Control
<1>2. /\ size \in Nat /\ it \in Nat /\ it < size /\ it \in Slots /\ Slots' = Slots
      /\ ~Started(it) /\ ~Piped(it) /\ pipe \in Seq(Slots)
  BY <1>1, RunnerAssumption DEF RunnerTypes, AtWrite, Slots
<1>3. CASE /\ readers # {} /\ Len(pipe) < PipeCapacity
           /\ pipe' = Append(pipe, it % ByteSize)
           /\ it' = it + 1
           /\ UNCHANGED <<pc, exit, ends>>
  <2>1. it % ByteSize = it
    <3>1. size <= MaxTargets /\ MaxTargets < ByteSize /\ MaxTargets \in Nat /\ ByteSize \in Nat
      BY <1>1, RunnerAssumption DEF AtWrite, Concurrent
    <3> QED  BY <1>2, <3>1
  <2>2. pipe' = Append(pipe, it)  BY <1>3, <2>1
  <2>3. /\ Len(pipe') = Len(pipe) + 1 /\ Len(pipe) \in Nat
        /\ pipe' \in Seq(Slots)
        /\ \A j \in 1 .. Len(pipe) : pipe'[j] = pipe[j]
        /\ pipe'[Len(pipe) + 1] = it
    BY <1>2, <2>2
  <2>4. \A t \in Slots : Piped(t)' <=> Piped(t) \/ t = it
    <3> SUFFICES ASSUME NEW t \in Slots PROVE Piped(t)' <=> Piped(t) \/ t = it  OBVIOUS
    <3>1. ASSUME NEW j \in 1 .. Len(pipe) + 1 PROVE pipe'[j] = t => Piped(t) \/ t = it
      BY <2>3 DEF Piped
    <3>2. ASSUME NEW j \in 1 .. Len(pipe), pipe[j] = t PROVE j \in 1 .. Len(pipe') /\ pipe'[j] = t
      BY <2>3, <3>2
    <3>3. Len(pipe) + 1 \in 1 .. Len(pipe')  BY <2>3
    <3> QED  BY <2>3, <3>1, <3>2, <3>3 DEF Piped
  <2>5. \A t \in Slots : Started(t)' <=> Started(t)  BY DEF Started
  <2>6. RunnerTypes'  BY <1>2, <1>3, <2>3 DEF RunnerTypes, ends
  <2>7. EndsInv'  BY <1>3 DEF EndsInv, Alive, ends
  <2>8. \A j \in 1 .. Len(pipe) : pipe[j] \in Slots /\ ~Started(pipe[j]) /\ pipe[j] # it
    BY <1>2, <2>3 DEF TestsInv, Piped
  <2>9. \A j \in 1 .. Len(pipe') : j \in 1 .. Len(pipe) \/ j = Len(pipe) + 1  BY <2>3
  <2>10. \A j, l \in 1 .. Len(pipe') : pipe'[j] = pipe'[l] => j = l
    <3> SUFFICES ASSUME NEW j \in 1 .. Len(pipe'), NEW l \in 1 .. Len(pipe'), pipe'[j] = pipe'[l]
                 PROVE  j = l
      OBVIOUS
    <3>1. CASE j \in 1 .. Len(pipe) /\ l \in 1 .. Len(pipe)
      <4>1. pipe[j] = pipe[l]  BY <2>3, <3>1
      <4> QED  BY <3>1, <4>1 DEF TestsInv
    <3>2. CASE j = Len(pipe) + 1 /\ l \in 1 .. Len(pipe)
      <4>1. pipe'[j] = it /\ pipe'[l] = pipe[l]  BY <2>3, <3>2
      <4> QED  BY <2>8, <3>2, <4>1
    <3>3. CASE j \in 1 .. Len(pipe) /\ l = Len(pipe) + 1
      <4>1. pipe'[l] = it /\ pipe'[j] = pipe[j]  BY <2>3, <3>3
      <4> QED  BY <2>8, <3>3, <4>1
    <3> QED  BY <2>9, <3>1, <3>2, <3>3
  <2>11. \A j \in 1 .. Len(pipe') : pipe'[j] \in Slots /\ started[pipe'[j]] # 1
    <3> SUFFICES ASSUME NEW j \in 1 .. Len(pipe')
                 PROVE  pipe'[j] \in Slots /\ started[pipe'[j]] # 1
      OBVIOUS
    <3>1. CASE j \in 1 .. Len(pipe)  BY <2>3, <2>8, <3>1 DEF Started
    <3>2. CASE j = Len(pipe) + 1  BY <1>2, <2>3, <3>2 DEF Started
    <3> QED  BY <2>9, <3>1, <3>2
  <2>12. TestsInv'  BY <1>2, <2>5, <2>10, <2>11 DEF TestsInv, Holding, Started
  <2>13. AtWrite'
    <3>1. ASSUME NEW t \in Slots
          PROVE  IF t < it + 1 THEN Started(t)' \/ Piped(t)' ELSE ~Started(t)' /\ ~Piped(t)'
      <4>1. t \in Nat  BY <1>2 DEF Slots
      <4>2. IF t < it THEN Started(t) \/ Piped(t) ELSE ~Started(t) /\ ~Piped(t)
        BY <1>1 DEF AtWrite
      <4>3. t < it + 1 <=> t < it \/ t = it  BY <1>2, <4>1
      <4>4. ~(it < it)  BY <1>2
      <4> QED  BY <2>4, <2>5, <4>2, <4>3, <4>4
    <3> QED  BY <1>1, <1>2, <1>3, <3>1 DEF AtWrite, Concurrent, NoneExited, Forked
  <2> QED  BY <1>3, <2>6, <2>7, <2>12, <2>13 DEF Control
<1>4. CASE readers = {} /\ Exit(Killed) /\ UNCHANGED <<it, pipe>>
  <2>1. TestsInv'  BY <1>4, SameTests
  <2>2. RunnerTypes'  BY <1>4 DEF RunnerTypes, Exit, Slots, Running, Killed
  <2>3. EndsInv'  BY <1>4, WorkerNumbers DEF EndsInv, Alive, Exit
  <2>4. \A w \in Workers : Gone(w) /\ worker[w] # "exited"
    BY <1>1, <1>4 DEF EndsInv, Alive, Gone, RunnerTypes, WorkerStates, AtWrite, NoneExited
  <2>5. it \notin passed  BY <1>2 DEF TestsInv
  <2>6. AtGone'  BY <1>2, <1>4, <2>4, <2>5 DEF AtGone, Exit, Killed, Gone, Contained
  <2> QED  BY <1>4, <2>1, <2>2, <2>3, <2>6 DEF Control, Exit
<1> QED  BY <1>3, <1>4

LEMMA WriteFailsInv == ASSUME RunnerInv, WriteFails PROVE RunnerInv'
<1> USE DEF RunnerInv, WriteFails, Fail, config, tests
<1>1. TestsInv'  BY SameTests
<1>2. RunnerTypes'  BY DEF RunnerTypes, Goto, Slots
<1>3. EndsInv'  BY WorkerNumbers DEF EndsInv, Alive, Goto
<1>4. AtTeardown'  BY DEF AtTeardown
<1> QED  BY <1>1, <1>2, <1>3, <1>4 DEF Control, Goto

LEMMA CloseWriteInv == ASSUME RunnerInv, CloseWrite PROVE RunnerInv'
<1> USE DEF RunnerInv, CloseWrite, config, tests
<1>1. AtWrite  BY DEF Control
<1>2. TestsInv'  BY SameTests
<1>3. RunnerTypes'  BY DEF RunnerTypes, Goto, Slots
<1>4. EndsInv'  BY WorkerNumbers DEF EndsInv, Alive, Goto
<1>5. SameSlots  BY SlotsKept
<1>6. \A t \in Slots : t < it /\ (Started(t) \/ Piped(t))
  BY <1>1, RunnerAssumption DEF AtWrite, Slots, RunnerTypes
<1>7. it' = 0 /\ 1 .. it' = {} /\ num_processes \in Nat  BY WorkerNumbers DEF Goto
<1>8. AtWait'
  BY <1>1, <1>5, <1>6, <1>7 DEF AtWrite, AtWait, Concurrent, NoneExited, Forked, SameSlots
<1> QED  BY <1>2, <1>3, <1>4, <1>8 DEF Control, Goto

LEMMA WaitInv == ASSUME RunnerInv, Wait PROVE RunnerInv'
<1> USE DEF RunnerInv, Wait, config, tests, ends
<1>1. AtWait  BY DEF Control
<1>2. TestsInv'  BY SameTests
<1>3. it \in Nat /\ num_processes \in Nat /\ it + 1 \in Workers  BY WorkerNumbers DEF RunnerTypes
<1>4. RunnerTypes'  BY <1>3 DEF RunnerTypes, Slots
<1>5. EndsInv'  BY DEF EndsInv, Alive
<1>6. SameSlots  BY SlotsKept
<1>7. \A w \in 1 .. it + 1 : w \in 1 .. it \/ w = it + 1  BY <1>3
<1>8. \A w \in 1 .. it : w \in 1 .. it + 1  BY <1>3
<1>9. it + 1 \in 1 .. it + 1  BY <1>3
<1>10. ~failed => \A w \in 1 .. it' : Gone(w)'  BY <1>1, <1>7 DEF AtWait, Gone
<1>11. ~failed => (status' = 1 <=> \E w \in 1 .. it' : worker'[w] = "aborted")
  BY <1>1, <1>7, <1>8, <1>9 DEF AtWait
<1>12. AtWait'
  BY <1>1, <1>3, <1>6, <1>10, <1>11 DEF AtWait, Concurrent, NoneExited, Forked, SameSlots
<1> QED  BY <1>2, <1>4, <1>5, <1>12 DEF Control

LEMMA WaitFailsInv == ASSUME RunnerInv, WaitFails PROVE RunnerInv'
<1> USE DEF RunnerInv, WaitFails, config, tests, ends
<1>1. AtWait  BY DEF Control
<1>2. TestsInv'  BY SameTests
<1>3. it \in Nat /\ num_processes \in Nat  BY WorkerNumbers DEF RunnerTypes
<1>4. RunnerTypes'  BY <1>3 DEF RunnerTypes, Slots
<1>5. EndsInv'  BY DEF EndsInv, Alive
<1>6. SameSlots  BY SlotsKept
<1>7. AtWait'  BY <1>1, <1>3, <1>6 DEF AtWait, Concurrent, NoneExited, Forked, SameSlots
<1> QED  BY <1>2, <1>4, <1>5, <1>7 DEF Control

LEMMA WaitDoneInv == ASSUME RunnerInv, WaitDone PROVE RunnerInv'
<1> USE DEF RunnerInv, WaitDone, config, tests, ends
<1>1. AtWait  BY DEF Control
<1>2. TestsInv'  BY SameTests
<1>3. RunnerTypes'  BY DEF RunnerTypes, Goto, Slots
<1>4. EndsInv'  BY DEF EndsInv, Alive, Goto
<1>5. num_processes \in Nat /\ num_processes > 1 /\ it = num_processes
  BY <1>1, WorkerNumbers DEF AtWait, Concurrent
<1>6. \A w \in Workers : worker[w] = "none" \/ w \in 1 .. it
  BY <1>1, <1>5, WorkerNumbers DEF AtWait, Forked
<1>7. ~failed => \A w \in Workers : Gone(w)  BY <1>1, <1>6 DEF AtWait, Gone
<1>8. \A w \in 1 .. it : w \in Workers /\ worker[w] # "none"
  <2> SUFFICES ASSUME NEW w \in 1 .. it PROVE w \in Workers /\ worker[w] # "none"  OBVIOUS
  <2>1. w \in Workers /\ ~(w > num_processes)  BY <1>5, WorkerNumbers
  <2> QED  BY <1>1, <2>1 DEF AtWait, Forked
<1>9. ASSUME NEW v \in Workers, worker[v] = "exited" PROVE \A t \in Slots : Started(t)
  <2>1. pipe = <<>> /\ Len(pipe) = 0  BY <1>1, <1>9 DEF AtWait, NoneExited
  <2> QED  BY <1>1, <2>1 DEF AtWait, Piped
<1>10. ~failed /\ status = 0 => NoneFailed /\ (passed = Slots \/ AllGaveUp)
  <2> SUFFICES ASSUME ~failed, status = 0 PROVE NoneFailed /\ (passed = Slots \/ AllGaveUp)
    OBVIOUS
  <2>1. \A w \in 1 .. it : worker[w] \in {"exited", "gave_up"}
    BY <1>1, <1>7, <1>8 DEF AtWait, Gone
  <2>2. \A w \in Workers : ~Holding(w)  BY <1>6, <2>1 DEF Holding
  <2>3. NoneFailed  BY <1>5, <2>2 DEF TestsInv, NoneFailed
  <2>4. ASSUME ~AllGaveUp PROVE passed = Slots
    <3>1. PICK w \in 1 .. it : worker[w] = "exited"  BY <1>5, <2>1, <2>4 DEF AllGaveUp
    <3>2. \A t \in Slots : Started(t)  BY <1>8, <1>9, <3>1
    <3> QED  BY <2>3, <3>2 DEF NoneFailed, RunnerTypes
  <2> QED  BY <2>3, <2>4
<1>11. ~failed /\ status = 1 => passed # Slots
  <2> SUFFICES ASSUME ~failed, status = 1 PROVE passed # Slots  OBVIOUS
  <2>1. PICK w \in 1 .. it : worker[w] = "aborted"  BY <1>1 DEF AtWait
  <2> QED  BY <1>8, <2>1 DEF TestsInv, Holding
<1>12. AtTeardown'
  <2>1. /\ Slots' = Slots /\ (Contained => Contained') /\ \A w \in Workers : Gone(w)' <=> Gone(w)
        /\ (NoneFailed => NoneFailed') /\ (AllGaveUp => AllGaveUp')
    BY DEF Slots, Contained, Gone, Started, NoneFailed, AllGaveUp
  <2>2. Contained  BY <1>9 DEF Contained
  <2> QED  BY <1>1, <1>7, <1>10, <1>11, <2>1, <2>2 DEF AtWait, AtTeardown, RunnerTypes
<1> QED  BY <1>2, <1>3, <1>4, <1>12 DEF Control, Goto

-----------------------------------------------------------------------------
(* The workers *)

\* What the parent's place says about the workers survives a step of worker w.
LEMMA WorkerControl ==
    ASSUME RunnerInv, NEW w \in Workers, Alive(w), UNCHANGED <<config, parent>>,
           NEW x \in {"reading", "running", "exited", "gave_up", "aborted"},
           worker' = [worker EXCEPT ![w] = x],
           pc \in {"fork", "write"} => x # "exited",
           pc = "fork" => Untouched',
           \A t \in Slots : Started(t)' \/ Piped(t)' <=> Started(t) \/ Piped(t),
           pc = "wait" => (NoneExited /\ x # "exited") \/ pipe' = <<>>
    PROVE  Control'
<1> USE DEF config, parent
<1>1. \A v \in Workers : worker'[v] = IF v = w THEN x ELSE worker[v]
  BY DEF RunnerInv, RunnerTypes
<1>2. \A v \in Workers : worker'[v] = "none" <=> worker[v] = "none"
  BY <1>1 DEF Alive
<1>3. \A n : Forked(n) => Forked(n)'  BY <1>2 DEF Forked
<1>4. NoneExited /\ x # "exited" => NoneExited'  BY <1>1 DEF NoneExited
<1>5. ~Gone(w) /\ w \in Nat /\ w # 0  BY WorkerNumbers DEF Alive, Gone, RunnerInv
<1>6. ~Forked(0)  BY <1>5 DEF Forked, Alive
<1>7. pc \notin {"no_rng", "setup", "pipe", "sequential"}
  BY <1>6 DEF RunnerInv, Control, AtStart, AtSequential
<1>8. Slots' = Slots  BY DEF Slots
<1>9. CASE pc = "fork"
  <2>1. AtFork  BY <1>9 DEF RunnerInv, Control
  <2>2. AtFork'  BY <1>3, <1>4, <1>9, <2>1 DEF AtFork, Concurrent
  <2> QED  BY <1>9, <2>2 DEF Control
<1>10. CASE pc = "write"
  <2>1. AtWrite  BY <1>10 DEF RunnerInv, Control
  <2>2. AtWrite'  BY <1>3, <1>4, <1>8, <1>10, <2>1 DEF AtWrite, Concurrent
  <2> QED  BY <1>10, <2>2 DEF Control
<1>11. CASE pc = "wait"
  <2>1. AtWait  BY <1>11 DEF RunnerInv, Control
  <2>2. it \in Nat /\ num_processes \in Nat  BY <2>1, WorkerNumbers DEF AtWait, RunnerInv
  <2>3. ~failed => \A v \in 1 .. it : v \in Workers /\ v # w
    BY <1>5, <2>1, <2>2, WorkerNumbers DEF AtWait, RunnerInv
  <2>4. ~failed => \A v \in 1 .. it : worker'[v] = worker[v]  BY <1>1, <2>3
  <2>5. ~failed => \A v \in 1 .. it' : Gone(v)'  BY <2>1, <2>4 DEF AtWait, Gone
  <2>6. ~failed => (status' = 1 <=> \E v \in 1 .. it' : worker'[v] = "aborted")
    BY <2>1, <2>4 DEF AtWait
  <2>7. NoneExited' \/ pipe' = <<>>  BY <1>4, <1>11
  <2>8. AtWait'  BY <1>3, <1>8, <2>1, <2>5, <2>6, <2>7 DEF AtWait, Concurrent
  <2> QED  BY <1>11, <2>8 DEF Control
<1>12. CASE pc = "teardown"
  <2>1. failed /\ status = 1  BY <1>5, <1>12 DEF RunnerInv, Control, AtTeardown
  <2> QED  BY <1>12, <2>1 DEF Control, AtTeardown
<1>13. CASE pc = "gone"
  <2>1. failed /\ exit # 0  BY <1>5, <1>13 DEF RunnerInv, Control, AtGone, RunnerTypes
  <2> QED  BY <1>13, <2>1 DEF Control, AtGone
<1> QED  BY <1>7, <1>9, <1>10, <1>11, <1>12, <1>13 DEF RunnerInv, RunnerTypes

\* The pipe is empty and nothing runs until the parent writes.
LEMMA NothingReadYet ==
    ASSUME RunnerInv, NEW w \in Workers, Alive(w), pc = "fork"
    PROVE  pipe = <<>> /\ Untouched /\ (Holding(w) => FALSE)
<1>1. Untouched  BY DEF RunnerInv, Control, AtFork
<1> QED  BY <1>1 DEF Untouched, RunnerInv, TestsInv, Started

LEMMA ChildCloseInv ==
    ASSUME RunnerInv, NEW w \in Workers, ChildClose(w)
    PROVE  RunnerInv'
<1> USE DEF ChildClose, config, parent, tests
<1>1. \A v \in Workers : worker'[v] = IF v = w THEN "reading" ELSE worker[v]
  BY DEF RunnerInv, RunnerTypes
<1>2. RunnerTypes'  BY DEF RunnerInv, RunnerTypes, WorkerStates, Slots
<1>3. \A v \in Workers : Holding(v)' <=> Holding(v)  BY <1>1 DEF Holding
<1>4. TestsInv'  BY <1>3 DEF RunnerInv, TestsInv, Started, Slots
<1>5. w \in writers => w # Parent  BY WorkerNumbers DEF RunnerInv
<1>6. EndsInv'  BY <1>1, <1>5 DEF RunnerInv, EndsInv, Alive
<1>7. Alive(w)  BY DEF Alive
<1>8. \A t \in Slots : Started(t)' \/ Piped(t)' <=> Started(t) \/ Piped(t)
  BY DEF Started, Piped
<1>9. pc = "fork" => Untouched'  BY <1>7, NothingReadYet DEF Untouched, Slots
<1>10. pc = "wait" => NoneExited \/ pipe' = <<>>
  BY DEF RunnerInv, Control, AtWait
<1>11. Control'  BY <1>7, <1>8, <1>9, <1>10, WorkerControl
<1> QED  BY <1>2, <1>4, <1>6, <1>11 DEF RunnerInv

LEMMA ReadInv ==
    ASSUME RunnerInv, NEW w \in Workers, Read(w)
    PROVE  RunnerInv'
<1> DEFINE t0 == Head(pipe)
<1>1. /\ pipe \in Seq(Slots) /\ pipe # <<>> /\ pipe' = Tail(pipe)
      /\ worker \in [Workers -> WorkerStates]
      /\ idx \in [Workers -> Nat] /\ started \in [Slots -> {0, 1}]
      /\ worker[w] = "reading" /\ Slots' = Slots
  BY DEF Read, RunnerInv, RunnerTypes, Slots, config
<1>2. /\ Len(pipe) \in Nat /\ Len(pipe) > 0 /\ t0 = pipe[1] /\ t0 \in Slots
      /\ pipe' \in Seq(Slots) /\ Len(pipe') = Len(pipe) - 1
      /\ \A j \in 1 .. Len(pipe') : j + 1 \in 1 .. Len(pipe) /\ pipe'[j] = pipe[j + 1]
  BY <1>1
<1>3. 1 \in 1 .. Len(pipe)  BY <1>2
<1>4. started[t0] = 0  BY <1>1, <1>2, <1>3 DEF RunnerInv, TestsInv, Started
<1>5. /\ \A v \in Workers : worker'[v] = IF v = w THEN "running" ELSE worker[v]
      /\ \A v \in Workers : idx'[v] = IF v = w THEN t0 ELSE idx[v]
      /\ \A t \in Slots : started'[t] = IF t = t0 THEN 1 ELSE started[t]
      /\ started' \in [Slots -> {0, 1}]
  BY <1>1, <1>2, <1>4 DEF Read
<1>6. t0 \in Nat  BY <1>2 DEF Slots
<1>7. RunnerTypes'
  <2>1. /\ worker' \in [Workers -> WorkerStates]
        /\ idx' \in [Workers -> Nat]
    BY <1>1, <1>6 DEF Read, WorkerStates
  <2> QED
    BY <1>1, <1>2, <1>5, <2>1 DEF RunnerInv, RunnerTypes, Read, config, parent, ends
<1>8. \A v \in Workers : Holding(v)' <=> Holding(v) \/ v = w  BY <1>1, <1>5 DEF Holding
<1>9. ~Holding(w)  BY <1>1 DEF Holding
<1>10. \A v \in Workers : Holding(v) => v # w /\ idx'[v] = idx[v] /\ idx[v] \in Slots
                                        /\ Started(idx[v]) /\ idx[v] # t0 /\ idx[v] \notin passed
  BY <1>4, <1>5, <1>9 DEF RunnerInv, TestsInv, Started
<1>11. t0 \notin passed  BY <1>4 DEF RunnerInv, TestsInv, Started
<1>12. \A t \in Slots : Started(t)' <=> Started(t) \/ t = t0  BY <1>4, <1>5 DEF Started
<1>13. \A t \in Slots : Piped(t)' <=> Piped(t) /\ t # t0
  <2> SUFFICES ASSUME NEW t \in Slots PROVE Piped(t)' <=> Piped(t) /\ t # t0  OBVIOUS
  <2>1. ASSUME NEW j \in 1 .. Len(pipe'), pipe'[j] = t PROVE Piped(t) /\ t # t0
    <3>1. j + 1 \in 1 .. Len(pipe) /\ pipe[j + 1] = t /\ j + 1 # 1  BY <1>2, <2>1
    <3>2. pipe[j + 1] # pipe[1]  BY <1>3, <3>1 DEF RunnerInv, TestsInv
    <3> QED  BY <1>2, <3>1, <3>2 DEF Piped
  <2>2. ASSUME NEW j \in 1 .. Len(pipe), pipe[j] = t, t # t0 PROVE Piped(t)'
    <3>1. j # 1  BY <1>2, <2>2
    <3>2. j - 1 \in 1 .. Len(pipe') /\ (j - 1) + 1 = j  BY <1>2, <3>1
    <3>3. pipe'[j - 1] = pipe[j]  BY <1>2, <3>2
    <3> QED  BY <2>2, <3>2, <3>3 DEF Piped
  <2> QED  BY <2>1, <2>2 DEF Piped
<1>14. TestsInv'
  <2>1. \A j, l \in 1 .. Len(pipe') : pipe'[j] = pipe'[l] => j = l
    <3> SUFFICES ASSUME NEW j \in 1 .. Len(pipe'), NEW l \in 1 .. Len(pipe'), pipe'[j] = pipe'[l]
                 PROVE  j = l
      OBVIOUS
    <3>1. /\ j + 1 \in 1 .. Len(pipe) /\ l + 1 \in 1 .. Len(pipe)
          /\ pipe[j + 1] = pipe[l + 1] /\ j \in Int /\ l \in Int
      BY <1>2
    <3>2. j + 1 = l + 1  BY <3>1 DEF RunnerInv, TestsInv
    <3> QED  BY <3>1, <3>2
  <2>2. \A j \in 1 .. Len(pipe') : started'[pipe'[j]] # 1
    <3> SUFFICES ASSUME NEW j \in 1 .. Len(pipe') PROVE started'[pipe'[j]] # 1  OBVIOUS
    <3>1. pipe'[j] \in Slots  BY <1>2
    <3>2. Piped(pipe'[j]) /\ pipe'[j] # t0  BY <1>13, <3>1 DEF Piped
    <3>3. ~Started(pipe'[j])  BY <3>2 DEF RunnerInv, TestsInv, Piped
    <3> QED  BY <1>5, <3>1, <3>2, <3>3 DEF Started
  <2>3. passed' = passed /\ num_processes' = num_processes /\ passed \subseteq Slots
    BY DEF Read, config, RunnerInv, RunnerTypes
  <2>4. \A t \in passed' : Started(t)'  BY <1>12, <2>3 DEF RunnerInv, TestsInv
  <2>5. \A v \in Workers : Holding(v)' =>
          idx'[v] \in Slots' /\ started'[idx'[v]] = 1 /\ idx'[v] \notin passed'
    <3> SUFFICES ASSUME NEW v \in Workers, Holding(v)'
                 PROVE  idx'[v] \in Slots /\ started'[idx'[v]] = 1 /\ idx'[v] \notin passed
      BY <1>1, <2>3 DEF Started
    <3>1. CASE v = w  BY <1>2, <1>5, <1>11, <3>1
    <3>2. CASE v # w
      <4>1. Holding(v)  BY <1>8, <3>2
      <4> QED  BY <1>5, <1>10, <4>1 DEF Started
    <3> QED  BY <3>1, <3>2
  <2>6. \A u, v \in Workers : Holding(u)' /\ Holding(v)' /\ idx'[u] = idx'[v] => u = v
    <3> SUFFICES ASSUME NEW u \in Workers, NEW v \in Workers,
                        Holding(u)', Holding(v)', idx'[u] = idx'[v]
                 PROVE  u = v
      OBVIOUS
    <3>1. (u = w \/ Holding(u)) /\ (v = w \/ Holding(v)) /\ idx'[w] = t0  BY <1>5, <1>8
    <3>2. CASE u = w \/ v = w  BY <1>10, <3>1, <3>2
    <3>3. CASE u # w /\ v # w
      <4>1. Holding(u) /\ Holding(v) /\ idx[u] = idx[v]  BY <1>10, <3>1, <3>3
      <4> QED  BY <4>1 DEF RunnerInv, TestsInv
    <3> QED  BY <3>2, <3>3
  <2>7. num_processes > 1 => \A t \in Slots : Started(t)' =>
          t \in passed \/ \E v \in Workers : Holding(v)' /\ idx'[v] = t
    <3> SUFFICES ASSUME num_processes > 1, NEW t \in Slots, Started(t)', t \notin passed
                 PROVE  \E v \in Workers : Holding(v)' /\ idx'[v] = t
      OBVIOUS
    <3>1. CASE t = t0  BY <1>5, <1>8, <3>1
    <3>2. CASE t # t0
      <4>1. Started(t)  BY <1>12, <3>2
      <4>2. PICK v \in Workers : Holding(v) /\ idx[v] = t  BY <4>1 DEF RunnerInv, TestsInv
      <4> QED  BY <1>8, <1>10, <4>2
    <3> QED  BY <3>1, <3>2
  <2> HIDE DEF t0
  <2> QED  BY <1>1, <2>1, <2>2, <2>3, <2>4, <2>5, <2>6, <2>7 DEF TestsInv, Started
<1>15. EndsInv'  BY <1>1, <1>5 DEF Read, RunnerInv, EndsInv, Alive, ends, parent
<1>16. Alive(w)  BY <1>1 DEF Alive
<1>17. \A t \in Slots : Started(t)' \/ Piped(t)' <=> Started(t) \/ Piped(t)
  <2>1. Piped(t0)  BY <1>2, <1>3 DEF Piped
  <2> QED  BY <1>12, <1>13, <2>1
<1>18. pc # "fork"  BY <1>1, <1>16, NothingReadYet
<1>19. pc = "wait" => NoneExited  BY <1>1 DEF RunnerInv, Control, AtWait
<1>20. Control'
  BY <1>16, <1>17, <1>18, <1>19, WorkerControl DEF Read
<1> QED  BY <1>7, <1>14, <1>15, <1>20 DEF RunnerInv

\* Worker w ends, in one of the three ways.
LEMMA LeavesInv ==
    ASSUME RunnerInv, NEW w \in Workers, Eof(w) \/ ReadFails(w) \/ TestAborts(w)
    PROVE  RunnerInv'
<1> USE DEF config, parent, tests
<1>1. /\ worker[w] \in {"reading", "running"}
      /\ readers' = readers \ {w}
      /\ UNCHANGED <<config, parent, idx, pipe, writers, tests>>
  BY DEF Eof, ReadFails, TestAborts
<1>2. PICK x \in {"exited", "gave_up", "aborted"} :
         /\ worker' = [worker EXCEPT ![w] = x]
         /\ x = "aborted" <=> worker[w] = "running"
         /\ x = "exited" => pipe = <<>> /\ writers = {}
  BY DEF Eof, ReadFails, TestAborts
<1>3. \A v \in Workers : worker'[v] = IF v = w THEN x ELSE worker[v]
  BY <1>2 DEF RunnerInv, RunnerTypes
<1>4. RunnerTypes'  BY <1>1, <1>2 DEF RunnerInv, RunnerTypes, WorkerStates, Slots
<1>5. \A v \in Workers : Holding(v)' <=> Holding(v)  BY <1>1, <1>2, <1>3 DEF Holding
<1>6. TestsInv'  BY <1>1, <1>5 DEF RunnerInv, TestsInv, Started, Slots
<1>7. EndsInv'  BY <1>1, <1>3, WorkerNumbers DEF RunnerInv, EndsInv, Alive
<1>8. Alive(w)  BY <1>1 DEF Alive
<1>9. \A t \in Slots : Started(t)' \/ Piped(t)' <=> Started(t) \/ Piped(t)
  BY <1>1 DEF Started, Piped
<1>10. pc \in {"fork", "write"} => x # "exited"  BY <1>2 DEF RunnerInv, EndsInv
<1>11. pc = "fork" => Untouched'  BY <1>1, <1>8, NothingReadYet DEF Untouched, Slots
<1>12. pc = "wait" => (NoneExited /\ x # "exited") \/ pipe' = <<>>
  BY <1>1, <1>2 DEF RunnerInv, Control, AtWait
<1>13. Control'  BY <1>1, <1>2, <1>8, <1>9, <1>10, <1>11, <1>12, WorkerControl
<1> QED  BY <1>4, <1>6, <1>7, <1>13 DEF RunnerInv

LEMMA TestPassesInv ==
    ASSUME RunnerInv, NEW w \in Workers, TestPasses(w)
    PROVE  RunnerInv'
<1> USE DEF TestPasses, config, parent, ends
<1>1. \A v \in Workers : worker'[v] = IF v = w THEN "reading" ELSE worker[v]
  BY DEF RunnerInv, RunnerTypes
<1>2. Holding(w) /\ idx[w] \in Slots /\ Started(idx[w])
  BY DEF Holding, RunnerInv, TestsInv
<1>3. RunnerTypes'  BY <1>2 DEF RunnerInv, RunnerTypes, WorkerStates, Slots
<1>4. \A v \in Workers : Holding(v)' <=> Holding(v) /\ v # w  BY <1>1 DEF Holding
<1>5. TestsInv'
  <2>1. Slots' = Slots /\ \A t : Started(t)' <=> Started(t)  BY DEF Slots, Started
  <2>2. \A v \in Workers : Holding(v)' => idx[v] # idx[w]
    BY <1>2, <1>4 DEF RunnerInv, TestsInv
  <2>3. \A v \in Workers : Holding(v)' =>
          idx[v] \in Slots /\ Started(idx[v]) /\ idx[v] \notin passed'
    BY <1>4, <2>2 DEF RunnerInv, TestsInv
  <2>4. num_processes > 1 => \A t \in Slots : Started(t) =>
          t \in passed' \/ \E v \in Workers : Holding(v)' /\ idx[v] = t
    <3> SUFFICES ASSUME num_processes > 1, NEW t \in Slots, Started(t), t \notin passed'
                 PROVE  \E v \in Workers : Holding(v)' /\ idx[v] = t
      OBVIOUS
    <3>1. t \notin passed /\ t # idx[w]  OBVIOUS
    <3>2. PICK v \in Workers : Holding(v) /\ idx[v] = t  BY <3>1 DEF RunnerInv, TestsInv
    <3> QED  BY <1>4, <3>1, <3>2
  <2>5. \A t \in passed' : Started(t)  BY <1>2 DEF RunnerInv, TestsInv
  <2>6. \A u, v \in Workers : Holding(u)' /\ Holding(v)' /\ idx[u] = idx[v] => u = v
    BY <1>4 DEF RunnerInv, TestsInv
  <2> QED  BY <2>1, <2>3, <2>4, <2>5, <2>6 DEF RunnerInv, TestsInv
<1>6. EndsInv'  BY <1>1 DEF RunnerInv, EndsInv, Alive
<1>7. Alive(w)  BY DEF Alive
<1>8. \A t \in Slots : Started(t)' \/ Piped(t)' <=> Started(t) \/ Piped(t)
  BY DEF Started, Piped
<1>9. pc # "fork"  BY <1>2, <1>7, NothingReadYet
<1>10. pc = "wait" => NoneExited \/ pipe' = <<>>
  BY DEF RunnerInv, Control, AtWait
<1>11. Control'  BY <1>7, <1>8, <1>9, <1>10, WorkerControl
<1> QED  BY <1>3, <1>5, <1>6, <1>11 DEF RunnerInv

LEMMA RunnerInvInductive == RunnerInv /\ [RunnerNext]_runnerVars => RunnerInv'
<1> SUFFICES ASSUME RunnerInv, [RunnerNext]_runnerVars PROVE RunnerInv'  OBVIOUS
<1>1. CASE ParentStep
  BY <1>1, NoRngInv, SetupInv, RunNextInv, SequentialDoneInv, TeardownInv, PipeInv,
     ForkInv, CloseReadInv, WriteInv, CloseWriteInv, WaitInv, WaitDoneInv DEF ParentStep
<1>2. CASE \E w \in Workers : WorkerStep(w)
  BY <1>2, ChildCloseInv, ReadInv, LeavesInv, TestPassesInv DEF WorkerStep
<1>3. CASE UNCHANGED runnerVars
  <2>1. UNCHANGED <<config, parent, worker, idx, pipe, ends, tests>>
    BY <1>3 DEF runnerVars
  <2> USE DEF config, parent, ends, tests
  <2>2. TestsInv'  BY <2>1, SameTests DEF RunnerInv
  <2>3. RunnerTypes' /\ EndsInv'  BY <2>1 DEF RunnerInv, RunnerTypes, EndsInv, Alive, Slots
  <2>4. Control'
    BY <2>1 DEF RunnerInv, Control, AtStart, AtSequential, Concurrent, AtFork, AtWrite, AtWait,
                AtTeardown, AtGone, Untouched, Forked, NoneExited, Contained, Gone, Started, Piped,
                Slots, NoneFailed, AllGaveUp
  <2> QED  BY <2>2, <2>3, <2>4 DEF RunnerInv
<1>4. CASE CallFails
  BY <1>4, WriteFailsInv, WaitFailsInv, LeavesInv DEF CallFails
<1> QED  BY <1>1, <1>2, <1>3, <1>4 DEF RunnerNext, Terminated

\* The places of the tests and of the processes, for every number of jobs.
THEOREM RunnerSound == RunnerSpec => []RunnerInv
<1>1. RunnerInit => RunnerInv  BY RunnerInitInv
<1>2. RunnerInv /\ [RunnerNext]_runnerVars => RunnerInv'  BY RunnerInvInductive
<1> QED  BY <1>1, <1>2, PTL DEF RunnerSpec

\* tf_run returns 0 when every test has passed and no call of the parent failed.
\* If it returns 0, no test that was started failed, no process is left, and if a
\* test was not started, then none of the workers could read the pipe.
THEOREM RunnerStatusHonest == RunnerSpec => []StatusHonest
<1>1. RunnerInv => StatusHonest
  <2> SUFFICES ASSUME RunnerInv PROVE StatusHonest  OBVIOUS
  <2>1. exit # Running => AtGone  BY DEF RunnerInv, RunnerTypes, Control
  <2>2. Running # 0  BY DEF Running
  <2> QED  BY <2>1, <2>2 DEF StatusHonest, AtGone, NoneFailed, AllGaveUp, Started
<1> QED  BY <1>1, RunnerSound, PTL

\* A worker that aborts or cannot read takes no other test with it, once all
\* indices were written and as long as a worker is left that sees the end of
\* the pipe; and no test is started twice.
THEOREM RunnerCrashIsContained == RunnerSpec => []CrashIsContained
<1>1. ASSUME RunnerInv PROVE CrashIsContained
  <2>1. \A t \in Slots : started[t] <= 1  BY <1>1 DEF RunnerInv, RunnerTypes
  <2>2. pc = "wait" => Contained
    <3>1. pipe = <<>> => \A t \in Slots : ~Piped(t)  BY DEF Piped
    <3> QED  BY <1>1, <3>1 DEF RunnerInv, Control, AtWait, NoneExited, Contained
  <2>3. pc \in {"teardown", "gone"} /\ ~failed => Contained
    BY <1>1 DEF RunnerInv, Control, AtTeardown, AtGone
  <2> QED  BY <2>1, <2>2, <2>3 DEF CrashIsContained, Contained, Started
<1> QED  BY <1>1, RunnerSound, PTL

-----------------------------------------------------------------------------
(* 128-bit integers: division with remainder by products and of sums *)

\* A multiple of the divisor goes to the quotient.
LEMMA DivShift ==
    ASSUME NEW n \in Nat \ {0}, NEW a \in Int, NEW k \in Int
    PROVE  /\ (a + n * k) \div n = (a \div n) + k
           /\ (a + n * k) % n = a % n
<1> DEFINE p == a \div n
           s == a % n
           b == a + n * k
<1>1. p \in Int /\ s \in Nat /\ s < n /\ a = n * p + s  BY DivMod
<1> HIDE DEF p, s
<1>2. b \in Int /\ p + k \in Int  BY <1>1
<1>3. b = n * (p + k) + s  BY <1>1
<1> HIDE DEF b
<1>4. b \div n = p + k /\ b % n = s  BY <1>1, <1>2, <1>3, QuotientUnique
<1> QED  BY <1>4 DEF b, p, s

\* Dividing twice, and the digits of a remainder.
LEMMA DivDiv ==
    ASSUME NEW m \in Nat \ {0}, NEW n \in Nat \ {0}, NEW a \in Int
    PROVE  /\ m * n \in Nat \ {0}
           /\ a \div (m * n) = (a \div m) \div n
           /\ a % (m * n) = m * ((a \div m) % n) + (a % m)
           /\ (a % (m * n)) \div m = (a \div m) % n
           /\ (a % (m * n)) % m = a % m
<1> DEFINE q1 == a \div m
           r1 == a % m
           q2 == q1 \div n
           r2 == q1 % n
           mn == m * n
           r  == m * r2 + r1
<1>1. q1 \in Int /\ r1 \in Nat /\ r1 < m /\ a = m * q1 + r1  BY DivMod
<1> HIDE DEF q1, r1
<1>2. q2 \in Int /\ r2 \in Nat /\ r2 < n /\ q1 = n * q2 + r2  BY <1>1, DivMod
<1> HIDE DEF q2, r2
<1>3. mn \in Nat \ {0}
  BY ONLY m \in Nat \ {0}, n \in Nat \ {0} DEF mn
<1>4. r \in Int /\ 0 <= r  BY <1>1, <1>2
<1>5. m * (n - 1 - r2) >= 0  BY <1>1, <1>2
<1>6. r < mn  BY <1>1, <1>2, <1>5
<1>7. m * q1 = m * (n * q2) + m * r2  BY <1>1, <1>2
<1>8. m * (n * q2) = mn * q2  BY <1>1, <1>2
<1>9. a = mn * q2 + r  BY <1>1, <1>2, <1>3, <1>7, <1>8
<1>10. r \div m = r2 /\ r % m = r1
  <2> HIDE DEF r
  <2>1. r = m * r2 + r1  BY DEF r
  <2> QED  BY <2>1, <1>1, <1>2, <1>4, QuotientUnique
<1> HIDE DEF r, mn
<1>11. a \div mn = q2 /\ a % mn = r
  BY <1>2, <1>3, <1>4, <1>6, <1>9, QuotientUnique
<1> QED  BY <1>3, <1>10, <1>11 DEF r, mn, q2, r2, q1, r1

\* A sum of remainders, with its carry.
LEMMA SumWithCarry ==
    ASSUME NEW n \in Nat \ {0}, NEW a \in Int, NEW b \in Int
    PROVE  LET lo == ((a % n) + (b % n)) % n
               c  == IF lo < b % n THEN 1 ELSE 0
           IN  /\ (a + b) % n = lo
               /\ (a + b) \div n = (a \div n) + (b \div n) + c
<1> DEFINE p == a \div n
           s == a % n
           q == b \div n
           t == b % n
           c == IF (s + t) % n < t THEN 1 ELSE 0
           z == a + b
           u == p + q
<1>1. p \in Int /\ s \in Nat /\ s < n /\ a = n * p + s  BY DivMod
<1>2. q \in Int /\ t \in Nat /\ t < n /\ b = n * q + t  BY DivMod
<1> HIDE DEF p, s, q, t
<1>3. z \in Int /\ u \in Int /\ z = n * u + (s + t)  BY <1>1, <1>2
<1> SUFFICES z % n = (s + t) % n /\ z \div n = u + c  BY <1>1, <1>2 DEF p, s, q, t
<1> HIDE DEF u, z
<1>4. CASE s + t < n
  <2>1. z \div n = u /\ z % n = s + t  BY <1>1, <1>2, <1>3, <1>4, QuotientUnique
  <2>2. (s + t) % n = s + t
    <3> DEFINE w == s + t
    <3>1. w \in Int /\ 0 <= w /\ w < n /\ w = n * 0 + w  BY <1>1, <1>2, <1>4
    <3> HIDE DEF w
    <3>2. w % n = w  BY <3>1, QuotientUnique
    <3> QED  BY <3>2 DEF w
  <2>3. c = 0  BY <2>2, <1>1, <1>2
  <2> QED  BY <2>1, <2>2, <2>3, <1>3
<1>5. CASE s + t >= n
  <2> DEFINE w == s + t
             v == w - n
             u1 == u + 1
  <2>1. v \in Int /\ 0 <= v /\ v < n /\ w \in Int /\ w = n * 1 + v /\ u1 \in Int
    BY <1>1, <1>2, <1>3, <1>5
  <2>2. z = n * u1 + v  BY <1>1, <1>2, <1>3, <2>1
  <2>3. v < t  BY <1>1, <1>2
  <2> HIDE DEF v, w, u1
  <2>4. w % n = v  BY <2>1, QuotientUnique
  <2>5. z \div n = u1 /\ z % n = v  BY <2>1, <2>2, <1>3, QuotientUnique
  <2>6. c = 1  BY <2>3, <2>4 DEF w
  <2> QED  BY <2>4, <2>5, <2>6 DEF w, u1
<1> QED  BY <1>1, <1>2, <1>4, <1>5

\* A difference of remainders, with its borrow.
LEMMA DifferenceWithBorrow ==
    ASSUME NEW n \in Nat \ {0}, NEW a \in Int, NEW b \in Int
    PROVE  LET c  == IF a % n < b % n THEN 1 ELSE 0
           IN  /\ (a - b) % n = ((a % n) - (b % n)) % n
               /\ (a - b) \div n = (a \div n) - ((b \div n) + c)
<1> DEFINE p == a \div n
           s == a % n
           q == b \div n
           t == b % n
           c == IF s < t THEN 1 ELSE 0
           z == a - b
           w == s - t
           u == p - (q + c)
           v == w + n * c
<1>1. p \in Int /\ s \in Nat /\ s < n /\ a = n * p + s  BY DivMod
<1>2. q \in Int /\ t \in Nat /\ t < n /\ b = n * q + t  BY DivMod
<1> HIDE DEF p, s, q, t
<1>3. c \in Int /\ z \in Int /\ w \in Int /\ u \in Int /\ v \in Int  BY <1>1, <1>2
<1>4. 0 <= v /\ v < n  BY <1>1, <1>2
<1> HIDE DEF c
<1>5. z = n * u + v  BY <1>1, <1>2, <1>3
<1>6. w = n * (-c) + v  BY <1>1, <1>2, <1>3
<1> HIDE DEF z, w, u, v
<1>7. z \div n = u /\ z % n = v  BY <1>3, <1>4, <1>5, QuotientUnique
<1>8. -c \in Int /\ w % n = v  BY <1>3, <1>4, <1>6, QuotientUnique
<1> QED  BY <1>7, <1>8 DEF z, w, u, v, c, p, s, q, t

DividesTwice(a, p, m, n) == a \div p = (a \div m) \div n

\* The same by the product of the two divisors.
LEMMA TwoDivisions ==
    ASSUME NEW m \in Nat \ {0}, NEW n \in Nat \ {0}, NEW a \in Int, NEW p \in Nat \ {0}, p = m * n
    PROVE  DividesTwice(a, p, m, n)
<1>1. a \div (m * n) = (a \div m) \div n
  BY ONLY m \in Nat \ {0}, n \in Nat \ {0}, a \in Int, DivDiv
<1> QED  BY ONLY p = m * n, <1>1 DEF DividesTwice

-----------------------------------------------------------------------------
(* 128-bit integers: the words, and the powers of two they are cut at *)

Bw    == 2^W
HalfW == 2^(W-1)
Root == 2^H

\* The powers of two that the words are cut at.
LEMMA WordPowers ==
    /\ H \in Nat /\ W \in Nat /\ W >= 2
    /\ Bw \in Nat \ {0} /\ HalfW \in Nat \ {0} /\ Root \in Nat \ {0} /\ 2^(W-2) \in Nat \ {0}
    /\ Bw = 2 * HalfW /\ HalfW = 2 * 2^(W-2) /\ Bw = Root * Root
    /\ 2^(2*W) = Bw * Bw /\ 2^(2*W - 1) = Bw * HalfW
    /\ 2^0 = 1
<1>1. W \in Nat /\ W >= 2 /\ H \in Nat /\ H + H = W
  BY Int128Assumption DEF H
<1>2. 2^0 = 1 /\ 2^1 = 2  BY PowersOfTwo
<1>3. ASSUME NEW i \in 0 .. 2*W PROVE 2^i \in Nat \ {0}
  BY PowersOfTwo
<1>4. ASSUME NEW i \in 0 .. 2*W, NEW j \in 0 .. 2*W, i + j <= 2*W
      PROVE  2^(i + j) = 2^i * 2^j
  BY <1>4, PowersOfTwo
<1>5. Bw \in Nat \ {0} /\ HalfW \in Nat \ {0} /\ Root \in Nat \ {0} /\ 2^(W-2) \in Nat \ {0}
  <2>1. W \in 0 .. 2*W /\ W - 1 \in 0 .. 2*W /\ H \in 0 .. 2*W /\ W - 2 \in 0 .. 2*W  BY <1>1
  <2> QED  BY <2>1, <1>3 DEF Bw, HalfW, Root
<1>6. Bw = 2 * HalfW
  <2>1. 1 \in 0 .. 2*W /\ W - 1 \in 0 .. 2*W /\ 1 + (W - 1) <= 2*W /\ 1 + (W - 1) = W  BY <1>1
  <2>2. 2^(1 + (W - 1)) = 2^1 * 2^(W - 1)  BY <2>1, <1>4
  <2> QED  BY <2>1, <2>2, <1>2 DEF Bw, HalfW
<1>7. HalfW = 2 * 2^(W-2)
  <2>1. 1 \in 0 .. 2*W /\ W - 2 \in 0 .. 2*W /\ 1 + (W - 2) <= 2*W /\ 1 + (W - 2) = W - 1  BY <1>1
  <2>2. 2^(1 + (W - 2)) = 2^1 * 2^(W - 2)  BY <2>1, <1>4
  <2> QED  BY <2>1, <2>2, <1>2 DEF HalfW
<1>8. Bw = Root * Root
  <2>1. H \in 0 .. 2*W /\ H + H <= 2*W  BY <1>1
  <2>2. 2^(H + H) = 2^H * 2^H  BY <2>1, <1>4
  <2> QED  BY <2>2, <1>1 DEF Bw, Root
<1>9. 2^(2*W) = Bw * Bw
  <2>1. W \in 0 .. 2*W /\ W + W <= 2*W /\ W + W = 2*W  BY <1>1
  <2>2. 2^(W + W) = 2^W * 2^W  BY <2>1, <1>4
  <2> QED  BY <2>1, <2>2 DEF Bw
<1>10. 2^(2*W - 1) = Bw * HalfW
  <2>1. W \in 0 .. 2*W /\ W - 1 \in 0 .. 2*W /\ W + (W - 1) <= 2*W /\ W + (W - 1) = 2*W - 1
    BY <1>1
  <2>2. 2^(W + (W - 1)) = 2^W * 2^(W - 1)  BY <2>1, <1>4
  <2> QED  BY <2>1, <2>2 DEF Bw, HalfW
<1> QED  BY <1>1, <1>2, <1>5, <1>6, <1>7, <1>8, <1>9, <1>10

\* A shift within a word, and one by a word or more.
LEMMA ShiftWithin ==
    ASSUME NEW k \in 0 .. W
    PROVE  2^k \in Nat \ {0} /\ 2^(W - k) \in Nat \ {0} /\ Bw = 2^k * 2^(W - k)
<1>1. k \in 0 .. 2*W /\ W - k \in 0 .. 2*W /\ k + (W - k) <= 2*W /\ k + (W - k) = W  BY WordPowers
<1>2. 2^k \in Nat \ {0} /\ 2^(W - k) \in Nat \ {0} /\ 2^(k + (W - k)) = 2^k * 2^(W - k)
  BY <1>1, PowersOfTwo
<1> QED  BY <1>1, <1>2 DEF Bw

\* A power from Bw on is Bw times a power.
LEMMA ShiftByWord ==
    ASSUME NEW k \in W .. 2*W
    PROVE  2^(k - W) \in Nat \ {0} /\ 2^k = Bw * 2^(k - W)
<1>1. k - W \in 0 .. 2*W /\ W \in 0 .. 2*W /\ W + (k - W) <= 2*W /\ W + (k - W) = k  BY WordPowers
<1>2. 2^(k - W) \in Nat \ {0} /\ 2^(W + (k - W)) = 2^W * 2^(k - W)
  BY <1>1, PowersOfTwo
<1> QED  BY <1>1, <1>2 DEF Bw

-----------------------------------------------------------------------------
(* 128-bit integers: the product of two words *)

\* mul128: the four half products are the two words of the product, for
\* unsigned and for signed words.
LEMMA ProductOfHalves ==
    ASSUME NEW a \in Int, NEW b \in Int
    PROVE  /\ a * b \in Int
           /\ mul128_lo(a, b) = (a * b) % Bw
           /\ mul128_hi(a, b) = ((a * b) \div Bw) % Bw
<1> DEFINE K  == Root
           a0 == a % K  a1 == a \div K
           b0 == b % K  b1 == b \div K
           p  == a0 * b0  x == a0 * b1  y == a1 * b0  z == a1 * b1
           p0 == p % K  p1 == p \div K
           x0 == x % K  x1 == x \div K
           y0 == y % K  y1 == y \div K
           m  == p1 + x0 + y0
           m0 == m % K  m1 == m \div K
           lo == K * m0 + p0
           hi == z + x1 + y1 + m1
           ab == a * b
           raw == m * K + p0
<1>0. K \in Nat \ {0} /\ Bw = K * K /\ Bw \in Nat \ {0}  BY WordPowers
<1>1. /\ mul128_lo(a, b) = raw % Bw
      /\ mul128_hi(a, b) = hi % Bw
  BY DEF mul128_lo, mul128_hi, mid34, ll, lh, hl, hh, U, Low, Shr, Bw, Root
<1> HIDE DEF K
<1>2. /\ a0 \in Int /\ a1 \in Int /\ a = K * a1 + a0
      /\ b0 \in Int /\ b1 \in Int /\ b = K * b1 + b0
  BY <1>0, DivMod
<1> HIDE DEF a0, a1, b0, b1
<1>3. p \in Int /\ x \in Int /\ y \in Int /\ z \in Int  BY <1>2
<1>4. ab = K * K * z + K * x + K * y + p
  <2>1. ab = (K * a1 + a0) * (K * b1 + b0)  BY <1>2
  <2>2. (K * a1 + a0) * (K * b1 + b0) = K * K * (a1 * b1) + K * (a0 * b1) + K * (a1 * b0) + a0 * b0
    BY <1>0, <1>2
  <2> QED  BY <2>1, <2>2
<1>5. ab \in Int  OBVIOUS
<1> HIDE DEF p, x, y, z, ab
<1>6. /\ p0 \in Nat /\ p0 < K /\ p1 \in Int /\ p = K * p1 + p0
      /\ x0 \in Nat /\ x0 < K /\ x1 \in Int /\ x = K * x1 + x0
      /\ y0 \in Nat /\ y0 < K /\ y1 \in Int /\ y = K * y1 + y0
  BY <1>0, <1>3, DivMod
<1> HIDE DEF p0, p1, x0, x1, y0, y1
<1>7. m \in Int  BY <1>6
<1>8. m0 \in Nat /\ m0 < K /\ m1 \in Int /\ m = K * m1 + m0
  <2> HIDE DEF m
  <2> QED  BY <1>0, <1>7, DivMod
<1> HIDE DEF m0, m1
<1>9. hi \in Int /\ lo \in Int /\ 0 <= lo /\ raw \in Int  BY <1>0, <1>3, <1>6, <1>7, <1>8
<1>10. lo < Bw
  <2>1. K * (K - 1 - m0) >= 0  BY <1>0, <1>8
  <2> QED  BY <2>1, <1>0, <1>6, <1>8
<1>11. ab = Bw * hi + lo
  <2>1. K * x = K * K * x1 + K * x0 /\ K * y = K * K * y1 + K * y0  BY <1>0, <1>3, <1>6
  <2>2. K * m = K * K * m1 + K * m0  BY <1>0, <1>7, <1>8
  <2>3. K * m = K * p1 + K * x0 + K * y0  BY <1>0, <1>6
  <2>4. Bw * hi = K * K * z + K * K * x1 + K * K * y1 + K * K * m1  BY <1>0, <1>3, <1>6, <1>8
  <2> QED  BY <2>1, <2>2, <2>3, <2>4, <1>0, <1>3, <1>4, <1>5, <1>6, <1>8, <1>9
<1>12. raw = Bw * m1 + lo
  <2>1. m * K = K * K * m1 + K * m0  BY <1>0, <1>7, <1>8
  <2> QED  BY <2>1, <1>0, <1>6, <1>8
<1> HIDE DEF hi, lo, raw, m
<1>13. raw % Bw = lo  BY <1>0, <1>8, <1>9, <1>10, <1>12, QuotientUnique
<1>14. ab \div Bw = hi /\ ab % Bw = lo  BY <1>0, <1>5, <1>9, <1>10, <1>11, QuotientUnique
<1> QED  BY <1>1, <1>5, <1>13, <1>14 DEF ab

-----------------------------------------------------------------------------
(***************************************************************************)
(* A pair of words stands for a number modulo 2^(2W).  It stands for one   *)
(* number of the unsigned type, and for one of the signed type.            *)
(***************************************************************************)
Means(s, x) == s = Pair(x \div Bw, x % Bw)

IsU128(x) == x \in Int /\ 0 <= x /\ x < Bw * Bw
IsI128(x) == x \in Int /\ -(Bw * HalfW) <= x /\ x < Bw * HalfW

\* Remainders of remainders, and of sums of them.
LEMMA ModMod ==
    ASSUME NEW n \in Nat \ {0}, NEW x \in Int
    PROVE  (x % n) % n = x % n
<1> DEFINE y == x % n
<1>1. y \in Int /\ 0 <= y /\ y < n /\ y = n * 0 + y  BY DivMod
<1> HIDE DEF y
<1>2. y % n = y  BY <1>1, QuotientUnique
<1> QED  BY <1>2 DEF y

\* A term may be reduced before the sum is.
LEMMA ModOfSum ==
    ASSUME NEW n \in Nat \ {0}, NEW p \in Int, NEW q \in Int
    PROVE  /\ ((p % n) + q) % n = (p + q) % n
           /\ (q + (p % n)) % n = (q + p) % n
           /\ (q - (p % n)) % n = (q - p) % n
<1> DEFINE k == p \div n
           r == p % n
<1>1. k \in Int /\ r \in Int /\ p = n * k + r  BY DivMod
<1> HIDE DEF k, r
<1>2. p + q = (r + q) + n * k /\ q + p = (q + r) + n * k /\ q - p = (q - r) + n * (-k)
  BY <1>1
<1>3. r + q \in Int /\ q + r \in Int /\ q - r \in Int /\ -k \in Int  BY <1>1
<1>4. ((r + q) + n * k) % n = (r + q) % n  BY <1>1, <1>3, DivShift
<1>5. ((q + r) + n * k) % n = (q + r) % n  BY <1>1, <1>3, DivShift
<1>6. ((q - r) + n * (-k)) % n = (q - r) % n  BY <1>1, <1>3, DivShift
<1> QED  BY <1>2, <1>4, <1>5, <1>6 DEF r

ReducesLeft(p, q, n) == ((p % n) + q) % n = (p + q) % n
ReducesTaken(q, p, n) == (q - (p % n)) % n = (q - p) % n

\* The same facts, by their names.
LEMMA Reduces ==
    ASSUME NEW n \in Nat \ {0}, NEW p \in Int, NEW q \in Int
    PROVE  ReducesLeft(p, q, n) /\ ReducesTaken(q, p, n)
BY ModOfSum DEF ReducesLeft, ReducesTaken

\* The words of a pair, and the pairs that stand for a number.
LEMMA StandsWords ==
    ASSUME NEW s, NEW x \in Int, Means(s, x)
    PROVE  /\ s.hi = (x \div Bw) % Bw /\ s.lo = x % Bw
           /\ s.hi \in Nat /\ s.hi < Bw /\ s.lo \in Nat /\ s.lo < Bw
<1>1. Bw \in Nat \ {0}  BY WordPowers
<1>2. x \div Bw \in Int /\ x % Bw \in Int  BY <1>1, DivMod
<1>3. (x \div Bw) % Bw \in Nat /\ (x \div Bw) % Bw < Bw /\ x % Bw \in Nat /\ x % Bw < Bw
  BY <1>1, <1>2, DivMod
<1>4. (x % Bw) % Bw = x % Bw  BY <1>1, ModMod
<1>5. s = [hi |-> (x \div Bw) % Bw, lo |-> (x % Bw) % Bw]  BY DEF Means, Pair, U, Low, Bw
<1> QED  BY <1>3, <1>4, <1>5

\* A pair stands for the number that is the high word times Bw plus the low one.
LEMMA StandsIntro ==
    ASSUME NEW x \in Int, NEW h \in Int, NEW l \in Int,
           h % Bw = (x \div Bw) % Bw, l % Bw = x % Bw
    PROVE  Means(Pair(h, l), x)
<1>1. Bw \in Nat \ {0}  BY WordPowers
<1>2. (x % Bw) % Bw = x % Bw  BY <1>1, ModMod
<1>3. Pair(h, l) = [hi |-> h % Bw, lo |-> l % Bw]  BY DEF Pair, U, Low, Bw
<1>4. Pair(x \div Bw, x % Bw) = [hi |-> (x \div Bw) % Bw, lo |-> (x % Bw) % Bw]
  BY DEF Pair, U, Low, Bw
<1> QED  BY <1>2, <1>3, <1>4 DEF Means

\* Cutting the number at 2^(2W) leaves the pair.
LEMMA StandsLow ==
    ASSUME NEW s, NEW x \in Int, Means(s, x)
    PROVE  Means(s, Low(x, 2*W)) /\ IsU128(Low(x, 2*W))
<1>1. Bw \in Nat \ {0} /\ 2^(2*W) = Bw * Bw /\ Bw * Bw \in Nat \ {0}  BY WordPowers, DivDiv
<1> DEFINE y == x % (Bw * Bw)
<1>2. y \in Nat /\ y < Bw * Bw  BY <1>1, DivMod
<1>3. y \div Bw = (x \div Bw) % Bw /\ y % Bw = x % Bw  BY <1>1, DivDiv
<1>4. x \div Bw \in Int  BY <1>1, DivMod
<1>5. (y \div Bw) % Bw = (x \div Bw) % Bw  BY <1>1, <1>3, <1>4, ModMod
<1>6. Low(x, 2*W) = y  BY <1>1 DEF Low
<1> HIDE DEF y
<1>7. Pair(y \div Bw, y % Bw) = Pair(x \div Bw, x % Bw)
  BY <1>3, <1>5, <1>1, <1>4, ModMod DEF Pair, U, Low, Bw
<1> QED  BY <1>2, <1>6, <1>7 DEF Means, IsU128

\* u128_mul and i128_mul
LEMMA MulStands ==
    ASSUME NEW a \in Int, NEW b \in Int
    PROVE  Means(s_u128_mul(a, b), a * b)
<1> DEFINE x == a * b
           h == (x \div Bw) % Bw
           l == x % Bw
<1>1. Bw \in Nat \ {0}  BY WordPowers
<1>2. x \in Int /\ mul128_lo(a, b) = l /\ mul128_hi(a, b) = h  BY ProductOfHalves
<1> HIDE DEF x
<1>3. x \div Bw \in Int /\ l \in Int  BY <1>1, <1>2, DivMod
<1>4. h \in Int  BY <1>1, <1>3, DivMod
<1>6. h % Bw = (x \div Bw) % Bw  BY <1>1, <1>3, ModMod
<1>7. l % Bw = x % Bw  BY <1>1, <1>2, ModMod
<1> HIDE DEF h, l
<1>5. Means(Pair(h, l), x)  BY <1>2, <1>3, <1>4, <1>6, <1>7, StandsIntro
<1> QED  BY <1>2, <1>5 DEF s_u128_mul, x

\* What an accumulation does to the high word, when y is added.
CarryOf(s, y)  == Bool(U(s.lo + (y % Bw)) < y % Bw)
HiAdded(s, y)  == U(((y \div Bw) % Bw) + CarryOf(s, y))
BorrowOf(s, y) == Bool(s.lo < y % Bw)
HiTaken(s, y)  == U(((y \div Bw) % Bw) + BorrowOf(s, y))

\* The number that is added to the high word is that of the sum.
LEMMA SumStands ==
    ASSUME NEW s, NEW x \in Int, Means(s, x), NEW y \in Int
    PROVE  /\ CarryOf(s, y) \in {0, 1}
           /\ (x + y) \div Bw = x \div Bw + (y \div Bw + CarryOf(s, y))
           /\ HiAdded(s, y) = (y \div Bw + CarryOf(s, y)) % Bw
           /\ Means(Pair(s.hi + ((y \div Bw) % Bw) + CarryOf(s, y), U(s.lo + (y % Bw))), x + y)
           /\ Means(Pair(s.hi + HiAdded(s, y), U(s.lo + (y % Bw))), x + y)
<1> DEFINE c  == CarryOf(s, y)
           xh == x \div Bw  xl == x % Bw
           yh == y \div Bw  yl == y % Bw
           z  == x + y
           lo == (xl + yl) % Bw
           h  == (xh % Bw) + (yh % Bw) + c
           g  == (xh % Bw) + (((yh % Bw) + c) % Bw)
<1>1. Bw \in Nat \ {0}  BY WordPowers
<1>2. s.hi = xh % Bw /\ s.lo = xl  BY StandsWords
<1>3. U(s.lo + (y % Bw)) = lo  BY <1>2 DEF U, Low, Bw
<1>4. c = (IF lo < yl THEN 1 ELSE 0)  BY <1>3 DEF CarryOf, Bool
<1>5. z % Bw = lo /\ z \div Bw = xh + yh + c
  <2> HIDE DEF c
  <2> QED  BY <1>1, <1>4, SumWithCarry
<1>6. c \in {0, 1}  BY <1>4
<1>7. xh \in Int /\ yh \in Int /\ xl \in Int /\ yl \in Int /\ xh % Bw \in Int /\ yh % Bw \in Int
      /\ z \in Int
  BY <1>1, DivMod
<1> HIDE DEF c, xh, yh, z, xl, yl
<1>8. lo \in Int /\ lo % Bw = lo
  <2>1. xl + yl \in Int  BY <1>7
  <2>2. lo \in Int  BY <1>1, <2>1, DivMod
  <2>3. lo % Bw = lo  BY <1>1, <2>1, ModMod
  <2> QED  BY <2>2, <2>3
<1> HIDE DEF lo
<1>9. yh + c \in Int /\ (yh % Bw) + c \in Int /\ ((yh % Bw) + c) % Bw \in Int
      /\ ((yh % Bw) + c) % Bw = (yh + c) % Bw
  <2>1. c \in Int /\ yh + c \in Int /\ (yh % Bw) + c \in Int  BY <1>6, <1>7
  <2>2. ((yh % Bw) + c) % Bw \in Int  BY <1>1, <2>1, DivMod
  <2>3. ((yh % Bw) + c) % Bw = (yh + c) % Bw
    <3>1. ReducesLeft(yh, c, Bw)  BY ONLY <1>1, <1>7, <2>1, Reduces
    <3> QED  BY ONLY <3>1 DEF ReducesLeft
  <2> QED  BY <2>1, <2>2, <2>3
<1>10. HiAdded(s, y) = (yh + c) % Bw  BY <1>9 DEF HiAdded, U, Low, Bw, yh, c
<1>11. h % Bw = (z \div Bw) % Bw
  <2>1. h = (yh % Bw) + ((xh % Bw) + c) /\ (xh % Bw) + c \in Int  BY <1>6, <1>7
  <2>2. ((yh % Bw) + ((xh % Bw) + c)) % Bw = (yh + ((xh % Bw) + c)) % Bw
    <3>1. ReducesLeft(yh, (xh % Bw) + c, Bw)  BY ONLY <1>1, <1>7, <2>1, Reduces
    <3> QED  BY ONLY <3>1 DEF ReducesLeft
  <2>3. yh + ((xh % Bw) + c) = (xh % Bw) + (yh + c)  BY <1>6, <1>7
  <2>4. ((xh % Bw) + (yh + c)) % Bw = (xh + (yh + c)) % Bw
    <3>1. ReducesLeft(xh, yh + c, Bw)  BY ONLY <1>1, <1>7, <1>9, Reduces
    <3> QED  BY ONLY <3>1 DEF ReducesLeft
  <2>5. xh + (yh + c) = z \div Bw  BY <1>5, <1>6, <1>7
  <2> QED  BY <2>1, <2>2, <2>3, <2>4, <2>5
<1>12. g % Bw = (z \div Bw) % Bw
  <2>1. (((yh + c) % Bw) + (xh % Bw)) % Bw = ((yh + c) + (xh % Bw)) % Bw
    <3>1. ReducesLeft(yh + c, xh % Bw, Bw)  BY ONLY <1>1, <1>7, <1>9, Reduces
    <3> QED  BY ONLY <3>1 DEF ReducesLeft
  <2>2. g = ((yh + c) % Bw) + (xh % Bw)  BY <1>7, <1>9
  <2>3. (yh + c) + (xh % Bw) = (xh % Bw) + (yh + c)  BY <1>6, <1>7
  <2>4. ((xh % Bw) + (yh + c)) % Bw = (xh + (yh + c)) % Bw
    <3>1. ReducesLeft(xh, yh + c, Bw)  BY ONLY <1>1, <1>7, <1>9, Reduces
    <3> QED  BY ONLY <3>1 DEF ReducesLeft
  <2>5. xh + (yh + c) = z \div Bw  BY <1>5, <1>6, <1>7
  <2> QED  BY <2>1, <2>2, <2>3, <2>4, <2>5
<1>13. h \in Int /\ g \in Int  BY <1>6, <1>7, <1>9
<1> HIDE DEF h, g
<1>14. lo % Bw = z % Bw  BY <1>5, <1>8
<1>15. Means(Pair(h, lo), z) /\ Means(Pair(g, lo), z)
  BY <1>7, <1>8, <1>11, <1>12, <1>13, <1>14, StandsIntro
<1>16. z \div Bw = xh + (yh + c)  BY <1>5, <1>6, <1>7
<1>17. s.hi + ((y \div Bw) % Bw) + CarryOf(s, y) = h  BY <1>2 DEF h, xh, yh, c
<1>18. s.hi + HiAdded(s, y) = g  BY <1>2, <1>9, <1>10 DEF g
<1> QED  BY <1>3, <1>6, <1>10, <1>15, <1>16, <1>17, <1>18 DEF z, c, xh, yh

\* The same, when y is subtracted.
LEMMA DifferenceStands ==
    ASSUME NEW s, NEW x \in Int, Means(s, x), NEW y \in Int
    PROVE  /\ BorrowOf(s, y) \in {0, 1}
           /\ (x - y) \div Bw = x \div Bw - (y \div Bw + BorrowOf(s, y))
           /\ HiTaken(s, y) = (y \div Bw + BorrowOf(s, y)) % Bw
           /\ Means(Pair(s.hi - HiTaken(s, y), s.lo - (y % Bw)), x - y)
<1> DEFINE c  == BorrowOf(s, y)
           xh == x \div Bw  xl == x % Bw
           yh == y \div Bw  yl == y % Bw
           z  == x - y
           lo == xl - yl
           g  == (xh % Bw) - ((yh + c) % Bw)
<1>1. Bw \in Nat \ {0}  BY WordPowers
<1>2. s.hi = xh % Bw /\ s.lo = xl  BY StandsWords
<1>4. c = (IF xl < yl THEN 1 ELSE 0)  BY <1>2 DEF BorrowOf, Bool
<1>5. z % Bw = lo % Bw /\ z \div Bw = xh - (yh + c)
  <2> HIDE DEF c
  <2> QED  BY <1>1, <1>4, DifferenceWithBorrow
<1>6. c \in {0, 1}  BY <1>4
<1>7. xh \in Int /\ yh \in Int /\ xl \in Int /\ yl \in Int /\ xh % Bw \in Int /\ yh % Bw \in Int
      /\ z \in Int /\ lo \in Int
  BY <1>1, DivMod
<1> HIDE DEF c, xh, yh, z, xl, yl
<1>9. yh + c \in Int /\ (yh % Bw) + c \in Int /\ (yh + c) % Bw \in Int
      /\ ((yh % Bw) + c) % Bw = (yh + c) % Bw
  <2>1. c \in Int /\ yh + c \in Int /\ (yh % Bw) + c \in Int  BY <1>6, <1>7
  <2>2. (yh + c) % Bw \in Int  BY <1>1, <2>1, DivMod
  <2>3. ((yh % Bw) + c) % Bw = (yh + c) % Bw
    <3>1. ReducesLeft(yh, c, Bw)  BY ONLY <1>1, <1>7, <2>1, Reduces
    <3> QED  BY ONLY <3>1 DEF ReducesLeft
  <2> QED  BY <2>1, <2>2, <2>3
<1>10. HiTaken(s, y) = (yh + c) % Bw  BY <1>9 DEF HiTaken, U, Low, Bw, yh, c
<1>12. g % Bw = (z \div Bw) % Bw
  <2>1. ((xh % Bw) - ((yh + c) % Bw)) % Bw = ((xh % Bw) - (yh + c)) % Bw
    <3>1. ReducesTaken(xh % Bw, yh + c, Bw)  BY ONLY <1>1, <1>7, <1>9, Reduces
    <3> QED  BY ONLY <3>1 DEF ReducesTaken
  <2>2. (xh % Bw) - (yh + c) = (xh % Bw) + (-(yh + c)) /\ -(yh + c) \in Int  BY <1>7, <1>9
  <2>3. ((xh % Bw) + (-(yh + c))) % Bw = (xh + (-(yh + c))) % Bw
    <3>1. ReducesLeft(xh, -(yh + c), Bw)  BY ONLY <1>1, <1>7, <2>2, Reduces
    <3> QED  BY ONLY <3>1 DEF ReducesLeft
  <2>4. xh + (-(yh + c)) = z \div Bw  BY <1>5, <1>7, <1>9
  <2> QED  BY <2>1, <2>2, <2>3, <2>4
<1>13. g \in Int  BY <1>6, <1>7, <1>9
<1>14. lo % Bw = z % Bw  BY <1>5
<1>17. s.hi - HiTaken(s, y) = g /\ s.lo - (y % Bw) = lo  BY <1>2, <1>9, <1>10 DEF yl
<1> HIDE DEF g, lo
<1>15. Means(Pair(g, lo), z)
  BY <1>7, <1>12, <1>13, <1>14, StandsIntro
<1> QED  BY <1>5, <1>6, <1>10, <1>15, <1>17 DEF z, c, xh, yh

-----------------------------------------------------------------------------
(***************************************************************************)
(* The invariant: as long as no check has failed, the register of the      *)
(* compiler's type is a number of its type, and the pair stands for it;    *)
(* and the checks of the two implementations have the same verdict.        *)
(***************************************************************************)
SameRegister(r) ==
    /\ r.unit = "int128" /\ r.signed \in BOOLEAN
    /\ r.ok.s = r.ok.n
    /\ r.ok = Passed => /\ IF r.signed THEN IsI128(r.n) ELSE IsU128(r.n)
                        /\ Means(r.s, r.n)

WideInv == SameRegister(st)

\* An unsigned register after an operation without a check.
LEMMA UnsignedRegister ==
    ASSUME NEW s, NEW x, IsU128(x), Means(s, x)
    PROVE  SameRegister(WideReg(FALSE, s, x, Passed))
BY DEF SameRegister, WideReg, Passed

\* A signed one.
LEMMA SignedRegister ==
    ASSUME NEW s, NEW x, IsI128(x), Means(s, x)
    PROVE  SameRegister(WideReg(TRUE, s, x, Passed))
BY DEF SameRegister, WideReg, Passed

\* A signed one after an operation whose check both sides decide alike.
LEMMA CheckedRegister ==
    ASSUME NEW s, NEW x, NEW c, NEW d, c = d, d = TRUE => IsI128(x), Means(s, x)
    PROVE  SameRegister(WideReg(TRUE, s, x, [s |-> c, n |-> d]))
<1> DEFINE ok == [s |-> c, n |-> d]
           r  == WideReg(TRUE, s, x, ok)
<1>1. r.unit = "int128" /\ r.signed = TRUE /\ r.s = s /\ r.n = x /\ r.ok = ok  BY DEF WideReg
<1>2. ok.s = c /\ ok.n = d  OBVIOUS
<1>3. ok = Passed => d = TRUE
  <2> SUFFICES ASSUME ok = Passed PROVE d = TRUE  OBVIOUS
  <2>1. Passed.n = TRUE  BY DEF Passed
  <2> HIDE DEF ok
  <2> QED  BY <2>1, <1>2
<1> HIDE DEF r, ok
<1>4. SameRegister(r)  BY <1>1, <1>2, <1>3 DEF SameRegister
<1> QED  BY <1>4 DEF r, ok

-----------------------------------------------------------------------------
(* 128-bit integers: accumulation, and what the checks of the signs say *)

\* u128_accum_mul
LEMMA AccumMulStands ==
    ASSUME NEW s, NEW x \in Int, Means(s, x), NEW a \in Int, NEW b \in Int
    PROVE  Means(s_u128_accum_mul(s, a, b), x + a * b)
<1> DEFINE y == a * b
<1>1. y \in Int /\ mul128_lo(a, b) = y % Bw /\ mul128_hi(a, b) = (y \div Bw) % Bw
  BY ProductOfHalves
<1>2. s_u128_accum_mul(s, a, b)
        = Pair(s.hi + ((y \div Bw) % Bw) + CarryOf(s, y), U(s.lo + (y % Bw)))
  BY <1>1 DEF s_u128_accum_mul, CarryOf
<1> HIDE DEF y
<1>3. Means(Pair(s.hi + ((y \div Bw) % Bw) + CarryOf(s, y), U(s.lo + (y % Bw))), x + y)
  BY <1>1, SumStands
<1> QED  BY <1>2, <1>3 DEF y

\* u128_accum_u64
LEMMA AccumWordStands ==
    ASSUME NEW s, NEW x \in Int, Means(s, x), NEW a \in Word(W)
    PROVE  Means(s_u128_accum_u64(s, a), x + a)
<1>1. Bw \in Nat \ {0} /\ a \in Int /\ 0 <= a /\ a < Bw  BY WordPowers DEF Word, Bw
<1>2. a = Bw * 0 + a  BY <1>1
<1>3. a \div Bw = 0 /\ a % Bw = a  BY <1>1, <1>2, QuotientUnique
<1>4. 0 % Bw = 0
  <2>1. 0 = Bw * 0 + 0  BY <1>1
  <2> QED  BY <1>1, <2>1, QuotientUnique
<1>5. /\ CarryOf(s, a) \in {0, 1}
      /\ Means(Pair(s.hi + ((a \div Bw) % Bw) + CarryOf(s, a), U(s.lo + (a % Bw))), x + a)
  BY <1>1, SumStands
<1>6. s.hi \in Int  BY StandsWords
<1>7. s.hi + ((a \div Bw) % Bw) + CarryOf(s, a) = s.hi + CarryOf(s, a)
  BY <1>3, <1>4, <1>5, <1>6
<1>8. s_u128_accum_u64(s, a) = Pair(s.hi + CarryOf(s, a), U(s.lo + (a % Bw)))
  BY <1>3 DEF s_u128_accum_u64, CarryOf
<1> QED  BY <1>5, <1>7, <1>8

\* A number of the signed type is one whose high word is signed.
LEMMA HighWord ==
    ASSUME NEW x \in Int
    PROVE  IsI128(x) <=> -HalfW <= x \div Bw /\ x \div Bw < HalfW
<1> DEFINE h == x \div Bw
           l == x % Bw
<1>1. Bw \in Nat \ {0} /\ HalfW \in Nat \ {0}  BY WordPowers
<1>2. h \in Int /\ l \in Nat /\ l < Bw /\ x = Bw * h + l  BY <1>1, DivMod
<1> HIDE DEF h, l
<1>3. ASSUME -HalfW <= h, h < HalfW PROVE IsI128(x)
  <2>1. Bw * (h + HalfW) >= 0 /\ Bw * (HalfW - 1 - h) >= 0  BY <1>1, <1>2, <1>3
  <2>2. Bw * h + Bw * HalfW >= 0 /\ Bw * HalfW - Bw - Bw * h >= 0  BY <2>1, <1>1, <1>2
  <2> QED  BY <2>2, <1>1, <1>2 DEF IsI128
<1>4. ASSUME IsI128(x) PROVE -HalfW <= h /\ h < HalfW
  <2>1. ASSUME h < -HalfW PROVE FALSE
    <3>1. Bw * (-HalfW - 1 - h) >= 0  BY <1>1, <1>2, <2>1
    <3>2. -(Bw * HalfW) - Bw - Bw * h >= 0  BY <3>1, <1>1, <1>2
    <3> QED  BY <3>2, <1>1, <1>2, <1>4 DEF IsI128
  <2>2. ASSUME h >= HalfW PROVE FALSE
    <3>1. Bw * (h - HalfW) >= 0  BY <1>1, <1>2, <2>2
    <3>2. Bw * h - Bw * HalfW >= 0  BY <3>1, <1>1, <1>2
    <3> QED  BY <3>2, <1>1, <1>2, <1>4 DEF IsI128
  <2> QED  BY <2>1, <2>2, <1>1, <1>2
<1> QED  BY <1>3, <1>4 DEF h

\* The top bit of a word is the sign, also when a sum of two signed words
\* leaves the range.
LEMMA TopBit ==
    ASSUME NEW z \in Int
    PROVE  /\ -Bw <= z /\ z < 0 => z % Bw = z + Bw
           /\ 0 <= z /\ z < Bw => z % Bw = z
           /\ -HalfW <= z /\ z < HalfW => (TopSet(z % Bw) <=> z < 0)
<1>1. Bw \in Nat \ {0} /\ HalfW \in Nat \ {0} /\ Bw = 2 * HalfW  BY WordPowers
<1>2. ASSUME -Bw <= z, z < 0 PROVE z % Bw = z + Bw
  <2>1. z + Bw \in Int /\ 0 <= z + Bw /\ z + Bw < Bw /\ z = Bw * (-1) + (z + Bw) /\ -1 \in Int
    BY <1>1, <1>2
  <2> QED  BY <2>1, <1>1, QuotientUnique
<1>3. ASSUME 0 <= z, z < Bw PROVE z % Bw = z
  <2>1. z = Bw * 0 + z  BY <1>1
  <2> QED  BY <2>1, <1>1, <1>3, QuotientUnique
<1>4. ASSUME -HalfW <= z, z < HalfW PROVE TopSet(z % Bw) <=> z < 0
  BY <1>1, <1>2, <1>3, <1>4 DEF TopSet, HalfW
<1> QED  BY <1>2, <1>3, <1>4

\* The checks of the pair: a sum of high words leaves the signed type exactly if
\* both have one sign and the sum has the other, a difference exactly if they
\* have different signs and it has not the first one's.
LEMMA SignsOfSum ==
    ASSUME NEW u \in Int, -HalfW <= u, u < HalfW, NEW v \in Int, -HalfW <= v, v < HalfW
    PROVE  /\ ((TopSet(u % Bw) <=> TopSet(v % Bw)) => (TopSet((u + v) % Bw) <=> TopSet(v % Bw)))
                 <=> -HalfW <= u + v /\ u + v < HalfW
           /\ (~(TopSet(u % Bw) <=> TopSet(v % Bw)) => (TopSet((u - v) % Bw) <=> TopSet(u % Bw)))
                 <=> -HalfW <= u - v /\ u - v < HalfW
<1> DEFINE z == u + v
           d == u - v
<1>1. Bw \in Nat \ {0} /\ HalfW \in Nat \ {0} /\ Bw = 2 * HalfW  BY WordPowers
<1>2. (TopSet(u % Bw) <=> u < 0) /\ (TopSet(v % Bw) <=> v < 0)  BY TopBit
<1>3. z \in Int /\ d \in Int  OBVIOUS
<1>4. (-Bw <= z /\ z < 0 => z % Bw = z + Bw) /\ (0 <= z /\ z < Bw => z % Bw = z)
  <2> HIDE DEF z
  <2> QED  BY <1>3, TopBit
<1>5. (-Bw <= d /\ d < 0 => d % Bw = d + Bw) /\ (0 <= d /\ d < Bw => d % Bw = d)
  <2> HIDE DEF d
  <2> QED  BY <1>3, TopBit
<1>6. -Bw <= z /\ z < Bw /\ -Bw <= d /\ d < Bw  BY <1>1
<1>7. TopSet(z % Bw) <=> z % Bw >= HalfW  BY DEF TopSet, HalfW
<1>8. TopSet(d % Bw) <=> d % Bw >= HalfW  BY DEF TopSet, HalfW
<1>9. ((u < 0 <=> v < 0) => (z % Bw >= HalfW <=> v < 0)) <=> -HalfW <= z /\ z < HalfW
  BY <1>1, <1>4, <1>6
<1>10. (~(u < 0 <=> v < 0) => (d % Bw >= HalfW <=> u < 0)) <=> -HalfW <= d /\ d < HalfW
  BY <1>1, <1>5, <1>6
<1> QED  BY <1>2, <1>7, <1>8, <1>9, <1>10

\* A signed word, and the product of two of them, which leaves room for a
\* carry in its high word.
LEMMA SignedWord ==
    ASSUME NEW a \in Word(W)
    PROVE  S(a) \in Int /\ -HalfW <= S(a) /\ S(a) < HalfW
<1>1. Bw \in Nat \ {0} /\ HalfW \in Nat \ {0} /\ Bw = 2 * HalfW  BY WordPowers
<1>2. a \in Int /\ 0 <= a /\ a < Bw  BY <1>1 DEF Word, Bw
<1>3. a % Bw = a  BY <1>2, TopBit
<1>4. S(a) = IF a >= HalfW THEN a - Bw ELSE a  BY <1>3 DEF S, Signed, Bw, HalfW
<1> QED  BY <1>1, <1>2, <1>4

\* The product of two signed words is a number of the signed type, and the carry
\* of its low word does not take the high word out of a signed word.
LEMMA SignedProduct ==
    ASSUME NEW a \in Int, -HalfW <= a, a < HalfW, NEW b \in Int, -HalfW <= b, b < HalfW,
           NEW c \in {0, 1}, c = 1 => (a * b) % Bw > 0
    PROVE  /\ IsI128(a * b)
           /\ -HalfW <= ((a * b) \div Bw) + c /\ ((a * b) \div Bw) + c < HalfW
<1> DEFINE q == 2^(W-2)
           y == a * b
           h == y \div Bw
           l == y % Bw
<1>1. Bw \in Nat \ {0} /\ HalfW \in Nat \ {0} /\ Bw = 2 * HalfW /\ q \in Nat \ {0} /\ HalfW = 2 * q
  BY WordPowers
<1> HIDE DEF q
<1>2. -(HalfW * HalfW) <= y /\ y <= HalfW * HalfW
  <2>1. (HalfW - a) * (HalfW + b) >= 0 /\ (HalfW + a) * (HalfW - b) >= 0  BY <1>1
  <2>2. (HalfW - a) * (HalfW - b) >= 0 /\ (HalfW + a) * (HalfW + b) >= 0  BY <1>1
  <2>3. /\ HalfW * HalfW + HalfW * b - a * HalfW - y >= 0
        /\ HalfW * HalfW - HalfW * b + a * HalfW - y >= 0
    BY <2>1, <1>1
  <2>4. /\ HalfW * HalfW - HalfW * b - a * HalfW + y >= 0
        /\ HalfW * HalfW + HalfW * b + a * HalfW + y >= 0
    BY <2>2, <1>1
  <2>5. HalfW * HalfW \in Int /\ HalfW * b \in Int /\ a * HalfW \in Int /\ y \in Int  BY <1>1
  <2> HIDE DEF y
  <2> QED  BY <2>3, <2>4, <2>5
<1>3. HalfW * HalfW = Bw * q  BY <1>1
<1>4. y \in Int  OBVIOUS
<1> HIDE DEF y
<1>5. h \in Int /\ l \in Nat /\ l < Bw /\ y = Bw * h + l  BY <1>1, <1>4, DivMod
<1> HIDE DEF h, l
<1>6. -q <= h
  <2> SUFFICES ASSUME h <= -q - 1 PROVE FALSE  BY <1>1, <1>5
  <2>1. Bw * (-q - 1 - h) >= 0  BY <1>1, <1>5
  <2>2. -(Bw * q) - Bw - Bw * h >= 0  BY <2>1, <1>1, <1>5
  <2> QED  BY <2>2, <1>1, <1>2, <1>3, <1>4, <1>5
<1>7. h <= q
  <2> SUFFICES ASSUME h >= q + 1 PROVE FALSE  BY <1>1, <1>5
  <2>1. Bw * (h - q - 1) >= 0  BY <1>1, <1>5
  <2>2. Bw * h - Bw * q - Bw >= 0  BY <2>1, <1>1, <1>5
  <2> QED  BY <2>2, <1>1, <1>2, <1>3, <1>4, <1>5
<1>8. c = 1 => h <= q - 1
  <2> SUFFICES ASSUME c = 1, h = q PROVE FALSE  BY <1>1, <1>5, <1>7
  <2>1. l > 0  BY DEF l, y
  <2> QED  BY <2>1, <1>1, <1>2, <1>3, <1>4, <1>5
<1>9. -HalfW <= h /\ h < HalfW /\ -HalfW <= h + c /\ h + c < HalfW
  BY <1>1, <1>5, <1>6, <1>7, <1>8
<1>10. IsI128(y)  BY <1>4, <1>9, HighWord DEF h
<1> QED  BY <1>9, <1>10 DEF h, y

\* i128_accum_mul: the pair is that of the sum, and its check fails exactly
\* when the sum is no number of the signed type.
LEMMA AccumSigned ==
    ASSUME NEW s, NEW x \in Int, IsI128(x), Means(s, x),
           NEW a \in Int, -HalfW <= a, a < HalfW, NEW b \in Int, -HalfW <= b, b < HalfW
    PROVE  SameRegister(WideReg(TRUE, s_i128_accum_mul(s, a, b).r, n_i128_accum_mul(x, a, b).r,
                                [s |-> s_i128_accum_mul(s, a, b).ok,
                                 n |-> n_i128_accum_mul(x, a, b).ok]))
<1> DEFINE y  == a * b
           c  == CarryOf(s, y)
           hi == HiAdded(s, y)
           u  == x \div Bw
           v  == (y \div Bw) + c
           z  == x + y
           f  == s_i128_accum_mul(s, a, b)
           g  == n_i128_accum_mul(x, a, b)
           G  == IF 0 <= y THEN x <= INT128_MAX - y ELSE INT128_MIN - y <= x
           F  == (TopSet(s.hi) <=> TopSet(hi)) => (TopSet(U(s.hi + hi)) <=> TopSet(hi))
<1>0. Bw \in Nat \ {0} /\ HalfW \in Nat \ {0} /\ Bw * HalfW \in Int  BY WordPowers
<1>18. /\ INT128_MAX = Bw * HalfW - 1 /\ INT128_MIN = -(Bw * HalfW)
       /\ INT128_MAX \in Int /\ INT128_MIN \in Int
  BY WordPowers DEF INT128_MAX, INT128_MIN
<1>1. y \in Int /\ mul128_lo(a, b) = y % Bw /\ mul128_hi(a, b) = (y \div Bw) % Bw
  BY ProductOfHalves
<1>2. f.r = Pair(s.hi + hi, U(s.lo + (y % Bw)))
  BY <1>1 DEF s_i128_accum_mul, CarryOf, HiAdded
<1>3. f.ok = F
  BY <1>1 DEF s_i128_accum_mul, CarryOf, HiAdded, TopSet
<1>4. g.r = z /\ g.ok = G
  BY <1>1 DEF n_i128_accum_mul
<1>5. c = 1 => y % Bw > 0
  <2>1. U(s.lo + (y % Bw)) \in Nat
    <3>1. s.lo + (y % Bw) \in Int  BY <1>0, <1>1, StandsWords, DivMod
    <3> QED  BY <1>0, <3>1, DivMod DEF U, Low, Bw
  <2>2. y % Bw \in Nat  BY <1>0, <1>1, DivMod
  <2> QED  BY <2>1, <2>2 DEF CarryOf, Bool
<1>6. /\ c \in {0, 1}
      /\ z \div Bw = u + v
      /\ hi = v % Bw
      /\ Means(Pair(s.hi + hi, U(s.lo + (y % Bw))), z)
  <2> HIDE DEF y
  <2> QED  BY <1>1, SumStands
<1>7. IsI128(y) /\ -HalfW <= v /\ v < HalfW
  <2> HIDE DEF c
  <2> QED  BY <1>5, <1>6, SignedProduct
<1>8. s.hi = u % Bw  BY StandsWords
<1> HIDE DEF y, c, hi, f, g
<1>9. u \in Int /\ v \in Int /\ z \in Int /\ -HalfW <= u /\ u < HalfW
  BY <1>0, <1>1, <1>6, DivMod, HighWord
<1> HIDE DEF u, v, z
<1>10. U(s.hi + hi) = (u + v) % Bw
  <2>1. (Pair(s.hi + hi, U(s.lo + (y % Bw)))).hi = (z \div Bw) % Bw  BY <1>6, <1>9, StandsWords
  <2> QED  BY <2>1, <1>6 DEF Pair
<1>11. F <=> -HalfW <= u + v /\ u + v < HalfW
  BY <1>6, <1>7, <1>8, <1>9, <1>10, SignsOfSum
<1>12. F <=> IsI128(z)
  <2> HIDE DEF F
  <2> QED  BY <1>6, <1>9, <1>11, HighWord
<1>13. G <=> IsI128(z)
  BY <1>0, <1>18, <1>1, <1>7 DEF IsI128, z
<1>14. F <=> G  BY <1>12, <1>13
<1>15. f.ok = g.ok  BY <1>3, <1>4, <1>14
<1>16. ASSUME g.ok = TRUE PROVE IsI128(z)
  <2>1. G  BY <1>4, <1>16
  <2> QED  BY <2>1, <1>13
<1>17. g.r = z  BY <1>4
<1>19. Means(f.r, g.r)  BY <1>2, <1>6, <1>17
<1>20. SameRegister(WideReg(TRUE, f.r, g.r, [s |-> f.ok, n |-> g.ok]))
  BY <1>15, <1>16, <1>17, <1>19, CheckedRegister
<1> QED  BY <1>20 DEF f, g

\* i128_det: the same of a difference of two products.
LEMMA DetSigned ==
    ASSUME NEW a \in Int, -HalfW <= a, a < HalfW, NEW b \in Int, -HalfW <= b, b < HalfW,
           NEW c \in Int, -HalfW <= c, c < HalfW, NEW d \in Int, -HalfW <= d, d < HalfW
    PROVE  SameRegister(WideReg(TRUE, s_i128_det(a, b, c, d).r, n_i128_det(a, b, c, d).r,
                                [s |-> s_i128_det(a, b, c, d).ok, n |-> n_i128_det(a, b, c, d).ok]))
<1> DEFINE x  == a * d
           s  == s_u128_mul(a, d)
           y  == b * c
           w  == BorrowOf(s, y)
           hi == HiTaken(s, y)
           u  == x \div Bw
           v  == (y \div Bw) + w
           z  == x - y
           f  == s_i128_det(a, b, c, d)
           g  == n_i128_det(a, b, c, d)
           G  == IF 0 <= y THEN INT128_MIN + y <= x ELSE x <= INT128_MAX + y
           F  == ~(TopSet(s.hi) <=> TopSet(hi)) => (TopSet(U(s.hi - hi)) <=> TopSet(s.hi))
<1>0. Bw \in Nat \ {0} /\ HalfW \in Nat \ {0} /\ Bw * HalfW \in Int  BY WordPowers
<1>18. /\ INT128_MAX = Bw * HalfW - 1 /\ INT128_MIN = -(Bw * HalfW)
       /\ INT128_MAX \in Int /\ INT128_MIN \in Int
  BY WordPowers DEF INT128_MAX, INT128_MIN
<1>1. y \in Int /\ mul128_lo(b, c) = y % Bw /\ mul128_hi(b, c) = (y \div Bw) % Bw
  BY ProductOfHalves
<1>2. x \in Int /\ Means(s, x)  BY MulStands
<1>3. IsI128(x)  BY SignedProduct
<1>4. f.r = Pair(s.hi - hi, s.lo - (y % Bw))
  BY <1>1 DEF s_i128_det, s_i128_dissip_mul, BorrowOf, HiTaken
<1>5. f.ok = F
  BY <1>1 DEF s_i128_det, s_i128_dissip_mul, BorrowOf, HiTaken, TopSet
<1>6. g.r = z /\ g.ok = G
  BY <1>1 DEF n_i128_det
<1> HIDE DEF x, s, f, g
<1>7. w = 1 => y % Bw > 0
  <2>1. s.lo \in Nat  BY <1>2, StandsWords
  <2>2. y % Bw \in Nat  BY <1>0, <1>1, DivMod
  <2> QED  BY <2>1, <2>2 DEF BorrowOf, Bool
<1>8. /\ w \in {0, 1}
      /\ z \div Bw = u - v
      /\ hi = v % Bw
      /\ Means(Pair(s.hi - hi, s.lo - (y % Bw)), z)
  <2> HIDE DEF y
  <2> QED  BY <1>1, <1>2, DifferenceStands
<1>9. IsI128(y) /\ -HalfW <= v /\ v < HalfW
  <2> HIDE DEF w
  <2> QED  BY <1>7, <1>8, SignedProduct
<1>10. s.hi = u % Bw  BY <1>2, StandsWords
<1> HIDE DEF y, w, hi
<1>11. u \in Int /\ v \in Int /\ z \in Int /\ -HalfW <= u /\ u < HalfW
  BY <1>0, <1>1, <1>2, <1>3, <1>8, DivMod, HighWord
<1> HIDE DEF u, v, z
<1>12. U(s.hi - hi) = (u - v) % Bw
  <2>1. (Pair(s.hi - hi, s.lo - (y % Bw))).hi = (z \div Bw) % Bw  BY <1>8, <1>11, StandsWords
  <2> QED  BY <2>1, <1>8 DEF Pair
<1>13. F <=> -HalfW <= u - v /\ u - v < HalfW
  BY <1>8, <1>9, <1>10, <1>11, <1>12, SignsOfSum
<1>14. F <=> IsI128(z)
  <2> HIDE DEF F
  <2> QED  BY <1>8, <1>11, <1>13, HighWord
<1>15. G <=> IsI128(z)
  BY <1>0, <1>18, <1>1, <1>2, <1>3, <1>9 DEF IsI128, z
<1>16. F <=> G  BY <1>14, <1>15
<1>17. f.ok = g.ok  BY <1>5, <1>6, <1>16
<1>19. ASSUME g.ok = TRUE PROVE IsI128(z)
  <2>1. G  BY <1>6, <1>19
  <2> QED  BY <2>1, <1>15
<1>20. g.r = z  BY <1>6
<1>21. Means(f.r, g.r)  BY <1>4, <1>8, <1>20
<1>22. SameRegister(WideReg(TRUE, f.r, g.r, [s |-> f.ok, n |-> g.ok]))
  BY <1>17, <1>19, <1>20, <1>21, CheckedRegister
<1> QED  BY <1>22 DEF f, g

-----------------------------------------------------------------------------
(* 128-bit integers: shifts *)

\* A quotient keeps the sign, and is no larger.
LEMMA DivBounds ==
    ASSUME NEW p \in Nat \ {0}, NEW x \in Int
    PROVE  /\ x \div p \in Int
           /\ 0 <= x => 0 <= x \div p /\ x \div p <= x
           /\ x < 0 => x <= x \div p /\ x \div p < 0
<1> DEFINE q == x \div p
           r == x % p
<1>1. q \in Int /\ r \in Nat /\ r < p /\ x = p * q + r  BY DivMod
<1> HIDE DEF q, r
<1>2. ASSUME 0 <= x PROVE 0 <= q /\ q <= x
  <2>1. 0 <= q
    <3> SUFFICES ASSUME q <= -1 PROVE FALSE  BY <1>1
    <3>1. p * (-1 - q) >= 0  BY <1>1
    <3>2. -p - p * q >= 0  BY <3>1, <1>1
    <3> QED  BY <3>2, <1>1, <1>2
  <2>2. (p - 1) * q >= 0  BY <2>1, <1>1
  <2>3. p * q - q >= 0  BY <2>2, <1>1
  <2> QED  BY <2>1, <2>3, <1>1
<1>3. ASSUME x < 0 PROVE x <= q /\ q < 0
  <2>1. q < 0
    <3> SUFFICES ASSUME q >= 0 PROVE FALSE  BY <1>1
    <3>1. p * q >= 0  BY <1>1
    <3> QED  BY <3>1, <1>1, <1>3
  <2>2. (p - 1) * (-1 - q) >= 0  BY <2>1, <1>1
  <2>3. -p - p * q + 1 + q >= 0  BY <2>2, <1>1
  <2> QED  BY <2>1, <2>3, <1>1
<1> QED  BY <1>1, <1>2, <1>3 DEF q

\* Division by a power of two leaves a number in its type.
LEMMA ShiftKeepsRange ==
    ASSUME NEW p \in Nat \ {0}, NEW x \in Int
    PROVE  (IsU128(x) => IsU128(x \div p)) /\ (IsI128(x) => IsI128(x \div p))
<1>1. Bw * Bw \in Int /\ Bw * HalfW \in Nat  BY WordPowers
<1>2. /\ x \div p \in Int
      /\ 0 <= x => 0 <= x \div p /\ x \div p <= x
      /\ x < 0 => x <= x \div p /\ x \div p < 0
  BY DivBounds
<1> DEFINE q == x \div p
<1> HIDE DEF q
<1>3. q \in Int /\ (0 <= x => 0 <= q /\ q <= x) /\ (x < 0 => x <= q /\ q < 0)  BY <1>2 DEF q
<1>4. (IsU128(x) => IsU128(q)) /\ (IsI128(x) => IsI128(q))  BY <1>1, <1>3 DEF IsU128, IsI128
<1> QED  BY <1>4 DEF q

\* A shift by less than a word: the low word takes what leaves the high one.
LEMMA NarrowShift ==
    ASSUME NEW s, NEW x \in Int, Means(s, x), NEW n \in 0 .. W
    PROVE  /\ 2^n \in Nat \ {0}
           /\ (x \div 2^n) \div Bw = (x \div Bw) \div 2^n
           /\ s.hi * 2^(W - n) + (s.lo \div 2^n) \in Int
           /\ (s.hi * 2^(W - n) + (s.lo \div 2^n)) % Bw = (x \div 2^n) % Bw
<1> DEFINE p == 2^n
           q == 2^(W - n)
           h == x \div Bw
           l == x % Bw
           k == h \div Bw
           m == h % Bw
           e == l \div p
<1>1. Bw \in Nat \ {0} /\ p \in Nat \ {0} /\ q \in Nat \ {0} /\ Bw = p * q
  BY WordPowers, ShiftWithin
<1>2. s.hi = m /\ s.lo = l  BY StandsWords
<1>0. Bw \in Nat \ {0}  BY <1>1
<1>3. (x \div p) \div Bw = (x \div Bw) \div p
  <2> DEFINE r == p * Bw
  <2> HIDE DEF p, q
  <2>0. x \in Int /\ Bw \in Nat \ {0} /\ p \in Nat \ {0} /\ r = p * Bw /\ r = Bw * p
        /\ r \in Nat \ {0}
    BY <1>1
  <2> HIDE DEF r
  <2>1. DividesTwice(x, r, p, Bw)  BY ONLY <2>0, TwoDivisions
  <2>2. DividesTwice(x, r, Bw, p)  BY ONLY <2>0, TwoDivisions
  <2> QED  BY ONLY <2>1, <2>2 DEF DividesTwice
<1> HIDE DEF p, q
<1>5. h \in Int /\ l \in Int /\ x = Bw * h + l  BY ONLY <1>0, x \in Int, DivMod
<1> HIDE DEF h, l
<1>6. k \in Int /\ m \in Int /\ h = Bw * k + m  BY ONLY <1>0, <1>5, DivMod
<1> HIDE DEF k, m
<1>7. x = l + p * (q * h) /\ q * h \in Int  BY <1>1, <1>5
<1>8. (l + p * (q * h)) \div p = e + q * h  BY <1>1, <1>5, <1>7, DivShift
<1>9. e \in Int  BY <1>1, <1>5, DivMod
<1> HIDE DEF e
<1>10. e + q * h = (m * q + e) + Bw * (q * k) /\ q * k \in Int /\ m * q + e \in Int
  <2>1. q * h = Bw * (q * k) + m * q  BY <1>1, <1>6
  <2> QED  BY <2>1, <1>1, <1>6, <1>9
<1>11. ((m * q + e) + Bw * (q * k)) % Bw = (m * q + e) % Bw  BY <1>1, <1>10, DivShift
<1>12. x \div p = (m * q + e) + Bw * (q * k)  BY <1>7, <1>8, <1>10
<1> QED  BY <1>1, <1>2, <1>3, <1>10, <1>11, <1>12 DEF p, q, e, h, l, m

\* The high word as it is, of the unsigned and of the signed type.
LEMMA HighOfU128 ==
    ASSUME NEW s, NEW x, IsU128(x), Means(s, x)
    PROVE  s.hi = x \div Bw /\ x \div Bw \in Int /\ 0 <= x \div Bw /\ x \div Bw < Bw
<1> DEFINE h == x \div Bw
<1>1. Bw \in Nat \ {0} /\ x \in Int /\ 0 <= x /\ x < Bw * Bw  BY WordPowers DEF IsU128
<1>2. x % Bw \in Nat /\ h \in Int /\ x = Bw * h + (x % Bw)  BY <1>1, DivMod
<1>3. 0 <= h  BY <1>1, DivBounds
<1>4. s.hi = h % Bw  BY <1>1, StandsWords
<1> HIDE DEF h
<1>5. h < Bw
  <2> SUFFICES ASSUME h >= Bw PROVE FALSE  BY <1>1, <1>2
  <2>1. Bw * (h - Bw) >= 0  BY <1>1, <1>2
  <2>2. Bw * h - Bw * Bw >= 0  BY <2>1, <1>1, <1>2
  <2> QED  BY <2>2, <1>1, <1>2
<1>6. h % Bw = h  BY <1>2, <1>3, <1>5, TopBit
<1> QED  BY <1>2, <1>3, <1>4, <1>5, <1>6 DEF h

\* The high word of a signed number, read as a signed word, is its quotient.
LEMMA HighOfI128 ==
    ASSUME NEW s, NEW x, IsI128(x), Means(s, x)
    PROVE  S(s.hi) = x \div Bw /\ x \div Bw \in Int /\ -HalfW <= x \div Bw /\ x \div Bw < HalfW
<1> DEFINE h == x \div Bw
<1>1. Bw \in Nat \ {0} /\ HalfW \in Nat \ {0} /\ Bw = 2 * HalfW /\ x \in Int
  BY WordPowers DEF IsI128
<1>2. h \in Int /\ -HalfW <= h /\ h < HalfW  BY <1>1, DivMod, HighWord
<1>3. s.hi = h % Bw  BY <1>1, StandsWords
<1> HIDE DEF h
<1>4. (h < 0 => h % Bw = h + Bw) /\ (0 <= h => h % Bw = h)  BY <1>1, <1>2, TopBit
<1>5. s.hi \in Nat /\ s.hi < Bw  BY <1>1, StandsWords
<1>6. s.hi % Bw = s.hi  BY <1>5, TopBit
<1>7. S(s.hi) = IF s.hi >= HalfW THEN s.hi - Bw ELSE s.hi  BY <1>6 DEF S, Signed, Bw, HalfW
<1>8. S(s.hi) = h  BY <1>1, <1>2, <1>3, <1>4, <1>7
<1> QED  BY <1>2, <1>8 DEF h

\* u128_rshift
LEMMA ShiftUnsigned ==
    ASSUME NEW s, NEW x, IsU128(x), Means(s, x), NEW n \in 0 .. 2*W - 1
    PROVE  Means(s_u128_rshift(s, n), Shr(x, n)) /\ IsU128(Shr(x, n))
<1> DEFINE y == x \div 2^n
<1>1. Bw \in Nat \ {0} /\ x \in Int /\ W \in Nat  BY WordPowers DEF IsU128
<1>2. 2^n \in Nat \ {0}  BY <1>1, PowersOfTwo
<1>3. y \in Int /\ IsU128(y)  BY <1>1, <1>2, DivMod, ShiftKeepsRange
<1>4. s.hi = x \div Bw /\ s.hi \in Int /\ 0 <= s.hi /\ s.hi < Bw  BY HighOfU128
<1>5. CASE n >= W
  <2> DEFINE p == 2^(n - W)
  <2>1. n \in W .. 2*W  BY <1>1, <1>5
  <2>2. p \in Nat \ {0} /\ 2^n = Bw * p  BY <2>1, ShiftByWord
  <2>3. y = (x \div Bw) \div p
    <3> DEFINE r == 2^n
    <3>1. r = Bw * p /\ r \in Nat \ {0}  BY <1>2, <2>2
    <3> HIDE DEF p, r
    <3>2. x \in Int /\ Bw \in Nat \ {0} /\ p \in Nat \ {0}  BY <1>1, <2>2
    <3>3. DividesTwice(x, r, Bw, p)  BY ONLY <3>1, <3>2, TwoDivisions
    <3> QED  BY ONLY <3>3 DEF r, DividesTwice
  <2>4. s_u128_rshift(s, n) = Pair(0, y)
    BY <1>4, <1>5, <2>3 DEF s_u128_rshift, Shr
  <2>5. 0 <= y /\ y < Bw
    <3> DEFINE h == x \div Bw
    <3> HIDE DEF p, h
    <3>1. h \in Int /\ 0 <= h /\ h < Bw  BY <1>4 DEF h
    <3>2. 0 <= h \div p /\ h \div p <= h /\ h \div p \in Int  BY <2>2, <3>1, DivBounds
    <3> QED  BY <1>1, <2>3, <3>1, <3>2 DEF h
  <2> HIDE DEF y, p
  <2>6. y = Bw * 0 + y  BY <1>1, <1>3
  <2>7. y \div Bw = 0  BY <1>1, <1>3, <2>5, <2>6, QuotientUnique
  <2>8. Means(Pair(0, y), y)  BY <1>3, <2>7, StandsIntro
  <2> QED  BY <1>3, <2>4, <2>8 DEF y, Shr
<1>6. CASE n < W
  <2> DEFINE l == s.hi * 2^(W - n) + (s.lo \div 2^n)
             h == s.hi \div 2^n
  <2>1. n \in 0 .. W  BY <1>1, <1>6
  <2>2. y \div Bw = h /\ l \in Int /\ l % Bw = y % Bw  BY <1>1, <1>4, <2>1, NarrowShift
  <2>3. h \in Int  BY <1>2, <1>4, DivMod
  <2>4. s_u128_rshift(s, n) = Pair(h, l)  BY <1>1, <1>6 DEF s_u128_rshift, Shr
  <2> HIDE DEF y, h, l
  <2>5. Means(Pair(h, l), y)  BY <1>3, <2>2, <2>3, StandsIntro
  <2> QED  BY <1>3, <2>4, <2>5 DEF y, Shr
<1> QED  BY <1>1, <1>5, <1>6

\* The sign of a signed word, as all of its bits.
LEMMA SignOfWord ==
    ASSUME NEW h \in Int, -HalfW <= h, h < HalfW
    PROVE  Shr(h, W - 1) = h \div Bw
<1>1. Bw \in Nat \ {0} /\ HalfW \in Nat \ {0} /\ Bw = 2 * HalfW  BY WordPowers
<1>2. CASE h < 0
  <2>1. h = Bw * (-1) + (h + Bw) /\ h = HalfW * (-1) + (h + HalfW)  BY <1>1
  <2>2. 0 <= h + Bw /\ h + Bw < Bw /\ 0 <= h + HalfW /\ h + HalfW < HalfW  BY <1>1, <1>2
  <2>3. h + Bw \in Int /\ h + HalfW \in Int /\ -1 \in Int  BY <1>1
  <2>4. h \div Bw = -1  BY <1>1, <2>1, <2>2, <2>3, QuotientUnique
  <2>5. h \div HalfW = -1  BY <1>1, <2>1, <2>2, <2>3, QuotientUnique
  <2> QED  BY <2>4, <2>5 DEF Shr, HalfW
<1>3. CASE 0 <= h
  <2>1. h = Bw * 0 + h /\ h = HalfW * 0 + h /\ h < Bw  BY <1>1
  <2>2. h \div Bw = 0  BY <1>1, <1>3, <2>1, QuotientUnique
  <2>3. h \div HalfW = 0  BY <1>1, <1>3, <2>1, QuotientUnique
  <2> QED  BY <2>2, <2>3 DEF Shr, HalfW
<1> QED  BY <1>2, <1>3

\* i128_rshift
LEMMA ShiftSigned ==
    ASSUME NEW s, NEW x, IsI128(x), Means(s, x), NEW n \in 0 .. 2*W - 1
    PROVE  Means(s_i128_rshift(s, n), Shr(x, n)) /\ IsI128(Shr(x, n))
<1> DEFINE y == x \div 2^n
           u == x \div Bw
<1>1. Bw \in Nat \ {0} /\ HalfW \in Nat \ {0} /\ x \in Int /\ W \in Nat  BY WordPowers DEF IsI128
<1>2. 2^n \in Nat \ {0}  BY <1>1, PowersOfTwo
<1>3. y \in Int /\ IsI128(y)  BY <1>1, <1>2, DivMod, ShiftKeepsRange
<1>4. S(s.hi) = u /\ u \in Int /\ -HalfW <= u /\ u < HalfW  BY HighOfI128
<1>5. CASE n >= W
  <2> DEFINE p == 2^(n - W)
             h == Shr(u, W - 1)
  <2>1. n \in W .. 2*W  BY <1>1, <1>5
  <2>2. p \in Nat \ {0} /\ 2^n = Bw * p  BY <2>1, ShiftByWord
  <2>3. y = u \div p
    <3> DEFINE r == 2^n
    <3>1. r = Bw * p /\ r \in Nat \ {0}  BY <1>2, <2>2
    <3> HIDE DEF p, r
    <3>2. x \in Int /\ Bw \in Nat \ {0} /\ p \in Nat \ {0}  BY <1>1, <2>2
    <3>3. DividesTwice(x, r, Bw, p)  BY ONLY <3>1, <3>2, TwoDivisions
    <3> QED  BY ONLY <3>3 DEF r, DividesTwice
  <2>4. s_i128_rshift(s, n) = Pair(h, y)
    BY <1>4, <1>5, <2>3 DEF s_i128_rshift, Shr
  <2> HIDE DEF u, p
  <2>5. -HalfW <= y /\ y < HalfW /\ (y < 0 <=> u < 0)
    <3> HIDE DEF y
    <3>1. (0 <= u => 0 <= y /\ y <= u) /\ (u < 0 => u <= y /\ y < 0)
      BY <1>4, <2>2, <2>3, DivBounds
    <3> QED  BY <3>1, <1>1, <1>3, <1>4
  <2> HIDE DEF y
  <2>6. h = u \div Bw /\ Shr(y, W - 1) = y \div Bw  BY <1>3, <1>4, <2>5, SignOfWord
  <2>7. u \div Bw = y \div Bw
    <3>1. ASSUME NEW v \in Int, -HalfW <= v, v < 0 PROVE v \div Bw = -1
      <4>1. v = Bw * (-1) + (v + Bw) /\ v + Bw \in Int /\ -1 \in Int  BY <1>1
      <4>2. 0 <= v + Bw /\ v + Bw < Bw  BY <3>1, WordPowers
      <4> QED  BY <4>1, <4>2, <1>1, QuotientUnique
    <3>2. ASSUME NEW v \in Int, 0 <= v, v < HalfW PROVE v \div Bw = 0
      <4>1. v = Bw * 0 + v /\ v < Bw  BY <3>2, WordPowers
      <4> QED  BY <4>1, <3>2, <1>1, QuotientUnique
    <3> QED  BY <3>1, <3>2, <1>3, <1>4, <2>5
  <2>8. h \in Int  BY <1>1, <1>4, <2>6, DivMod
  <2> HIDE DEF h
  <2>9. Means(Pair(h, y), y)  BY <1>3, <2>6, <2>7, <2>8, StandsIntro
  <2> QED  BY <1>3, <2>4, <2>9 DEF y, Shr
<1>6. CASE n < W
  <2> DEFINE l == s.hi * 2^(W - n) + (s.lo \div 2^n)
             h == u \div 2^n
  <2>1. n \in 0 .. W  BY <1>1, <1>6
  <2>2. y \div Bw = h /\ l \in Int /\ l % Bw = y % Bw  BY <1>1, <2>1, NarrowShift
  <2>3. h \in Int  BY <1>2, <1>4, DivMod
  <2>4. s_i128_rshift(s, n) = Pair(h, l)  BY <1>1, <1>4, <1>6 DEF s_i128_rshift, Shr
  <2> HIDE DEF y, h, l
  <2>5. Means(Pair(h, l), y)  BY <1>3, <2>2, <2>3, StandsIntro
  <2> QED  BY <1>3, <2>4, <2>5 DEF y, Shr
<1> QED  BY <1>1, <1>5, <1>6

-----------------------------------------------------------------------------
(* 128-bit integers: what the checks and the conversions say of a number *)

\* The quotient is zero for what is smaller than the divisor.
LEMMA DivZero ==
    ASSUME NEW p \in Nat \ {0}, NEW x \in Nat
    PROVE  x \div p = 0 <=> x < p
<1>1. ASSUME x < p PROVE x \div p = 0
  <2>1. x = p * 0 + x  OBVIOUS
  <2> QED  BY <1>1, <2>1, QuotientUnique
<1>2. ASSUME x \div p = 0 PROVE x < p
  <2>1. x = p * 0 + (x % p) /\ x % p < p /\ x % p \in Nat  BY <1>2, DivMod
  <2> QED  BY <2>1
<1> QED  BY <1>1, <1>2

\* check_bits
LEMMA CheckBits ==
    ASSUME NEW s, NEW x, IsU128(x), Means(s, x), NEW k \in 0 .. 2*W - 1
    PROVE  s_u128_check_bits(s, k) = n_u128_check_bits(x, k)
<1>1. Bw \in Nat \ {0} /\ x \in Int /\ 0 <= x /\ W \in Nat  BY WordPowers DEF IsU128
<1>2. 2^k \in Nat \ {0}  BY <1>1, PowersOfTwo
<1>3. s.hi = x \div Bw /\ s.lo = x % Bw  BY <1>1, HighOfU128, StandsWords
<1>4. CASE k >= W
  <2> DEFINE p == 2^(k - W)
             r == 2^k
  <2>1. k \in W .. 2*W  BY <1>1, <1>4
  <2>2. p \in Nat \ {0} /\ r = Bw * p /\ r \in Nat \ {0}  BY <1>2, <2>1, ShiftByWord
  <2> HIDE DEF p, r
  <2>3. x \div r = (x \div Bw) \div p
    <3>1. DividesTwice(x, r, Bw, p)  BY ONLY <1>1, <2>2, TwoDivisions
    <3> QED  BY ONLY <3>1 DEF DividesTwice
  <2>4. s_u128_check_bits(s, k) = (Shr(s.hi, k - W) = 0)  BY <1>4 DEF s_u128_check_bits
  <2>5. Shr(s.hi, k - W) = Shr(x, k)  BY <1>3, <2>3 DEF Shr, p, r
  <2> QED  BY <2>4, <2>5 DEF n_u128_check_bits
<1>5. CASE k < W
  <2> DEFINE p == 2^k
             q == 2^(W - k)
             h == x \div Bw
             l == x % Bw
  <2>1. k \in 0 .. W  BY <1>1, <1>5
  <2>2. p \in Nat \ {0} /\ q \in Nat \ {0} /\ Bw = p * q  BY <2>1, ShiftWithin
  <2> HIDE DEF p, q
  <2>3. p <= Bw
    <3>1. p * (q - 1) >= 0  BY <2>2
    <3> QED  BY <3>1, <2>2
  <2>4. h \in Int /\ l \in Nat /\ l < Bw /\ x = Bw * h + l  BY <1>1, DivMod
  <2>5. h = 0 <=> x < Bw  BY <1>1, DivZero
  <2> HIDE DEF h, l
  <2>6. x \div p = 0 <=> x < p  BY <1>1, <2>2, DivZero
  <2>7. l \div p = 0 <=> l < p  BY <2>2, <2>4, DivZero
  <2>8. (h = 0 /\ l \div p = 0) <=> x \div p = 0
    <3>1. ASSUME h = 0 PROVE x = l  BY <3>1, <1>1, <2>4
    <3> QED  BY <3>1, <2>3, <2>4, <2>5, <2>6, <2>7, <1>1, <2>2
  <2>9. s_u128_check_bits(s, k) = (s.hi = 0 /\ Shr(s.lo, k) = 0)
    BY <1>1, <1>5 DEF s_u128_check_bits
  <2>10. n_u128_check_bits(x, k) = (x \div p = 0)  BY DEF n_u128_check_bits, Shr, p
  <2>11. s.hi = h /\ Shr(s.lo, k) = l \div p  BY <1>3 DEF Shr, h, l, p
  <2> QED  BY <2>8, <2>9, <2>10, <2>11
<1> QED  BY <1>1, <1>4, <1>5

\* Whatever is asked of an unsigned register, both sides answer alike.
LEMMA UnsignedAgrees ==
    ASSUME NEW s, NEW x, IsU128(x), Means(s, x)
    PROVE  SameUnsigned(s, x)
<1>1. s = Pair(n_u128_hi_u64(x), n_to_u64(x))
  <2>1. x \in Int /\ Bw \in Nat \ {0}  BY WordPowers DEF IsU128
  <2> QED  BY DEF Means, n_u128_hi_u64, n_to_u64, U, Low, Shr, Bw
<1>2. \A k \in 0 .. 2*W - 1 : s_u128_check_bits(s, k) = n_u128_check_bits(x, k)
  BY CheckBits
<1> QED  BY <1>1, <1>2 DEF SameUnsigned

\* Signed words are the same when they are so modulo 2^W.
LEMMA SameSignedWord ==
    ASSUME NEW u \in Int, -HalfW <= u, u < HalfW, NEW v \in Int, -HalfW <= v, v < HalfW
    PROVE  u % Bw = v % Bw <=> u = v
<1>1. Bw \in Nat \ {0} /\ HalfW \in Nat \ {0} /\ Bw = 2 * HalfW  BY WordPowers
<1>2. (u < 0 => u % Bw = u + Bw) /\ (0 <= u => u % Bw = u)  BY <1>1, TopBit
<1>3. (v < 0 => v % Bw = v + Bw) /\ (0 <= v => v % Bw = v)  BY <1>1, TopBit
<1> QED  BY <1>1, <1>2, <1>3

\* to_i64
LEMMA ToWord ==
    ASSUME NEW s, NEW x, IsI128(x), Means(s, x)
    PROVE  s_i128_to_i64_ok(s) = n_i128_to_i64_ok(x)
<1> DEFINE u == x \div Bw
           l == x % Bw
           t == l \div HalfW
<1>1. Bw \in Nat \ {0} /\ HalfW \in Nat \ {0} /\ Bw = 2 * HalfW /\ x \in Int /\ HalfW >= 2
  BY WordPowers DEF IsI128
<1>2. u \in Int /\ -HalfW <= u /\ u < HalfW  BY HighOfI128
<1>3. s.hi = u % Bw /\ s.lo = l  BY <1>1, StandsWords
<1>4. l \in Nat /\ l < Bw /\ x = Bw * u + l  BY <1>1, DivMod
<1> HIDE DEF u, l
<1>5. (l < HalfW => t = 0) /\ (l >= HalfW => t = 1)
  <2>1. ASSUME l < HalfW PROVE t = 0
    <3>1. l = HalfW * 0 + l  BY <1>1, <1>4
    <3> QED  BY <1>1, <1>4, <2>1, <3>1, QuotientUnique
  <2>2. ASSUME l >= HalfW PROVE t = 1
    <3>1. l = HalfW * 1 + (l - HalfW) /\ l - HalfW \in Int /\ 0 <= l - HalfW /\ l - HalfW < HalfW
      BY <1>1, <1>4, <2>2
    <3> QED  BY <1>1, <1>4, <2>2, <3>1, QuotientUnique
  <2> QED  BY <2>1, <2>2
<1> HIDE DEF t
<1>6. t \in {0, 1}  BY <1>1, <1>4, <1>5
<1>7. u % Bw = (-t) % Bw <=> u = -t
  <2>1. -t \in Int /\ -HalfW <= -t /\ -t < HalfW  BY <1>1, <1>6
  <2> QED  BY <1>2, <2>1, SameSignedWord
<1>8. u = -t <=> -HalfW <= x /\ x <= HalfW - 1
  <2>1. CASE u = 0  BY <2>1, <1>1, <1>4, <1>5, <1>6
  <2>2. CASE u = -1  BY <2>2, <1>1, <1>4, <1>5, <1>6
  <2>3. CASE u >= 1
    <3>1. Bw * (u - 1) >= 0  BY <1>1, <1>2, <2>3
    <3>2. x >= Bw  BY <3>1, <1>1, <1>2, <1>4
    <3> QED  BY <3>2, <1>1, <1>6, <2>3
  <2>4. CASE u <= -2
    <3>1. Bw * (-2 - u) >= 0  BY <1>1, <1>2, <2>4
    <3>2. x < -Bw  BY <3>1, <1>1, <1>2, <1>4
    <3> QED  BY <3>2, <1>1, <1>6, <2>4
  <2> QED  BY <1>2, <2>1, <2>2, <2>3, <2>4
<1>9. s_i128_to_i64_ok(s) = (u % Bw = (-t) % Bw)
  BY <1>3 DEF s_i128_to_i64_ok, U, Low, Shr, Bw, HalfW, t
<1>10. n_i128_to_i64_ok(x) = (-HalfW <= x /\ x <= HalfW - 1)
  BY DEF n_i128_to_i64_ok, HalfW
<1> QED  BY <1>7, <1>8, <1>9, <1>10

\* A number of the signed type is the one its bits stand for.
LEMMA SignedWide ==
    ASSUME NEW v, IsI128(v)
    PROVE  Signed(v, 2*W) = v
<1> DEFINE M == Bw * Bw
           h == Bw * HalfW
           u == v % M
<1>1. M \in Nat \ {0} /\ h \in Nat \ {0} /\ M = 2 * h /\ 2^(2*W) = M /\ 2^(2*W - 1) = h
  <2>1. Bw \in Nat \ {0} /\ HalfW \in Nat \ {0} /\ Bw = 2 * HalfW  BY WordPowers
  <2>2. Bw * Bw \in Nat \ {0} /\ Bw * HalfW \in Nat \ {0}  BY <2>1, DivDiv
  <2>3. Bw * Bw = 2 * (Bw * HalfW)  BY <2>1
  <2> QED  BY <2>2, <2>3, WordPowers
<1>2. v \in Int /\ -h <= v /\ v < h  BY DEF IsI128
<1>3. Signed(v, 2*W) = IF u >= h THEN u - M ELSE u  BY <1>1 DEF Signed
<1> HIDE DEF M, h
<1>4. v < 0 => u = v + M
  <2> SUFFICES ASSUME v < 0 PROVE u = v + M  OBVIOUS
  <2>1. v = M * (-1) + (v + M) /\ v + M \in Int /\ -1 \in Int  BY <1>1, <1>2
  <2>2. 0 <= v + M /\ v + M < M  BY <1>1, <1>2
  <2>3. M \in Nat \ {0} /\ v \in Int  BY <1>1, <1>2
  <2> QED  BY ONLY <2>1, <2>2, <2>3, QuotientUnique DEF u
<1>5. 0 <= v => u = v
  <2>1. v = M * 0 + v  BY <1>1, <1>2
  <2> QED  BY <1>1, <1>2, <2>1, QuotientUnique
<1> HIDE DEF u
<1> QED  BY <1>1, <1>2, <1>3, <1>4, <1>5

\* check_pow2
LEMMA CheckPow2 ==
    ASSUME NEW s, NEW x, IsI128(x), Means(s, x),
           NEW k \in 0 .. 2*W - 2, NEW sign \in {-1, 1}
    PROVE  s_i128_check_pow2(s, k, sign) = n_i128_check_pow2(x, k, sign)
<1> DEFINE u == x \div Bw
           l == x % Bw
<1>1. /\ Bw \in Nat \ {0} /\ HalfW \in Nat \ {0} /\ Bw = 2 * HalfW /\ x \in Int /\ HalfW >= 2
      /\ W \in Nat /\ W >= 2
  BY WordPowers DEF IsI128
<1>2. u \in Int /\ -HalfW <= u /\ u < HalfW  BY HighOfI128
<1>3. s.hi = u % Bw /\ s.lo = l  BY <1>1, StandsWords
<1>4. l \in Nat /\ l < Bw /\ x = Bw * u + l  BY <1>1, DivMod
<1> HIDE DEF u, l
<1>5. CASE k >= W
  <2> DEFINE p == 2^(k - W)
             q == 2^((2*W - 2) - k)
             v == sign * p
             y == sign * 2^k
  <2>1. p \in Nat \ {0} /\ 2^k = Bw * p
    <3>1. k \in W .. 2*W  BY <1>1, <1>5
    <3> QED  BY <3>1, ShiftByWord
  <2>2. p < HalfW
    <3>1. k - W \in 0 .. 2*W /\ (2*W - 2) - k \in 0 .. 2*W
          /\ (k - W) + ((2*W - 2) - k) = W - 2 /\ W - 2 <= 2*W
      BY <1>1, <1>5
    <3>2. q \in Nat \ {0} /\ 2^((k - W) + ((2*W - 2) - k)) = p * q  BY <3>1, PowersOfTwo
    <3>3. HalfW = 2 * (p * q)  BY <3>1, <3>2, WordPowers
    <3> HIDE DEF p, q
    <3>4. p * (q - 1) >= 0  BY <2>1, <3>2
    <3> QED  BY <2>1, <3>2, <3>3, <3>4
  <2>3. y = Bw * v /\ v \in Int /\ -HalfW <= v /\ v < HalfW /\ y \in Int
    <3> HIDE DEF p
    <3>1. v \in Int /\ -HalfW <= v /\ v < HalfW  BY <1>1, <2>1, <2>2
    <3>2. sign * (Bw * p) = Bw * (sign * p)  BY <1>1, <2>1
    <3> QED  BY <1>1, <2>1, <3>1, <3>2
  <2>4. s_i128_check_pow2(s, k, sign) = (s.hi = U(v) /\ s.lo = 0)
    BY <1>5 DEF s_i128_check_pow2
  <2>5. n_i128_check_pow2(x, k, sign) = (x = Signed(y, 2*W))  BY DEF n_i128_check_pow2
  <2> HIDE DEF y, v, p
  <2>6. y \div Bw = v /\ y % Bw = 0
    <3>1. /\ Bw \in Nat \ {0} /\ y \in Int /\ v \in Int /\ y = Bw * v + 0
          /\ 0 \in Int /\ 0 <= 0 /\ 0 < Bw
      BY <1>1, <2>3
    <3> QED  BY ONLY <3>1, QuotientUnique
  <2>7. Signed(y, 2*W) = y  BY <2>3, <2>6, HighWord, SignedWide
  <2>8. u % Bw = v % Bw <=> u = v  BY <1>2, <2>3, SameSignedWord
  <2>9. x = y <=> u = v /\ l = 0
    <3>1. ASSUME u = v, l = 0 PROVE x = y  BY <3>1, <1>1, <1>2, <1>4, <2>3
    <3>2. ASSUME x = y PROVE u = v /\ l = 0  BY <3>2, <2>6 DEF u, l
    <3> QED  BY <3>1, <3>2
  <2>10. s.hi = U(v) <=> u % Bw = v % Bw  BY <1>3 DEF U, Low, Bw
  <2> QED  BY <1>3, <2>4, <2>5, <2>7, <2>8, <2>9, <2>10
<1>6. CASE k < W
  <2> DEFINE p == 2^k
             q == 2^((W - 1) - k)
             y == sign * p
             e == Shr(sign, 1)
  <2>1. p \in Nat \ {0} /\ p <= HalfW
    <3>1. k \in 0 .. 2*W /\ (W - 1) - k \in 0 .. 2*W
          /\ k + ((W - 1) - k) = W - 1 /\ W - 1 <= 2*W
      BY <1>1, <1>6
    <3>2. p \in Nat \ {0} /\ q \in Nat \ {0} /\ 2^(k + ((W - 1) - k)) = p * q
      BY <3>1, PowersOfTwo
    <3>3. HalfW = p * q  BY <3>1, <3>2 DEF HalfW
    <3> HIDE DEF p, q
    <3>4. p * (q - 1) >= 0  BY <3>2
    <3> QED  BY <3>2, <3>3, <3>4
  <2>2. s_i128_check_pow2(s, k, sign) = (s.hi = U(e) /\ s.lo = U(y))
    BY <1>1, <1>6 DEF s_i128_check_pow2
  <2>3. n_i128_check_pow2(x, k, sign) = (x = Signed(y, 2*W))  BY DEF n_i128_check_pow2
  <2>4. (sign = 1 => e = 0) /\ (sign = -1 => e = -1)
    <3>1. e = sign \div 2  BY PowersOfTwo DEF Shr
    <3> QED  BY <3>1
  <2> HIDE DEF p, e
  <2>5. y \in Int /\ (sign = 1 => y = p) /\ (sign = -1 => y = -p)  BY <2>1
  <2> HIDE DEF y
  <2>6. y \div Bw = e
    <3>1. CASE sign = 1
      <4>1. y = Bw * 0 + y /\ 0 <= y /\ y < Bw  BY <1>1, <2>1, <2>5, <3>1
      <4> QED  BY <1>1, <2>4, <2>5, <3>1, <4>1, QuotientUnique
    <3>2. CASE sign = -1
      <4>1. y = Bw * (-1) + (y + Bw) /\ 0 <= y + Bw /\ y + Bw < Bw /\ y + Bw \in Int /\ -1 \in Int
        BY <1>1, <2>1, <2>5, <3>2
      <4> QED  BY <1>1, <2>4, <2>5, <3>2, <4>1, QuotientUnique
    <3> QED  BY <3>1, <3>2
  <2>7. e \in Int /\ -HalfW <= e /\ e < HalfW  BY <1>1, <2>4
  <2>8. Signed(y, 2*W) = y  BY <2>5, <2>6, <2>7, HighWord, SignedWide
  <2>9. u % Bw = e % Bw <=> u = e  BY <1>2, <2>7, SameSignedWord
  <2>10. y % Bw \in Int /\ y = Bw * e + (y % Bw)
    <3>1. Bw \in Nat \ {0} /\ y \in Int  BY <1>1, <2>5
    <3>2. y % Bw \in Nat /\ y = Bw * (y \div Bw) + (y % Bw)  BY ONLY <3>1, DivMod
    <3> QED  BY <2>6, <3>2
  <2>11. x = y <=> u = e /\ l = y % Bw
    <3>1. ASSUME u = e, l = y % Bw PROVE x = y  BY <3>1, <1>4, <2>10
    <3>2. ASSUME x = y PROVE u = e /\ l = y % Bw  BY <3>2, <2>6 DEF u, l
    <3> QED  BY <3>1, <3>2
  <2>12. s.hi = U(e) <=> u % Bw = e % Bw  BY <1>3 DEF U, Low, Bw
  <2>13. s.lo = U(y) <=> l = y % Bw  BY <1>3 DEF U, Low, Bw
  <2> QED  BY <2>2, <2>3, <2>8, <2>9, <2>11, <2>12, <2>13
<1> QED  BY <1>1, <1>5, <1>6

\* The same for a signed one.
LEMMA SignedAgrees ==
    ASSUME NEW s, NEW x, IsI128(x), Means(s, x)
    PROVE  SameSigned(s, x)
<1>1. s = Pair(Shr(x, W), n_to_u64(x))  BY DEF Means, n_to_u64, U, Low, Shr, Bw
<1>2. s_i128_to_i64_ok(s) = n_i128_to_i64_ok(x)  BY ToWord
<1>3. \A k \in 0 .. 2*W - 2, sign \in {-1, 1} :
          s_i128_check_pow2(s, k, sign) = n_i128_check_pow2(x, k, sign)
  BY CheckPow2
<1> QED  BY <1>1, <1>2, <1>3 DEF SameSigned

-----------------------------------------------------------------------------
(* 128-bit integers: the steps *)

\* What a step finds in the register.
LEMMA RegisterFound ==
    ASSUME WideInv, NEW signed, IsWide(signed)
    PROVE  /\ signed = FALSE => IsU128(st.n) /\ Means(st.s, st.n)
           /\ signed = TRUE => IsI128(st.n) /\ Means(st.s, st.n)
BY DEF WideInv, SameRegister, IsWide

\* A product of two unsigned words.
LEMMA UnsignedProduct ==
    ASSUME NEW a \in Word(W), NEW b \in Word(W)
    PROVE  IsU128(a * b)
<1>1. Bw \in Nat \ {0}  BY WordPowers
<1>2. a \in Int /\ 0 <= a /\ a < Bw /\ b \in Int /\ 0 <= b /\ b < Bw  BY <1>1 DEF Word, Bw
<1>3. a * b >= 0 /\ (Bw - 1 - a) * b >= 0 /\ Bw * (Bw - 1 - b) >= 0  BY <1>1, <1>2
<1>4. Bw * b - b - a * b >= 0 /\ Bw * Bw - Bw - Bw * b >= 0  BY <1>1, <1>2, <1>3
<1>5. a * b \in Int /\ Bw * b \in Int /\ Bw * Bw \in Int  BY <1>1, <1>2
<1> QED  BY <1>1, <1>2, <1>3, <1>4, <1>5 DEF IsU128

\* The register starts as any number with extreme words.
LEMMA WideStarts == WideInit => WideInv
<1> SUFFICES ASSUME NEW signed \in BOOLEAN,
                    NEW hi \in {0, 1, 2^(W-1), 2^W - 1}, NEW lo \in {0, 1, 2^(W-1), 2^W - 1},
                    st = WideReg(signed, Pair(hi, lo), n_load(signed, hi, lo), Passed)
             PROVE  WideInv
  BY DEF WideInit
<1>1. Bw \in Nat \ {0} /\ HalfW \in Nat \ {0} /\ Bw = 2 * HalfW  BY WordPowers
<1>2. hi \in Int /\ lo \in Int /\ 0 <= hi /\ hi < Bw /\ 0 <= lo /\ lo < Bw
  BY <1>1 DEF Bw, HalfW
<1>3. CASE signed = FALSE
  <2> DEFINE x == hi * Bw + lo
  <2>1. n_load(signed, hi, lo) = x  BY <1>3 DEF n_load, Bw
  <2>2. x \in Int /\ x = Bw * hi + lo /\ 0 <= x
    <3>1. hi * Bw = Bw * hi /\ hi * Bw >= 0  BY <1>1, <1>2
    <3> QED  BY <3>1, <1>1, <1>2
  <2>3. x < Bw * Bw
    <3>1. Bw * (Bw - 1 - hi) >= 0  BY <1>1, <1>2
    <3>2. Bw * Bw - Bw - Bw * hi >= 0  BY <3>1, <1>1, <1>2
    <3> QED  BY <3>2, <2>2, <1>1, <1>2
  <2> HIDE DEF x
  <2>4. x \div Bw = hi /\ x % Bw = lo  BY <1>1, <1>2, <2>2, QuotientUnique
  <2>5. Means(Pair(hi, lo), x)  BY <2>4 DEF Means
  <2>6. IsU128(x)  BY <2>2, <2>3 DEF IsU128
  <2> QED  BY <1>3, <2>1, <2>5, <2>6, UnsignedRegister DEF WideInv
<1>4. CASE signed = TRUE
  <2> DEFINE y == hi * Bw + lo
             x == Signed(y, 2*W)
             M == Bw * Bw
             h == Bw * HalfW
  <2>0. Bw \in Nat \ {0} /\ HalfW \in Nat \ {0} /\ Bw = 2 * HalfW /\ 2^(2*W) = M /\ 2^(2*W - 1) = h
    BY WordPowers
  <2>1. n_load(signed, hi, lo) = x
    <3>1. U(hi) = hi  BY <1>2, TopBit DEF U, Low, Bw
    <3> QED  BY <3>1, <1>4 DEF n_load, Bw
  <2>2. y \in Int /\ y = Bw * hi + lo /\ 0 <= y
    <3>1. hi * Bw = Bw * hi /\ hi * Bw >= 0  BY <1>1, <1>2
    <3> QED  BY <3>1, <1>1, <1>2
  <2>3. y < M
    <3>1. Bw * (Bw - 1 - hi) >= 0  BY <1>1, <1>2
    <3>2. Bw * Bw - Bw - Bw * hi >= 0  BY <3>1, <1>1, <1>2
    <3> QED  BY <3>2, <2>2, <1>1, <1>2
  <2>4. M \in Nat \ {0} /\ h \in Nat /\ M = 2 * h  BY <1>1, DivDiv
  <2> HIDE DEF y
  <2>5. y \div Bw = hi /\ y % Bw = lo  BY <1>1, <1>2, <2>2, QuotientUnique
  <2>6. y % M = y
    <3> HIDE DEF M
    <3>1. y = M * 0 + y  BY <2>2, <2>4
    <3> QED  BY <2>2, <2>3, <2>4, <3>1, QuotientUnique
  <2>7. x = IF y >= h THEN y - M ELSE y  BY <2>0, <2>6 DEF Signed
  <2>8. x \in Int /\ IsI128(x)
    <3> HIDE DEF M, h, x
    <3>1. x \in Int /\ -h <= x /\ x < h  BY <2>2, <2>3, <2>4, <2>7
    <3> QED  BY <3>1 DEF IsI128, h
  <2>9. x = y \/ x = y + Bw * (-Bw)
    <3>1. Bw * (-Bw) = -M  BY <1>1
    <3> HIDE DEF M, h, x
    <3> QED  BY <3>1, <2>2, <2>4, <2>7
  <2> HIDE DEF x, M, h
  <2>10. x % Bw = lo /\ (x \div Bw = hi \/ x \div Bw = hi + (-Bw))
    <3>1. -Bw \in Int  BY <1>1
    <3>2. (y + Bw * (-Bw)) \div Bw = (y \div Bw) + (-Bw) /\ (y + Bw * (-Bw)) % Bw = y % Bw
      BY ONLY <1>1, <2>2, <3>1, DivShift
    <3> QED  BY <2>5, <2>9, <3>2
  <2>11. hi % Bw = (x \div Bw) % Bw
    <3>1. (hi + Bw * (-1)) % Bw = hi % Bw  BY <1>1, <1>2, DivShift
    <3>2. hi + Bw * (-1) = hi + (-Bw)  BY <1>1, <1>2
    <3> QED  BY <2>10, <3>1, <3>2
  <2>12. lo % Bw = x % Bw  BY <1>2, <2>10, TopBit
  <2>13. Means(Pair(hi, lo), x)  BY <1>2, <2>8, <2>11, <2>12, StandsIntro
  <2> QED  BY <1>4, <2>1, <2>8, <2>13, SignedRegister DEF WideInv
<1> QED  BY <1>3, <1>4

\* Each operation keeps the invariant; the lemmas above say why.
LEMMA WideMulStep == WideInv /\ WideMul => WideInv'
<1> SUFFICES ASSUME WideInv, WideMul PROVE WideInv'  OBVIOUS
<1>1. PICK a \in Word(W), b \in Word(W) :
        \/ IsWide(FALSE) /\ st' = WideReg(FALSE, s_u128_mul(a, b), a * b, Passed)
        \/ IsWide(TRUE) /\ st' = WideReg(TRUE, s_u128_mul(S(a), S(b)), S(a) * S(b), Passed)
  BY DEF WideMul
<1>2. CASE st' = WideReg(FALSE, s_u128_mul(a, b), a * b, Passed)
  <2>1. a \in Int /\ b \in Int  BY WordPowers DEF Word, Bw
  <2>2. Means(s_u128_mul(a, b), a * b) /\ IsU128(a * b)  BY <2>1, MulStands, UnsignedProduct
  <2>3. SameRegister(st')  BY <1>2, <2>2, UnsignedRegister
  <2> QED  BY <2>3 DEF WideInv
<1>3. CASE st' = WideReg(TRUE, s_u128_mul(S(a), S(b)), S(a) * S(b), Passed)
  <2>1. /\ S(a) \in Int /\ -HalfW <= S(a) /\ S(a) < HalfW
        /\ S(b) \in Int /\ -HalfW <= S(b) /\ S(b) < HalfW
    BY SignedWord
  <2>2. IsI128(S(a) * S(b))
    <3>1. 0 \in {0, 1} /\ (0 = 1 => (S(a) * S(b)) % Bw > 0)  OBVIOUS
    <3> QED  BY <2>1, <3>1, SignedProduct
  <2>3. Means(s_u128_mul(S(a), S(b)), S(a) * S(b))  BY <2>1, MulStands
  <2>4. SameRegister(st')  BY <1>3, <2>2, <2>3, SignedRegister
  <2> QED  BY <2>4 DEF WideInv
<1> QED  BY <1>1, <1>2, <1>3

LEMMA WideAccumStep == WideInv /\ WideAccum => WideInv'
<1> SUFFICES ASSUME WideInv, WideAccum PROVE WideInv'  OBVIOUS
<1>1. PICK a \in Word(W), b \in Word(W) :
        \/ /\ IsWide(FALSE)
           /\ st' = WideReg(FALSE, s_u128_accum_mul(st.s, a, b), n_u128_accum_mul(st.n, a, b),
                            Passed)
        \/ /\ IsWide(TRUE)
           /\ st' = WideReg(TRUE, s_i128_accum_mul(st.s, S(a), S(b)).r,
                            n_i128_accum_mul(st.n, S(a), S(b)).r,
                            [s |-> s_i128_accum_mul(st.s, S(a), S(b)).ok,
                             n |-> n_i128_accum_mul(st.n, S(a), S(b)).ok])
  BY DEF WideAccum
<1>2. CASE /\ IsWide(FALSE)
           /\ st' = WideReg(FALSE, s_u128_accum_mul(st.s, a, b), n_u128_accum_mul(st.n, a, b),
                            Passed)
  <2> DEFINE y == st.n + a * b
  <2>1. a \in Int /\ b \in Int  BY WordPowers DEF Word, Bw
  <2>2. st.n \in Int /\ Means(st.s, st.n)  BY <1>2, RegisterFound DEF IsU128
  <2>3. y \in Int  BY <2>1, <2>2
  <2>4. Means(s_u128_accum_mul(st.s, a, b), y)  BY <2>1, <2>2, AccumMulStands
  <2> HIDE DEF y
  <2>5. Means(s_u128_accum_mul(st.s, a, b), Low(y, 2*W)) /\ IsU128(Low(y, 2*W))
    BY <2>3, <2>4, StandsLow
  <2>6. n_u128_accum_mul(st.n, a, b) = Low(y, 2*W)  BY DEF n_u128_accum_mul, y
  <2>7. SameRegister(st')  BY <1>2, <2>5, <2>6, UnsignedRegister
  <2> QED  BY <2>7 DEF WideInv
<1>3. CASE /\ IsWide(TRUE)
           /\ st' = WideReg(TRUE, s_i128_accum_mul(st.s, S(a), S(b)).r,
                            n_i128_accum_mul(st.n, S(a), S(b)).r,
                            [s |-> s_i128_accum_mul(st.s, S(a), S(b)).ok,
                             n |-> n_i128_accum_mul(st.n, S(a), S(b)).ok])
  <2>1. /\ S(a) \in Int /\ -HalfW <= S(a) /\ S(a) < HalfW
        /\ S(b) \in Int /\ -HalfW <= S(b) /\ S(b) < HalfW
    BY SignedWord
  <2>2. st.n \in Int /\ IsI128(st.n) /\ Means(st.s, st.n)  BY <1>3, RegisterFound DEF IsI128
  <2>3. SameRegister(st')  BY <1>3, <2>1, <2>2, AccumSigned
  <2> QED  BY <2>3 DEF WideInv
<1> QED  BY <1>1, <1>2, <1>3

LEMMA WideAccumWordStep == WideInv /\ WideAccumWord => WideInv'
<1> SUFFICES ASSUME WideInv, WideAccumWord PROVE WideInv'  OBVIOUS
<1>1. PICK a \in Word(W) :
        /\ IsWide(FALSE)
        /\ st' = WideReg(FALSE, s_u128_accum_u64(st.s, a), n_u128_accum_u64(st.n, a), Passed)
  BY DEF WideAccumWord
<1> DEFINE y == st.n + a
<1>2. a \in Int  BY WordPowers DEF Word, Bw
<1>3. st.n \in Int /\ Means(st.s, st.n)  BY <1>1, RegisterFound DEF IsU128
<1>4. y \in Int  BY <1>2, <1>3
<1>5. Means(s_u128_accum_u64(st.s, a), y)  BY <1>3, AccumWordStands
<1> HIDE DEF y
<1>6. Means(s_u128_accum_u64(st.s, a), Low(y, 2*W)) /\ IsU128(Low(y, 2*W))
  BY <1>4, <1>5, StandsLow
<1>7. n_u128_accum_u64(st.n, a) = Low(y, 2*W)  BY DEF n_u128_accum_u64, y
<1>8. SameRegister(st')  BY <1>1, <1>6, <1>7, UnsignedRegister
<1> QED  BY <1>8 DEF WideInv

LEMMA WideDetStep == WideInv /\ WideDet => WideInv'
<1> SUFFICES ASSUME WideInv, WideDet PROVE WideInv'  OBVIOUS
<1>1. PICK a \in DetWords, b \in DetWords, c \in DetWords, d \in DetWords :
        st' = WideReg(TRUE, s_i128_det(S(a), S(b), S(c), S(d)).r,
                      n_i128_det(S(a), S(b), S(c), S(d)).r,
                      [s |-> s_i128_det(S(a), S(b), S(c), S(d)).ok,
                       n |-> n_i128_det(S(a), S(b), S(c), S(d)).ok])
  BY DEF WideDet
<1>2. a \in Word(W) /\ b \in Word(W) /\ c \in Word(W) /\ d \in Word(W)  BY Int128Assumption
<1>3. /\ S(a) \in Int /\ -HalfW <= S(a) /\ S(a) < HalfW
      /\ S(b) \in Int /\ -HalfW <= S(b) /\ S(b) < HalfW
      /\ S(c) \in Int /\ -HalfW <= S(c) /\ S(c) < HalfW
      /\ S(d) \in Int /\ -HalfW <= S(d) /\ S(d) < HalfW
  BY <1>2, SignedWord
<1>4. SameRegister(st')  BY <1>1, <1>3, DetSigned
<1> QED  BY <1>4 DEF WideInv

LEMMA WideShiftStep == WideInv /\ WideShift => WideInv'
<1> SUFFICES ASSUME WideInv, WideShift PROVE WideInv'  OBVIOUS
<1>1. PICK n \in 0 .. 2*W - 1 :
        \/ /\ IsWide(FALSE)
           /\ st' = WideReg(FALSE, s_u128_rshift(st.s, n), Shr(st.n, n), Passed)
        \/ /\ IsWide(TRUE)
           /\ st' = WideReg(TRUE, s_i128_rshift(st.s, n), Shr(st.n, n), Passed)
  BY DEF WideShift, n_rshift
<1>2. CASE /\ IsWide(FALSE)
           /\ st' = WideReg(FALSE, s_u128_rshift(st.s, n), Shr(st.n, n), Passed)
  <2>1. IsU128(st.n) /\ Means(st.s, st.n)  BY <1>2, RegisterFound
  <2>2. Means(s_u128_rshift(st.s, n), Shr(st.n, n)) /\ IsU128(Shr(st.n, n))
    BY <2>1, ShiftUnsigned
  <2>3. SameRegister(st')  BY <1>2, <2>2, UnsignedRegister
  <2> QED  BY <2>3 DEF WideInv
<1>3. CASE /\ IsWide(TRUE)
           /\ st' = WideReg(TRUE, s_i128_rshift(st.s, n), Shr(st.n, n), Passed)
  <2>1. IsI128(st.n) /\ Means(st.s, st.n)  BY <1>3, RegisterFound
  <2>2. Means(s_i128_rshift(st.s, n), Shr(st.n, n)) /\ IsI128(Shr(st.n, n))
    BY <2>1, ShiftSigned
  <2>3. SameRegister(st')  BY <1>3, <2>2, SignedRegister
  <2> QED  BY <2>3 DEF WideInv
<1> QED  BY <1>1, <1>2, <1>3

LEMMA WideFromStep == WideInv /\ WideFrom => WideInv'
<1> SUFFICES ASSUME WideInv, WideFrom PROVE WideInv'  OBVIOUS
<1>1. PICK a \in Word(W) :
        \/ st' = WideReg(FALSE, Pair(0, a), a, Passed)
        \/ st' = WideReg(TRUE, s_i128_from_i64(S(a)), S(a), Passed)
  BY DEF WideFrom
<1>2. Bw \in Nat \ {0} /\ HalfW \in Nat \ {0} /\ Bw = 2 * HalfW /\ HalfW >= 2  BY WordPowers
<1>3. a \in Int /\ 0 <= a /\ a < Bw  BY <1>2 DEF Word, Bw
<1>4. CASE st' = WideReg(FALSE, Pair(0, a), a, Passed)
  <2>1. a = Bw * 0 + a  BY <1>2, <1>3
  <2>2. a \div Bw = 0 /\ a % Bw = a  BY <1>2, <1>3, <2>1, QuotientUnique
  <2>3. Means(Pair(0, a), a)  BY <2>2 DEF Means
  <2>4. IsU128(a)
    <3>1. Bw * (Bw - 1) >= 0  BY <1>2
    <3>2. Bw * Bw - Bw >= 0  BY <3>1, <1>2
    <3> QED  BY <1>2, <1>3, <3>2 DEF IsU128
  <2>5. SameRegister(st')  BY <1>4, <2>3, <2>4, UnsignedRegister
  <2> QED  BY <2>5 DEF WideInv
<1>5. CASE st' = WideReg(TRUE, s_i128_from_i64(S(a)), S(a), Passed)
  <2> DEFINE x == S(a)
  <2>1. x \in Int /\ -HalfW <= x /\ x < HalfW  BY SignedWord
  <2> HIDE DEF x
  <2>2. Shr(x, W - 1) = x \div Bw  BY <2>1, SignOfWord
  <2>3. x \div Bw \in Int  BY <1>2, <2>1, DivMod
  <2>4. Means(Pair(x \div Bw, x), x)  BY <2>1, <2>3, StandsIntro
  <2>5. s_i128_from_i64(x) = Pair(x \div Bw, x)  BY <2>2 DEF s_i128_from_i64
  <2>6. IsI128(x)
    <3>1. (Bw - 1) * HalfW >= 0  BY <1>2
    <3>2. Bw * HalfW - HalfW >= 0  BY <3>1, <1>2
    <3> QED  BY <1>2, <2>1, <3>2 DEF IsI128
  <2>7. SameRegister(st')  BY <1>5, <2>4, <2>5, <2>6, SignedRegister DEF x
  <2> QED  BY <2>7 DEF WideInv
<1> QED  BY <1>1, <1>4, <1>5

\* What the runs check follows from the invariant.
LEMMA WideAgrees == WideInv => WideImplementationsAgree
<1> SUFFICES ASSUME WideInv PROVE WideImplementationsAgree  OBVIOUS
<1>1. st.ok.s = st.ok.n /\ st.signed \in BOOLEAN  BY DEF WideInv, SameRegister
<1>2. ASSUME st.ok = Passed, st.signed = TRUE PROVE SameSigned(st.s, st.n)
  <2>1. IsI128(st.n) /\ Means(st.s, st.n)  BY <1>2 DEF WideInv, SameRegister
  <2> QED  BY <2>1, SignedAgrees
<1>3. ASSUME st.ok = Passed, st.signed = FALSE PROVE SameUnsigned(st.s, st.n)
  <2>1. IsU128(st.n) /\ Means(st.s, st.n)  BY <1>3 DEF WideInv, SameRegister
  <2> QED  BY <2>1, UnsignedAgrees
<1> QED  BY <1>1, <1>2, <1>3 DEF WideImplementationsAgree

\* The two implementations of 128-bit integers agree after any sequence of
\* operations, for words of any even number of bits: on the number, on every
\* verdict of a VERIFY_CHECK and on what the checks and conversions say.
THEOREM WideAgreement == WideSpec => []WideImplementationsAgree
<1>1. WideInv /\ [WideNext]_st => WideInv'
  <2>1. WideInv /\ UNCHANGED st => WideInv'  BY DEF WideInv
  <2> QED  BY <2>1, WideMulStep, WideAccumStep, WideAccumWordStep, WideDetStep, WideShiftStep,
              WideFromStep DEF WideNext
<1> QED  BY WideStarts, <1>1, WideAgrees, PTL DEF WideSpec

-----------------------------------------------------------------------------
(* The coordinates: field elements as residues, with their magnitudes *)

\* Numbers with the same residue.
Same(x, y) == x % P = y % P

\* The order of the field is a number of residues.
LEMMA OrderOfField == P \in Nat \ {0} /\ P > 3 /\ P \in Int
BY FieldAssumption

\* Every integer is its residue and a multiple of the order.
LEMMA Residue ==
    ASSUME NEW x \in Int
    PROVE  /\ x % P \in Elements /\ x % P \in Int
           /\ \E k \in Int : x = (x % P) + P * k
<1>1. /\ x \div P \in Int /\ x % P \in Nat /\ x % P < P
      /\ x = P * (x \div P) + (x % P)
  BY ONLY OrderOfField, x \in Int, DivMod
<1> DEFINE q == x \div P
           m == x % P
<1>2. q \in Int /\ m \in Nat /\ m < P /\ x = P * q + m  BY ONLY <1>1
<1> HIDE DEF q, m
<1>3. P * q \in Int  BY ONLY <1>2, OrderOfField
<1>4. m \in Elements /\ x = m + P * q  BY ONLY <1>2, <1>3, OrderOfField DEF Elements
<1> QED  BY ONLY <1>2, <1>4 DEF m

\* Integers that differ by a multiple of the order have the same residue.
LEMMA SameBy ==
    ASSUME NEW x \in Int, NEW y \in Int, NEW k \in Int, x = y + P * k
    PROVE  Same(x, y)
BY ONLY OrderOfField, x = y + P * k, y \in Int, k \in Int, DivShift DEF Same

\* Integers with the same residue differ by a multiple of the order.
LEMMA SameGives ==
    ASSUME NEW x \in Int, NEW y \in Int, Same(x, y)
    PROVE  \E k \in Int : x = y + P * k
<1>1. PICK p \in Int : x = (x % P) + P * p  BY Residue
<1>2. PICK q \in Int : y = (y % P) + P * q  BY Residue
<1> DEFINE m == x % P
           n == y % P
<1>3. m = n /\ m \in Int /\ x = m + P * p /\ y = n + P * q  BY <1>1, <1>2, Residue DEF Same
<1> HIDE DEF m, n
<1>4. P * (p - q) = P * p - P * q /\ P * p \in Int /\ P * q \in Int /\ p - q \in Int
  BY ONLY OrderOfField, p \in Int, q \in Int
<1>5. x = y + P * (p - q)  BY ONLY <1>3, <1>4, x \in Int, y \in Int
<1> QED  BY <1>4, <1>5

\* A residue is the residue of itself.
LEMMA SameResidue ==
    ASSUME NEW x \in Int
    PROVE  Same(x % P, x) /\ Same(x, x)
<1>1. PICK k \in Int : x = (x % P) + P * k  BY Residue
<1>2. x % P \in Int  BY Residue
<1>3. Same(x, x % P)  BY ONLY <1>1, <1>2, x \in Int, SameBy
<1> QED  BY ONLY <1>3 DEF Same

\* Sums, differences and negatives agree with residues.
LEMMA SameSum ==
    ASSUME NEW x \in Int, NEW y \in Int, NEW u \in Int, NEW v \in Int, Same(x, u), Same(y, v)
    PROVE  Same(x + y, u + v) /\ Same(x - y, u - v) /\ Same(-x, -u)
<1>1. PICK p \in Int : x = u + P * p  BY SameGives
<1>2. PICK q \in Int : y = v + P * q  BY SameGives
<1>3. /\ P * (p + q) = P * p + P * q /\ P * (p - q) = P * p - P * q /\ P * (-p) = -(P * p)
      /\ P * p \in Int /\ P * q \in Int /\ p - q \in Int /\ p + q \in Int /\ -p \in Int
  BY ONLY OrderOfField, p \in Int, q \in Int
<1>4. /\ x + y = (u + v) + P * (p + q) /\ x - y = (u - v) + P * (p - q) /\ -x = -u + P * (-p)
      /\ x + y \in Int /\ u + v \in Int /\ x - y \in Int /\ u - v \in Int
      /\ -x \in Int /\ -u \in Int
  BY ONLY <1>1, <1>2, <1>3, u \in Int, v \in Int, x \in Int, y \in Int
<1> QED  BY ONLY <1>3, <1>4, SameBy

\* Products agree with residues.
LEMMA SameProduct ==
    ASSUME NEW x \in Int, NEW y \in Int, NEW u \in Int, NEW v \in Int, Same(x, u), Same(y, v)
    PROVE  Same(x * y, u * v)
<1>1. PICK p \in Int : x = u + P * p  BY SameGives
<1>2. PICK q \in Int : y = v + P * q  BY SameGives
<1>3. x * y = u * v + P * (p * y + u * q)  BY ONLY <1>1, <1>2, OrderOfField, u \in Int, v \in Int
<1>4. x * y \in Int /\ u * v \in Int /\ p * y + u * q \in Int
  BY ONLY u \in Int, v \in Int, x \in Int, y \in Int, p \in Int, q \in Int
<1> QED  BY ONLY <1>3, <1>4, SameBy

-----------------------------------------------------------------------------
\* Field elements with their magnitudes.
Records == [v : Elements, m : 0 .. MaxMagnitude, n : BOOLEAN]

\* The element e, of magnitude k at most, is the residue of p.
Is(e, p, k) ==
    /\ p \in Int
    /\ e \in Records /\ e.m <= k /\ (e.n => e.m <= 1)
    /\ e.v = p % P

\* The magnitudes that an element may have.
Limits == 0 .. 32

\* What is within a magnitude is within a larger one, for any number of that residue.
LEMMA IsMore ==
    ASSUME NEW e, NEW p \in Int, NEW q \in Int, NEW j \in Limits, NEW k \in Limits,
           Is(e, p, j), j <= k, Same(p, q)
    PROVE  Is(e, q, k)
<1>1. e.m \in Int  BY DEF Is, Records, MaxMagnitude
<1> QED  BY <1>1 DEF Is, Same, Limits

\* What is within a magnitude is within a larger one.
LEMMA IsWider ==
    ASSUME NEW e, NEW p \in Int, NEW j \in Limits, NEW k \in Limits, Is(e, p, j), j <= k
    PROVE  Is(e, p, k)
BY IsMore DEF Same

\* What is the residue of a number passes secp256k1_fe_verify.
LEMMA IsChecked ==
    ASSUME NEW e, NEW p \in Int, NEW j \in Limits, Is(e, p, j)
    PROVE  IsFe(e) /\ Is(e, e.v, j) /\ e.v \in Int
<1>1. e \in Records /\ e.m \in 0 .. 32  BY DEF Is, Records, MaxMagnitude
<1>2. e.v \in Int  BY <1>1, OrderOfField DEF Records, Elements
<1>3. Same(p % P, p)  BY SameResidue
<1>4. e.v % P = e.v  BY <1>3 DEF Is, Same
<1> QED  BY <1>1, <1>2, <1>4 DEF Is, IsFe, MaxMagnitude

\* A new element.
LEMMA FeIs ==
    ASSUME NEW p \in Int, NEW k \in Limits
    PROVE  Is(Fe(p, k), p, k)
<1>1. k \in Int /\ k <= 32 /\ k \in 0 .. MaxMagnitude  BY DEF Limits, MaxMagnitude
<1>2. p % P \in Elements  BY Residue
<1>3. Fe(p, k) = [v |-> p % P, m |-> k, n |-> FALSE]  BY <1>1 DEF Fe, Checked, MaxMagnitude
<1> DEFINE e == [v |-> p % P, m |-> k, n |-> FALSE]
<1>4. e \in Records  BY <1>1, <1>2 DEF Records
<1>5. e.m <= k /\ ~e.n /\ e.v = p % P  BY <1>1
<1>6. Is(e, p, k)  BY <1>4, <1>5 DEF Is
<1> QED  BY <1>3, <1>6

\* The residue of what was computed from residues.
LEMMA FeIsOf ==
    ASSUME NEW p \in Int, NEW q \in Int, NEW j \in Limits, NEW k \in Limits, j <= k, Same(p, q)
    PROVE  Is(Fe(p, j), q, k)
BY FeIs, IsMore

\* secp256k1_fe_mul, for factors of magnitude 8 at most.
LEMMA MulIs ==
    ASSUME NEW x, NEW y, NEW p \in Int, NEW q \in Int, NEW j \in Limits, NEW k \in Limits,
           Is(x, p, j), Is(y, q, k), j <= 8, k <= 8
    PROVE  Is(Mul(x, y), p * q, 1)
<1>1. x.v \in Int /\ y.v \in Int /\ x.v = p % P /\ y.v = q % P  BY IsChecked DEF Is
<1>2. x.m <= 8 /\ y.m <= 8
  <2>1. x.m \in Int /\ y.m \in Int /\ x.m <= j /\ y.m <= k  BY DEF Is, Records, MaxMagnitude
  <2> QED  BY <2>1 DEF Limits
<1>3. Mul(x, y) = Fe(x.v * y.v, 1)  BY ONLY <1>2 DEF Mul, Checked
<1>4. Same(x.v, p) /\ Same(y.v, q)  BY <1>1, SameResidue
<1>5. Same(x.v * y.v, p * q)  BY <1>1, <1>4, SameProduct
<1>6. x.v * y.v \in Int /\ p * q \in Int  BY <1>1
<1>7. 1 \in Limits  BY DEF Limits
<1>8. Is(Fe(x.v * y.v, 1), p * q, 1)  BY ONLY <1>5, <1>6, <1>7, FeIsOf
<1> QED  BY <1>3, <1>8

\* secp256k1_fe_sqr.
LEMMA SqrIs ==
    ASSUME NEW x, NEW p \in Int, NEW j \in Limits, Is(x, p, j), j <= 8
    PROVE  Is(Sqr(x), p * p, 1)
BY MulIs DEF Sqr

\* secp256k1_fe_add, as long as the magnitudes add up to 32 at most.
LEMMA AddIs ==
    ASSUME NEW x, NEW y, NEW p \in Int, NEW q \in Int, NEW j \in Limits, NEW k \in Limits,
           Is(x, p, j), Is(y, q, k), j + k <= 32
    PROVE  Is(Add(x, y), p + q, j + k)
<1>1. x.v \in Int /\ y.v \in Int /\ x.v = p % P /\ y.v = q % P  BY IsChecked DEF Is
<1>2. /\ x.m \in Int /\ y.m \in Int /\ x.m <= j /\ y.m <= k /\ x.m >= 0 /\ y.m >= 0
      /\ j \in Int /\ k \in Int
  BY DEF Is, Records, MaxMagnitude, Limits
<1>3. x.m + y.m \in Limits /\ j + k \in Limits /\ x.m + y.m <= j + k  BY <1>2 DEF Limits
<1>4. Same(x.v, p) /\ Same(y.v, q)  BY <1>1, SameResidue
<1>5. Same(x.v + y.v, p + q)  BY <1>1, <1>4, SameSum
<1>6. x.v + y.v \in Int /\ p + q \in Int  BY <1>1
<1>7. Is(Fe(x.v + y.v, x.m + y.m), p + q, j + k)  BY ONLY <1>3, <1>5, <1>6, FeIsOf
<1> QED  BY <1>7 DEF Add

\* secp256k1_fe_negate, when the caller's magnitude bounds the element's.
LEMMA NegateIs ==
    ASSUME NEW x, NEW p \in Int, NEW j \in Limits, NEW k \in Limits, Is(x, p, j), j <= k, k <= 31
    PROVE  Is(Negate(x, k), -p, k + 1)
<1>1. x.v \in Int /\ x.v = p % P  BY IsChecked DEF Is
<1>2. x.m \in Int /\ x.m <= j /\ j \in Int /\ k \in Int  BY DEF Is, Records, MaxMagnitude, Limits
<1>3. k + 1 \in Limits /\ x.m <= k  BY <1>2 DEF Limits
<1>4. Same(x.v, p)  BY <1>1, SameResidue
<1>5. Same(-x.v, -p)  BY <1>1, <1>4, SameSum
<1>6. -x.v \in Int /\ -p \in Int  BY <1>1
<1>7. Is(Fe(-x.v, k + 1), -p, k + 1)  BY ONLY <1>2, <1>3, <1>5, <1>6, FeIsOf
<1> QED  BY <1>3, <1>7 DEF Negate, Checked

\* secp256k1_fe_mul_int, as long as the magnitude does not exceed 32.
LEMMA MulIntIs ==
    ASSUME NEW x, NEW p \in Int, NEW j \in Limits, NEW c \in Nat, Is(x, p, j), j * c <= 32
    PROVE  Is(MulInt(x, c), p * c, j * c)
<1>1. x.v \in Int /\ x.v = p % P  BY IsChecked DEF Is
<1>2. x.m \in Int /\ x.m <= j /\ j \in Int /\ x.m >= 0  BY DEF Is, Records, MaxMagnitude, Limits
<1>3. x.m * c \in Int /\ j * c \in Int /\ x.m * c >= 0 /\ (j - x.m) * c >= 0  BY <1>2
<1>4. (j - x.m) * c = j * c - x.m * c  BY <1>2
<1>5. x.m * c \in Limits /\ j * c \in Limits /\ x.m * c <= j * c
  <2> DEFINE g == x.m * c
             h == j * c
  <2>1. g \in Int /\ h \in Int /\ g >= 0 /\ h - g >= 0 /\ h <= 32  BY <1>3, <1>4
  <2> HIDE DEF g, h
  <2>2. g \in 0 .. 32 /\ h \in 0 .. 32 /\ g <= h  BY ONLY <2>1
  <2> QED  BY ONLY <2>2 DEF g, h, Limits
<1>6. Same(x.v, p) /\ Same(c, c)  BY <1>1, SameResidue
<1>7. Same(x.v * c, p * c)  BY <1>1, <1>6, SameProduct
<1>8. x.v * c \in Int /\ p * c \in Int  BY <1>1
<1>9. Is(Fe(x.v * c, x.m * c), p * c, j * c)  BY ONLY <1>5, <1>7, <1>8, FeIsOf
<1> QED  BY <1>9 DEF MulInt

\* Half of what is the double of q.
LEMMA HalfIs ==
    ASSUME NEW x, NEW p \in Int, NEW q \in Int, NEW j \in Limits, NEW k \in Limits,
           Is(x, p, j), j <= 2 * k + 1, k + 1 <= 16, Same(p, 2 * q)
    PROVE  Is(Half(x), q, k + 1)
<1>1. x.v \in Int /\ x.v = p % P  BY IsChecked DEF Is
<1>2. /\ x.m \in Int /\ x.m <= j /\ j \in Int /\ k \in Int /\ k >= 0 /\ k <= 15 /\ x.m >= 0
      /\ x.m <= 31
  BY DEF Is, Records, MaxMagnitude, Limits
<1> DEFINE g == x.m
           d == g \div 2
           h == (P + 1) \div 2
<1>3. d + 1 \in Limits /\ d + 1 <= k + 1
  <2>1. g \in Int /\ g >= 0 /\ g <= 2 * k + 1  BY <1>2
  <2> HIDE DEF g
  <2>2. d \in Int /\ g = 2 * d + (g % 2) /\ g % 2 \in 0 .. 1  BY <2>1
  <2> QED  BY ONLY <1>2, <2>1, <2>2 DEF Limits
<1>4. h \in Int /\ 2 * h = P + 1
  <2>1. P \in Int /\ P % 4 = 3  BY FieldAssumption
  <2> QED  BY <2>1
<1> HIDE DEF h
<1>5. Same(x.v, p)  BY <1>1, SameResidue
<1>6. Same(x.v, 2 * q)  BY ONLY <1>5, Same(p, 2 * q) DEF Same
<1>7. Same(h, h)  BY <1>4, SameResidue
<1>8. Same(x.v * h, (2 * q) * h)  BY <1>1, <1>4, <1>6, <1>7, SameProduct
<1>9. Same((2 * q) * h, q)
  <2>1. (2 * q) * h = q * (2 * h)  BY <1>4
  <2>2. q * (P + 1) = q + P * q  BY OrderOfField
  <2>3. (2 * q) * h = q + P * q  BY <1>4, <2>1, <2>2
  <2>4. (2 * q) * h \in Int  BY <1>4
  <2> QED  BY <2>3, <2>4, SameBy
<1>10. x.v * h \in Int /\ Same(x.v * h, q)  BY <1>1, <1>4, <1>8, <1>9 DEF Same
<1>11. k + 1 \in Limits  BY <1>2 DEF Limits
<1>12. Is(Fe(x.v * h, d + 1), q, k + 1)  BY ONLY <1>3, <1>10, <1>11, q \in Int, FeIsOf
<1> QED  BY <1>2, <1>12 DEF Half, Checked, h

\* secp256k1_fe_normalize.
LEMMA NormalizeIs ==
    ASSUME NEW x, NEW p \in Int, NEW j \in Limits, Is(x, p, j)
    PROVE  Is(Normalize(x), p, 1) /\ Normalize(x).n = TRUE
<1>1. IsFe(x) /\ x \in Records  BY IsChecked DEF Is
<1>2. Normalize(x) = [x EXCEPT !.m = 1, !.n = TRUE]  BY <1>1 DEF Normalize, Checked
<1>3. Normalize(x) = [v |-> x.v, m |-> 1, n |-> TRUE]  BY <1>1, <1>2 DEF Records
<1>4. Normalize(x) \in Records  BY <1>1, <1>3 DEF Records, MaxMagnitude
<1>5. Normalize(x).m = 1 /\ Normalize(x).v = x.v /\ Normalize(x).n = TRUE  BY <1>3
<1> QED  BY <1>4, <1>5 DEF Is

\* secp256k1_fe_normalize_weak.
LEMMA NormalizeWeakIs ==
    ASSUME NEW x, NEW p \in Int, NEW j \in Limits, Is(x, p, j)
    PROVE  Is(NormalizeWeak(x), p, 1)
<1>1. IsFe(x) /\ x \in Records  BY IsChecked DEF Is
<1>2. NormalizeWeak(x) = [x EXCEPT !.m = 1]  BY <1>1 DEF NormalizeWeak, Checked
<1>3. /\ NormalizeWeak(x) \in Records /\ NormalizeWeak(x).m = 1
      /\ NormalizeWeak(x).v = x.v
  BY <1>1, <1>2 DEF Records, MaxMagnitude
<1> QED  BY <1>3 DEF Is

\* secp256k1_fe_cmov.
LEMMA CmovIs ==
    ASSUME NEW x, NEW y, NEW p \in Int, NEW q \in Int, NEW k \in Limits, NEW f \in BOOLEAN,
           Is(x, p, k), Is(y, q, k)
    PROVE  Is(Cmov(x, y, f), IF f THEN q ELSE p, k)
<1>1. IsFe(x) /\ IsFe(y) /\ x \in Records /\ y \in Records  BY IsChecked DEF Is
<1>2. Cmov(x, y, f) = [v |-> IF f THEN y.v ELSE x.v, m |-> IF y.m > x.m THEN y.m ELSE x.m,
                       n |-> x.n /\ y.n]
  BY <1>1 DEF Cmov, Checked
<1>3. /\ Cmov(x, y, f).v = IF f THEN y.v ELSE x.v
      /\ Cmov(x, y, f).m = IF y.m > x.m THEN y.m ELSE x.m
      /\ Cmov(x, y, f).n = (x.n /\ y.n)
  BY <1>2
<1>4. Cmov(x, y, f) \in Records  BY <1>1, <1>2 DEF Records
<1>5. /\ x.m \in Int /\ y.m \in Int /\ x.m <= k /\ y.m <= k
      /\ (x.n => x.m <= 1) /\ (y.n => y.m <= 1) /\ x.v = p % P /\ y.v = q % P
  BY <1>1 DEF Is, Records, MaxMagnitude
<1>6. Cmov(x, y, f).m <= k /\ (Cmov(x, y, f).n => Cmov(x, y, f).m <= 1)
  BY <1>3, <1>5
<1>7. Cmov(x, y, f).v = (IF f THEN q ELSE p) % P  BY <1>3, <1>5
<1> QED  BY <1>4, <1>6, <1>7 DEF Is

\* The constants, and what is stored of an element.
LEMMA SmallIs ==
    /\ Is(SetInt(0), 0, 1) /\ Is(SetInt(1), 1, 1) /\ Is(One, 1, 1)
    /\ \A x \in Elements : x % P = x /\ x \in Int /\ Is(Stored(x), x, 1) /\ Stored(x).n = TRUE
    /\ 0 \in Elements /\ 1 \in Elements
<1>1. \A x \in Elements : x % P = x /\ x \in Int  BY FieldAssumption DEF Elements
<1>2. 0 \in Elements /\ 1 \in Elements  BY OrderOfField DEF Elements
<1>3. ASSUME NEW x \in Elements PROVE Is(Stored(x), x, 1) /\ Stored(x).n = TRUE
  <2>1. Stored(x) = [v |-> x, m |-> 1, n |-> TRUE]  BY DEF Stored
  <2> QED  BY <1>1, <2>1 DEF Is, Records, MaxMagnitude
<1>4. SetInt(1) = Stored(1) /\ One = Stored(1)  BY <1>1, <1>2 DEF SetInt, Stored, One
<1>5. Is(SetInt(0), 0, 1)
  <2>1. SetInt(0) = [v |-> 0, m |-> 0, n |-> TRUE]  BY <1>1, <1>2 DEF SetInt
  <2> DEFINE z == [v |-> 0, m |-> 0, n |-> TRUE]
  <2>0. z.v = 0 /\ z.m = 0 /\ 0 \in 0 .. 32  OBVIOUS
  <2>2. SetInt(0) \in Records
    <3>1. z \in Records  BY <1>2, <2>0 DEF Records, MaxMagnitude
    <3> QED  BY <2>1, <3>1
  <2>3. SetInt(0).m = 0 /\ SetInt(0).v = 0 /\ 0 % P = 0  BY <1>1, <1>2, <2>1
  <2> QED  BY <2>2, <2>3 DEF Is
<1> QED  BY <1>1, <1>2, <1>3, <1>4, <1>5

\* secp256k1_fe_normalizes_to_zero.
LEMMA ZeroIs ==
    ASSUME NEW x, NEW p \in Int, NEW j \in Limits, Is(x, p, j)
    PROVE  NormalizesToZero(x) <=> Same(p, 0)
<1>1. IsFe(x) /\ x.v = p % P  BY IsChecked DEF Is
<1>2. 0 % P = 0  BY SmallIs
<1> QED  BY <1>1, <1>2 DEF NormalizesToZero, Same

\* secp256k1_fe_equal, for the magnitudes that it allows.
LEMMA EqualIs ==
    ASSUME NEW x, NEW y, NEW p \in Int, NEW q \in Int, NEW j \in Limits, NEW k \in Limits,
           Is(x, p, j), Is(y, q, k), j <= 1, k <= 30
    PROVE  Equal(x, y) <=> Same(p, q)
<1>1. x.m \in Int /\ y.m \in Int /\ x.m <= j /\ y.m <= k /\ x.v = p % P /\ y.v = q % P
  BY DEF Is, Records, MaxMagnitude
<1>2. x.m <= 1 /\ y.m <= 30  BY <1>1 DEF Limits
<1> QED  BY <1>1, <1>2 DEF Equal, Same

-----------------------------------------------------------------------------

\* A number that has an inverse.
NonZero(p) == ~Same(p, 0)

\* What is not 0 has an inverse, because the order is prime.
LEMMA InverseOf ==
    ASSUME NEW p \in Int, NonZero(p)
    PROVE  /\ Inverses[p % P] \in Elements /\ Inverses[p % P] \in Int
           /\ Same(p * Inverses[p % P], 1)
<1> DEFINE x == p % P
           y == Inverses[x]
<1>1. x \in Elements /\ x # 0 /\ x \in 1 .. P-1 /\ x \in Int
  <2>1. p % P \in Elements  BY Residue
  <2>2. p % P # 0  BY SmallIs DEF NonZero, Same
  <2> QED  BY <2>1, <2>2, OrderOfField DEF Elements
<1>2. Same(x, p)  BY SameResidue
<1> HIDE DEF x
<1>3. \E b \in Elements : (x * b) % P = 1  BY <1>1, FieldIsPrime
<1>4. y = CHOOSE b \in Elements : (x * b) % P = 1  BY <1>1 DEF Inverses
<1>5. y \in Elements /\ (x * y) % P = 1  BY <1>3, <1>4
<1>6. y \in Int  BY <1>5, SmallIs
<1> HIDE DEF y
<1>7. Same(x * y, 1)  BY <1>5, SmallIs DEF Same
<1>8. Same(x * y, p * y)  BY <1>1, <1>2, <1>6, SameProduct, SameResidue
<1>9. Same(p * y, 1)  BY <1>7, <1>8 DEF Same
<1> QED  BY <1>5, <1>6, <1>9 DEF x, y

\* secp256k1_fe_inv.
LEMMA InvIs ==
    ASSUME NEW x, NEW p \in Int, NEW j \in Limits, Is(x, p, j)
    PROVE  /\ \E q \in Int : Is(Inv(x), q, 1)
           /\ NonZero(p) => Is(Inv(x), Inverses[p % P], 1)
<1>1. IsFe(x) /\ x.v = p % P /\ x.m \in Int /\ x.v \in Elements
  BY IsChecked DEF Is, Records, MaxMagnitude
<1>2. Inv(x) = [v |-> Inverses[x.v], m |-> IF x.m > 0 THEN 1 ELSE 0, n |-> TRUE]
  BY <1>1 DEF Inv, Checked
<1>3. Inverses[x.v] \in Elements
  <2>1. CASE x.v = 0  BY <1>1, <2>1, SmallIs DEF Inverses
  <2>2. CASE x.v # 0
    <3>1. NonZero(p)  BY <1>1, <2>2, SmallIs DEF NonZero, Same
    <3> QED  BY <1>1, <3>1, InverseOf
  <2> QED  BY <2>1, <2>2
<1>4. Inverses[x.v] % P = Inverses[x.v] /\ Inverses[x.v] \in Int  BY <1>3, SmallIs
<1>5. Is(Inv(x), Inverses[x.v], 1)
  BY <1>1, <1>2, <1>3, <1>4 DEF Is, Records, MaxMagnitude
<1> QED  BY <1>1, <1>4, <1>5

\* Where a product is zero, one of the factors is.
LEMMA NoZeroDivisors ==
    ASSUME NEW p \in Int, NEW q \in Int
    PROVE  /\ NonZero(p) /\ Same(p * q, 0) => Same(q, 0)
           /\ NonZero(p) /\ NonZero(q) => NonZero(p * q)
<1>1. ASSUME NonZero(p), Same(p * q, 0) PROVE Same(q, 0)
  <2> DEFINE y == Inverses[p % P]
  <2>1. y \in Int /\ Same(p * y, 1)  BY <1>1, InverseOf
  <2> HIDE DEF y
  <2>2. Same(y, y) /\ Same(q, q)  BY <2>1, SameResidue
  <2>3. p * q \in Int /\ p * y \in Int  BY <2>1
  <2>4. Same((p * q) * y, 0 * y) BY <1>1, <2>1, <2>2, <2>3, SameProduct
  <2>5. Same((p * y) * q, 1 * q)  BY <1>1, <2>1, <2>2, <2>3, SameProduct
  <2>6. (p * q) * y = (p * y) * q /\ 0 * y = 0 /\ 1 * q = q  BY <2>1
  <2> QED  BY <2>4, <2>5, <2>6 DEF Same
<1> QED  BY <1>1 DEF NonZero
-----------------------------------------------------------------------------
\* The magnitudes that a factor may have.
Factors == 0 .. 8

\* The magnitudes that occur are among those that are allowed.
LEMMA Small ==
    /\ 0 \in Limits /\ 1 \in Limits /\ 2 \in Limits /\ 3 \in Limits /\ 4 \in Limits
    /\ 5 \in Limits /\ 6 \in Limits /\ 7 \in Limits /\ 8 \in Limits
    /\ 0 \in Factors /\ 1 \in Factors /\ 2 \in Factors /\ 3 \in Factors /\ 4 \in Factors
    /\ 5 \in Factors /\ 6 \in Factors /\ 7 \in Factors /\ 8 \in Factors
BY DEF Limits, Factors

\* Sums, products and negatives of integers, by name.
Plus(p, q)  == p + q
Times(p, q) == p * q
Minus(p)    == -p
Fits(j, k, c) == j + k <= c

\* The operations again, with their results given by name.
LEMMA MulStep ==
    ASSUME NEW x, NEW y, NEW p, NEW q, NEW j \in Factors, NEW k \in Factors,
           Is(x, p, j), Is(y, q, k)
    PROVE  Is(Mul(x, y), Times(p, q), 1)
<1>1. p \in Int /\ q \in Int  BY DEF Is
<1> QED  BY <1>1, MulIs DEF Limits, Factors, Times

\* The square, with its result given by name.
LEMMA SqrStep ==
    ASSUME NEW x, NEW p, NEW j \in Factors, Is(x, p, j)
    PROVE  Is(Sqr(x), Times(p, p), 1)
BY MulStep DEF Sqr

\* The sum, with its result given by name.
LEMMA AddStep ==
    ASSUME NEW x, NEW y, NEW p, NEW q, NEW j \in Limits, NEW k \in Limits, NEW c \in Limits,
           Is(x, p, j), Is(y, q, k), Fits(j, k, c)
    PROVE  Is(Add(x, y), Plus(p, q), c)
<1>0. p \in Int /\ q \in Int  BY DEF Is
<1>1. j + k <= 32 /\ j + k \in Limits  BY DEF Limits, Fits
<1>2. Is(Add(x, y), p + q, j + k)  BY <1>0, <1>1, AddIs
<1>3. p + q \in Int  BY <1>0
<1> DEFINE d == j + k
<1> HIDE DEF d
<1>4. d \in Limits /\ d <= c /\ Is(Add(x, y), p + q, d)  BY <1>1, <1>2 DEF d, Fits
<1>5. Is(Add(x, y), p + q, c)  BY ONLY <1>3, <1>4, c \in Limits, IsWider
<1> QED  BY <1>5 DEF Plus

\* The negative, with its result given by name.
LEMMA NegateStep ==
    ASSUME NEW x, NEW p, NEW j \in Limits, NEW k \in Factors, NEW c \in Limits,
           Is(x, p, j), j <= k, Fits(k, 1, c)
    PROVE  Is(Negate(x, k), Minus(p), c)
<1>0. p \in Int  BY DEF Is
<1>1. k + 1 \in Limits /\ k \in Limits /\ k <= 31  BY DEF Limits, Factors
<1>2. Is(Negate(x, k), -p, k + 1)  BY <1>0, <1>1, NegateIs
<1>3. -p \in Int  BY <1>0
<1> DEFINE d == k + 1
<1> HIDE DEF d
<1>4. d \in Limits /\ d <= c /\ Is(Negate(x, k), -p, d)  BY <1>1, <1>2 DEF d, Fits
<1>5. Is(Negate(x, k), -p, c)  BY ONLY <1>3, <1>4, c \in Limits, IsWider
<1> QED  BY <1>5 DEF Minus

\* As IsMore.
LEMMA Widen ==
    ASSUME NEW x, NEW p, NEW j \in Limits, NEW c \in Limits, Is(x, p, j), j <= c
    PROVE  Is(x, p, c)
<1>0. p \in Int  BY DEF Is
<1> QED  BY <1>0, IsWider

\* Another representative.
LEMMA Retarget ==
    ASSUME NEW x, NEW p, NEW q, NEW k \in Limits, Is(x, p, k), q \in Int, Same(p, q)
    PROVE  Is(x, q, k)
<1>0. p \in Int /\ k <= k  BY DEF Is, Limits
<1> QED  BY <1>0, IsMore

\* A magnitude times a constant does not exceed another.
Scaled(j, c, k) == j * c <= k

\* The multiple, with its result given by name.
LEMMA MulIntStep ==
    ASSUME NEW x, NEW p, NEW j \in Limits, NEW c \in Nat, NEW k \in Limits,
           Is(x, p, j), Scaled(j, c, k)
    PROVE  Is(MulInt(x, c), Times(p, c), k)
<1>0. p \in Int  BY DEF Is
<1> DEFINE d == j * c
<1>1. d \in Int /\ d >= 0 /\ d <= k /\ k \in Int /\ k <= 32  BY DEF Limits, Scaled
<1>2. d <= 32  BY <1>1
<1>3. Is(MulInt(x, c), p * c, d)  BY <1>0, <1>2, MulIntIs
<1> HIDE DEF d
<1>4. d \in Limits  BY <1>1 DEF Limits
<1>5. p * c \in Int  BY <1>0
<1>6. Is(MulInt(x, c), p * c, k)  BY ONLY <1>1, <1>3, <1>4, <1>5, k \in Limits, IsWider
<1> QED  BY <1>6 DEF Times

\* The magnitude of a half is one more than half the magnitude.
Halved(j, k) == j <= 2 * k - 1

\* The half, with its result given by name.
LEMMA HalfStep ==
    ASSUME NEW x, NEW p, NEW q, NEW j \in Limits, NEW k \in Factors,
           Is(x, p, j), q \in Int, Same(p, Times(2, q)), Halved(j, k), k # 0
    PROVE  Is(Half(x), q, k)
<1>0. p \in Int  BY DEF Is
<1> DEFINE d == k - 1
<1>1. d \in Limits /\ j <= 2 * d + 1 /\ d + 1 <= 16 /\ d + 1 = k  BY DEF Limits, Factors, Halved
<1>2. Same(p, 2 * q)  BY DEF Times
<1> HIDE DEF d
<1>3. Is(Half(x), q, d + 1)  BY ONLY <1>0, <1>1, <1>2, q \in Int, Is(x, p, j), j \in Limits, HalfIs
<1> QED  BY <1>1, <1>3

\* The magnitudes that occur.
LEMMA Sums ==
    /\ Fits(1, 1, 2) /\ Fits(2, 1, 3) /\ Fits(1, 3, 4) /\ Fits(3, 1, 4) /\ Fits(1, 2, 3)
    /\ Fits(1, 4, 5) /\ Fits(4, 1, 5) /\ Fits(1, 5, 6) /\ Fits(5, 1, 6) /\ Fits(2, 4, 6)
    /\ Fits(6, 1, 7)
    /\ Scaled(1, 3, 3) /\ Scaled(4, 2, 8) /\ Scaled(2, 2, 4) /\ Scaled(1, 8, 8)
    /\ Halved(3, 2) /\ Halved(7, 4)
    /\ 3 \in Nat /\ 2 \in Nat
BY DEF Fits, Scaled, Halved

-----------------------------------------------------------------------------
\* Points in affine and in jacobian coordinates.
Ges  == [x : Records, y : Records, inf : BOOLEAN]
Gejs == [x : Records, y : Records, z : Records, inf : BOOLEAN]

\* The coordinates of a point, within their magnitudes.
At(p, X, Y, Z) == p \in Gejs /\ Is(p.x, X, 4) /\ Is(p.y, Y, 4) /\ Is(p.z, Z, 1)
AtGe(p, X, Y)  == p \in Ges /\ Is(p.x, X, 4) /\ Is(p.y, Y, 3)

\* The coordinates that secp256k1_gej_double computes, and their magnitudes.
LEMMA DoubleAt ==
    ASSUME NEW p, NEW X, NEW Y, NEW Z, At(p, X, Y, Z),
           NEW Sv \in Int, NEW L \in Int, NEW T \in Int, NEW X3 \in Int, NEW Y3 \in Int,
           NEW Zs \in Int,
           Same(Times(Y, Y), Sv), Same(Times(Times(X, X), 3), Times(2, L)),
           Same(Times(Minus(Sv), X), T), Same(Plus(Plus(Times(L, L), T), T), X3),
           Same(Minus(Plus(Times(Plus(T, X3), L), Times(Sv, Sv))), Y3), Same(Times(Z, Y), Zs)
    PROVE  At(Double(p), X3, Y3, Zs) /\ Double(p).inf = p.inf
<1> DEFINE s == Sqr(p.y)
           l == Half(MulInt(Sqr(p.x), 3))
           t == Mul(Negate(s, 1), p.x)
           x == Add(Add(Sqr(l), t), t)
           y == Negate(Add(Mul(Add(t, x), l), Sqr(s)), 2)
           z == Mul(p.z, p.y)
<1>1. Is(p.x, X, 4) /\ Is(p.y, Y, 4) /\ Is(p.z, Z, 1) /\ p \in Gejs  BY DEF At
<1>2. Is(s, Sv, 1)  BY <1>1, SqrStep, Retarget, Small
<1>3. Is(l, L, 2)
  <2>1. Is(Sqr(p.x), Times(X, X), 1)  BY <1>1, SqrStep, Small
  <2>2. Is(MulInt(Sqr(p.x), 3), Times(Times(X, X), 3), 3)  BY <2>1, MulIntStep, Small, Sums
  <2> QED  BY <2>2, HalfStep, Small, Sums
<1> HIDE DEF s, l
<1>4. Is(t, T, 1)
  <2>1. Is(Negate(s, 1), Minus(Sv), 2)  BY <1>2, NegateStep, Small, Sums
  <2> QED  BY <1>1, <2>1, MulStep, Retarget, Small
<1> HIDE DEF t
<1>5. Is(x, X3, 3)
  <2>1. Is(Sqr(l), Times(L, L), 1)  BY <1>3, SqrStep, Small
  <2>2. Is(Add(Sqr(l), t), Plus(Times(L, L), T), 2)  BY <1>4, <2>1, AddStep, Small, Sums
  <2>3. Is(x, Plus(Plus(Times(L, L), T), T), 3)  BY <1>4, <2>2, AddStep, Small, Sums
  <2> QED  BY <2>3, Retarget, Small
<1> HIDE DEF x
<1>6. Is(y, Y3, 3)
  <2>1. Is(Add(t, x), Plus(T, X3), 4)  BY <1>4, <1>5, AddStep, Small, Sums
  <2>2. Is(Mul(Add(t, x), l), Times(Plus(T, X3), L), 1)  BY <1>3, <2>1, MulStep, Small
  <2>3. Is(Sqr(s), Times(Sv, Sv), 1)  BY <1>2, SqrStep, Small
  <2>4. Is(Add(Mul(Add(t, x), l), Sqr(s)), Plus(Times(Plus(T, X3), L), Times(Sv, Sv)), 2)
    BY <2>2, <2>3, AddStep, Small, Sums
  <2>5. Is(y, Minus(Plus(Times(Plus(T, X3), L), Times(Sv, Sv))), 3)
    BY <2>4, NegateStep, Small, Sums
  <2> QED  BY <2>5, Retarget, Small
<1>7. Is(z, Zs, 1)  BY <1>1, MulStep, Retarget, Small
<1> HIDE DEF y, z
<1>8. Double(p) = [x |-> x, y |-> y, z |-> z, inf |-> p.inf]
  BY DEF Double, s, l, t, x, y, z
<1>9. Is(x, X3, 4) /\ Is(y, Y3, 4)  BY <1>5, <1>6, Widen, Small
<1>10. p.inf \in BOOLEAN /\ x \in Records /\ y \in Records /\ z \in Records
  BY <1>1, <1>5, <1>6, <1>7 DEF Gejs, Is
<1>11. Double(p) \in Gejs  BY ONLY <1>8, <1>10 DEF Gejs
<1>12. Double(p).x = x /\ Double(p).y = y /\ Double(p).z = z /\ Double(p).inf = p.inf
  BY ONLY <1>8
<1> QED  BY ONLY <1>7, <1>9, <1>11, <1>12 DEF At

-----------------------------------------------------------------------------
\* A finite point is not infinity.
LEMMA PairIsNoNone ==
    ASSUME NEW x, NEW y
    PROVE  <<x, y>> # None /\ <<x, y>>[1] = x /\ <<x, y>>[2] = y
BY DEF None

\* The slope l of the line through two points, or of the tangent.
Slope(x1, y1, x2, y2, l) ==
    /\ l \in Int
    /\ x1 # x2 => Same(Times(l, x2 - x1), y2 - y1)
    /\ x1 = x2 => Same(Times(l, 2 * y1), 3 * x1 * x1)

\* The sum of two finite points, by the slope of the line through them.
LEMMA SumOf ==
    ASSUME NEW x1 \in Elements, NEW y1 \in Elements, NEW x2 \in Elements, NEW y2 \in Elements
    PROVE  /\ x1 = x2 /\ y1 # y2 => RefAdd(<<x1, y1>>, <<x2, y2>>) = None
           /\ x1 # x2 \/ (y1 = y2 /\ y1 # 0) =>
                \E l, x3, y3 :
                   /\ RefAdd(<<x1, y1>>, <<x2, y2>>) = <<x3, y3>>
                   /\ Slope(x1, y1, x2, y2, l) /\ x3 \in Elements /\ y3 \in Elements
                   /\ Same(x3, l * l - x1 - x2) /\ Same(y3, l * (x1 - x3) - y1)
<1> DEFINE p == <<x1, y1>>
           q == <<x2, y2>>
           Third(num, den) ==
             LET l == num * Inverses[den % P]
                 x == (l * l - p[1] - q[1]) % P
             IN  <<x, (l * (p[1] - x) - p[2]) % P>>
           Found == \E l, x3, y3 :
              /\ RefAdd(p, q) = <<x3, y3>>
              /\ Slope(x1, y1, x2, y2, l) /\ x3 \in Elements /\ y3 \in Elements
              /\ Same(x3, l * l - x1 - x2) /\ Same(y3, l * (x1 - x3) - y1)
<1>1. p # None /\ q # None /\ p[1] = x1 /\ p[2] = y1 /\ q[1] = x2 /\ q[2] = y2
  BY PairIsNoNone
<1>2. RefAdd(p, q) =
        IF p = q THEN Third(3 * p[1] * p[1], 2 * p[2])
        ELSE IF p[1] = q[1] THEN None ELSE Third(q[2] - p[2], q[1] - p[1])
  BY <1>1 DEF RefAdd
<1>3. ASSUME x1 = x2, y1 # y2 PROVE RefAdd(p, q) = None
  BY <1>1, <1>2, <1>3
<1>4. ASSUME NEW num \in Int, NEW den \in Int, NonZero(den)
      PROVE \E l, x3, y3 :
                   /\ Third(num, den) = <<x3, y3>>
                   /\ l \in Int /\ Same(Times(l, den), num) /\ x3 \in Elements /\ y3 \in Elements
                   /\ Same(x3, l * l - x1 - x2) /\ Same(y3, l * (x1 - x3) - y1)
  <2> DEFINE e == Inverses[den % P]
             l == num * e
             u == l * l - x1 - x2
             x3 == u % P
             v == l * (x1 - x3) - y1
             y3 == v % P
  <2>1. e \in Int /\ Same(den * e, 1)  BY <1>4, InverseOf
  <2>2. Third(num, den) = <<x3, y3>>  BY <1>1
  <2> HIDE DEF e
  <2>3. Same(Times(l, den), num)
    <3>1. den * e \in Int  BY <2>1
    <3>2. Same(num * (den * e), num * 1)  BY <2>1, <3>1, SameProduct, SameResidue
    <3>3. (num * e) * den = num * (den * e) /\ num * 1 = num  BY <2>1
    <3> QED  BY <3>2, <3>3 DEF Times
  <2>4. l \in Int /\ x1 \in Int /\ x2 \in Int /\ y1 \in Int  BY <2>1, SmallIs
  <2> HIDE DEF l
  <2>5. u \in Int  BY <2>4
  <2> HIDE DEF u
  <2>6. x3 \in Elements /\ Same(x3, u) /\ x3 \in Int  BY <2>5, Residue, SameResidue
  <2> HIDE DEF x3
  <2>7. v \in Int  BY <2>4, <2>6
  <2> HIDE DEF v
  <2>8. y3 \in Elements /\ Same(y3, v)  BY <2>7, Residue, SameResidue
  <2> HIDE DEF y3
  <2> QED  BY <2>2, <2>3, <2>4, <2>6, <2>8 DEF u, v
<1>5. x1 \in Int /\ x2 \in Int /\ y1 \in Int /\ y2 \in Int /\ y1 % P = y1
      /\ x1 % P = x1 /\ x2 % P = x2
  BY SmallIs
<1>6. ASSUME x1 # x2
      PROVE  Found
  <2>1. p # q  BY <1>1, <1>6
  <2>2. RefAdd(p, q) = Third(y2 - y1, x2 - x1)  BY <1>1, <1>2, <1>6, <2>1
  <2>3. NonZero(x2 - x1)
    <3> SUFFICES ASSUME Same(x2 - x1, 0) PROVE FALSE  BY DEF NonZero
    <3>1. x2 - x1 \in Int /\ Same(x1, x1) /\ (x2 - x1) + x1 = x2 /\ 0 + x1 = x1
      BY <1>5, SameResidue
    <3>2. Same((x2 - x1) + x1, 0 + x1)  BY <1>5, <3>1, SameSum
    <3> QED  BY <1>5, <1>6, <3>1, <3>2 DEF Same
  <2>4. x2 - x1 \in Int /\ y2 - y1 \in Int  BY <1>5
  <2> QED  BY <1>4, <1>6, <2>2, <2>3, <2>4 DEF Slope
<1>7. ASSUME x1 = x2, y1 = y2, y1 # 0
      PROVE  Found
  <2>2. RefAdd(p, q) = Third(3 * x1 * x1, 2 * y1)  BY <1>1, <1>2, <1>7
  <2>3. NonZero(2 * y1)
    <3>1. NonZero(y1)  BY <1>5, <1>7, SmallIs DEF NonZero, Same
    <3>2. NonZero(2)
      <4>1. 2 \in Elements  BY OrderOfField DEF Elements
      <4> QED  BY <4>1, SmallIs DEF NonZero, Same
    <3> QED  BY <1>5, <3>1, <3>2, NoZeroDivisors
  <2>4. 2 * y1 \in Int /\ 3 * x1 * x1 \in Int  BY <1>5
  <2> QED  BY <1>4, <1>7, <2>2, <2>3, <2>4 DEF Slope
<1> QED  BY <1>3, <1>6, <1>7

-----------------------------------------------------------------------------
\* The finite point <<x, y>> with the Z coordinate z.
Finite(p, x, y, z) ==
    /\ x \in Elements /\ y \in Elements /\ z \in Int /\ NonZero(z) /\ p.inf = FALSE
    /\ At(p, x * (z * z), y * (z * (z * z)), z)

\* A jacobian point stands for a point of the plane, or for infinity.
Stands(p, pt) ==
    \/ pt = None /\ p.inf = TRUE /\ \E X, Y, Z : At(p, X, Y, Z)
    \/ \E x, y, z : pt = <<x, y>> /\ Finite(p, x, y, z)

\* Scaling keeps residues the same.
LEMMA SameScaled ==
    ASSUME NEW p \in Int, NEW q \in Int, NEW m \in Int, Same(p, q)
    PROVE  Same(p * m, q * m)
BY SameProduct, SameResidue

\* An element that is not 0 is not the residue of 0.
LEMMA ElementNonZero ==
    ASSUME NEW x \in Elements
    PROVE  NonZero(x) <=> x # 0
BY SmallIs DEF NonZero, Same

\* Doubling a finite point gives the tangent's point.
LEMMA DoubleStands ==
    ASSUME NEW p, NEW x, NEW y, NEW z, Finite(p, x, y, z), y # 0
    PROVE  Stands(Double(p), RefAdd(<<x, y>>, <<x, y>>))
<1>1. x \in Elements /\ y \in Elements /\ z \in Int /\ NonZero(z) /\ x \in Int /\ y \in Int
  BY SmallIs DEF Finite
<1>2. PICK l, x3, y3 :
         /\ RefAdd(<<x, y>>, <<x, y>>) = <<x3, y3>>
         /\ Slope(x, y, x, y, l) /\ x3 \in Elements /\ y3 \in Elements
         /\ Same(x3, l * l - x - x) /\ Same(y3, l * (x - x3) - y)
  BY <1>1, SumOf
<1>3. x3 \in Int /\ y3 \in Int /\ l \in Int /\ Same(Times(l, 2 * y), 3 * x * x)
  BY <1>2, SmallIs DEF Slope
<1> DEFINE X == x * (z * z)
           Y == y * (z * (z * z))
           u == Y * z
           Sv == Y * Y
           L == l * u
           T == -(x * (u * u))
           X3 == x3 * (u * u)
           Y3 == y3 * (u * (u * u))
           M == z * (z * (z * z))
<1>4. /\ X \in Int /\ Y \in Int /\ u \in Int /\ Sv \in Int /\ L \in Int /\ T \in Int
      /\ X3 \in Int /\ Y3 \in Int /\ M \in Int
  BY ONLY <1>1, <1>3
<1>5. Same(Times(Times(X, X), 3), Times(2, L))
  <2>1. (X * X) * 3 = (3 * x * x) * M  BY ONLY <1>1
  <2>2. 2 * L = (l * (2 * y)) * M  BY ONLY <1>1, <1>3
  <2>3. l * (2 * y) \in Int /\ 3 * x * x \in Int /\ Same(l * (2 * y), 3 * x * x)
    BY ONLY <1>1, <1>3 DEF Times
  <2>4. Same(M, M)  BY ONLY <1>4, SameResidue
  <2>5. Same((l * (2 * y)) * M, (3 * x * x) * M)  BY ONLY <1>4, <2>3, <2>4, SameProduct
  <2> QED  BY ONLY <2>1, <2>2, <2>5 DEF Same, Times
<1>6. (-Sv) * X = T  BY ONLY <1>1
<1>7. L * L + T + T = (l * l - x - x) * (u * u)
  <2> HIDE DEF u
  <2> QED BY ONLY <1>1, <1>3, <1>4
<1>8. -((T + X3) * L + Sv * Sv) = (l * (x - x3) - y) * (u * (u * u))
  <2>1. Sv * Sv = y * (u * (u * u))  BY ONLY <1>1
  <2> HIDE DEF Sv, u
  <2>2. (T + X3) * L = -((l * (x - x3)) * (u * (u * u)))  BY ONLY <1>1, <1>3, <1>4
  <2> QED BY ONLY <1>1, <1>3, <1>4, <2>1, <2>2
<1>9. Same(L * L + T + T, X3)
  <2>1. l * l - x - x \in Int /\ u * u \in Int  BY ONLY <1>1, <1>3, <1>4
  <2>2. Same(x3, l * l - x - x)  BY <1>2
  <2>3. Same(X3, (l * l - x - x) * (u * u))  BY ONLY <1>3, <2>1, <2>2, SameScaled
  <2> QED  BY ONLY <1>7, <2>3 DEF Same
<1>10. Same(-((T + X3) * L + Sv * Sv), Y3)
  <2>1. l * (x - x3) - y \in Int /\ u * (u * u) \in Int  BY ONLY <1>1, <1>3, <1>4
  <2>2. Same(y3, l * (x - x3) - y)  BY <1>2
  <2>3. Same(Y3, (l * (x - x3) - y) * (u * (u * u)))  BY ONLY <1>3, <2>1, <2>2, SameScaled
  <2> QED  BY ONLY <1>8, <2>3 DEF Same
<1>11. Same((-Sv) * X, T) /\ Same(Y * Y, Sv)  BY ONLY <1>6 DEF Same
<1>12. Same(z * Y, u)  BY ONLY <1>1, <1>4 DEF Same
<1>13. NonZero(u)
  <2>1. NonZero(y)  BY <1>1, ElementNonZero
  <2>2. NonZero(z * z)  BY ONLY <1>1, NoZeroDivisors
  <2>3. NonZero(z * (z * z))  BY ONLY <1>1, <2>2, z * z \in Int, NoZeroDivisors
  <2>4. z * (z * z) \in Int  BY ONLY <1>1
  <2>5. NonZero(Y)  BY ONLY <1>1, <2>1, <2>3, <2>4, NoZeroDivisors
  <2> QED  BY ONLY <1>1, <1>4, <2>5, NoZeroDivisors
<1>14. At(p, X, Y, z) /\ p.inf = FALSE  BY DEF Finite
<1> HIDE DEF X, Y, u, Sv, L, T, X3, Y3
<1>15. At(Double(p), X3, Y3, u) /\ Double(p).inf = p.inf
  <2>1. Same(Times(Y, Y), Sv) /\ Same(Times(Minus(Sv), X), T) /\ Same(Times(z, Y), u)
    BY ONLY <1>11, <1>12 DEF Times, Minus
  <2>2. Same(Plus(Plus(Times(L, L), T), T), X3)  BY ONLY <1>9 DEF Times, Plus
  <2>3. Same(Minus(Plus(Times(Plus(T, X3), L), Times(Sv, Sv))), Y3)
    BY ONLY <1>10 DEF Times, Plus, Minus
  <2> QED  BY ONLY <1>4, <1>5, <1>14, <2>1, <2>2, <2>3, DoubleAt
<1>16. Finite(Double(p), x3, y3, u)
  BY ONLY <1>2, <1>4, <1>13, <1>14, <1>15 DEF Finite, X3, Y3
<1> QED  BY ONLY <1>2, <1>16 DEF Stands

\* Scaled coordinates differ exactly when the coordinates do.
LEMMA DifferenceZero ==
    ASSUME NEW x1 \in Elements, NEW x2 \in Elements, NEW m \in Int, NonZero(m)
    PROVE  Same((x2 - x1) * m, 0) <=> x1 = x2
<1>1. x1 \in Int /\ x2 \in Int /\ x1 % P = x1 /\ x2 % P = x2  BY SmallIs
<1>2. ASSUME x1 = x2 PROVE Same((x2 - x1) * m, 0)
  <2>1. (x2 - x1) * m = 0  BY ONLY <1>1, <1>2, m \in Int
  <2> QED  BY ONLY <2>1 DEF Same
<1>3. ASSUME Same((x2 - x1) * m, 0) PROVE x1 = x2
  <2> DEFINE d == x2 - x1
  <2>1. d \in Int /\ d + x1 = x2 /\ 0 + x1 = x1  BY ONLY <1>1
  <2>2. m * d = d * m  BY ONLY <2>1, m \in Int
  <2> HIDE DEF d
  <2>3. Same(m * d, 0)  BY <1>3, <2>2 DEF d
  <2>4. Same(d, 0)  BY ONLY <2>1, <2>3, m \in Int, NonZero(m), NoZeroDivisors
  <2>5. Same(d + x1, 0 + x1)  BY <1>1, <2>1, <2>4, SameSum, SameResidue
  <2> QED  BY ONLY <1>1, <2>1, <2>5 DEF Same
<1> QED  BY <1>2, <1>3

\* The constant for infinity.
LEMMA InfinityStands == Stands(GejInfinity, None) /\ At(GejInfinity, 0, 0, 0)
<1> DEFINE o == SetInt(0)
<1>0. Is(o, 0, 1)  BY SmallIs
<1> HIDE DEF o
<1>1. Is(o, 0, 1) /\ Is(o, 0, 4) /\ o \in Records
  <2>1. Is(o, 0, 4)  BY ONLY <1>0, Widen, Small
  <2> QED  BY ONLY <1>0, <2>1 DEF Is
<1>2. GejInfinity = [x |-> o, y |-> o, z |-> o, inf |-> TRUE]  BY DEF GejInfinity, o
<1>3. GejInfinity \in Gejs  BY ONLY <1>1, <1>2 DEF Gejs
<1>4. GejInfinity.x = o /\ GejInfinity.y = o /\ GejInfinity.z = o /\ GejInfinity.inf = TRUE
  BY ONLY <1>2
<1>5. At(GejInfinity, 0, 0, 0)  BY ONLY <1>1, <1>3, <1>4 DEF At
<1> QED  BY ONLY <1>4, <1>5 DEF Stands

\* The coordinates that the additions in variable time compute, and their magnitudes.
LEMMA AddTailAt ==
    ASSUME NEW p, NEW u1, NEW s1, NEW h, NEW i, NEW z,
           NEW Uv, NEW Sv, NEW Hv, NEW I, NEW Zs,
           Is(u1, Uv, 4), Is(s1, Sv, 4), Is(h, Hv, 6), Is(i, I, 6), Is(z, Zs, 1), NonZero(Hv),
           NEW H2 \in Int, NEW H3 \in Int, NEW T \in Int, NEW X3 \in Int, NEW Y3 \in Int,
           Same(Minus(Times(Hv, Hv)), H2), Same(Times(H2, Hv), H3), Same(Times(Uv, H2), T),
           Same(Plus(Plus(Plus(Times(I, I), H3), T), T), X3),
           Same(Plus(Times(Plus(T, X3), I), Times(H3, Sv)), Y3)
    PROVE  At(AddTail(p, u1, s1, h, i, z), X3, Y3, Zs) /\ AddTail(p, u1, s1, h, i, z).inf = FALSE
<1> DEFINE h2 == Negate(Sqr(h), 1)
           h3 == Mul(h2, h)
           t == Mul(u1, h2)
           x == Add(Add(Add(Sqr(i), h3), t), t)
           y == Add(Mul(Add(t, x), i), Mul(h3, s1))
<1>1. Is(h2, H2, 2)
  <2>1. Is(Sqr(h), Times(Hv, Hv), 1)  BY SqrStep, Small
  <2>2. Is(h2, Minus(Times(Hv, Hv)), 2)  BY <2>1, NegateStep, Small, Sums
  <2> QED  BY <2>2, Retarget, Small
<1> HIDE DEF h2
<1>2. Is(h3, H3, 1)  BY <1>1, MulStep, Retarget, Small
<1>3. Is(t, T, 1)  BY <1>1, MulStep, Retarget, Small
<1> HIDE DEF h3, t
<1>4. Is(x, X3, 4)
  <2>1. Is(Sqr(i), Times(I, I), 1)  BY SqrStep, Small
  <2>2. Is(Add(Sqr(i), h3), Plus(Times(I, I), H3), 2)  BY <1>2, <2>1, AddStep, Small, Sums
  <2>3. Is(Add(Add(Sqr(i), h3), t), Plus(Plus(Times(I, I), H3), T), 3)
    BY <1>3, <2>2, AddStep, Small, Sums
  <2>4. Is(x, Plus(Plus(Plus(Times(I, I), H3), T), T), 4)  BY <1>3, <2>3, AddStep, Small, Sums
  <2> QED  BY <2>4, Retarget, Small
<1> HIDE DEF x
<1>5. Is(y, Y3, 4)
  <2>1. Is(Add(t, x), Plus(T, X3), 5)  BY <1>3, <1>4, AddStep, Small, Sums
  <2>2. Is(Mul(Add(t, x), i), Times(Plus(T, X3), I), 1)  BY <2>1, MulStep, Small
  <2>3. Is(Mul(h3, s1), Times(H3, Sv), 1)  BY <1>2, MulStep, Small
  <2>4. Is(y, Plus(Times(Plus(T, X3), I), Times(H3, Sv)), 2)  BY <2>2, <2>3, AddStep, Small, Sums
  <2> QED  BY <2>4, Retarget, Widen, Small
<1> HIDE DEF y
<1>6. ~NormalizesToZero(h)
  <2>1. Hv \in Int /\ 6 \in Limits  BY Small DEF Is
  <2> QED  BY <2>1, ZeroIs DEF NonZero
<1>7. AddTail(p, u1, s1, h, i, z) = [x |-> x, y |-> y, z |-> z, inf |-> FALSE]
  BY <1>6 DEF AddTail, h2, h3, t, x, y
<1> DEFINE res == AddTail(p, u1, s1, h, i, z)
<1> HIDE DEF res
<1>8. x \in Records /\ y \in Records /\ z \in Records  BY <1>4, <1>5 DEF Is
<1>9. res \in Gejs  BY ONLY <1>7, <1>8 DEF Gejs, res
<1>10. res.x = x /\ res.y = y /\ res.z = z /\ res.inf = FALSE  BY ONLY <1>7 DEF res
<1>11. At(res, X3, Y3, Zs)  BY <1>4, <1>5, <1>9, <1>10 DEF At
<1> QED  BY ONLY <1>10, <1>11 DEF res

\* The additions in variable time, at a common Z coordinate w, give the sum: equal
\* and opposite points included.
LEMMA AddTailStands ==
    ASSUME NEW p, NEW x1, NEW y1, NEW z1, NEW x2 \in Elements, NEW y2 \in Elements,
           Finite(p, x1, y1, z1), y1 # 0,
           NEW u1, NEW s1, NEW h, NEW i, NEW z, NEW w \in Int, NonZero(w),
           Is(u1, x1 * (w * w), 4), Is(s1, y1 * (w * (w * w)), 4),
           Is(h, (x2 - x1) * (w * w), 6), Is(i, (y1 - y2) * (w * (w * w)), 6),
           Is(z, w * ((x2 - x1) * (w * w)), 1)
    PROVE  Stands(AddTail(p, u1, s1, h, i, z), RefAdd(<<x1, y1>>, <<x2, y2>>))
<1>1. /\ x1 \in Elements /\ y1 \in Elements /\ x1 \in Int /\ y1 \in Int
      /\ x2 \in Int /\ y2 \in Int /\ p.inf = FALSE
  BY SmallIs DEF Finite
<1> DEFINE W2 == w * w
           W3 == w * (w * w)
           d == x2 - x1
           Hv == d * W2
<1>2. W2 \in Int /\ W3 \in Int /\ d \in Int /\ Hv \in Int /\ w * Hv \in Int /\ y1 - y2 \in Int
      /\ (y1 - y2) * W3 \in Int
  BY ONLY <1>1, w \in Int
<1>3. NonZero(W2) /\ NonZero(W3)
  <2>1. NonZero(W2)  BY ONLY w \in Int, NonZero(w), NoZeroDivisors
  <2> QED  BY ONLY <1>2, <2>1, w \in Int, NonZero(w), NoZeroDivisors
<1>4. NormalizesToZero(h) <=> x1 = x2
  <2>1. Is(h, Hv, 6) /\ 6 \in Limits  BY Small
  <2>2. NormalizesToZero(h) <=> Same(Hv, 0)  BY ONLY <1>2, <2>1, ZeroIs
  <2>3. Same(Hv, 0) <=> x1 = x2  BY ONLY <1>1, <1>2, <1>3, x2 \in Elements, DifferenceZero
  <2> QED  BY <2>2, <2>3
<1>5. NormalizesToZero(i) <=> y1 = y2
  <2>1. Is(i, (y1 - y2) * W3, 6) /\ 6 \in Limits  BY Small
  <2>2. NormalizesToZero(i) <=> Same((y1 - y2) * W3, 0)  BY ONLY <1>2, <2>1, ZeroIs
  <2>3. Same((y1 - y2) * W3, 0) <=> y2 = y1
    BY ONLY <1>1, <1>2, <1>3, y2 \in Elements, DifferenceZero
  <2> QED  BY <2>2, <2>3
<1>6. CASE x1 = x2 /\ y1 = y2
  <2>1. AddTail(p, u1, s1, h, i, z) = Double(p)
    BY <1>1, <1>4, <1>5, <1>6 DEF AddTail, DoubleVar
  <2>2. Stands(Double(p), RefAdd(<<x1, y1>>, <<x1, y1>>))  BY DoubleStands
  <2> QED  BY <1>6, <2>1, <2>2
<1>7. CASE x1 = x2 /\ y1 # y2
  <2>1. AddTail(p, u1, s1, h, i, z) = GejInfinity  BY <1>4, <1>5, <1>7 DEF AddTail
  <2>2. RefAdd(<<x1, y1>>, <<x2, y2>>) = None  BY <1>1, <1>7, SumOf
  <2> QED  BY <2>1, <2>2, InfinityStands
<1>8. CASE x1 # x2
  <2>1. PICK l, x3, y3 :
           /\ RefAdd(<<x1, y1>>, <<x2, y2>>) = <<x3, y3>>
           /\ Slope(x1, y1, x2, y2, l) /\ x3 \in Elements /\ y3 \in Elements
           /\ Same(x3, l * l - x1 - x2) /\ Same(y3, l * (x1 - x3) - y1)
    BY <1>1, <1>8, SumOf
  <2>2. x3 \in Int /\ y3 \in Int /\ l \in Int /\ Same(l * d, y2 - y1)
    BY <1>8, <2>1, SmallIs DEF Slope, Times
  <2> DEFINE Uv == x1 * W2
             Sv == y1 * W3
             I == -(l * d) * W3
             H2 == -(Hv * Hv)
             H3 == -(Hv * (Hv * Hv))
             T == -(Uv * (Hv * Hv))
             Zs == w * Hv
             X3 == x3 * (Zs * Zs)
             Y3 == y3 * (Zs * (Zs * Zs))
  <2>3. /\ Uv \in Int /\ Sv \in Int /\ I \in Int /\ H2 \in Int /\ H3 \in Int /\ T \in Int
        /\ Zs \in Int /\ X3 \in Int /\ Y3 \in Int
    BY ONLY <1>1, <1>2, <2>2, w \in Int
  <2>4. Is(i, I, 6)
    <3>1. y2 - y1 \in Int /\ l * d \in Int /\ -(y2 - y1) = y1 - y2 /\ -(l * d) \in Int
      BY ONLY <1>1, <1>2, <2>2
    <3>2. Same(-(l * d), -(y2 - y1))  BY ONLY <2>2, <3>1, SameSum
    <3>3. Same(-(l * d), y1 - y2)  BY ONLY <3>1, <3>2
    <3>4. Same(y1 - y2, -(l * d))  BY ONLY <3>3 DEF Same
    <3>5. Same((y1 - y2) * W3, (-(l * d)) * W3)  BY ONLY <1>2, <3>1, <3>4, SameScaled
    <3>6. (-(l * d)) * W3 = I  BY ONLY <1>2, <3>1
    <3>7. Same((y1 - y2) * W3, I)  BY ONLY <3>5, <3>6
    <3> HIDE DEF I
    <3> QED  BY <2>3, <3>7, Retarget, Small
  <2>5. NonZero(Hv)  BY <1>1, <1>2, <1>3, <1>8, DifferenceZero DEF NonZero
  <2>6. I * I + H3 + T + T = (l * l - x1 - x2) * (Zs * Zs)  BY ONLY <1>1, <2>2, w \in Int
  <2>7. (T + X3) * I + H3 * Sv = (l * (x1 - x3) - y1) * (Zs * (Zs * Zs))
    BY ONLY <1>1, <2>2, w \in Int
  <2>8. Same(I * I + H3 + T + T, X3)
    <3>1. l * l - x1 - x2 \in Int /\ Zs * Zs \in Int  BY ONLY <1>1, <2>2, <2>3
    <3>2. Same(X3, (l * l - x1 - x2) * (Zs * Zs))  BY ONLY <2>1, <2>2, <3>1, SameScaled
    <3> QED  BY ONLY <2>6, <3>2 DEF Same
  <2>9. Same((T + X3) * I + H3 * Sv, Y3)
    <3>1. l * (x1 - x3) - y1 \in Int /\ Zs * (Zs * Zs) \in Int  BY ONLY <1>1, <2>2, <2>3
    <3>2. Same(Y3, (l * (x1 - x3) - y1) * (Zs * (Zs * Zs)))  BY ONLY <2>1, <2>2, <3>1, SameScaled
    <3> QED  BY ONLY <2>7, <3>2 DEF Same
  <2>10. H2 * Hv = H3 /\ Uv * H2 = T  BY ONLY <1>1, <1>2, <2>3
  <2>11. NonZero(Zs)  BY ONLY <1>2, <2>5, w \in Int, NonZero(w), NoZeroDivisors
  <2>12. Is(u1, Uv, 4) /\ Is(s1, Sv, 4) /\ Is(h, Hv, 6) /\ Is(z, Zs, 1)  OBVIOUS
  <2> HIDE DEF Uv, Sv, I, Hv, H2, H3, T, Zs, X3, Y3
  <2>13. Same(Minus(Times(Hv, Hv)), H2) /\ Same(Times(H2, Hv), H3) /\ Same(Times(Uv, H2), T)
    BY ONLY <2>10 DEF Times, Minus, Same, H2
  <2>14. Same(Plus(Plus(Plus(Times(I, I), H3), T), T), X3)  BY ONLY <2>8 DEF Times, Plus
  <2>15. Same(Plus(Times(Plus(T, X3), I), Times(H3, Sv)), Y3)  BY ONLY <2>9 DEF Times, Plus
  <2> DEFINE res == AddTail(p, u1, s1, h, i, z)
  <2>16. At(res, X3, Y3, Zs) /\ res.inf = FALSE
    BY ONLY <2>3, <2>4, <2>5, <2>12, <2>13, <2>14, <2>15, AddTailAt
  <2> HIDE DEF res
  <2>17. Finite(res, x3, y3, Zs)  BY ONLY <2>1, <2>3, <2>11, <2>16 DEF Finite, X3, Y3
  <2>18. Stands(res, RefAdd(<<x1, y1>>, <<x2, y2>>))  BY ONLY <2>1, <2>17 DEF Stands
  <2> QED  BY <2>18 DEF res
<1> QED  BY <1>6, <1>7, <1>8

\* What secp256k1_gej_add_ge computes, by name.
AddGeValues(X, Y, Z, X2, Y2, dg, U2, T, M, R, Wv, Q, NN, X3, Y3, Zs) ==
    /\ U2 \in Int /\ T \in Int /\ M \in Int /\ R \in Int /\ Wv \in Int
    /\ Q \in Int /\ NN \in Int /\ X3 \in Int /\ Y3 \in Int /\ Zs \in Int
    /\ dg \in BOOLEAN /\ (dg <=> Same(M, 0))
    /\ Same(Times(X2, Times(Z, Z)), U2) /\ Same(Plus(X, U2), T)
    /\ Same(Plus(Y, Times(Times(Y2, Times(Z, Z)), Z)), M)
    /\ IF dg THEN Same(Times(Y, 2), R)
             ELSE Same(Plus(Times(T, T), Times(X, Minus(U2))), R)
    /\ IF dg THEN Same(Plus(Minus(U2), X), Wv) ELSE Same(M, Wv)
    /\ IF dg THEN Same(M, NN) ELSE Same(Times(Times(Wv, Wv), Times(Wv, Wv)), NN)
    /\ Same(Times(Minus(T), Times(Wv, Wv)), Q) /\ Same(Plus(Times(R, R), Q), X3)
    /\ Same(Minus(Plus(Times(Plus(Times(X3, 2), Q), R), NN)), Times(2, Y3))
    /\ Same(Times(Z, Wv), Zs)

\* The coordinates that secp256k1_gej_add_ge computes from these values.
LEMMA AddGeAt ==
    ASSUME NEW p, NEW q, NEW X, NEW Y, NEW Z, NEW X2, NEW Y2, NEW dg,
           NEW U2, NEW T, NEW M, NEW R, NEW Wv, NEW Q, NEW NN, NEW X3, NEW Y3, NEW Zs,
           At(p, X, Y, Z), AtGe(q, X2, Y2),
           AddGeValues(X, Y, Z, X2, Y2, dg, U2, T, M, R, Wv, Q, NN, X3, Y3, Zs)
    PROVE  /\ p.inf => At(AddGe(p, q), X2, Y2, 1) /\ AddGe(p, q).inf = FALSE
           /\ ~p.inf => At(AddGe(p, q), X3, Y3, Zs) /\ (AddGe(p, q).inf <=> Same(Zs, 0))
<1>0. /\ U2 \in Int /\ T \in Int /\ M \in Int /\ R \in Int /\ Wv \in Int
      /\ Q \in Int /\ NN \in Int /\ X3 \in Int /\ Y3 \in Int /\ Zs \in Int
      /\ dg \in BOOLEAN /\ (dg <=> Same(M, 0))
      /\ Same(Times(X2, Times(Z, Z)), U2) /\ Same(Plus(X, U2), T)
      /\ Same(Plus(Y, Times(Times(Y2, Times(Z, Z)), Z)), M)
      /\ IF dg THEN Same(Times(Y, 2), R)
               ELSE Same(Plus(Times(T, T), Times(X, Minus(U2))), R)
      /\ IF dg THEN Same(Plus(Minus(U2), X), Wv) ELSE Same(M, Wv)
      /\ IF dg THEN Same(M, NN) ELSE Same(Times(Times(Wv, Wv), Times(Wv, Wv)), NN)
      /\ Same(Times(Minus(T), Times(Wv, Wv)), Q) /\ Same(Plus(Times(R, R), Q), X3)
      /\ Same(Minus(Plus(Times(Plus(Times(X3, 2), Q), R), NN)), Times(2, Y3))
      /\ Same(Times(Z, Wv), Zs)
  BY DEF AddGeValues
<1> DEFINE zz   == Sqr(p.z)
           u2   == Mul(q.x, zz)
           t    == Add(p.x, u2)
           m    == Add(p.y, Mul(Mul(q.y, zz), p.z))
           malt == Negate(u2, 1)
           rr   == Add(Sqr(t), Mul(p.x, malt))
           ralt == Cmov(MulInt(p.y, 2), rr, ~Degenerate(m))
           mlt  == Cmov(Add(malt, p.x), m, ~Degenerate(m))
           n2   == Sqr(mlt)
           qq   == Mul(Negate(t, 5), n2)
           n    == Cmov(Sqr(n2), m, Degenerate(m))
           x    == Add(Sqr(ralt), qq)
           y    == Half(Negate(Add(Mul(Add(MulInt(x, 2), qq), ralt), n), 6))
           z    == Cmov(Mul(p.z, mlt), One, p.inf)
           x3   == Cmov(x, q.x, p.inf)
           y3   == Cmov(y, q.y, p.inf)
<1>1. /\ Is(p.x, X, 4) /\ Is(p.y, Y, 4) /\ Is(p.z, Z, 1) /\ p \in Gejs
      /\ Is(q.x, X2, 4) /\ Is(q.y, Y2, 3) /\ q \in Ges
      /\ X \in Int /\ Y \in Int /\ Z \in Int /\ X2 \in Int /\ Y2 \in Int
  BY DEF At, AtGe, Is
<1>2. Is(zz, Times(Z, Z), 1)  BY <1>1, SqrStep, Small
<1> HIDE DEF zz
<1>3. Is(u2, U2, 1)  BY <1>0, <1>1, <1>2, MulStep, Retarget, Small
<1> HIDE DEF u2
<1>4. Is(t, T, 5)
  <2>1. Is(t, Plus(X, U2), 5)  BY <1>1, <1>3, AddStep, Small, Sums
  <2> QED  BY <1>0, <2>1, Retarget, Small
<1> HIDE DEF t
<1>5. Is(m, M, 5)
  <2>1. Is(Mul(q.y, zz), Times(Y2, Times(Z, Z)), 1)  BY <1>1, <1>2, MulStep, Small
  <2>2. Is(Mul(Mul(q.y, zz), p.z), Times(Times(Y2, Times(Z, Z)), Z), 1)
    BY <1>1, <2>1, MulStep, Small
  <2>3. Is(m, Plus(Y, Times(Times(Y2, Times(Z, Z)), Z)), 5)
    BY <1>1, <2>2, AddStep, Small, Sums
  <2> QED  BY <1>0, <2>3, Retarget, Small
<1>6. Degenerate(m) = dg
  <2>1. NormalizesToZero(m) <=> Same(M, 0)  BY ONLY <1>5, <1>0, Small, ZeroIs
  <2>2. NormalizesToZero(m) \in BOOLEAN  BY DEF NormalizesToZero, IsFe
  <2> QED  BY <1>0, <2>1, <2>2 DEF Degenerate
<1> HIDE DEF m
<1>7. Is(malt, Minus(U2), 2)  BY <1>3, NegateStep, Small, Sums
<1> HIDE DEF malt
<1>8. Is(rr, Plus(Times(T, T), Times(X, Minus(U2))), 2)
  <2>1. Is(Sqr(t), Times(T, T), 1)  BY <1>4, SqrStep, Small
  <2>2. Is(Mul(p.x, malt), Times(X, Minus(U2)), 1)  BY <1>1, <1>7, MulStep, Small
  <2> QED  BY <2>1, <2>2, AddStep, Small, Sums
<1> HIDE DEF rr
<1> DEFINE ndg == ~dg
<1>9. ndg \in BOOLEAN /\ (dg => ndg = FALSE) /\ (~dg => ndg = TRUE) /\ Degenerate(m) = dg
      /\ (~Degenerate(m)) = ndg
  BY <1>0, <1>6
<1> HIDE DEF ndg
<1>10. Is(ralt, R, 8)
  <2>1. Is(MulInt(p.y, 2), Times(Y, 2), 8)  BY <1>1, MulIntStep, Small, Sums
  <2>2. Is(rr, Plus(Times(T, T), Times(X, Minus(U2))), 8)  BY <1>8, Widen, Small
  <2> DEFINE V == Times(Y, 2)
             V2 == Plus(Times(T, T), Times(X, Minus(U2)))
  <2>3. V \in Int /\ V2 \in Int  BY <2>1, <2>2 DEF Is
  <2>4. IF dg THEN Same(V, R) ELSE Same(V2, R)  BY <1>0
  <2> HIDE DEF V, V2
  <2>5. Is(ralt, IF ndg THEN V2 ELSE V, 8)
    BY ONLY <1>9, <2>1, <2>2, <2>3, CmovIs, Small DEF V, V2, ralt
  <2>6. CASE dg
    <3>1. Is(ralt, V, 8) /\ Same(V, R)  BY ONLY <1>9, <2>4, <2>5, <2>6
    <3> QED  BY ONLY <3>1, <1>0, Retarget, Small
  <2>7. CASE ~dg
    <3>1. Is(ralt, V2, 8) /\ Same(V2, R)  BY ONLY <1>9, <2>4, <2>5, <2>7
    <3> QED  BY ONLY <3>1, <1>0, Retarget, Small
  <2> QED  BY <2>6, <2>7
<1>11. Is(mlt, Wv, 6)
  <2>1. Is(Add(malt, p.x), Plus(Minus(U2), X), 6)  BY <1>1, <1>7, AddStep, Small, Sums
  <2>2. Is(m, M, 6)  BY <1>5, Widen, Small
  <2> DEFINE V == Plus(Minus(U2), X)
  <2>3. V \in Int  BY <2>1 DEF Is
  <2>4. IF dg THEN Same(V, Wv) ELSE Same(M, Wv)  BY <1>0
  <2> HIDE DEF V
  <2>5. Is(mlt, IF ndg THEN M ELSE V, 6)
    BY ONLY <1>9, <2>1, <2>2, <2>3, <1>0, CmovIs, Small DEF V, mlt
  <2>6. CASE dg
    <3>1. Is(mlt, V, 6) /\ Same(V, Wv)  BY ONLY <1>9, <2>4, <2>5, <2>6
    <3> QED  BY ONLY <3>1, <1>0, Retarget, Small
  <2>7. CASE ~dg
    <3>1. Is(mlt, M, 6) /\ Same(M, Wv)  BY ONLY <1>9, <2>4, <2>5, <2>7
    <3> QED  BY ONLY <3>1, <1>0, Retarget, Small
  <2> QED  BY <2>6, <2>7
<1> HIDE DEF ralt, mlt
<1>12. Is(n2, Times(Wv, Wv), 1)  BY <1>11, SqrStep, Small
<1> HIDE DEF n2
<1>13. Is(qq, Q, 1)
  <2>1. Is(Negate(t, 5), Minus(T), 6)  BY <1>4, NegateStep, Small, Sums
  <2> QED  BY <1>0, <1>12, <2>1, MulStep, Retarget, Small
<1> HIDE DEF qq
<1>14. Is(n, NN, 5)
  <2>1. Is(Sqr(n2), Times(Times(Wv, Wv), Times(Wv, Wv)), 1)  BY <1>12, SqrStep, Small
  <2> DEFINE V == Times(Times(Wv, Wv), Times(Wv, Wv))
  <2>2. Is(Sqr(n2), V, 5)  BY <2>1, Widen, Small
  <2>3. V \in Int  BY <2>1 DEF Is
  <2>4. IF dg THEN Same(M, NN) ELSE Same(V, NN)  BY <1>0
  <2> HIDE DEF V
  <2>5. Is(n, IF dg THEN M ELSE V, 5)
    BY ONLY <1>5, <1>9, <2>2, <2>3, <1>0, CmovIs, Small DEF n
  <2>6. CASE dg
    <3>1. Is(n, M, 5) /\ Same(M, NN)  BY ONLY <2>4, <2>5, <2>6
    <3> QED  BY ONLY <3>1, <1>0, Retarget, Small
  <2>7. CASE ~dg
    <3>1. Is(n, V, 5) /\ Same(V, NN)  BY ONLY <2>4, <2>5, <2>7
    <3> QED  BY ONLY <3>1, <1>0, Retarget, Small
  <2> QED  BY <2>6, <2>7
<1> HIDE DEF n
<1>15. Is(x, X3, 2)
  <2>1. Is(Sqr(ralt), Times(R, R), 1)  BY <1>10, SqrStep, Small
  <2>2. Is(x, Plus(Times(R, R), Q), 2)  BY <1>13, <2>1, AddStep, Small, Sums
  <2> QED  BY <1>0, <2>2, Retarget, Small
<1> HIDE DEF x
<1>16. Is(y, Y3, 4)
  <2>1. Is(MulInt(x, 2), Times(X3, 2), 4)  BY <1>15, MulIntStep, Small, Sums
  <2>2. Is(Add(MulInt(x, 2), qq), Plus(Times(X3, 2), Q), 5)
    BY <1>13, <2>1, AddStep, Small, Sums
  <2>3. Is(Mul(Add(MulInt(x, 2), qq), ralt), Times(Plus(Times(X3, 2), Q), R), 1)
    BY <1>10, <2>2, MulStep, Small
  <2>4. Is(Add(Mul(Add(MulInt(x, 2), qq), ralt), n), Plus(Times(Plus(Times(X3, 2), Q), R), NN), 6)
    BY <1>14, <2>3, AddStep, Small, Sums
  <2>5. Is(Negate(Add(Mul(Add(MulInt(x, 2), qq), ralt), n), 6),
           Minus(Plus(Times(Plus(Times(X3, 2), Q), R), NN)), 7)
    BY <2>4, NegateStep, Small, Sums
  <2> QED  BY <1>0, <2>5, HalfStep, Small, Sums
<1> HIDE DEF y
<1> DEFINE zw == Mul(p.z, mlt)
<1>17. Is(zw, Zs, 1)  BY <1>0, <1>1, <1>11, MulStep, Retarget, Small
<1> HIDE DEF zw
<1> DEFINE f == p.inf
           ZI == IF f THEN 1 ELSE Zs
           XI == IF f THEN X2 ELSE X3
           YI == IF f THEN Y2 ELSE Y3
<1>18. f \in BOOLEAN /\ ZI \in Int /\ XI \in Int /\ YI \in Int  BY <1>0, <1>1 DEF Gejs
<1>19. Is(x, X3, 4) /\ Is(q.y, Y2, 4) /\ Is(One, 1, 1)  BY <1>1, <1>15, Widen, Small, SmallIs
<1>20. z = Cmov(zw, One, f)  BY DEF z, zw
<1> HIDE DEF f, z
<1>21. Is(z, ZI, 1)
  BY ONLY <1>17, <1>18, <1>19, <1>20, <1>0, 1 \in Int, CmovIs, Small
<1>22. Is(x3, XI, 4)  BY ONLY <1>1, <1>18, <1>19, <1>0, CmovIs, Small DEF x3, f
<1>23. Is(y3, YI, 4)  BY ONLY <1>1, <1>16, <1>18, <1>19, <1>0, CmovIs, Small DEF y3, f
<1> HIDE DEF x3, y3, XI, YI, ZI
<1> DEFINE inf == NormalizesToZero(z)
<1>24. inf <=> Same(ZI, 0)  BY ONLY <1>18, <1>21, Small, ZeroIs
<1>25. inf \in BOOLEAN  BY DEF NormalizesToZero, IsFe
<1> DEFINE res == AddGe(p, q)
<1>26. res = [x |-> x3, y |-> y3, z |-> z, inf |-> inf]
  BY DEF AddGe, x3, y3, z, y, x, n, qq, n2, mlt, ralt, rr, malt, m, t, u2, zz
<1> HIDE DEF inf, res
<1>27. x3 \in Records /\ y3 \in Records /\ z \in Records  BY <1>21, <1>22, <1>23 DEF Is
<1>28. res \in Gejs  BY ONLY <1>25, <1>26, <1>27 DEF Gejs
<1>29. res.x = x3 /\ res.y = y3 /\ res.z = z /\ res.inf = inf  BY ONLY <1>26
<1>30. At(res, XI, YI, ZI) /\ (res.inf <=> Same(ZI, 0)) /\ res.inf \in BOOLEAN
  BY ONLY <1>21, <1>22, <1>23, <1>24, <1>25, <1>28, <1>29 DEF At
<1>31. ASSUME p.inf PROVE At(res, X2, Y2, 1) /\ res.inf = FALSE
  <2>1. XI = X2 /\ YI = Y2 /\ ZI = 1  BY <1>31 DEF XI, YI, ZI, f
  <2>2. ~Same(1, 0)  BY SmallIs DEF Same
  <2> QED  BY ONLY <1>30, <2>1, <2>2
<1>32. ASSUME ~p.inf PROVE At(res, X3, Y3, Zs) /\ (res.inf <=> Same(Zs, 0))
  <2>1. XI = X3 /\ YI = Y3 /\ ZI = Zs  BY <1>32 DEF XI, YI, ZI, f
  <2> QED  BY ONLY <1>30, <2>1
<1> QED  BY ONLY <1>31, <1>32 DEF res

\* Every integer is the double of another one.
LEMMA Doubles ==
    ASSUME NEW p \in Int
    PROVE  \E q \in Int : Same(p, Times(2, q))
<1> DEFINE h == (P + 1) \div 2
<1>1. h \in Int /\ 2 * h = P + 1
  <2>1. P \in Int /\ P % 4 = 3  BY FieldAssumption
  <2> QED  BY <2>1
<1> HIDE DEF h
<1>2. p * h \in Int /\ 2 * (p * h) = p + P * p /\ 2 * (p * h) \in Int
  <2>1. 2 * (p * h) = p * (2 * h)  BY <1>1
  <2>2. p * (P + 1) = p + P * p  BY OrderOfField
  <2> QED  BY <1>1, <2>1, <2>2
<1>3. Same(2 * (p * h), p)  BY ONLY <1>2, p \in Int, SameBy
<1> QED  BY ONLY <1>2, <1>3 DEF Same, Times

\* An affine point.
FiniteGe(q, x, y) == x \in Elements /\ y \in Elements /\ q.inf = FALSE /\ AtGe(q, x, y)
StandsGe(q, pt) ==
    \/ pt = None /\ q.inf = TRUE /\ \E X, Y : AtGe(q, X, Y)
    \/ \E x, y : pt = <<x, y>> /\ FiniteGe(q, x, y)

\* Whatever the coordinates are, those of infinity among them.
LEMMA AddGeAny ==
    ASSUME NEW p, NEW q, NEW X, NEW Y, NEW Z, NEW X2, NEW Y2,
           At(p, X, Y, Z), AtGe(q, X2, Y2)
    PROVE  /\ p.inf => At(AddGe(p, q), X2, Y2, 1) /\ AddGe(p, q).inf = FALSE
           /\ ~p.inf /\ Same(Plus(Y, Times(Times(Y2, Times(Z, Z)), Z)), 0) =>
                \E X3, Y3 \in Int :
                   LET Zs == Times(Z, Plus(Minus(Times(X2, Times(Z, Z))), X))
                   IN  At(AddGe(p, q), X3, Y3, Zs) /\ (AddGe(p, q).inf <=> Same(Zs, 0))
<1>1. X \in Int /\ Y \in Int /\ Z \in Int /\ X2 \in Int /\ Y2 \in Int
  BY DEF AtGe, At, Is
<1> DEFINE U2 == Times(X2, Times(Z, Z))
           T  == Plus(X, U2)
           M  == Plus(Y, Times(Times(Y2, Times(Z, Z)), Z))
           dg == Same(M, 0)
           R  == IF dg THEN Times(Y, 2) ELSE Plus(Times(T, T), Times(X, Minus(U2)))
           Wv  == IF dg THEN Plus(Minus(U2), X) ELSE M
           NN == IF dg THEN M ELSE Times(Times(Wv, Wv), Times(Wv, Wv))
           Q  == Times(Minus(T), Times(Wv, Wv))
           X3 == Plus(Times(R, R), Q)
           V  == Minus(Plus(Times(Plus(Times(X3, 2), Q), R), NN))
           Zs == Times(Z, Wv)
<1>2. dg \in BOOLEAN  BY DEF Same
<1>3. U2 \in Int /\ T \in Int /\ M \in Int  BY ONLY <1>1 DEF Times, Plus
<1>4. dg => Zs = Times(Z, Plus(Minus(Times(X2, Times(Z, Z))), X))  OBVIOUS
<1>5. dg <=> Same(Plus(Y, Times(Times(Y2, Times(Z, Z)), Z)), 0)  OBVIOUS
<1> HIDE DEF dg, M, T, U2
<1>6. R \in Int /\ Wv \in Int  BY ONLY <1>1, <1>3 DEF Times, Plus, Minus
<1> HIDE DEF Wv, R
<1>7. NN \in Int /\ Q \in Int /\ Zs \in Int  BY ONLY <1>1, <1>3, <1>6 DEF Times, Minus
<1> HIDE DEF NN, Q, Zs
<1>8. X3 \in Int  BY ONLY <1>6, <1>7 DEF Times, Plus
<1> HIDE DEF X3
<1>9. V \in Int  BY ONLY <1>6, <1>7, <1>8 DEF Times, Plus, Minus
<1>10. PICK Y3 \in Int : Same(V, Times(2, Y3))  BY ONLY <1>9, Doubles
<1>11. dg <=> Same(M, 0)  BY DEF dg
<1>12. /\ Same(Times(X2, Times(Z, Z)), U2) /\ Same(Plus(X, U2), T)
       /\ Same(Plus(Y, Times(Times(Y2, Times(Z, Z)), Z)), M)
  BY DEF Same, U2, T, M
<1>13. /\ IF dg THEN Same(Times(Y, 2), R)
                ELSE Same(Plus(Times(T, T), Times(X, Minus(U2))), R)
       /\ IF dg THEN Same(Plus(Minus(U2), X), Wv) ELSE Same(M, Wv)
       /\ IF dg THEN Same(M, NN) ELSE Same(Times(Times(Wv, Wv), Times(Wv, Wv)), NN)
  BY ONLY <1>2 DEF Same, R, Wv, NN
<1>14. /\ Same(Times(Minus(T), Times(Wv, Wv)), Q) /\ Same(Plus(Times(R, R), Q), X3)
       /\ Same(Times(Z, Wv), Zs)
  BY DEF Same, Q, X3, Zs
<1>15. Same(Minus(Plus(Times(Plus(Times(X3, 2), Q), R), NN)), Times(2, Y3))  BY <1>10
<1> HIDE DEF V
<1> DEFINE res == AddGe(p, q)
<1>16. AddGeValues(X, Y, Z, X2, Y2, dg, U2, T, M, R, Wv, Q, NN, X3, Y3, Zs)
  BY ONLY <1>2, <1>3, <1>6, <1>7, <1>8, <1>10, <1>11, <1>12, <1>13, <1>14, <1>15
     DEF AddGeValues
<1>18. /\ p.inf => At(res, X2, Y2, 1) /\ res.inf = FALSE
       /\ ~p.inf => At(res, X3, Y3, Zs) /\ (res.inf <=> Same(Zs, 0))
  BY ONLY <1>16, At(p, X, Y, Z), AtGe(q, X2, Y2), AddGeAt
<1> HIDE DEF res
<1>17. ASSUME ~p.inf, dg
       PROVE  \E XX, YY \in Int :
                 At(res, XX, YY, Zs) /\ (res.inf <=> Same(Zs, 0))
  BY ONLY <1>8, <1>10, <1>17, <1>18
<1> QED  BY ONLY <1>4, <1>5, <1>17, <1>18 DEF res

\* secp256k1_gej_add_ge with infinity first.
LEMMA AddGeInfinity ==
    ASSUME NEW p, NEW q, NEW X, NEW Y, NEW Z, NEW x2, NEW y2,
           p.inf = TRUE, At(p, X, Y, Z), FiniteGe(q, x2, y2)
    PROVE  Stands(AddGe(p, q), <<x2, y2>>)
<1>1. x2 \in Elements /\ y2 \in Elements /\ x2 \in Int /\ y2 \in Int /\ AtGe(q, x2, y2)
  BY SmallIs DEF FiniteGe
<1> DEFINE res == AddGe(p, q)
<1>2. At(res, x2, y2, 1) /\ res.inf = FALSE  BY <1>1, AddGeAny
<1> HIDE DEF res
<1>3. x2 * (1 * 1) = x2 /\ y2 * (1 * (1 * 1)) = y2  BY ONLY <1>1
<1>4. NonZero(1)  BY SmallIs DEF NonZero, Same
<1>5. Finite(res, x2, y2, 1)  BY ONLY <1>1, <1>2, <1>3, <1>4 DEF Finite
<1> QED  BY ONLY <1>5 DEF Stands, res

-----------------------------------------------------------------------------
\* The curve equation.
OnCurve(x, y) == Same(y * y, x * x * x + B)

\* Two roots of a square are the same or opposite.
LEMMA RootsOpposite ==
    ASSUME NEW y1 \in Elements, NEW y2 \in Elements, Same(y1 * y1, y2 * y2)
    PROVE  y1 = y2 \/ Same(y1 + y2, 0)
<1> SUFFICES ASSUME y1 # y2 PROVE Same(y1 + y2, 0)  OBVIOUS
<1>1. y1 \in Int /\ y2 \in Int  BY SmallIs
<1> DEFINE d == y2 - y1
           s == y1 + y2
<1>2. d \in Int /\ s \in Int /\ d * 1 = d /\ d * s = y2 * y2 - y1 * y1 /\ y1 * y1 \in Int
      /\ y2 * y2 \in Int /\ y1 * y1 - y1 * y1 = 0
  BY ONLY <1>1
<1>3. NonZero(d)
  <2>1. NonZero(1)  BY SmallIs DEF NonZero, Same
  <2>2. Same((y2 - y1) * 1, 0) <=> y1 = y2  BY <2>1, DifferenceZero
  <2> QED  BY ONLY <1>2, <2>2, y1 # y2 DEF NonZero
<1>4. Same(y2 * y2 - y1 * y1, y1 * y1 - y1 * y1)
  <2>1. Same(y2 * y2, y1 * y1)  BY DEF Same
  <2>2. Same(y1 * y1, y1 * y1)  BY DEF Same
  <2> DEFINE g == y1 * y1
             h == y2 * y2
  <2>3. g \in Int /\ h \in Int  BY <1>2
  <2> HIDE DEF g, h
  <2>4. Same(h - g, g - g)  BY ONLY <2>1, <2>2, <2>3, SameSum DEF g, h
  <2> QED  BY <2>4 DEF g, h
<1>5. Same(d * s, 0)  BY ONLY <1>2, <1>4
<1> HIDE DEF d, s
<1>6. Same(s, 0)  BY ONLY <1>2, <1>3, <1>5, NoZeroDivisors
<1> QED  BY <1>6 DEF s

\* The slope by the other expression, whose denominator is the sum of the Y
\* coordinates.
LEMMA OtherSlope ==
    ASSUME NEW x1 \in Elements, NEW y1 \in Elements, NEW x2 \in Elements, NEW y2 \in Elements,
           NEW l, OnCurve(x1, y1), OnCurve(x2, y2), Slope(x1, y1, x2, y2, l),
           x1 # x2 \/ y1 = y2
    PROVE  /\ Same(l * (y1 + y2), x1 * x1 + x1 * x2 + x2 * x2)
           /\ Same(l * (x2 - x1), y2 - y1)
<1>1. x1 \in Int /\ x2 \in Int /\ y1 \in Int /\ y2 \in Int /\ l \in Int /\ B \in Int
  BY SmallIs, GroupAssumption DEF Slope
<1>2. CASE x1 = x2 /\ y1 = y2
  <2>1. Same(l * (2 * y1), 3 * x1 * x1)  BY <1>2 DEF Slope, Times
  <2>2. l * (y1 + y2) = l * (2 * y1) /\ x1 * x1 + x1 * x2 + x2 * x2 = 3 * x1 * x1
        /\ l * (x2 - x1) = 0 /\ y2 - y1 = 0
    BY ONLY <1>1, <1>2
  <2> QED  BY ONLY <2>1, <2>2 DEF Same
<1>3. CASE x1 # x2
  <2> DEFINE d == x2 - x1
             e == y2 - y1
             s == y1 + y2
             k == x1 * x1 + x1 * x2 + x2 * x2
             g == l * s - k
  <2>1. d \in Int /\ e \in Int /\ s \in Int /\ k \in Int /\ g \in Int /\ l * d \in Int
        /\ l * s \in Int
    BY ONLY <1>1
  <2>2. Same(l * d, e)  BY <1>3 DEF Slope, Times
  <2>3. Same((l * d) * s, e * s)  BY ONLY <2>1, <2>2, SameScaled
  <2>4. Same(e * s, d * k)
    <3> DEFINE c1 == x1 * x1 * x1 + B
               c2 == x2 * x2 * x2 + B
    <3>1. e * s = y2 * y2 - y1 * y1 /\ c2 - c1 = d * k  BY ONLY <1>1
    <3>2. Same(y1 * y1, c1) /\ Same(y2 * y2, c2)  BY DEF OnCurve
    <3>3. y1 * y1 \in Int /\ y2 * y2 \in Int /\ c1 \in Int /\ c2 \in Int  BY ONLY <1>1
    <3> HIDE DEF c1, c2
    <3>4. Same(y2 * y2 - y1 * y1, c2 - c1)  BY ONLY <3>2, <3>3, SameSum
    <3> QED  BY ONLY <3>1, <3>4
  <2>5. d * g = (l * d) * s - d * k /\ (l * d) * s \in Int /\ d * k \in Int /\ d * k - d * k = 0
    BY ONLY <1>1
  <2>6. NonZero(d)
    <3>1. NonZero(1)  BY SmallIs DEF NonZero, Same
    <3>2. Same((x2 - x1) * 1, 0) <=> x1 = x2  BY <3>1, DifferenceZero
    <3>3. (x2 - x1) * 1 = d  BY ONLY <1>1
    <3> QED  BY ONLY <1>3, <3>2, <3>3 DEF NonZero
  <2>7. l * s = g + k /\ 0 + k = k  BY ONLY <2>1
  <2> HIDE DEF d, e, s, k, g
  <2>8. Same((l * d) * s, d * k)  BY ONLY <2>3, <2>4 DEF Same
  <2>9. Same(d * k, d * k)  BY DEF Same
  <2>10. Same((l * d) * s - d * k, d * k - d * k)  BY ONLY <2>5, <2>8, <2>9, SameSum
  <2>11. Same(d * g, 0)  BY ONLY <2>5, <2>10
  <2>12. Same(g, 0)  BY ONLY <2>1, <2>6, <2>11, NoZeroDivisors
  <2>13. Same(k, k)  BY DEF Same
  <2>14. Same(g + k, 0 + k)  BY ONLY <2>1, <2>12, <2>13, 0 \in Int, SameSum
  <2>15. Same(l * s, k)  BY ONLY <2>7, <2>14
  <2> QED  BY ONLY <2>2, <2>15 DEF d, e, s, k
<1> QED  BY <1>2, <1>3

\* Twice the Y coordinate of the sum, from both points.
LEMMA SumTwice ==
    ASSUME NEW x1 \in Int, NEW y1 \in Int, NEW x2 \in Int, NEW y2 \in Int, NEW l \in Int,
           NEW x3 \in Int, NEW y3 \in Int,
           Same(l * (x2 - x1), y2 - y1), Same(y3, l * (x1 - x3) - y1)
    PROVE  Same(2 * y3, l * (x1 + x2 - 2 * x3) - (y1 + y2))
<1> DEFINE u == l * (x1 - x3) - y1
           e == l * (x2 - x1)
           c == y2 - y1
<1>1. u \in Int /\ e \in Int /\ c \in Int  OBVIOUS
<1>2. l * (x1 + x2 - 2 * x3) - (y1 + y2) = (2 * u) + (e - c) /\ (2 * u) + 0 = u * 2
      /\ y3 * 2 = 2 * y3
  OBVIOUS
<1>3. Same(e, c) /\ Same(y3, u)  OBVIOUS
<1> HIDE DEF u, e, c
<1>4. Same(c, c) /\ Same(u * 2, u * 2) /\ c - c = 0 /\ e - c \in Int /\ 2 * u \in Int
      /\ 2 * u = u * 2
  BY ONLY <1>1 DEF Same
<1>5. Same(e - c, c - c)  BY ONLY <1>1, <1>3, <1>4, SameSum
<1>6. Same(e - c, 0) /\ Same(2 * u, 2 * u)  BY ONLY <1>4, <1>5
<1>7. Same(2 * u + (e - c), 2 * u + 0)  BY ONLY <1>4, <1>6, 0 \in Int, SameSum
<1>8. Same(y3 * 2, u * 2)  BY ONLY <1>1, <1>3, y3 \in Int, 2 \in Int, SameScaled
<1> QED  BY ONLY <1>2, <1>7, <1>8 DEF Same

\* secp256k1_gej_add_ge with opposite points.
LEMMA AddGeOpposite ==
    ASSUME NEW p, NEW q, NEW x1, NEW y1, NEW z, NEW x2, NEW y2,
           Finite(p, x1, y1, z), FiniteGe(q, x2, y2), x1 = x2, y1 # y2,
           OnCurve(x1, y1), OnCurve(x2, y2)
    PROVE  Stands(AddGe(p, q), RefAdd(<<x1, y1>>, <<x2, y2>>))
<1>1. /\ x1 \in Elements /\ y1 \in Elements /\ x2 \in Elements /\ y2 \in Elements
      /\ x1 \in Int /\ y1 \in Int /\ x2 \in Int /\ y2 \in Int /\ z \in Int /\ NonZero(z)
      /\ p.inf = FALSE /\ At(p, x1 * (z * z), y1 * (z * (z * z)), z) /\ AtGe(q, x2, y2)
  BY SmallIs DEF Finite, FiniteGe
<1> DEFINE X == x1 * (z * z)
           Y == y1 * (z * (z * z))
           D == Plus(Y, Times(Times(y2, Times(z, z)), z))
           Zs == Times(z, Plus(Minus(Times(x2, Times(z, z))), X))
<1>2. Same(y1 + y2, 0)
  <2>1. Same(y1 * y1, y2 * y2)  BY DEF OnCurve, Same
  <2> QED  BY <1>1, <2>1, RootsOpposite
<1>3. Same(D, 0)
  <2> DEFINE s == y1 + y2
             c == z * (z * z)
  <2>1. D = s * c /\ 0 * c = 0 /\ c \in Int /\ s \in Int  BY ONLY <1>1 DEF Plus, Times
  <2>2. Same(s, 0)  BY <1>2
  <2> HIDE DEF D, s, c
  <2>3. Same(s * c, 0 * c)  BY ONLY <2>1, <2>2, 0 \in Int, SameScaled
  <2> QED  BY ONLY <2>1, <2>3
<1>4. Zs = 0  BY ONLY <1>1, x1 = x2 DEF Plus, Times, Minus
<1> DEFINE res == AddGe(p, q)
<1> HIDE DEF X, Y
<1>5. At(p, X, Y, z) /\ Same(Plus(Y, Times(Times(y2, Times(z, z)), z)), 0)
  BY <1>1, <1>3 DEF X, Y
<1>6. \E X3, Y3 \in Int : At(res, X3, Y3, Zs) /\ (res.inf <=> Same(Zs, 0))
  BY ONLY <1>1, <1>5, AddGeAny
<1> HIDE DEF res, Zs
<1>7. PICK X3, Y3 \in Int : At(res, X3, Y3, Zs) /\ (res.inf <=> Same(Zs, 0))  BY <1>6
<1>8. res.inf = TRUE
  <2>1. res.inf \in BOOLEAN  BY <1>7 DEF At, Gejs
  <2> QED  BY <1>4, <1>7, <2>1 DEF Same
<1>9. RefAdd(<<x1, y1>>, <<x2, y2>>) = None  BY <1>1, SumOf
<1> QED  BY ONLY <1>7, <1>8, <1>9 DEF Stands, res

\* secp256k1_gej_add_ge with any other two points, equal ones and those that only
\* have opposite Y coordinates included.
LEMMA AddGeFinite ==
    ASSUME NEW p, NEW q, NEW x1, NEW y1, NEW z, NEW x2, NEW y2,
           Finite(p, x1, y1, z), FiniteGe(q, x2, y2), x1 # x2 \/ y1 = y2, y1 # 0,
           OnCurve(x1, y1), OnCurve(x2, y2)
    PROVE  Stands(AddGe(p, q), RefAdd(<<x1, y1>>, <<x2, y2>>))
<1>1. /\ x1 \in Elements /\ y1 \in Elements /\ x2 \in Elements /\ y2 \in Elements
      /\ x1 \in Int /\ y1 \in Int /\ x2 \in Int /\ y2 \in Int /\ z \in Int /\ NonZero(z)
      /\ p.inf = FALSE /\ At(p, x1 * (z * z), y1 * (z * (z * z)), z) /\ AtGe(q, x2, y2)
  BY SmallIs DEF Finite, FiniteGe
<1>2. PICK l, x3, y3 :
         /\ RefAdd(<<x1, y1>>, <<x2, y2>>) = <<x3, y3>>
         /\ Slope(x1, y1, x2, y2, l) /\ x3 \in Elements /\ y3 \in Elements
         /\ Same(x3, l * l - x1 - x2) /\ Same(y3, l * (x1 - x3) - y1)
  BY <1>1, SumOf
<1>3. x3 \in Int /\ y3 \in Int /\ l \in Int  BY <1>2, SmallIs DEF Slope
<1>4. /\ Same(l * (y1 + y2), x1 * x1 + x1 * x2 + x2 * x2)
      /\ Same(l * (x2 - x1), y2 - y1)
  BY <1>1, <1>2, OtherSlope
<1>5. Same(2 * y3, l * (x1 + x2 - 2 * x3) - (y1 + y2))
  BY ONLY <1>1, <1>2, <1>3, <1>4, SumTwice
<1> DEFINE dg == Same(y1 + y2, 0)
           X  == x1 * (z * z)
           Y  == y1 * (z * (z * z))
           U2 == x2 * (z * z)
           T  == (x1 + x2) * (z * z)
           M  == (y1 + y2) * (z * (z * z))
           Wv  == IF dg THEN (x1 - x2) * (z * z) ELSE M
           Zs == z * Wv
           R  == l * Zs
           NN == M * (Wv * (Wv * Wv))
           Q  == -(T * (Wv * Wv))
           X3 == x3 * (Zs * Zs)
           Y3 == y3 * (Zs * (Zs * Zs))
<1>6. dg \in BOOLEAN /\ z * z \in Int /\ z * (z * z) \in Int /\ y1 + y2 \in Int /\ x1 - x2 \in Int
  BY ONLY <1>1 DEF Same
<1>7. /\ X \in Int /\ Y \in Int /\ U2 \in Int /\ T \in Int /\ M \in Int /\ Wv \in Int
  BY ONLY <1>1, <1>6
<1> HIDE DEF Wv, dg
<1>8. Zs \in Int /\ R \in Int /\ NN \in Int /\ Q \in Int /\ X3 \in Int /\ Y3 \in Int
      /\ Zs * Zs \in Int /\ Zs * (Zs * Zs) \in Int
  BY ONLY <1>1, <1>3, <1>7
<1>9. NonZero(z * z) /\ NonZero(z * (z * z))
  <2>1. NonZero(z * z)  BY ONLY <1>1, NoZeroDivisors
  <2> QED  BY ONLY <1>1, <1>6, <2>1, NoZeroDivisors
<1>10. dg <=> Same(M, 0)
  <2> DEFINE s == y1 + y2
             c == z * (z * z)
  <2>1. s \in Int /\ c \in Int /\ NonZero(c) /\ 0 * c = 0 /\ s * c = c * s /\ M = s * c
    BY ONLY <1>6, <1>9
  <2>2. dg <=> Same(s, 0)  BY DEF dg
  <2> HIDE DEF s, c, M
  <2>3. ASSUME dg PROVE Same(M, 0)
    <3>1. Same(s * c, 0 * c)  BY ONLY <2>1, <2>2, <2>3, 0 \in Int, SameScaled
    <3> QED  BY ONLY <2>1, <3>1
  <2>4. ASSUME Same(M, 0) PROVE dg
    <3>1. Same(c * s, 0)  BY ONLY <2>1, <2>4
    <3>2. Same(s, 0)  BY ONLY <2>1, <3>1, NoZeroDivisors
    <3> QED  BY ONLY <2>2, <3>2
  <2> QED  BY <2>3, <2>4
<1>11. NonZero(Wv)
  <2>1. CASE dg
    <3>1. x1 # x2
      <4> SUFFICES ASSUME x1 = x2 PROVE FALSE  OBVIOUS
      <4>1. y1 = y2 /\ Same(y1 + y2, 0)  BY <2>1 DEF dg
      <4>2. y1 + y2 = 2 * y1  BY ONLY <1>1, <4>1
      <4>3. NonZero(2)
        <5>1. 2 \in Elements  BY OrderOfField DEF Elements
        <5> QED  BY <5>1, SmallIs DEF NonZero, Same
      <4>4. NonZero(y1)  BY <1>1, ElementNonZero
      <4>5. NonZero(2 * y1)  BY ONLY <1>1, <4>3, <4>4, 2 \in Int, NoZeroDivisors
      <4> QED  BY ONLY <4>1, <4>2, <4>5 DEF NonZero
    <3>2. Same((x1 - x2) * (z * z), 0) <=> x2 = x1
      BY ONLY <1>1, <1>6, <1>9, DifferenceZero
    <3>3. Wv = (x1 - x2) * (z * z)  BY <2>1 DEF Wv
    <3> QED  BY ONLY <3>1, <3>2, <3>3 DEF NonZero
  <2>2. CASE ~dg
    <3>1. Wv = M  BY <2>2 DEF Wv
    <3> QED  BY ONLY <1>10, <2>2, <3>1 DEF NonZero
  <2> QED  BY <2>1, <2>2
<1>12. NonZero(Zs)  BY ONLY <1>1, <1>7, <1>11, NoZeroDivisors
<1>13. ASSUME dg PROVE Same(Y * 2, R) /\ -U2 + X = Wv /\ Same(M, NN)
  <2>1. Wv = (x1 - x2) * (z * z)  BY <1>13 DEF Wv
  <2>2. -U2 + X = Wv  BY ONLY <1>1, <2>1
  <2>3. R = (l * (x1 - x2)) * (z * (z * z))  BY ONLY <1>1, <1>3, <2>1
  <2>4. Y * 2 = (2 * y1) * (z * (z * z))  BY ONLY <1>1
  <2>5. Same(2 * y1, l * (x1 - x2))
    <3> DEFINE s == y1 + y2
               e == l * (x2 - x1)
               c == y2 - y1
    <3>1. s \in Int /\ e \in Int /\ c \in Int /\ 2 * y1 = s - c /\ l * (x1 - x2) = 0 - e
      BY ONLY <1>1, <1>3
    <3>2. Same(s, 0) /\ Same(c, e)  BY <1>4, <1>13 DEF Same, dg
    <3> HIDE DEF s, e, c
    <3>3. Same(s - c, 0 - e)  BY ONLY <3>1, <3>2, 0 \in Int, SameSum
    <3> QED  BY ONLY <3>1, <3>3
  <2>6. 2 * y1 \in Int /\ l * (x1 - x2) \in Int  BY ONLY <1>1, <1>3
  <2>7. Same((2 * y1) * (z * (z * z)), (l * (x1 - x2)) * (z * (z * z)))
    BY ONLY <1>6, <2>5, <2>6, SameScaled
  <2>8. Same(M, NN)
    <3> DEFINE c == Wv * (Wv * Wv)
    <3>1. c \in Int /\ NN = M * c /\ 0 * c = 0  BY ONLY <1>7
    <3>2. Same(M, 0)  BY ONLY <1>10, <1>13
    <3> HIDE DEF c, NN, M
    <3>3. Same(M * c, 0 * c)  BY ONLY <1>7, <3>1, <3>2, 0 \in Int, SameScaled
    <3> QED  BY ONLY <3>1, <3>2, <3>3 DEF Same
  <2> QED  BY ONLY <2>2, <2>3, <2>4, <2>7, <2>8
<1>14. ASSUME ~dg PROVE Same(T * T + X * (-U2), R) /\ M = Wv /\ (Wv * Wv) * (Wv * Wv) = NN
  <2>1. Wv = M  BY <1>14 DEF Wv
  <2>2. T * T + X * (-U2) = (x1 * x1 + x1 * x2 + x2 * x2) * (z * (z * (z * z)))
    BY ONLY <1>1
  <2>3. R = (l * (y1 + y2)) * (z * (z * (z * z)))  BY ONLY <1>1, <1>3, <2>1
  <2>4. (Wv * Wv) * (Wv * Wv) = NN
    <3> HIDE DEF M
    <3> QED  BY ONLY <1>7, <2>1
  <2>5. /\ x1 * x1 + x1 * x2 + x2 * x2 \in Int /\ l * (y1 + y2) \in Int
        /\ z * (z * (z * z)) \in Int
    BY ONLY <1>1, <1>3
  <2>6. Same((l * (y1 + y2)) * (z * (z * (z * z))),
             (x1 * x1 + x1 * x2 + x2 * x2) * (z * (z * (z * z))))
    BY ONLY <1>4, <2>5, SameScaled
  <2>7. Same(T * T + X * (-U2), R)  BY ONLY <2>2, <2>3, <2>6 DEF Same
  <2> QED  BY ONLY <2>1, <2>4, <2>7
<1>15. R * R + Q = (l * l - x1 - x2) * (Zs * Zs)  BY ONLY <1>1, <1>3, <1>7
<1>16. -((X3 * 2 + Q) * R + NN) = (l * (x1 + x2 - 2 * x3) - (y1 + y2)) * (Zs * (Zs * Zs))
  BY ONLY <1>1, <1>3, <1>7
<1>17. Same(R * R + Q, X3)
  <2>1. l * l - x1 - x2 \in Int  BY ONLY <1>1, <1>3
  <2>2. Same(X3, (l * l - x1 - x2) * (Zs * Zs))  BY ONLY <1>2, <1>3, <1>8, <2>1, SameScaled
  <2> QED  BY ONLY <1>15, <2>2 DEF Same
<1>18. Same(-((X3 * 2 + Q) * R + NN), 2 * Y3)
  <2> DEFINE u == l * (x1 + x2 - 2 * x3) - (y1 + y2)
  <2>1. u \in Int /\ 2 * y3 \in Int  BY ONLY <1>1, <1>3
  <2>2. (2 * y3) * (Zs * (Zs * Zs)) = 2 * Y3
    <3> HIDE DEF Zs
    <3> QED  BY ONLY <1>3, <1>8
  <2>3. Same((2 * y3) * (Zs * (Zs * Zs)), u * (Zs * (Zs * Zs)))
    BY ONLY <1>5, <1>8, <2>1, SameScaled
  <2> QED  BY ONLY <1>16, <2>2, <2>3 DEF Same
<1>19. x2 * (z * z) = U2 /\ X + U2 = T /\ Y + (y2 * (z * z)) * z = M /\ (-T) * (Wv * Wv) = Q
  <2>1. (-T) * (Wv * Wv) = Q
    <3> HIDE DEF T
    <3> QED  BY ONLY <1>7
  <2> QED  BY ONLY <1>1, <2>1
<1>20. At(p, X, Y, z)  BY <1>1
<1> HIDE DEF X, Y, U2, T, M, R, NN, Q, Zs, X3, Y3
<1>21. AddGeValues(X, Y, z, x2, y2, dg, U2, T, M, R, Wv, Q, NN, X3, Y3, Zs)
  <2>1. /\ Same(Times(x2, Times(z, z)), U2) /\ Same(Plus(X, U2), T)
        /\ Same(Plus(Y, Times(Times(y2, Times(z, z)), z)), M)
        /\ Same(Times(Minus(T), Times(Wv, Wv)), Q) /\ Same(Times(z, Wv), Zs)
    BY ONLY <1>19 DEF Same, Times, Plus, Minus, Zs
  <2>2. /\ Same(Plus(Times(R, R), Q), X3)
        /\ Same(Minus(Plus(Times(Plus(Times(X3, 2), Q), R), NN)), Times(2, Y3))
    BY ONLY <1>17, <1>18 DEF Times, Plus, Minus
  <2>3. /\ IF dg THEN Same(Times(Y, 2), R)
                 ELSE Same(Plus(Times(T, T), Times(X, Minus(U2))), R)
        /\ IF dg THEN Same(Plus(Minus(U2), X), Wv) ELSE Same(M, Wv)
        /\ IF dg THEN Same(M, NN) ELSE Same(Times(Times(Wv, Wv), Times(Wv, Wv)), NN)
    <3>1. CASE dg  BY ONLY <1>13, <3>1 DEF Times, Plus, Minus, Same
    <3>2. CASE ~dg  BY ONLY <1>14, <3>2 DEF Times, Plus, Minus, Same
    <3> QED  BY ONLY <3>1, <3>2
  <2> QED  BY ONLY <1>6, <1>7, <1>8, <1>10, <2>1, <2>2, <2>3 DEF AddGeValues
<1> DEFINE res == AddGe(p, q)
<1>22. ~p.inf => At(res, X3, Y3, Zs) /\ (res.inf <=> Same(Zs, 0))
  BY ONLY <1>1, <1>20, <1>21, AddGeAt
<1> HIDE DEF res
<1>23. At(res, X3, Y3, Zs) /\ ~res.inf  BY ONLY <1>1, <1>12, <1>22 DEF NonZero
<1>24. res.inf = FALSE  BY ONLY <1>23 DEF At, Gejs
<1>25. Finite(res, x3, y3, Zs)
  BY ONLY <1>2, <1>8, <1>12, <1>23, <1>24 DEF Finite, X3, Y3
<1> QED  BY ONLY <1>2, <1>25 DEF Stands, res

-----------------------------------------------------------------------------
\* A finite point of the curve.
LEMMA PointTypes ==
    ASSUME NEW x, NEW y, <<x, y>> \in Points
    PROVE  x \in Elements /\ y \in Elements /\ x \in Int /\ y \in Int /\ y # 0 /\ OnCurve(x, y)
<1>1. /\ <<x, y>> \in Elements \X Elements /\ <<x, y>>[1] = x /\ <<x, y>>[2] = y
      /\ (<<x, y>>[2] * <<x, y>>[2]) % P
           = (<<x, y>>[1] * <<x, y>>[1] * <<x, y>>[1] + B) % P
  BY DEF Points
<1>2. <<x, y>>[2] # 0  BY CurveIsGroup
<1>3. x \in Elements /\ y \in Elements /\ y # 0 /\ OnCurve(x, y)
  BY <1>1, <1>2 DEF OnCurve, Same
<1> QED  BY <1>3, SmallIs

\* secp256k1_gej_set_ge.
LEMMA GejSetGeStands ==
    ASSUME NEW q, NEW pt, StandsGe(q, pt)
    PROVE  Stands(GejSetGe(q), pt)
<1> DEFINE res == GejSetGe(q)
<1>1. ASSUME NEW X, NEW Y, AtGe(q, X, Y)
      PROVE  At(res, X, Y, 1) /\ res.inf = q.inf
  <2>1. /\ q \in Ges /\ Is(q.x, X, 4) /\ Is(q.y, Y, 3) /\ Is(One, 1, 1)
        /\ X \in Int /\ Y \in Int
    BY <1>1, SmallIs DEF AtGe, Is
  <2>2. Is(q.y, Y, 4)  BY ONLY <2>1, Small, Widen
  <2>3. res = [x |-> q.x, y |-> q.y, z |-> One, inf |-> q.inf]  BY DEF GejSetGe
  <2>4. res \in Gejs  BY ONLY <2>1, <2>3 DEF Gejs, Ges, Is
  <2> HIDE DEF res
  <2> QED  BY ONLY <2>1, <2>2, <2>3, <2>4 DEF At
<1> HIDE DEF res
<1>2. CASE pt = None /\ q.inf = TRUE /\ \E X, Y : AtGe(q, X, Y)
  BY ONLY <1>1, <1>2 DEF Stands, res
<1>3. CASE \E x, y : pt = <<x, y>> /\ FiniteGe(q, x, y)
  <2>1. PICK x, y : pt = <<x, y>> /\ FiniteGe(q, x, y)  BY <1>3
  <2>2. x \in Elements /\ y \in Elements /\ q.inf = FALSE /\ AtGe(q, x, y)
    BY <2>1 DEF FiniteGe
  <2>3. x \in Int /\ y \in Int  BY <2>2, SmallIs
  <2>4. x * (1 * 1) = x /\ y * (1 * (1 * 1)) = y  BY ONLY <2>3
  <2>5. NonZero(1)  BY SmallIs DEF NonZero, Same
  <2>6. Finite(res, x, y, 1)  BY ONLY <1>1, <2>2, <2>4, <2>5 DEF Finite
  <2> QED  BY ONLY <2>1, <2>6 DEF Stands, res
<1> QED  BY <1>2, <1>3 DEF StandsGe

\* The opposite point.
Opposite(pt) == IF pt = None THEN None ELSE <<pt[1], (-pt[2]) % P>>

\* The negated Y coordinate.
LEMMA NegatedY ==
    ASSUME NEW e, NEW y, NEW k \in Limits, Is(e, y, k)
    PROVE  Is(Negate(NormalizeWeak(e), 1), Minus(y), 2)
<1>1. y \in Int  BY DEF Is
<1>2. Is(NormalizeWeak(e), y, 1)  BY <1>1, NormalizeWeakIs
<1> QED  BY <1>2, NegateStep, Small, Sums

\* secp256k1_gej_neg.
LEMMA NegYStands ==
    ASSUME NEW p, NEW pt, Stands(p, pt)
    PROVE  Stands(NegY(p), Opposite(pt))
<1> DEFINE res == NegY(p)
<1>1. ASSUME NEW X, NEW Y, NEW Z, At(p, X, Y, Z)
      PROVE  At(res, X, Minus(Y), Z) /\ res.inf = p.inf
  <2> DEFINE e == Negate(NormalizeWeak(p.y), 1)
  <2>1. p \in Gejs /\ Is(p.x, X, 4) /\ Is(p.y, Y, 4) /\ Is(p.z, Z, 1)  BY <1>1 DEF At
  <2>2. Is(e, Minus(Y), 2)  BY <2>1, NegatedY, Small
  <2>3. res = [p EXCEPT !.y = e]  BY DEF NegY
  <2> HIDE DEF e
  <2>4. Is(e, Minus(Y), 4)  BY <2>2, Small, Widen
  <2>5. e \in Records  BY <2>2 DEF Is
  <2>6. /\ res \in Gejs /\ res.x = p.x /\ res.y = e /\ res.z = p.z /\ res.inf = p.inf
    BY ONLY <2>1, <2>3, <2>5 DEF Gejs
  <2> QED  BY ONLY <2>1, <2>4, <2>6 DEF At
<1> HIDE DEF res
<1>2. CASE pt = None /\ p.inf = TRUE /\ \E X, Y, Z : At(p, X, Y, Z)
  BY ONLY <1>1, <1>2 DEF Stands, Opposite, res
<1>3. CASE \E x, y, z : pt = <<x, y>> /\ Finite(p, x, y, z)
  <2>1. PICK x, y, z : pt = <<x, y>> /\ Finite(p, x, y, z)  BY <1>3
  <2>2. /\ x \in Elements /\ y \in Elements /\ z \in Int /\ NonZero(z) /\ p.inf = FALSE
        /\ At(p, x * (z * z), y * (z * (z * z)), z)
    BY <2>1 DEF Finite
  <2>3. y \in Int /\ x \in Int /\ -y \in Int  BY <2>2, SmallIs
  <2> DEFINE y3 == (-y) % P
             Zs == z * (z * z)
             Y3 == Minus(y * Zs)
  <2>4. y3 \in Elements /\ Same(-y, y3) /\ y3 \in Int  BY <2>3, Residue, SameResidue DEF Same
  <2>5. Opposite(pt) = <<x, y3>>  BY <2>1, PairIsNoNone DEF Opposite
  <2>6. At(res, x * (z * z), Y3, z) /\ res.inf = FALSE  BY ONLY <1>1, <2>2
  <2> HIDE DEF y3
  <2>7. Same(Y3, y3 * Zs)
    <3>1. Y3 = (-y) * Zs /\ Zs \in Int  BY ONLY <2>2, <2>3 DEF Minus
    <3> QED  BY ONLY <2>3, <2>4, <3>1, SameScaled
  <2>8. y3 * Zs \in Int  BY ONLY <2>2, <2>4
  <2> DEFINE V == y3 * Zs
  <2> HIDE DEF V, Y3
  <2>9. Is(res.y, V, 4)
    <3>1. Is(res.y, Y3, 4)  BY <2>6 DEF At
    <3> QED  BY ONLY <2>7, <2>8, <3>1, Small, Retarget DEF V
  <2>10. At(res, x * (z * z), V, z)  BY ONLY <2>6, <2>9 DEF At
  <2>11. Finite(res, x, y3, z)  BY ONLY <2>2, <2>4, <2>6, <2>10 DEF Finite, V
  <2> QED  BY ONLY <2>5, <2>11 DEF Stands, res
<1> QED  BY <1>2, <1>3 DEF Stands

\* secp256k1_ge_neg.
LEMMA NegYStandsGe ==
    ASSUME NEW q, NEW pt, StandsGe(q, pt)
    PROVE  StandsGe(NegY(q), Opposite(pt))
<1> DEFINE res == NegY(q)
<1>1. ASSUME NEW X, NEW Y, AtGe(q, X, Y)
      PROVE  AtGe(res, X, Minus(Y)) /\ res.inf = q.inf
  <2> DEFINE e == Negate(NormalizeWeak(q.y), 1)
  <2>1. q \in Ges /\ Is(q.x, X, 4) /\ Is(q.y, Y, 3)  BY <1>1 DEF AtGe
  <2>2. Is(e, Minus(Y), 2)  BY <2>1, NegatedY, Small
  <2>3. res = [q EXCEPT !.y = e]  BY DEF NegY
  <2> HIDE DEF e
  <2>4. Is(e, Minus(Y), 3)  BY <2>2, Small, Widen
  <2>5. e \in Records  BY <2>2 DEF Is
  <2>6. res \in Ges /\ res.x = q.x /\ res.y = e /\ res.inf = q.inf
    BY ONLY <2>1, <2>3, <2>5 DEF Ges
  <2> QED  BY ONLY <2>1, <2>4, <2>6 DEF AtGe
<1> HIDE DEF res
<1>2. CASE pt = None /\ q.inf = TRUE /\ \E X, Y : AtGe(q, X, Y)
  BY ONLY <1>1, <1>2 DEF StandsGe, Opposite, res
<1>3. CASE \E x, y : pt = <<x, y>> /\ FiniteGe(q, x, y)
  <2>1. PICK x, y : pt = <<x, y>> /\ FiniteGe(q, x, y)  BY <1>3
  <2>2. x \in Elements /\ y \in Elements /\ q.inf = FALSE /\ AtGe(q, x, y)
    BY <2>1 DEF FiniteGe
  <2>3. y \in Int /\ -y \in Int  BY <2>2, SmallIs
  <2> DEFINE y3 == (-y) % P
  <2>4. y3 \in Elements /\ Same(-y, y3) /\ y3 \in Int  BY <2>3, Residue, SameResidue DEF Same
  <2>5. Opposite(pt) = <<x, y3>>  BY <2>1, PairIsNoNone DEF Opposite
  <2>6. AtGe(res, x, Minus(y)) /\ res.inf = FALSE  BY ONLY <1>1, <2>2
  <2> HIDE DEF y3
  <2>7. Is(res.y, y3, 3)
    <3>1. Is(res.y, Minus(y), 3) /\ Same(Minus(y), y3)  BY <2>4, <2>6 DEF AtGe, Minus
    <3> QED  BY ONLY <2>4, <3>1, Small, Retarget
  <2>8. FiniteGe(res, x, y3)  BY ONLY <2>2, <2>4, <2>6, <2>7 DEF FiniteGe, AtGe
  <2> QED  BY ONLY <2>5, <2>8 DEF StandsGe, res
<1> QED  BY <1>2, <1>3 DEF StandsGe

-----------------------------------------------------------------------------
\* The coordinates that secp256k1_ge_set_gej_zinv computes.
LEMMA SetZinvAt ==
    ASSUME NEW p, NEW zi, NEW X, NEW Y, NEW V, Is(p.x, X, 4), Is(p.y, Y, 4), Is(zi, V, 1)
    PROVE  /\ SetZinv(p, zi) \in Ges /\ SetZinv(p, zi).inf = FALSE
           /\ Is(SetZinv(p, zi).x, Times(X, Times(V, V)), 1)
           /\ Is(SetZinv(p, zi).y, Times(Y, Times(Times(V, V), V)), 1)
<1> DEFINE zi2 == Sqr(zi)
           x == Mul(p.x, zi2)
           y == Mul(p.y, Mul(zi2, zi))
<1>1. Is(zi2, Times(V, V), 1)  BY SqrStep, Small
<1> HIDE DEF zi2
<1>2. Is(x, Times(X, Times(V, V)), 1)  BY <1>1, MulStep, Small
<1>3. Is(y, Times(Y, Times(Times(V, V), V)), 1)
  <2>1. Is(Mul(zi2, zi), Times(Times(V, V), V), 1)  BY <1>1, MulStep, Small
  <2> QED  BY <2>1, MulStep, Small
<1>4. SetZinv(p, zi) = [x |-> x, y |-> y, inf |-> FALSE]  BY DEF SetZinv, GeSetXY, x, y, zi2
<1> HIDE DEF x, y
<1>5. x \in Records /\ y \in Records  BY <1>2, <1>3 DEF Is
<1> QED  BY ONLY <1>2, <1>3, <1>4, <1>5 DEF Ges

\* Scaling by the inverse of the Z coordinate gives the affine coordinates.
LEMMA ScaledBack ==
    ASSUME NEW x \in Int, NEW y \in Int, NEW z \in Int, NEW v \in Int, Same(z * v, 1)
    PROVE  /\ Same((x * (z * z)) * (v * v), x)
           /\ Same((y * (z * (z * z))) * (v * v * v), y)
<1> DEFINE u == z * v
<1>1. u \in Int /\ 1 * 1 = 1 /\ u * u \in Int /\ 1 * x = x /\ 1 * y = y /\ u * u * u \in Int
      /\ (u * u) * u \in Int
  OBVIOUS
<1>2. (x * (z * z)) * (v * v) = (u * u) * x  OBVIOUS
<1>3. (y * (z * (z * z))) * (v * v * v) = ((u * u) * u) * y  OBVIOUS
<1>4. Same(u, 1)  OBVIOUS
<1> HIDE DEF u
<1>5. Same(u * u, 1 * 1)  BY ONLY <1>1, <1>4, 1 \in Int, SameProduct
<1>6. Same(u * u, 1)  BY ONLY <1>1, <1>5
<1>7. Same((u * u) * u, 1 * 1)  BY ONLY <1>1, <1>4, <1>6, 1 \in Int, SameProduct
<1>8. Same((u * u) * u, 1)  BY ONLY <1>1, <1>7
<1>9. Same((u * u) * x, 1 * x) /\ Same(((u * u) * u) * y, 1 * y)
  BY ONLY <1>1, <1>6, <1>8, 1 \in Int, x \in Int, y \in Int, SameScaled
<1> QED  BY ONLY <1>1, <1>2, <1>3, <1>9

\* secp256k1_ge_set_gej.
LEMMA GeSetGejStands ==
    ASSUME NEW p, NEW pt, Stands(p, pt)
    PROVE  StandsGe(GeSetGej(p), pt)
<1> DEFINE res == GeSetGej(p)
           zi == Inv(p.z)
           sz == SetZinv(p, zi)
<1>1. ASSUME NEW X, NEW Y, NEW Z, NEW V, At(p, X, Y, Z), Is(zi, V, 1)
      PROVE  /\ AtGe(res, Times(X, Times(V, V)), Times(Y, Times(Times(V, V), V)))
             /\ res.inf = p.inf
  <2>1. p \in Gejs /\ Is(p.x, X, 4) /\ Is(p.y, Y, 4)  BY <1>1 DEF At
  <2>2. /\ sz \in Ges
        /\ Is(sz.x, Times(X, Times(V, V)), 1)
        /\ Is(sz.y, Times(Y, Times(Times(V, V), V)), 1)
    BY ONLY <1>1, <2>1, SetZinvAt
  <2>3. res = [sz EXCEPT !.inf = p.inf]  BY DEF GeSetGej
  <2> HIDE DEF sz, zi, res
  <2>4. p.inf \in BOOLEAN  BY ONLY <2>1 DEF Gejs
  <2>5. res \in Ges /\ res.x = sz.x /\ res.y = sz.y /\ res.inf = p.inf
    BY ONLY <2>2, <2>3, <2>4 DEF Ges
  <2>6. /\ Is(res.x, Times(X, Times(V, V)), 4)
        /\ Is(res.y, Times(Y, Times(Times(V, V), V)), 3)
    BY ONLY <2>2, <2>5, Small, Widen
  <2> QED  BY ONLY <2>5, <2>6 DEF AtGe
<1> HIDE DEF res, sz
<1>2. ASSUME NEW X, NEW Y, NEW Z, At(p, X, Y, Z)
      PROVE  /\ Z \in Int
             /\ \E V \in Int : Is(zi, V, 1)
             /\ NonZero(Z) => Is(zi, Inverses[Z % P], 1)
  <2>1. Is(p.z, Z, 1) /\ Z \in Int  BY <1>2 DEF At, Is
  <2> QED  BY <2>1, Small, InvIs
<1> HIDE DEF zi
<1>3. CASE pt = None /\ p.inf = TRUE /\ \E X, Y, Z : At(p, X, Y, Z)
  <2>1. PICK X, Y, Z : At(p, X, Y, Z)  BY <1>3
  <2>2. PICK V \in Int : Is(zi, V, 1)  BY <1>2, <2>1
  <2>3. AtGe(res, Times(X, Times(V, V)), Times(Y, Times(Times(V, V), V))) /\ res.inf = p.inf
    BY ONLY <1>1, <2>1, <2>2
  <2> QED  BY ONLY <1>3, <2>3 DEF StandsGe, res
<1>4. CASE \E x, y, z : pt = <<x, y>> /\ Finite(p, x, y, z)
  <2>1. PICK x, y, z : pt = <<x, y>> /\ Finite(p, x, y, z)  BY <1>4
  <2>2. /\ x \in Elements /\ y \in Elements /\ z \in Int /\ NonZero(z) /\ p.inf = FALSE
        /\ At(p, x * (z * z), y * (z * (z * z)), z) /\ x \in Int /\ y \in Int
    BY <2>1, SmallIs DEF Finite
  <2> DEFINE V == Inverses[z % P]
             X == x * (z * z)
             Y == y * (z * (z * z))
  <2>3. V \in Int /\ Same(z * V, 1) /\ Is(zi, V, 1)  BY <1>2, <2>2, InverseOf
  <2> HIDE DEF V
  <2>4. At(p, X, Y, z)  BY <2>2
  <2>5. Same(X * (V * V), x) /\ Same(Y * (V * V * V), y)
    BY ONLY <2>2, <2>3, ScaledBack
  <2> HIDE DEF X, Y
  <2>6. AtGe(res, Times(X, Times(V, V)), Times(Y, Times(Times(V, V), V))) /\ res.inf = p.inf
    BY ONLY <1>1, <2>3, <2>4
  <2>7. /\ Is(res.x, Times(X, Times(V, V)), 4) /\ res \in Ges
        /\ Is(res.y, Times(Y, Times(Times(V, V), V)), 3)
    BY <2>6 DEF AtGe
  <2>8. Is(res.x, x, 4) /\ Is(res.y, y, 3)
    <3>1. Same(Times(X, Times(V, V)), x) /\ Same(Times(Y, Times(Times(V, V), V)), y)
      BY ONLY <2>5 DEF Times
    <3> QED  BY ONLY <2>2, <2>7, <3>1, Small, Retarget
  <2>9. FiniteGe(res, x, y)  BY ONLY <2>2, <2>6, <2>7, <2>8 DEF FiniteGe, AtGe
  <2> QED  BY ONLY <2>1, <2>9 DEF StandsGe, res
<1> QED  BY <1>3, <1>4 DEF Stands

\* The constant for infinity, affine.
LEMMA GeInfinityStands == StandsGe(GeInfinity, None)
<1> DEFINE o == SetInt(0)
<1>1. Is(o, 0, 4) /\ Is(o, 0, 3) /\ o \in Records
  <2>1. Is(o, 0, 1)  BY SmallIs
  <2> HIDE DEF o
  <2>2. Is(o, 0, 4)  BY ONLY <2>1, Small, Widen
  <2>3. Is(o, 0, 3)  BY ONLY <2>1, Small, Widen
  <2> QED  BY ONLY <2>1, <2>2, <2>3 DEF Is
<1> HIDE DEF o
<1>2. GeInfinity = [x |-> o, y |-> o, inf |-> TRUE]  BY DEF GeInfinity, o
<1>3. GeInfinity \in Ges  BY ONLY <1>1, <1>2 DEF Ges
<1>4. GeInfinity.x = o /\ GeInfinity.y = o /\ GeInfinity.inf = TRUE  BY ONLY <1>2
<1>5. AtGe(GeInfinity, 0, 0)  BY ONLY <1>1, <1>3, <1>4 DEF AtGe
<1> QED  BY ONLY <1>4, <1>5 DEF StandsGe

\* Which points are at infinity.
LEMMA InfinityIsNone ==
    /\ \A p, pt : Stands(p, pt) => p.inf \in BOOLEAN /\ (p.inf <=> pt = None)
    /\ \A q, pt : StandsGe(q, pt) => q.inf \in BOOLEAN /\ (q.inf <=> pt = None)
<1>1. \A x, y : <<x, y>> # None  BY PairIsNoNone
<1> QED  BY <1>1 DEF Stands, StandsGe, Finite, FiniteGe

\* secp256k1_ge_set_gej_var.
LEMMA GeSetGejVarStands ==
    ASSUME NEW p, NEW pt, Stands(p, pt)
    PROVE  StandsGe(GeSetGejVar(p), pt)
<1>1. p.inf <=> pt = None  BY InfinityIsNone
<1>2. CASE p.inf
  <2>1. GeSetGejVar(p) = GeInfinity  BY <1>2 DEF GeSetGejVar
  <2> QED  BY <1>1, <1>2, <2>1, GeInfinityStands
<1>3. CASE ~p.inf
  <2>1. GeSetGejVar(p) = GeSetGej(p)  BY <1>3 DEF GeSetGejVar
  <2> QED  BY <2>1, GeSetGejStands
<1> QED  BY <1>2, <1>3

-----------------------------------------------------------------------------
\* Doubling whatever the coordinates are, those of infinity among them.
LEMMA DoubleAny ==
    ASSUME NEW p, NEW X, NEW Y, NEW Z, At(p, X, Y, Z)
    PROVE  (\E X3, Y3, Zs : At(Double(p), X3, Y3, Zs)) /\ Double(p).inf = p.inf
<1>1. X \in Int /\ Y \in Int /\ Z \in Int  BY DEF At, Is
<1>2. Times(Times(X, X), 3) \in Int  BY ONLY <1>1 DEF Times
<1>3. PICK L \in Int : Same(Times(Times(X, X), 3), Times(2, L))  BY ONLY <1>2, Doubles
<1> DEFINE S0 == Times(Y, Y)
           T  == Times(Minus(S0), X)
           X3 == Plus(Plus(Times(L, L), T), T)
           Y3 == Minus(Plus(Times(Plus(T, X3), L), Times(S0, S0)))
           Zs == Times(Z, Y)
<1>4. S0 \in Int /\ T \in Int /\ Zs \in Int  BY ONLY <1>1 DEF Times, Minus
<1>5. X3 \in Int  BY ONLY <1>3, <1>4 DEF Times, Plus
<1>6. Y3 \in Int
  <2> HIDE DEF X3, T, S0
  <2> QED  BY ONLY <1>3, <1>4, <1>5 DEF Times, Plus, Minus
<1>7. /\ Same(Times(Y, Y), S0) /\ Same(Times(Minus(S0), X), T)
      /\ Same(Plus(Plus(Times(L, L), T), T), X3)
      /\ Same(Minus(Plus(Times(Plus(T, X3), L), Times(S0, S0))), Y3)
      /\ Same(Times(Z, Y), Zs)
  BY DEF Same
<1> HIDE DEF S0, T, X3, Y3, Zs
<1>8. At(Double(p), X3, Y3, Zs) /\ Double(p).inf = p.inf
  BY ONLY <1>3, <1>4, <1>5, <1>6, <1>7, At(p, X, Y, Z), DoubleAt
<1> QED  BY <1>8

\* Doubling a point of the curve adds it to itself.
LEMMA DoubleIsSum ==
    ASSUME NEW p, NEW pt, Stands(p, pt), pt = None \/ pt \in Points
    PROVE  Stands(Double(p), RefAdd(pt, pt)) /\ Stands(DoubleVar(p), RefAdd(pt, pt))
<1>1. p.inf \in BOOLEAN /\ (p.inf <=> pt = None)  BY InfinityIsNone
<1>2. CASE pt = None
  <2>1. PICK X, Y, Z : At(p, X, Y, Z)  BY <1>1, <1>2, PairIsNoNone DEF Stands
  <2>2. (\E X3, Y3, Zs : At(Double(p), X3, Y3, Zs)) /\ Double(p).inf = p.inf
    BY <2>1, DoubleAny
  <2>3. RefAdd(pt, pt) = None  BY <1>2 DEF RefAdd
  <2>4. DoubleVar(p) = GejInfinity  BY <1>1, <1>2 DEF DoubleVar
  <2>5. Stands(Double(p), None)  BY ONLY <1>1, <1>2, <2>2 DEF Stands
  <2> QED  BY <2>3, <2>4, <2>5, InfinityStands
<1>3. CASE pt # None
  <2>1. PICK x, y, z : pt = <<x, y>> /\ Finite(p, x, y, z)  BY <1>3 DEF Stands
  <2>2. y # 0  BY <1>3, <2>1, PointTypes
  <2>3. Stands(Double(p), RefAdd(pt, pt))  BY <2>1, <2>2, DoubleStands
  <2>4. DoubleVar(p) = Double(p)  BY <1>1, <1>3 DEF DoubleVar
  <2> QED  BY <2>3, <2>4
<1> QED  BY <1>2, <1>3

-----------------------------------------------------------------------------
\* The differences between a point and an affine one.
LEMMA DifferencesAre ==
    ASSUME NEW p, NEW q, NEW az, NEW X, NEW Y, NEW X2, NEW Y2, NEW A,
           Is(p.x, X, 4), Is(p.y, Y, 4), Is(q.x, X2, 4), Is(q.y, Y2, 3), Is(az, A, 1)
    PROVE  /\ Is(GeH(p, q, az), Plus(Minus(X), Times(X2, Times(A, A))), 6)
           /\ Is(GeI(p, q, az), Plus(Minus(Times(Times(Y2, Times(A, A)), A)), Y), 6)
<1>1. Is(Sqr(az), Times(A, A), 1)  BY SqrStep, Small
<1>2. Is(GeH(p, q, az), Plus(Minus(X), Times(X2, Times(A, A))), 6)
  <2>1. Is(Negate(p.x, 4), Minus(X), 5)  BY NegateStep, Small, Sums
  <2>2. Is(Mul(q.x, Sqr(az)), Times(X2, Times(A, A)), 1)  BY <1>1, MulStep, Small
  <2>3. Is(Add(Negate(p.x, 4), Mul(q.x, Sqr(az))), Plus(Minus(X), Times(X2, Times(A, A))), 6)
    BY <2>1, <2>2, AddStep, Small, Sums
  <2> QED  BY <2>3 DEF GeH
<1>3. Is(GeI(p, q, az), Plus(Minus(Times(Times(Y2, Times(A, A)), A)), Y), 6)
  <2>1. Is(Mul(q.y, Sqr(az)), Times(Y2, Times(A, A)), 1)  BY <1>1, MulStep, Small
  <2>2. Is(Mul(Mul(q.y, Sqr(az)), az), Times(Times(Y2, Times(A, A)), A), 1)
    BY <2>1, MulStep, Small
  <2>3. Is(Negate(Mul(Mul(q.y, Sqr(az)), az), 1), Minus(Times(Times(Y2, Times(A, A)), A)), 2)
    BY <2>2, NegateStep, Small, Sums
  <2>4. Is(Add(Negate(Mul(Mul(q.y, Sqr(az)), az), 1), p.y),
           Plus(Minus(Times(Times(Y2, Times(A, A)), A)), Y), 6)
    BY <2>3, AddStep, Small, Sums
  <2> QED  BY <2>4 DEF GeI
<1> QED  BY <1>2, <1>3

\* Addition of an affine point whose coordinates are scaled by e, with the
\* Z coordinate of the sum taken on that scale.
LEMMA AddScaled ==
    ASSUME NEW p, NEW q, NEW x1, NEW y1, NEW z1, NEW x2, NEW y2, NEW X2, NEW Y2, NEW A, NEW az,
           Finite(p, x1, y1, z1), y1 # 0, x2 \in Elements, y2 \in Elements, AtGe(q, X2, Y2),
           Is(az, A, 1), Same(X2 * (A * A), x2 * (z1 * z1)),
           Same(Y2 * (A * (A * A)), y2 * (z1 * (z1 * z1)))
    PROVE  LET h == GeH(p, q, az)
           IN  Stands(AddTail(p, p.x, p.y, h, GeI(p, q, az), Mul(p.z, h)),
                      RefAdd(<<x1, y1>>, <<x2, y2>>))
<1>1. /\ x1 \in Elements /\ y1 \in Elements /\ x1 \in Int /\ y1 \in Int /\ z1 \in Int
      /\ NonZero(z1) /\ x2 \in Int /\ y2 \in Int /\ p.inf = FALSE
      /\ At(p, x1 * (z1 * z1), y1 * (z1 * (z1 * z1)), z1)
  BY SmallIs DEF Finite
<1> DEFINE X == x1 * (z1 * z1)
           Y == y1 * (z1 * (z1 * z1))
           h == GeH(p, q, az)
           i == GeI(p, q, az)
           D == (x2 - x1) * (z1 * z1)
           E == (y1 - y2) * (z1 * (z1 * z1))
<1>2. Is(p.x, X, 4) /\ Is(p.y, Y, 4) /\ Is(p.z, z1, 1)  BY <1>1 DEF At
<1>3. Is(q.x, X2, 4) /\ Is(q.y, Y2, 3) /\ X2 \in Int /\ Y2 \in Int /\ A \in Int
  BY DEF AtGe, Is
<1>4. D \in Int /\ E \in Int /\ X \in Int /\ Y \in Int  BY ONLY <1>1
<1>5. D = -X + x2 * (z1 * z1) /\ E = -(y2 * (z1 * (z1 * z1))) + Y  BY ONLY <1>1
<1>6. /\ x2 * (z1 * z1) \in Int /\ y2 * (z1 * (z1 * z1)) \in Int
      /\ X2 * (A * A) \in Int /\ (Y2 * (A * A)) * A \in Int
      /\ (Y2 * (A * A)) * A = Y2 * (A * (A * A)) /\ -X \in Int
  BY ONLY <1>1, <1>3
<1> DEFINE xs == X2 * (A * A)
           ys == (Y2 * (A * A)) * A
           xt == x2 * (z1 * z1)
           yt == y2 * (z1 * (z1 * z1))
<1>7. Same(xs, xt) /\ Same(ys, yt)  BY <1>6
<1>8. Is(h, Plus(Minus(X), Times(X2, Times(A, A))), 6)
      /\ Is(i, Plus(Minus(Times(Times(Y2, Times(A, A)), A)), Y), 6)
  BY ONLY <1>2, <1>3, Is(az, A, 1), DifferencesAre
<1> HIDE DEF h, i, X, Y, D, E
<1>9. Is(h, D, 6)
  <2>1. Is(h, -X + xs, 6)  BY <1>8 DEF Plus, Minus, Times
  <2> HIDE DEF xs, xt
  <2>2. Same(-X, -X)  BY DEF Same
  <2>3. xs \in Int /\ xt \in Int /\ D = -X + xt  BY <1>5, <1>6 DEF xs, xt
  <2>4. Same(-X + xs, -X + xt)  BY ONLY <1>6, <1>7, <2>2, <2>3, SameSum
  <2> QED  BY ONLY <1>4, <2>1, <2>3, <2>4, Small, Retarget
<1>10. Is(i, E, 6)
  <2>1. Is(i, -ys + Y, 6)  BY <1>8 DEF Plus, Minus, Times
  <2> HIDE DEF ys, yt
  <2>2. Same(Y, Y)  BY DEF Same
  <2>3. ys \in Int /\ yt \in Int /\ E = -yt + Y  BY <1>5, <1>6 DEF ys, yt
  <2>4. -ys \in Int /\ -yt \in Int  BY <2>3
  <2>5. Same(-ys, -yt)  BY ONLY <1>7, <2>3, SameSum
  <2>6. Same(-ys + Y, -yt + Y)  BY ONLY <1>4, <2>2, <2>4, <2>5, SameSum
  <2> QED  BY ONLY <1>4, <2>1, <2>3, <2>6, Small, Retarget
<1>11. Is(Mul(p.z, h), z1 * D, 1)
  <2>1. Is(Mul(p.z, h), Times(z1, D), 1)  BY <1>2, <1>9, MulStep, Small
  <2> QED  BY <2>1 DEF Times
<1> QED  BY ONLY <1>1, <1>2, <1>9, <1>10, <1>11, Finite(p, x1, y1, z1), y1 # 0,
            x2 \in Elements, y2 \in Elements, AddTailStands DEF X, Y, D, E, h, i

\* None, or a point of the curve.
OnGroup(pt) == pt = None \/ pt \in Points

\* Infinity is neutral.
LEMMA SumWithNone ==
    ASSUME NEW pt
    PROVE  RefAdd(None, pt) = pt /\ RefAdd(pt, None) = pt
BY DEF RefAdd

\* secp256k1_gej_add_ge_var.
LEMMA AddGeVarStands ==
    ASSUME NEW p, NEW q, NEW pt, NEW qt, Stands(p, pt), StandsGe(q, qt), OnGroup(pt)
    PROVE  Stands(AddGeVar(p, q), RefAdd(pt, qt))
<1>1. /\ p.inf \in BOOLEAN /\ (p.inf <=> pt = None)
      /\ q.inf \in BOOLEAN /\ (q.inf <=> qt = None)
  BY InfinityIsNone
<1>2. CASE pt = None
  <2>1. AddGeVar(p, q) = GejSetGe(q)  BY <1>1, <1>2 DEF AddGeVar
  <2> QED  BY <1>2, <2>1, SumWithNone, GejSetGeStands
<1>3. CASE pt # None /\ qt = None
  <2>1. AddGeVar(p, q) = p  BY <1>1, <1>3 DEF AddGeVar
  <2> QED  BY <1>3, <2>1, SumWithNone
<1>4. CASE pt # None /\ qt # None
  <2>1. PICK x1, y1, z1 : pt = <<x1, y1>> /\ Finite(p, x1, y1, z1)  BY <1>4 DEF Stands
  <2>2. PICK x2, y2 : qt = <<x2, y2>> /\ FiniteGe(q, x2, y2)  BY <1>4 DEF StandsGe
  <2>3. y1 # 0  BY <1>4, <2>1, PointTypes DEF OnGroup
  <2>4. x2 \in Elements /\ y2 \in Elements /\ AtGe(q, x2, y2)  BY <2>2 DEF FiniteGe
  <2>5. Is(p.z, z1, 1)  BY <2>1 DEF Finite, At
  <2>6. Same(x2 * (z1 * z1), x2 * (z1 * z1)) /\ Same(y2 * (z1 * (z1 * z1)), y2 * (z1 * (z1 * z1)))
    BY DEF Same
  <2> DEFINE h == GeH(p, q, p.z)
  <2>7. Stands(AddTail(p, p.x, p.y, h, GeI(p, q, p.z), Mul(p.z, h)), RefAdd(pt, qt))
    BY ONLY <2>1, <2>2, <2>3, <2>4, <2>5, <2>6, AddScaled
  <2>8. AddGeVar(p, q) = AddTail(p, p.x, p.y, h, GeI(p, q, p.z), Mul(p.z, h))
    BY <1>1, <1>4 DEF AddGeVar
  <2> QED  BY <2>7, <2>8
<1> QED  BY <1>2, <1>3, <1>4

\* secp256k1_gej_add_ge, whose second point must be finite.
LEMMA AddGeStands ==
    ASSUME NEW p, NEW q, NEW pt, NEW qt, Stands(p, pt), StandsGe(q, qt),
           OnGroup(pt), OnGroup(qt), qt # None
    PROVE  Stands(AddGe(p, q), RefAdd(pt, qt))
<1>1. p.inf \in BOOLEAN /\ (p.inf <=> pt = None)  BY InfinityIsNone
<1>2. PICK x2, y2 : qt = <<x2, y2>> /\ FiniteGe(q, x2, y2)  BY DEF StandsGe
<1>3. OnCurve(x2, y2)  BY <1>2, PointTypes DEF OnGroup
<1>4. CASE pt = None
  <2>1. PICK X, Y, Z : At(p, X, Y, Z)  BY <1>1, <1>4, PairIsNoNone DEF Stands
  <2>2. Stands(AddGe(p, q), <<x2, y2>>)  BY <1>1, <1>2, <1>4, <2>1, AddGeInfinity
  <2> QED  BY <1>2, <1>4, <2>2, SumWithNone
<1>5. CASE pt # None
  <2>1. PICK x1, y1, z1 : pt = <<x1, y1>> /\ Finite(p, x1, y1, z1)  BY <1>5 DEF Stands
  <2>2. y1 # 0 /\ OnCurve(x1, y1)  BY <1>5, <2>1, PointTypes DEF OnGroup
  <2>3. CASE x1 = x2 /\ y1 # y2  BY <1>2, <1>3, <2>1, <2>2, <2>3, AddGeOpposite
  <2>4. CASE x1 # x2 \/ y1 = y2  BY <1>2, <1>3, <2>1, <2>2, <2>4, AddGeFinite
  <2> QED  BY <2>3, <2>4
<1> QED  BY <1>4, <1>5

\* The sum of two points whose Z coordinates are both omitted factors.
LEMMA AddVarFinite ==
    ASSUME NEW p, NEW q, NEW x1, NEW y1, NEW z1, NEW x2, NEW y2, NEW z2,
           Finite(p, x1, y1, z1), Finite(q, x2, y2, z2), y1 # 0
    PROVE  Stands(AddVar(p, q), RefAdd(<<x1, y1>>, <<x2, y2>>))
<1>1. /\ x1 \in Elements /\ y1 \in Elements /\ x1 \in Int /\ y1 \in Int /\ z1 \in Int
      /\ x2 \in Elements /\ y2 \in Elements /\ x2 \in Int /\ y2 \in Int /\ z2 \in Int
      /\ NonZero(z1) /\ NonZero(z2) /\ p.inf = FALSE /\ q.inf = FALSE
      /\ At(p, x1 * (z1 * z1), y1 * (z1 * (z1 * z1)), z1)
      /\ At(q, x2 * (z2 * z2), y2 * (z2 * (z2 * z2)), z2)
  BY SmallIs DEF Finite
<1> DEFINE X1 == x1 * (z1 * z1)
           Y1 == y1 * (z1 * (z1 * z1))
           X2 == x2 * (z2 * z2)
           Y2 == y2 * (z2 * (z2 * z2))
           w  == z1 * z2
           A  == x1 * (w * w)
           C  == y1 * (w * (w * w))
           D  == (x2 - x1) * (w * w)
           E  == (y1 - y2) * (w * (w * w))
           z22 == Sqr(q.z)
           z12 == Sqr(p.z)
           u1  == Mul(p.x, z22)
           s1  == Mul(Mul(p.y, z22), q.z)
           h   == Add(Negate(u1, 1), Mul(q.x, z12))
           i   == Add(Negate(Mul(Mul(q.y, z12), p.z), 1), s1)
           z   == Mul(p.z, Mul(h, q.z))
<1>2. /\ Is(p.x, X1, 4) /\ Is(p.y, Y1, 4) /\ Is(p.z, z1, 1)
      /\ Is(q.x, X2, 4) /\ Is(q.y, Y2, 4) /\ Is(q.z, z2, 1)
  BY <1>1 DEF At
<1>3. /\ X1 * (z2 * z2) = A /\ (Y1 * (z2 * z2)) * z2 = C
      /\ -A + X2 * (z1 * z1) = D /\ -((Y2 * (z1 * z1)) * z1) + C = E
      /\ z1 * (D * z2) = w * D
  BY ONLY <1>1
<1>4. w \in Int /\ A \in Int /\ C \in Int /\ D \in Int /\ E \in Int  BY ONLY <1>1
<1>5. NonZero(w)  BY ONLY <1>1, NoZeroDivisors
<1> HIDE DEF X1, Y1, X2, Y2, w, A, C, D, E
<1>6. Is(z22, Times(z2, z2), 1) /\ Is(z12, Times(z1, z1), 1)
  <2>1. Is(z22, Times(z2, z2), 1)  BY <1>2, SqrStep, Small
  <2>2. Is(z12, Times(z1, z1), 1)  BY <1>2, SqrStep, Small
  <2> QED  BY <2>1, <2>2
<1> HIDE DEF z22, z12
<1>7. Is(u1, A, 1)
  <2>1. Is(u1, Times(X1, Times(z2, z2)), 1)  BY <1>2, <1>6, MulStep, Small
  <2> QED  BY <1>3, <2>1 DEF Times
<1>8. Is(s1, C, 1)
  <2>1. Is(Mul(p.y, z22), Times(Y1, Times(z2, z2)), 1)  BY <1>2, <1>6, MulStep, Small
  <2>2. Is(s1, Times(Times(Y1, Times(z2, z2)), z2), 1)  BY <1>2, <2>1, MulStep, Small
  <2> QED  BY <1>3, <2>2 DEF Times
<1> HIDE DEF u1, s1
<1>9. Is(h, D, 6)
  <2>1. Is(Negate(u1, 1), Minus(A), 2)  BY <1>7, NegateStep, Small, Sums
  <2>2. Is(Mul(q.x, z12), Times(X2, Times(z1, z1)), 1)  BY <1>2, <1>6, MulStep, Small
  <2>3. Is(h, Plus(Minus(A), Times(X2, Times(z1, z1))), 3)
    BY <2>1, <2>2, AddStep, Small, Sums
  <2>4. Is(h, D, 3)  BY <1>3, <2>3 DEF Plus, Minus, Times
  <2> HIDE DEF h
  <2> QED  BY ONLY <2>4, Small, Widen
<1>10. Is(i, E, 6)
  <2>1. Is(Mul(q.y, z12), Times(Y2, Times(z1, z1)), 1)  BY <1>2, <1>6, MulStep, Small
  <2>2. Is(Mul(Mul(q.y, z12), p.z), Times(Times(Y2, Times(z1, z1)), z1), 1)
    BY <1>2, <2>1, MulStep, Small
  <2>3. Is(Negate(Mul(Mul(q.y, z12), p.z), 1), Minus(Times(Times(Y2, Times(z1, z1)), z1)), 2)
    BY <2>2, NegateStep, Small, Sums
  <2>4. Is(i, Plus(Minus(Times(Times(Y2, Times(z1, z1)), z1)), C), 3)
    BY <1>8, <2>3, AddStep, Small, Sums
  <2>5. Is(i, E, 3)  BY <1>3, <2>4 DEF Plus, Minus, Times
  <2> HIDE DEF i
  <2> QED  BY ONLY <2>5, Small, Widen
<1> HIDE DEF h, i
<1>11. Is(z, w * D, 1)
  <2>1. Is(Mul(h, q.z), Times(D, z2), 1)  BY <1>2, <1>9, MulStep, Small
  <2>2. Is(z, Times(z1, Times(D, z2)), 1)  BY <1>2, <2>1, MulStep, Small
  <2> QED  BY <1>3, <2>2 DEF Times
<1>12. Is(u1, A, 4) /\ Is(s1, C, 4)
  <2>1. Is(u1, A, 4)  BY ONLY <1>7, Small, Widen
  <2>2. Is(s1, C, 4)  BY ONLY <1>8, Small, Widen
  <2> QED  BY <2>1, <2>2
<1>13. AddVar(p, q) = AddTail(p, u1, s1, h, i, z)
  BY <1>1 DEF AddVar, u1, s1, h, i, z, z22, z12
<1> HIDE DEF z
<1>14. Stands(AddTail(p, u1, s1, h, i, z), RefAdd(<<x1, y1>>, <<x2, y2>>))
  BY ONLY <1>1, <1>4, <1>5, <1>9, <1>10, <1>11, <1>12, Finite(p, x1, y1, z1), y1 # 0,
     AddTailStands DEF A, C, D, E
<1> QED  BY <1>13, <1>14

\* secp256k1_gej_add_var.
LEMMA AddVarStands ==
    ASSUME NEW p, NEW q, NEW pt, NEW qt, Stands(p, pt), Stands(q, qt), OnGroup(pt)
    PROVE  Stands(AddVar(p, q), RefAdd(pt, qt))
<1>1. /\ p.inf \in BOOLEAN /\ (p.inf <=> pt = None)
      /\ q.inf \in BOOLEAN /\ (q.inf <=> qt = None)
  BY InfinityIsNone
<1>2. CASE pt = None
  <2>1. AddVar(p, q) = q  BY <1>1, <1>2 DEF AddVar
  <2> QED  BY <1>2, <2>1, SumWithNone
<1>3. CASE pt # None /\ qt = None
  <2>1. AddVar(p, q) = p  BY <1>1, <1>3 DEF AddVar
  <2> QED  BY <1>3, <2>1, SumWithNone
<1>4. CASE pt # None /\ qt # None
  <2>1. PICK x1, y1, z1 : pt = <<x1, y1>> /\ Finite(p, x1, y1, z1)  BY <1>4 DEF Stands
  <2>2. PICK x2, y2, z2 : qt = <<x2, y2>> /\ Finite(q, x2, y2, z2)  BY <1>4 DEF Stands
  <2>3. y1 # 0  BY <1>4, <2>1, PointTypes DEF OnGroup
  <2> QED  BY <2>1, <2>2, <2>3, AddVarFinite
<1> QED  BY <1>2, <1>3, <1>4

-----------------------------------------------------------------------------
\* Scaling an affine point by an element, and what has become of its
\* coordinates.
LEMMA Scaling ==
    ASSUME NEW q, NEW zi, NEW X, NEW Y, NEW V, AtGe(q, X, Y), Is(zi, V, 1)
    PROVE  /\ SetZinv(q, zi).inf = FALSE
           /\ AtGe(SetZinv(q, zi), Times(X, Times(V, V)), Times(Y, Times(Times(V, V), V)))
<1>1. q \in Ges /\ Is(q.x, X, 4) /\ Is(q.y, Y, 3)  BY DEF AtGe
<1>2. Is(q.y, Y, 4)  BY ONLY <1>1, Small, Widen
<1> DEFINE sz == SetZinv(q, zi)
           X2 == Times(X, Times(V, V))
           Y2 == Times(Y, Times(Times(V, V), V))
<1>3. sz \in Ges /\ sz.inf = FALSE /\ Is(sz.x, X2, 1) /\ Is(sz.y, Y2, 1)
  BY ONLY <1>1, <1>2, Is(zi, V, 1), SetZinvAt
<1> HIDE DEF sz, X2, Y2
<1>4. Is(sz.x, X2, 4)  BY ONLY <1>3, Small, Widen
<1>5. Is(sz.y, Y2, 3)  BY ONLY <1>3, Small, Widen
<1> QED  BY ONLY <1>3, <1>4, <1>5 DEF AtGe, sz, X2, Y2

\* An affine point taken as a jacobian one.
LEMMA WithoutZ ==
    ASSUME NEW q, NEW X, NEW Y, NEW b \in BOOLEAN, AtGe(q, X, Y)
    PROVE  LET res == [GejSetGe(q) EXCEPT !.inf = b] IN At(res, X, Y, 1) /\ res.inf = b
<1> DEFINE res == [GejSetGe(q) EXCEPT !.inf = b]
<1>1. /\ q \in Ges /\ Is(q.x, X, 4) /\ Is(q.y, Y, 3) /\ Is(One, 1, 1)
  BY SmallIs DEF AtGe
<1>2. Is(q.y, Y, 4)  BY ONLY <1>1, Small, Widen
<1>3. GejSetGe(q) = [x |-> q.x, y |-> q.y, z |-> One, inf |-> q.inf]  BY DEF GejSetGe
<1>4. res = [x |-> q.x, y |-> q.y, z |-> One, inf |-> b]  BY ONLY <1>3
<1>5. res \in Gejs  BY ONLY <1>1, <1>4, b \in BOOLEAN DEF Gejs, Ges, Is
<1> HIDE DEF res
<1>6. At(res, X, Y, 1) /\ res.inf = b  BY ONLY <1>1, <1>2, <1>4, <1>5 DEF At
<1> QED  BY ONLY <1>6 DEF res

\* The affine point brought to the Z coordinate 1/s.
Isomorphic(a, s) == IF a.inf THEN a ELSE SetZinv(a, Inv(Stored(s)))

\* The coordinates of an affine point scaled to the Z coordinate 1/s.
LEMMA IsomorphicAt ==
    ASSUME NEW a, NEW x2, NEW y2, NEW s \in 1 .. P-1, FiniteGe(a, x2, y2)
    PROVE  /\ Isomorphic(a, s).inf = FALSE
           /\ \E e \in Int : /\ Same(s * e, 1)
                             /\ AtGe(Isomorphic(a, s), x2 * (e * e), y2 * (e * (e * e)))
<1>1. x2 \in Elements /\ y2 \in Elements /\ x2 \in Int /\ y2 \in Int /\ a.inf = FALSE
      /\ AtGe(a, x2, y2)
  BY SmallIs DEF FiniteGe
<1>2. s \in Elements /\ s # 0  BY OrderOfField DEF Elements
<1>3. s \in Int /\ s % P = s /\ Is(Stored(s), s, 1) /\ NonZero(s)
  BY <1>2, SmallIs, ElementNonZero
<1> DEFINE e == Inverses[s % P]
           zi == Inv(Stored(s))
<1>4. e \in Int /\ Same(s * e, 1)  BY <1>3, InverseOf
<1>5. Is(zi, e, 1)  BY <1>3, Small, InvIs
<1>6. Isomorphic(a, s) = SetZinv(a, zi)  BY <1>1 DEF Isomorphic
<1> HIDE DEF e, zi
<1>7. /\ SetZinv(a, zi).inf = FALSE
      /\ AtGe(SetZinv(a, zi), Times(x2, Times(e, e)), Times(y2, Times(Times(e, e), e)))
  BY ONLY <1>1, <1>5, Scaling
<1>8. Times(x2, Times(e, e)) = x2 * (e * e)
      /\ Times(y2, Times(Times(e, e), e)) = y2 * (e * (e * e))
  BY ONLY <1>1, <1>4 DEF Times
<1> QED  BY <1>4, <1>6, <1>7, <1>8

\* secp256k1_gej_add_zinv_var.
LEMMA AddZinvVarStands ==
    ASSUME NEW p, NEW a, NEW pt, NEW qt, NEW s \in 1 .. P-1,
           Stands(p, pt), StandsGe(a, qt), OnGroup(pt)
    PROVE  Stands(AddZinvVar(p, Isomorphic(a, s), Stored(s)), RefAdd(pt, qt))
<1> DEFINE q == Isomorphic(a, s)
           bz == Stored(s)
           res == AddZinvVar(p, q, bz)
<1>0. /\ p.inf \in BOOLEAN /\ (p.inf <=> pt = None)
      /\ a.inf \in BOOLEAN /\ (a.inf <=> qt = None)
  BY InfinityIsNone
<1>1. s \in Elements /\ s # 0  BY OrderOfField DEF Elements
<1>2. s \in Int /\ s % P = s /\ Is(bz, s, 1) /\ NonZero(s)  BY <1>1, SmallIs, ElementNonZero
<1>3. CASE qt = None
  <2>1. q = a /\ a.inf = TRUE  BY <1>0, <1>3 DEF Isomorphic
  <2>2. CASE p.inf
    <3>1. res = [GejSetGe(SetZinv(a, bz)) EXCEPT !.inf = TRUE]
      BY <2>1, <2>2 DEF AddZinvVar
    <3>2. PICK X, Y : AtGe(a, X, Y)  BY <1>3, PairIsNoNone DEF StandsGe
    <3> DEFINE sz == SetZinv(a, bz)
               X2 == Times(X, Times(s, s))
               Y2 == Times(Y, Times(Times(s, s), s))
    <3>3. AtGe(sz, X2, Y2)  BY ONLY <1>2, <3>2, Scaling
    <3> HIDE DEF res, sz, X2, Y2, bz
    <3>4. At([GejSetGe(sz) EXCEPT !.inf = TRUE], X2, Y2, 1)
          /\ [GejSetGe(sz) EXCEPT !.inf = TRUE].inf = TRUE
      BY ONLY <3>3, WithoutZ
    <3>5. Stands(res, None)
      <4>1. res = [GejSetGe(sz) EXCEPT !.inf = TRUE]  BY ONLY <3>1 DEF sz
      <4>2. At(res, X2, Y2, 1) /\ res.inf = TRUE  BY ONLY <3>4, <4>1
      <4> QED  BY ONLY <4>2 DEF Stands
    <3>6. RefAdd(pt, qt) = None  BY <1>0, <1>3, <2>2, SumWithNone
    <3> QED  BY ONLY <3>5, <3>6 DEF res, bz
  <2>3. CASE ~p.inf
    <3>1. res = p  BY <2>1, <2>3 DEF AddZinvVar
    <3> QED  BY <1>3, <3>1, SumWithNone
  <2> QED  BY <2>2, <2>3
<1>4. CASE qt # None
  <2>1. PICK x2, y2 : qt = <<x2, y2>> /\ FiniteGe(a, x2, y2)  BY <1>4 DEF StandsGe
  <2>2. x2 \in Elements /\ y2 \in Elements /\ x2 \in Int /\ y2 \in Int
    BY <2>1, SmallIs DEF FiniteGe
  <2>3. q.inf = FALSE
        /\ \E e \in Int : Same(s * e, 1) /\ AtGe(q, x2 * (e * e), y2 * (e * (e * e)))
    BY <2>1, IsomorphicAt
  <2> HIDE DEF q
  <2>4. PICK e \in Int : Same(s * e, 1) /\ AtGe(q, x2 * (e * e), y2 * (e * (e * e)))
    BY <2>3
  <2> DEFINE X2 == x2 * (e * e)
             Y2 == y2 * (e * (e * e))
  <2>5. X2 \in Int /\ Y2 \in Int  BY ONLY <2>2, <2>4
  <2>6. Same(X2 * (s * s), x2) /\ Same(Y2 * (s * s * s), y2)
    <3>1. Same(e * s, 1)  BY ONLY <1>2, <2>4
    <3> QED  BY ONLY <1>2, <2>2, <2>4, <3>1, ScaledBack
  <2>7. CASE p.inf
    <3>1. res = [GejSetGe(SetZinv(q, bz)) EXCEPT !.inf = FALSE]
      BY <2>3, <2>7 DEF AddZinvVar
    <3> DEFINE sz == SetZinv(q, bz)
    <3>2. AtGe(sz, Times(X2, Times(s, s)), Times(Y2, Times(Times(s, s), s)))
      BY ONLY <1>2, <2>4, Scaling
    <3> HIDE DEF sz, X2, Y2, res, bz
    <3>3. Same(Times(X2, Times(s, s)), x2) /\ Same(Times(Y2, Times(Times(s, s), s)), y2)
      BY ONLY <2>6 DEF Times
    <3>4. AtGe(sz, x2, y2)
      <4>1. /\ sz \in Ges /\ Is(sz.x, Times(X2, Times(s, s)), 4)
            /\ Is(sz.y, Times(Y2, Times(Times(s, s), s)), 3)
        BY ONLY <3>2 DEF AtGe
      <4>2. Is(sz.x, x2, 4)  BY ONLY <2>2, <3>3, <4>1, Small, Retarget
      <4>3. Is(sz.y, y2, 3)  BY ONLY <2>2, <3>3, <4>1, Small, Retarget
      <4> QED  BY ONLY <4>1, <4>2, <4>3 DEF AtGe
    <3>5. At([GejSetGe(sz) EXCEPT !.inf = FALSE], x2, y2, 1)
          /\ [GejSetGe(sz) EXCEPT !.inf = FALSE].inf = FALSE
      BY ONLY <3>4, WithoutZ
    <3>6. At(res, x2, y2, 1) /\ res.inf = FALSE  BY ONLY <3>1, <3>5 DEF sz
    <3>7. x2 * (1 * 1) = x2 /\ y2 * (1 * (1 * 1)) = y2  BY ONLY <2>2
    <3>8. NonZero(1)  BY SmallIs DEF NonZero, Same
    <3>9. Finite(res, x2, y2, 1)  BY ONLY <2>2, <3>6, <3>7, <3>8 DEF Finite
    <3>10. Stands(res, <<x2, y2>>)  BY ONLY <3>9 DEF Stands
    <3>11. RefAdd(pt, qt) = <<x2, y2>>  BY <1>0, <2>1, <2>7, SumWithNone
    <3> QED  BY ONLY <3>10, <3>11 DEF res, bz, q
  <2>8. CASE ~p.inf
    <3>1. PICK x1, y1, z1 : pt = <<x1, y1>> /\ Finite(p, x1, y1, z1)
      BY <1>0, <2>8 DEF Stands
    <3>2. y1 # 0  BY <1>0, <2>8, <3>1, PointTypes DEF OnGroup
    <3>3. Is(p.z, z1, 1) /\ z1 \in Int  BY <3>1 DEF Finite, At
    <3> DEFINE az == Mul(p.z, bz)
               A == z1 * s
               h == GeH(p, q, az)
    <3>4. Is(az, A, 1)
      <4>1. Is(az, Times(z1, s), 1)  BY <1>2, <3>3, MulStep, Small
      <4> QED  BY <4>1 DEF Times
    <3>5. Same(X2 * (A * A), x2 * (z1 * z1)) /\ Same(Y2 * (A * (A * A)), y2 * (z1 * (z1 * z1)))
      <4> DEFINE us == X2 * (s * s)
                 vs == Y2 * (s * s * s)
                 c2 == z1 * z1
                 c3 == z1 * (z1 * z1)
      <4>1. us \in Int /\ vs \in Int /\ c2 \in Int /\ c3 \in Int  BY ONLY <1>2, <2>5, <3>3
      <4>2. X2 * (A * A) = us * c2 /\ Y2 * (A * (A * A)) = vs * c3
        <5> HIDE DEF X2, Y2
        <5> QED  BY ONLY <1>2, <2>5, <3>3
      <4>3. Same(us, x2) /\ Same(vs, y2)  BY ONLY <2>6
      <4> HIDE DEF us, vs, c2, c3, X2, Y2, A
      <4>4. Same(us * c2, x2 * c2) /\ Same(vs * c3, y2 * c3)
        BY ONLY <2>2, <4>1, <4>3, SameScaled
      <4> QED  BY ONLY <4>2, <4>4 DEF c2, c3
    <3>6. AtGe(q, X2, Y2)  BY <2>4
    <3> HIDE DEF X2, Y2, A, az, h
    <3>7. Stands(AddTail(p, p.x, p.y, h, GeI(p, q, az), Mul(p.z, h)),
                 RefAdd(<<x1, y1>>, <<x2, y2>>))
      BY ONLY <2>2, <3>1, <3>2, <3>4, <3>5, <3>6, AddScaled DEF h
    <3>8. res = AddTail(p, p.x, p.y, h, GeI(p, q, az), Mul(p.z, h))
      BY <2>3, <2>8 DEF AddZinvVar, h, az
    <3> QED  BY ONLY <2>1, <3>1, <3>7, <3>8 DEF res, q, bz
  <2> QED  BY <2>7, <2>8 DEF q
<1> QED  BY <1>3, <1>4

-----------------------------------------------------------------------------
\* secp256k1_gej_rescale.
LEMMA RescaleStands ==
    ASSUME NEW p, NEW pt, NEW s \in 1 .. P-1, Stands(p, pt)
    PROVE  Stands(GejRescale(p, Stored(s)), pt)
<1> DEFINE es == Stored(s)
           res == GejRescale(p, es)
<1>1. s \in Elements /\ s # 0  BY OrderOfField DEF Elements
<1>2. s \in Int /\ Is(es, s, 1) /\ NonZero(s)  BY <1>1, SmallIs, ElementNonZero
<1> HIDE DEF es
<1>3. ASSUME NEW X, NEW Y, NEW Z, At(p, X, Y, Z)
      PROVE  /\ At(res, Times(X, Times(s, s)), Times(Times(Y, Times(s, s)), s), Times(Z, s))
             /\ res.inf = p.inf
  <2> DEFINE zz == Sqr(es)
             x == Mul(p.x, zz)
             y == Mul(Mul(p.y, zz), es)
             z == Mul(p.z, es)
             X2 == Times(X, Times(s, s))
             Y2 == Times(Times(Y, Times(s, s)), s)
             Z2 == Times(Z, s)
  <2>1. p \in Gejs /\ Is(p.x, X, 4) /\ Is(p.y, Y, 4) /\ Is(p.z, Z, 1)  BY <1>3 DEF At
  <2>2. Is(zz, Times(s, s), 1)  BY <1>2, SqrStep, Small
  <2> HIDE DEF zz
  <2>3. Is(x, X2, 1)  BY <2>1, <2>2, MulStep, Small
  <2>4. Is(y, Y2, 1)
    <3>1. Is(Mul(p.y, zz), Times(Y, Times(s, s)), 1)  BY <2>1, <2>2, MulStep, Small
    <3> QED  BY <1>2, <3>1, MulStep, Small
  <2>5. Is(z, Z2, 1)  BY <1>2, <2>1, MulStep, Small
  <2>6. res = [p EXCEPT !.x = x, !.y = y, !.z = z]  BY DEF GejRescale, x, y, z, zz
  <2> HIDE DEF x, y, z, X2, Y2, Z2, res
  <2>7. Is(x, X2, 4)  BY ONLY <2>3, Small, Widen
  <2>8. Is(y, Y2, 4)  BY ONLY <2>4, Small, Widen
  <2>9. x \in Records /\ y \in Records /\ z \in Records  BY ONLY <2>5, <2>7, <2>8 DEF Is
  <2>10. res = [x |-> x, y |-> y, z |-> z, inf |-> p.inf]  BY ONLY <2>1, <2>6 DEF Gejs
  <2>11. p.inf \in BOOLEAN  BY ONLY <2>1 DEF Gejs
  <2>12. res \in Gejs  BY ONLY <2>9, <2>10, <2>11 DEF Gejs
  <2>13. At(res, X2, Y2, Z2) /\ res.inf = p.inf
    BY ONLY <2>5, <2>7, <2>8, <2>10, <2>12 DEF At
  <2> QED  BY ONLY <2>13 DEF X2, Y2, Z2
<1> HIDE DEF res
<1>4. CASE pt = None /\ p.inf = TRUE /\ \E X, Y, Z : At(p, X, Y, Z)
  BY ONLY <1>3, <1>4 DEF Stands, res, es
<1>5. CASE \E x, y, z : pt = <<x, y>> /\ Finite(p, x, y, z)
  <2>1. PICK x, y, z : pt = <<x, y>> /\ Finite(p, x, y, z)  BY <1>5
  <2>2. /\ x \in Elements /\ y \in Elements /\ z \in Int /\ NonZero(z) /\ p.inf = FALSE
        /\ At(p, x * (z * z), y * (z * (z * z)), z) /\ x \in Int /\ y \in Int
    BY <2>1, SmallIs DEF Finite
  <2> DEFINE u == z * s
  <2>3. /\ At(res, Times(x * (z * z), Times(s, s)), Times(Times(y * (z * (z * z)), Times(s, s)), s),
              Times(z, s))
        /\ res.inf = FALSE
    BY ONLY <1>3, <2>2
  <2>4. /\ Times(x * (z * z), Times(s, s)) = x * (u * u)
        /\ Times(Times(y * (z * (z * z)), Times(s, s)), s) = y * (u * (u * u))
        /\ Times(z, s) = u /\ u \in Int
    BY ONLY <1>2, <2>2 DEF Times
  <2>5. NonZero(u)  BY ONLY <1>2, <2>2, NoZeroDivisors
  <2> HIDE DEF u
  <2>6. Finite(res, x, y, u)  BY ONLY <2>2, <2>3, <2>4, <2>5 DEF Finite
  <2> QED  BY ONLY <2>1, <2>6 DEF Stands, res, es
<1> QED  BY <1>4, <1>5 DEF Stands, es

\* secp256k1_gej_cmov.
LEMMA CmovStands ==
    ASSUME NEW p, NEW q, NEW pt, NEW qt, NEW f \in BOOLEAN, Stands(p, pt), Stands(q, qt)
    PROVE  Stands(GejCmov(p, q, f), IF f THEN qt ELSE pt)
<1> DEFINE res == GejCmov(p, q, f)
           x == Cmov(p.x, q.x, f)
           y == Cmov(p.y, q.y, f)
           z == Cmov(p.z, q.z, f)
           b == IF f THEN q.inf ELSE p.inf
<1>1. ASSUME NEW X, NEW Y, NEW Z, NEW X2, NEW Y2, NEW Z2, At(p, X, Y, Z), At(q, X2, Y2, Z2)
      PROVE  /\ f => At(res, X2, Y2, Z2) /\ res.inf = q.inf
             /\ ~f => At(res, X, Y, Z) /\ res.inf = p.inf
  <2> DEFINE XI == IF f THEN X2 ELSE X
             YI == IF f THEN Y2 ELSE Y
             ZI == IF f THEN Z2 ELSE Z
  <2>1. /\ p \in Gejs /\ Is(p.x, X, 4) /\ Is(p.y, Y, 4) /\ Is(p.z, Z, 1)
        /\ q \in Gejs /\ Is(q.x, X2, 4) /\ Is(q.y, Y2, 4) /\ Is(q.z, Z2, 1)
        /\ X \in Int /\ Y \in Int /\ Z \in Int /\ X2 \in Int /\ Y2 \in Int /\ Z2 \in Int
    BY <1>1 DEF At, Is
  <2>2. Is(x, XI, 4)  BY ONLY <2>1, f \in BOOLEAN, Small, CmovIs
  <2>3. Is(y, YI, 4)  BY ONLY <2>1, f \in BOOLEAN, Small, CmovIs
  <2>4. Is(z, ZI, 1)  BY ONLY <2>1, f \in BOOLEAN, Small, CmovIs
  <2>5. res = [x |-> x, y |-> y, z |-> z, inf |-> b]  BY DEF GejCmov
  <2> HIDE DEF x, y, z, res
  <2>6. b \in BOOLEAN  BY ONLY <2>1, f \in BOOLEAN DEF Gejs
  <2> HIDE DEF b, XI, YI, ZI
  <2>7. res \in Gejs  BY ONLY <2>2, <2>3, <2>4, <2>5, <2>6 DEF Gejs, Is
  <2>8. At(res, XI, YI, ZI) /\ res.inf = b  BY ONLY <2>2, <2>3, <2>4, <2>5, <2>7 DEF At
  <2>9. CASE f
    <3>1. XI = X2 /\ YI = Y2 /\ ZI = Z2 /\ b = q.inf  BY ONLY <2>9 DEF XI, YI, ZI, b
    <3> QED  BY ONLY <2>8, <2>9, <3>1
  <2>10. CASE ~f
    <3>1. XI = X /\ YI = Y /\ ZI = Z /\ b = p.inf  BY ONLY <2>10 DEF XI, YI, ZI, b
    <3> QED  BY ONLY <2>8, <2>10, <3>1
  <2> QED  BY ONLY <2>9, <2>10, f \in BOOLEAN
<1> HIDE DEF res
<1>2. PICK X, Y, Z : At(p, X, Y, Z)  BY DEF Stands, Finite
<1>3. PICK X2, Y2, Z2 : At(q, X2, Y2, Z2)  BY DEF Stands, Finite
<1>4. CASE f
  <2>1. res.inf = q.inf  BY ONLY <1>1, <1>2, <1>3, <1>4
  <2>2. \A XX, YY, ZZ : At(q, XX, YY, ZZ) => At(res, XX, YY, ZZ)
    BY ONLY <1>1, <1>2, <1>4
  <2>3. Stands(res, qt)  BY ONLY <2>1, <2>2, Stands(q, qt) DEF Stands, Finite
  <2> QED  BY ONLY <1>4, <2>3 DEF res
<1>5. CASE ~f
  <2>1. res.inf = p.inf  BY ONLY <1>1, <1>2, <1>3, <1>5
  <2>2. \A XX, YY, ZZ : At(p, XX, YY, ZZ) => At(res, XX, YY, ZZ)
    BY ONLY <1>1, <1>3, <1>5
  <2>3. Stands(res, pt)  BY ONLY <2>1, <2>2, Stands(p, pt) DEF Stands, Finite
  <2> QED  BY ONLY <1>5, <2>3 DEF res
<1> QED  BY <1>4, <1>5

-----------------------------------------------------------------------------
\* The point whose X coordinate is Beta times as large.
Rotated(pt) == IF pt = None THEN None ELSE <<(Beta * pt[1]) % P, pt[2]>>

\* secp256k1_ge_mul_lambda.
LEMMA MulLambdaStands ==
    ASSUME NEW q, NEW pt, StandsGe(q, pt)
    PROVE  StandsGe(MulLambda(q), Rotated(pt))
<1> DEFINE res == MulLambda(q)
           e == Mul(q.x, Stored(Beta))
<1>1. Beta \in Elements /\ Beta \in Int
  BY GroupAssumption, OrderOfField DEF Elements
<1>2. Is(Stored(Beta), Beta, 1)  BY <1>1, SmallIs
<1>3. ASSUME NEW X, NEW Y, AtGe(q, X, Y)
      PROVE  AtGe(res, Times(X, Beta), Y) /\ res.inf = q.inf
  <2>1. q \in Ges /\ Is(q.x, X, 4) /\ Is(q.y, Y, 3)  BY <1>3 DEF AtGe
  <2>2. Is(e, Times(X, Beta), 1)  BY <1>2, <2>1, MulStep, Small
  <2>3. res = [q EXCEPT !.x = e]  BY DEF MulLambda, Stored
  <2> HIDE DEF e, res
  <2>4. Is(e, Times(X, Beta), 4)  BY ONLY <2>2, Small, Widen
  <2>5. e \in Records  BY ONLY <2>2 DEF Is
  <2>6. res \in Ges /\ res.x = e /\ res.y = q.y /\ res.inf = q.inf
    BY ONLY <2>1, <2>3, <2>5 DEF Ges
  <2> QED  BY ONLY <2>1, <2>4, <2>6 DEF AtGe
<1> HIDE DEF res, e
<1>4. CASE pt = None /\ q.inf = TRUE /\ \E X, Y : AtGe(q, X, Y)
  BY ONLY <1>3, <1>4 DEF StandsGe, Rotated, res
<1>5. CASE \E x, y : pt = <<x, y>> /\ FiniteGe(q, x, y)
  <2>1. PICK x, y : pt = <<x, y>> /\ FiniteGe(q, x, y)  BY <1>5
  <2>2. x \in Elements /\ y \in Elements /\ q.inf = FALSE /\ AtGe(q, x, y) /\ x \in Int
    BY <2>1, SmallIs DEF FiniteGe
  <2> DEFINE V == Beta * x
             x3 == V % P
  <2>3. V \in Int /\ Times(x, Beta) = V  BY ONLY <1>1, <2>2 DEF Times
  <2> HIDE DEF V
  <2>4. x3 \in Elements /\ x3 \in Int /\ Same(V, x3)
    BY ONLY <2>3, Residue, SameResidue DEF Same
  <2>5. Rotated(pt) = <<x3, y>>  BY <2>1, PairIsNoNone DEF Rotated, V
  <2> HIDE DEF x3
  <2>6. AtGe(res, V, y) /\ res.inf = FALSE  BY ONLY <1>3, <2>2, <2>3
  <2>7. Is(res.x, V, 4) /\ res \in Ges /\ Is(res.y, y, 3)  BY ONLY <2>6 DEF AtGe
  <2>8. Is(res.x, x3, 4)  BY ONLY <2>4, <2>7, Small, Retarget
  <2>9. FiniteGe(res, x3, y)  BY ONLY <2>2, <2>4, <2>6, <2>7, <2>8 DEF FiniteGe, AtGe
  <2> QED  BY ONLY <2>5, <2>9 DEF StandsGe, res
<1> QED  BY <1>4, <1>5 DEF StandsGe

\* A point made of stored coordinates.
LEMMA StoredStands ==
    ASSUME NEW x \in Elements, NEW y \in Elements
    PROVE  StandsGe(GeSetXY(Stored(x), Stored(y)), <<x, y>>)
<1> DEFINE ex == Stored(x)
           ey == Stored(y)
           res == GeSetXY(ex, ey)
<1>1. Is(ex, x, 1) /\ Is(ey, y, 1)  BY SmallIs
<1>2. res = [x |-> ex, y |-> ey, inf |-> FALSE]  BY DEF GeSetXY
<1> HIDE DEF ex, ey
<1>3. Is(ex, x, 4)  BY ONLY <1>1, Small, Widen
<1>4. Is(ey, y, 3)  BY ONLY <1>1, Small, Widen
<1>5. ex \in Records /\ ey \in Records  BY ONLY <1>1 DEF Is
<1>6. res \in Ges /\ res.x = ex /\ res.y = ey /\ res.inf = FALSE  BY ONLY <1>2, <1>5 DEF Ges
<1>7. FiniteGe(res, x, y)
  BY ONLY <1>3, <1>4, <1>6, x \in Elements, y \in Elements DEF FiniteGe, AtGe
<1> HIDE DEF res
<1>8. StandsGe(res, <<x, y>>)  BY ONLY <1>7 DEF StandsGe
<1> QED  BY ONLY <1>8 DEF res, ex, ey

\* What is stored of a point is read back as that point.
LEMMA StoreStands ==
    ASSUME NEW q, NEW pt, StandsGe(q, pt), OnGroup(pt)
    PROVE  StandsGe(FromBytesExt(ToBytesExt(q)), pt)
<1>1. q.inf \in BOOLEAN /\ (q.inf <=> pt = None)  BY InfinityIsNone
<1>2. CASE pt = None
  <2>1. FromBytesExt(ToBytesExt(q)) = GeInfinity
    BY <1>1, <1>2 DEF ToBytesExt, FromBytesExt
  <2> QED  BY <1>2, <2>1, GeInfinityStands
<1>3. CASE pt # None
  <2>1. PICK x, y : pt = <<x, y>> /\ FiniteGe(q, x, y)  BY <1>3 DEF StandsGe
  <2>2. x \in Elements /\ y \in Elements /\ y # 0 /\ AtGe(q, x, y) /\ x \in Int /\ y \in Int
    BY <1>3, <2>1, PointTypes DEF OnGroup, FiniteGe
  <2>3. Is(q.x, x, 4) /\ Is(q.y, y, 3)  BY <2>2 DEF AtGe
  <2>4. Is(Normalize(q.x), x, 1) /\ Is(Normalize(q.y), y, 1)
    BY <2>2, <2>3, Small, NormalizeIs
  <2>5. Normalize(q.x).v = x /\ Normalize(q.y).v = y
    BY <2>2, <2>4, SmallIs DEF Is
  <2>6. ToBytesExt(q) = <<x, y>>  BY <1>1, <1>3, <2>5 DEF ToBytesExt
  <2>7. <<x, y>> # <<0, 0>> /\ <<x, y>>[1] = x /\ <<x, y>>[2] = y  BY <2>2
  <2>8. FromBytesExt(<<x, y>>) = GeSetXY(Stored(x), Stored(y))  BY <2>7 DEF FromBytesExt
  <2> QED  BY <2>1, <2>2, <2>6, <2>8, StoredStands
<1> QED  BY <1>2, <1>3

-----------------------------------------------------------------------------
\* The multiples of the generator.
LEMMA Multiples ==
    /\ N \in Nat \ {0} /\ N > 2
    /\ \A k \in 0 .. N-1 : OnGroup(Multiple[k]) /\ (Multiple[k] = None <=> k = 0)
    /\ \A pt \in Points : pt # None /\ \E x, y : pt = <<x, y>>
<1>1. N \in Nat \ {0} /\ N > 2  BY GroupAssumption
<1>2. \A pt \in Points : pt # None /\ \E x, y : pt = <<x, y>>
  <2>1. \A pt \in Points : \E x, y : pt = <<x, y>>  BY DEF Points
  <2> QED  BY <2>1, PairIsNoNone
<1>3. Multiple[0] = None /\ \A k \in 1 .. N-1 : Multiple[k] \in Points  BY CurveIsGroup
<1>4. ASSUME NEW k \in 0 .. N-1 PROVE OnGroup(Multiple[k]) /\ (Multiple[k] = None <=> k = 0)
  <2>1. CASE k = 0  BY <1>3, <2>1 DEF OnGroup
  <2>2. CASE k # 0
    <3>1. k \in 1 .. N-1  BY <2>2
    <3> QED  BY <1>2, <1>3, <2>2, <3>1 DEF OnGroup
  <2> QED  BY <2>1, <2>2
<1> QED  BY <1>1, <1>2, <1>4

\* Indices of multiples.
LEMMA Indices ==
    ASSUME NEW j \in Int, NEW k \in Int
    PROVE  /\ k % N \in 0 .. N-1
           /\ RefAdd(Multiple[j % N], Multiple[k % N]) = Multiple[(j + k) % N]
<1>1. N \in Nat \ {0}  BY Multiples
<1> DEFINE a == j % N
           b == k % N
           c == j \div N
           d == k \div N
<1>2. /\ a \in 0 .. N-1 /\ b \in 0 .. N-1 /\ c \in Int /\ d \in Int
      /\ j = N * c + a /\ k = N * d + b
  BY ONLY <1>1, j \in Int, k \in Int, DivMod
<1> HIDE DEF a, b, c, d
<1>3. RefAdd(Multiple[a], Multiple[b]) = Multiple[(a + b) % N]
  <2>1. \A m, n \in 0 .. N-1 : RefAdd(Multiple[m], Multiple[n]) = Multiple[(m + n) % N]
    BY CurveIsGroup
  <2> QED  BY ONLY <1>2, <2>1
<1>4. j + k = (a + b) + N * (c + d) /\ a + b \in Int /\ c + d \in Int
  BY ONLY <1>1, <1>2
<1>5. (j + k) % N = (a + b) % N
  <2> DEFINE s == a + b
             t == c + d
  <2>1. j + k = s + N * t /\ s \in Int /\ t \in Int  BY ONLY <1>4
  <2> HIDE DEF s, t
  <2>2. (s + N * t) % N = s % N  BY ONLY <1>1, <2>1, DivShift
  <2>3. (j + k) % N = s % N  BY ONLY <2>1, <2>2
  <2> QED  BY ONLY <2>3 DEF s
<1> QED  BY ONLY <1>2, <1>3, <1>5 DEF a, b

\* An index is the residue of itself.
LEMMA SmallIndex ==
    ASSUME NEW k \in 0 .. N-1
    PROVE  k % N = k /\ k \in Int
BY Multiples

\* The opposite of a multiple.
LEMMA OppositeIs ==
    ASSUME NEW k \in 0 .. N-1
    PROVE  Opposite(Multiple[k]) = Multiple[(-k) % N]
<1>1. k \in Int /\ k % N = k /\ -k \in Int /\ k + -k = 0 /\ 0 \in 0 .. N-1
  BY SmallIndex, Multiples
<1> DEFINE j == (-k) % N
<1>2. j \in 0 .. N-1 /\ RefAdd(Multiple[k], Multiple[j]) = Multiple[0]
  <2>1. RefAdd(Multiple[k % N], Multiple[(-k) % N]) = Multiple[(k + -k) % N]
    BY ONLY <1>1, Indices
  <2>2. 0 % N = 0  BY <1>1, SmallIndex
  <2>3. j \in 0 .. N-1  BY ONLY <1>1, Indices
  <2> QED  BY <1>1, <2>1, <2>2, <2>3
<1> HIDE DEF j
<1>3. RefAdd(Multiple[k], Multiple[j]) = None  BY <1>2, CurveIsGroup
<1>4. CASE k = 0
  <2>1. Multiple[k] = None  BY <1>4, Multiples
  <2>2. Multiple[j] = None  BY <1>3, <2>1, SumWithNone
  <2> QED  BY <2>1, <2>2 DEF Opposite, j
<1>5. CASE k # 0
  <2>1. Multiple[k] # None /\ Multiple[k] \in Points  BY <1>5, Multiples DEF OnGroup
  <2>2. Multiple[j] # None
    <3> SUFFICES ASSUME Multiple[j] = None PROVE FALSE  OBVIOUS
    <3> QED  BY <1>3, <2>1, SumWithNone
  <2>3. Multiple[j] \in Points  BY <1>2, <2>2, Multiples DEF OnGroup
  <2>4. PICK x1, y1 : Multiple[k] = <<x1, y1>>  BY <2>1, Multiples
  <2>5. PICK x2, y2 : Multiple[j] = <<x2, y2>>  BY <2>3, Multiples
  <2>6. /\ x1 \in Elements /\ y1 \in Elements /\ y1 # 0 /\ OnCurve(x1, y1)
        /\ x2 \in Elements /\ y2 \in Elements /\ y2 # 0 /\ OnCurve(x2, y2)
        /\ y1 \in Int /\ y2 \in Int
    BY <2>1, <2>3, <2>4, <2>5, PointTypes
  <2>7. x1 = x2 /\ y1 # y2
    <3> SUFFICES ASSUME x1 # x2 \/ y1 = y2 PROVE FALSE  OBVIOUS
    <3>1. \E x3, y3 : RefAdd(<<x1, y1>>, <<x2, y2>>) = <<x3, y3>>  BY <2>6, SumOf
    <3> QED  BY <1>3, <2>4, <2>5, <3>1, PairIsNoNone
  <2>8. Same(y1 * y1, y2 * y2)  BY <2>6, <2>7 DEF OnCurve, Same
  <2>9. Same(y1 + y2, 0)  BY <2>6, <2>7, <2>8, RootsOpposite
  <2>10. y2 = (-y1) % P
    <3>1. Same((y1 + y2) - y1, 0 - y1)
      <4> DEFINE s == y1 + y2
      <4>1. s \in Int /\ Same(s, 0) /\ Same(y1, y1)  BY <2>6, <2>9 DEF Same
      <4> HIDE DEF s
      <4>2. Same(s - y1, 0 - y1)  BY ONLY <2>6, <4>1, 0 \in Int, SameSum
      <4> QED  BY <4>2 DEF s
    <3>2. (y1 + y2) - y1 = y2 /\ 0 - y1 = -y1  BY ONLY <2>6
    <3>3. y2 % P = y2  BY <2>6, SmallIs
    <3> QED  BY ONLY <3>1, <3>2, <3>3 DEF Same
  <2> QED  BY <2>4, <2>5, <2>7, <2>10, PairIsNoNone DEF Opposite, j
<1> QED  BY <1>4, <1>5

\* The endomorphism of a multiple.
LEMMA RotatedIs ==
    ASSUME NEW k \in 0 .. N-1
    PROVE  Rotated(Multiple[k]) = Multiple[(Lambda * k) % N]
<1>1. CASE k = 0
  <2>1. Lambda * k = 0  BY <1>1, GroupAssumption
  <2>2. 0 % N = 0  BY Multiples
  <2>3. Multiple[0] = None  BY CurveIsGroup
  <2> QED  BY <1>1, <2>1, <2>2, <2>3 DEF Rotated
<1>2. CASE k # 0
  <2>1. k \in 1 .. N-1 /\ Multiple[k] # None  BY <1>2, Multiples
  <2> QED  BY <2>1, CurveIsGroup DEF Rotated
<1> QED  BY <1>1, <1>2

-----------------------------------------------------------------------------
\* A set of naturals that is not empty has a least element.
LEMMA LeastElement ==
    ASSUME NEW Sv \in SUBSET Nat, Sv # {}
    PROVE  \E i \in Sv : \A j \in Sv : i <= j
<1> DEFINE R == OpToRel(<, Nat)
<1>1. IsWellFoundedOn(R, Nat)  BY NatLessThanWellFounded
<1>2. R = {ss \in Nat \X Nat : ss[1] < ss[2]}  BY DEF OpToRel
<1> HIDE DEF R
<1>3. PICK i \in Sv : \A j \in Sv : ~(<<j, i>> \in R)
  BY <1>1, WFMin
<1>4. \A j \in Sv : ~(j < i)
  BY <1>2, <1>3
<1> QED  BY <1>4

\* A function on 0 .. m that is defined by its start and by a step from each
\* number to the next exists.
IsRecursion(f, T, b, m, Hv) ==
    /\ f \in [0 .. m -> T]
    /\ \A n \in 0 .. m : f[n] = IF n = 0 THEN b ELSE Hv[<<f[n-1], n>>]

\* Such a function exists.
LEMMA RecursionDefined ==
    ASSUME NEW T, NEW b \in T, NEW m \in Nat, NEW Hv \in [T \X (1 .. m) -> T]
    PROVE  \E f : IsRecursion(f, T, b, m, Hv)
<1> DEFINE Rec(g, k) == /\ g \in [0 .. k -> T]
                        /\ \A n \in 0 .. k : g[n] = IF n = 0 THEN b ELSE Hv[<<g[n-1], n>>]
           Uv == {k \in 0 .. m : ~ \E g : Rec(g, k)}
<1> SUFFICES ASSUME Uv # {} PROVE FALSE
  <2>1. m \in 0 .. m  OBVIOUS
  <2>2. ASSUME m \notin Uv PROVE \E g : Rec(g, m)  BY <2>1, <2>2
  <2>3. ASSUME NEW g, Rec(g, m) PROVE IsRecursion(g, T, b, m, Hv)  BY <2>3 DEF IsRecursion
  <2> HIDE DEF Uv, Rec
  <2> QED  BY <2>2, <2>3
<1>1. PICK k \in Uv : \A j \in Uv : k <= j
  <2>1. Uv \in SUBSET Nat  OBVIOUS
  <2> HIDE DEF Uv
  <2> QED  BY <2>1, LeastElement
<1>2. k \in 0 .. m /\ ~ \E g : Rec(g, k)  OBVIOUS
<1>3. CASE k = 0
  <2>1. Rec([n \in 0 .. k |-> b], k)  BY <1>3
  <2> QED  BY <1>2, <2>1
<1>4. CASE k # 0
  <2>1. k - 1 \in 0 .. m /\ k - 1 \notin Uv
    <3>1. k - 1 \in 0 .. m  BY <1>2, <1>4
    <3> SUFFICES ASSUME k - 1 \in Uv PROVE FALSE  BY <3>1
    <3>2. k <= k - 1  BY <1>1
    <3> QED  BY <3>1, <3>2
  <2>2. PICK g : Rec(g, k - 1)  BY <2>1
  <2> DEFINE g1 == [n \in 0 .. k |-> IF n < k THEN g[n] ELSE Hv[<<g[k-1], k>>]]
  <2>3. g[k-1] \in T /\ Hv[<<g[k-1], k>>] \in T  BY <1>2, <1>4, <2>1, <2>2
  <2>4. g1 \in [0 .. k -> T]  BY <1>2, <2>2, <2>3
  <2>5. ASSUME NEW n \in 0 .. k PROVE g1[n] = IF n = 0 THEN b ELSE Hv[<<g1[n-1], n>>]
    <3>1. \A i \in 0 .. k - 1 : g1[i] = g[i]  BY <1>2
    <3>2. g1[k] = Hv[<<g[k-1], k>>]  BY <1>2
    <3>3. \A i \in 0 .. k - 1 : g[i] = IF i = 0 THEN b ELSE Hv[<<g[i-1], i>>]  BY <2>2
    <3> HIDE DEF g1
    <3>4. CASE n = 0
      <4>1. 0 \in 0 .. k - 1  BY <1>2, <1>4
      <4> QED  BY <3>1, <3>3, <3>4, <4>1
    <3>5. CASE n = k  BY <1>2, <1>4, <3>1, <3>2, <3>5
    <3>6. CASE n # 0 /\ n # k
      <4>1. n \in 0 .. k - 1 /\ n - 1 \in 0 .. k - 1  BY <1>2, <3>6
      <4> QED  BY <3>1, <3>3, <3>6, <4>1
    <3> QED  BY <3>4, <3>5, <3>6
  <2>6. Rec(g1, k)  BY <2>4, <2>5
  <2> QED  BY <1>2, <2>6
<1> QED  BY <1>3, <1>4

\* Induction up to m.
LEMMA UpTo ==
    ASSUME NEW m \in Nat, NEW Good, 0 \in Good, \A k \in 0 .. m-1 : k \in Good => k + 1 \in Good
    PROVE  \A k \in 0 .. m : k \in Good
<1> DEFINE Bad == {k \in 0 .. m : k \notin Good}
<1> SUFFICES ASSUME Bad # {} PROVE FALSE  OBVIOUS
<1>1. PICK k \in Bad : \A j \in Bad : k <= j
  <2>1. Bad \in SUBSET Nat  OBVIOUS
  <2> HIDE DEF Bad
  <2> QED  BY <2>1, LeastElement
<1>2. k \in 0 .. m /\ k \notin Good /\ k # 0  OBVIOUS
<1>3. k - 1 \in 0 .. m-1 /\ k - 1 \in 0 .. m /\ (k - 1) + 1 = k  BY <1>2
<1>4. k - 1 \notin Bad
  <2> SUFFICES ASSUME k - 1 \in Bad PROVE FALSE  OBVIOUS
  <2>1. k <= k - 1  BY <1>1
  <2> QED  BY <1>2, <2>1
<1>5. k - 1 \in Good  BY <1>3, <1>4
<1> QED  BY <1>2, <1>3, <1>5

\* The residues of the powers of y up to the m-th.
ArePowers(f, y, m) ==
    /\ \A k \in 0 .. m : f[k] \in Int
    /\ f[0] = 1 /\ \A k \in 1 .. m : f[k] = (y * f[k-1]) % P

\* The recursive function that computes them exists.
LEMMA PowersAre ==
    ASSUME NEW y \in Int, NEW m \in Nat
    PROVE  LET pow[k \in 0 .. m] == IF k = 0 THEN 1 ELSE (y * pow[k-1]) % P
           IN  ArePowers(pow, y, m)
<1> DEFINE H0 == [c \in Int \X (1 .. m) |-> (y * c[1]) % P]
           E(g, k) == IF k = 0 THEN 1 ELSE (y * g[k-1]) % P
           IsPow(g) == g = [k \in 0 .. m |-> E(g, k)]
           pow == CHOOSE g : IsPow(g)
<1>1. \A c \in Int : (y * c) % P \in Int
  <2> SUFFICES ASSUME NEW c \in Int PROVE (y * c) % P \in Int  OBVIOUS
  <2>1. y * c \in Int  BY ONLY y \in Int, c \in Int
  <2> QED  BY ONLY <2>1, Residue
<1>2. H0 \in [Int \X (1 .. m) -> Int]
  <2> SUFFICES ASSUME NEW c \in Int \X (1 .. m) PROVE (y * c[1]) % P \in Int  OBVIOUS
  <2> QED  BY <1>1
<1>3. \A x \in Int, k \in 1 .. m : H0[<<x, k>>] = (y * x) % P  OBVIOUS
<1> HIDE DEF H0
<1>4. PICK f : IsRecursion(f, Int, 1, m, H0)  BY ONLY <1>2, m \in Nat, 1 \in Int, RecursionDefined
<1>5. ASSUME NEW k \in 0 .. m PROVE f[k] = E(f, k)
  <2>1. CASE k = 0  BY <1>4, <2>1 DEF IsRecursion
  <2>2. CASE k # 0
    <3>1. k \in 1 .. m /\ k - 1 \in 0 .. m  BY <2>2
    <3>2. f[k] = H0[<<f[k-1], k>>] /\ f[k-1] \in Int  BY ONLY <1>4, <3>1 DEF IsRecursion
    <3> QED  BY <1>3, <2>2, <3>1, <3>2
  <2> QED  BY <2>1, <2>2
<1> HIDE DEF E
<1>6. f = [k \in 0 .. m |-> E(f, k)]  BY <1>4, <1>5 DEF IsRecursion
<1>7. IsPow(pow)  BY <1>6
<1> HIDE DEF pow
<1>8. pow = [k \in 0 .. m |-> E(pow, k)]  BY <1>7
<1>9. \A k \in 0 .. m : pow[k] = E(pow, k)  BY <1>8
<1>10. pow[0] = 1 /\ \A k \in 1 .. m : pow[k] = (y * pow[k-1]) % P
  <2>1. 0 \in 0 .. m /\ \A k \in 1 .. m : k \in 0 .. m /\ k # 0  OBVIOUS
  <2> QED  BY ONLY <1>9, <2>1 DEF E
<1>11. \A k \in 0 .. m : pow[k] \in Int
  <2> DEFINE Good == {k \in 0 .. m : pow[k] \in Int}
  <2>1. 0 \in Good  BY <1>10
  <2>2. ASSUME NEW k \in 0 .. m-1, k \in Good PROVE k + 1 \in Good
    <3>1. k + 1 \in 1 .. m /\ (k + 1) - 1 = k /\ pow[k] \in Int /\ k + 1 \in 0 .. m  BY <2>2
    <3>2. pow[k + 1] = (y * pow[k]) % P  BY <1>10, <3>1
    <3> QED  BY <1>1, <3>1, <3>2
  <2> HIDE DEF Good
  <2>3. \A k \in 0 .. m : k \in Good  BY ONLY <2>1, <2>2, m \in Nat, UpTo
  <2> QED  BY <2>3 DEF Good
<1>12. ArePowers(pow, y, m)  BY ONLY <1>10, <1>11 DEF ArePowers
<1> QED  BY <1>12 DEF pow, IsPow, E

\* The powers that secp256k1_fe_sqrt takes are numbers.
LEMMA PowersType ==
    ASSUME NEW a \in Elements
    PROVE  Powers[a] \in Int
<1> DEFINE m == (P + 1) \div 4
           pow[k \in 0 .. m] == IF k = 0 THEN 1 ELSE (a * pow[k-1]) % P
<1>1. m \in Nat /\ a \in Int  BY FieldAssumption, SmallIs
<1>2. Powers[a] = pow[m]  BY DEF Powers
<1> HIDE DEF m
<1>3. ArePowers(pow, a, m)  BY ONLY <1>1, PowersAre
<1> HIDE DEF pow
<1> QED  BY <1>1, <1>2, <1>3 DEF ArePowers

-----------------------------------------------------------------------------
(* Parsed points *)

\* secp256k1_fe_add_int.
LEMMA AddIntIs ==
    ASSUME NEW x, NEW p \in Int, NEW c \in Int, NEW j \in Factors, NEW k \in Limits,
           Is(x, p, j), Fits(j, 1, k)
    PROVE  Is(AddInt(x, c), p + c, k)
<1>1. x.v \in Int /\ x.v = p % P /\ j \in Limits
  <2>1. j \in Limits  BY DEF Limits, Factors
  <2> QED  BY <2>1, IsChecked DEF Is
<1>2. x.m \in Int /\ x.m <= j /\ x.m >= 0 /\ j \in Int /\ j + 1 <= k
  BY DEF Is, Records, MaxMagnitude, Factors, Fits
<1>3. x.m + 1 \in Limits /\ x.m + 1 <= k  BY <1>2 DEF Limits
<1>4. Same(x.v, p) /\ Same(c, c)  BY <1>1, SameResidue
<1>5. Same(x.v + c, p + c)  BY <1>1, <1>4, SameSum
<1>6. x.v + c \in Int /\ p + c \in Int  BY <1>1
<1>7. Is(Fe(x.v + c, x.m + 1), p + c, k)  BY ONLY <1>3, <1>5, <1>6, k \in Limits, FeIsOf
<1> QED  BY <1>7 DEF AddInt

\* The other side of the curve equation.
CubeOf(x) == x * x * x + B

\* The other side of the curve equation, as it is computed.
LEMMA CubeIs ==
    ASSUME NEW e, NEW x \in Int, NEW k \in {1, 4}, Is(e, x, k)
    PROVE  Is(AddInt(Cube(e), B), CubeOf(x), 2) /\ CubeOf(x) \in Int
<1>1. Is(Sqr(e), x * x, 1)  BY SqrIs, Small
<1>2. Is(Mul(Sqr(e), e), (x * x) * x, 1)
  <2>1. x * x \in Int  OBVIOUS
  <2> QED  BY ONLY <1>1, <2>1, x \in Int, k \in {1, 4}, Is(e, x, k), Small, MulIs
<1>3. B \in Int /\ (x * x) * x \in Int  BY GroupAssumption
<1>4. Is(Cube(e), (x * x) * x, 1)  BY <1>2 DEF Cube
<1>5. Is(AddInt(Cube(e), B), (x * x) * x + B, 2)  BY ONLY <1>3, <1>4, Small, Sums, AddIntIs
<1>6. CubeOf(x) = (x * x) * x + B /\ CubeOf(x) \in Int  BY <1>3 DEF CubeOf
<1> QED  BY <1>5, <1>6

\* The power of the other side that is a root of it, if it has one.
RootOf(x) == Powers[CubeOf(x) % P]

\* What secp256k1_fe_sqrt computes of the other side.
LEMMA RootIs ==
    ASSUME NEW e, NEW x \in Int, Is(e, x, 1)
    PROVE  /\ RootOf(x) \in Int
           /\ Is(Sqrt(AddInt(Cube(e), B)), RootOf(x), 1)
<1> DEFINE c == AddInt(Cube(e), B)
<1>1. Is(c, CubeOf(x), 2) /\ CubeOf(x) \in Int  BY CubeIs
<1>2. c.v = CubeOf(x) % P /\ c.m <= 8
  <2>1. c.m \in Int /\ c.m <= 2  BY <1>1 DEF Is, Records, MaxMagnitude
  <2> QED  BY <1>1, <2>1 DEF Is
<1> HIDE DEF c
<1>3. c.v \in Elements  BY <1>1, <1>2, Residue
<1>4. RootOf(x) \in Int /\ Powers[c.v] = RootOf(x)  BY <1>2, <1>3, PowersType DEF RootOf
<1>5. Sqrt(c) = Fe(RootOf(x), 1)  BY <1>2, <1>4 DEF Sqrt, Checked
<1>6. Is(Fe(RootOf(x), 1), RootOf(x), 1)  BY <1>4, Small, FeIs
<1> QED  BY <1>4, <1>5, <1>6 DEF c

\* An X coordinate is accepted exactly when the power is a root.
LEMMA LiftedIs ==
    ASSUME NEW x \in Elements
    PROVE  XIsLifted(Stored(x)) <=> OnCurve(x, RootOf(x))
<1> DEFINE e == Stored(x)
           c == AddInt(Cube(e), B)
<1>1. Is(e, x, 1) /\ x \in Int  BY SmallIs
<1> HIDE DEF e
<1>2. Is(c, CubeOf(x), 2) /\ CubeOf(x) \in Int  BY <1>1, CubeIs
<1>3. Is(Sqrt(c), RootOf(x), 1) /\ RootOf(x) \in Int  BY <1>1, RootIs
<1>4. XIsLifted(e) = Equal(Sqr(Sqrt(c)), c)  BY DEF XIsLifted
<1> HIDE DEF c
<1>5. Is(Sqr(Sqrt(c)), RootOf(x) * RootOf(x), 1) /\ RootOf(x) * RootOf(x) \in Int
  BY <1>3, Small, SqrIs
<1>6. Equal(Sqr(Sqrt(c)), c) <=> Same(RootOf(x) * RootOf(x), CubeOf(x))
  BY ONLY <1>2, <1>5, Small, EqualIs
<1> QED  BY <1>4, <1>6 DEF OnCurve, CubeOf, e

\* A point of the curve.
LEMMA PointsAre ==
    ASSUME NEW x \in Elements, NEW y \in Elements, OnCurve(x, y)
    PROVE  <<x, y>> \in Points
BY PairIsNoNone DEF Points, OnCurve, Same

\* Of an element and its opposite, one is odd.
LEMMA OtherParity ==
    ASSUME NEW y \in Elements, y # 0
    PROVE  /\ (-y) % P = P - y /\ P - y \in Elements /\ P - y # 0
           /\ ((P - y) % 2 = 1) <=> (y % 2 # 1)
<1>1. y \in Int /\ y > 0 /\ y < P /\ P \in Int  BY OrderOfField DEF Elements
<1>2. P - y \in Elements /\ P - y # 0  BY <1>1 DEF Elements
<1>3. (-y) % P = P - y
  <2>1. P - y = -y + P * 1 /\ -y \in Int /\ P - y \in Int  BY <1>1
  <2>2. Same(P - y, -y)  BY ONLY <2>1, 1 \in Int, SameBy
  <2>3. (P - y) % P = P - y  BY <1>2, SmallIs
  <2> QED  BY <2>2, <2>3 DEF Same
<1>4. ((P - y) % 2 = 1) <=> (y % 2 # 1)
  <2>1. P % 4 = 3  BY FieldAssumption
  <2> QED  BY ONLY <1>1, <2>1
<1> QED  BY <1>2, <1>3, <1>4

\* The parity tells the two points with an X coordinate apart.
LEMMA RootsByParity ==
    ASSUME NEW x, NEW y1, NEW y2, <<x, y1>> \in Points, <<x, y2>> \in Points,
           (y1 % 2 = 1) <=> (y2 % 2 = 1)
    PROVE  y1 = y2
<1>1. /\ x \in Elements /\ y1 \in Elements /\ y2 \in Elements /\ y1 # 0 /\ y2 # 0
      /\ OnCurve(x, y1) /\ OnCurve(x, y2) /\ y1 \in Int /\ y2 \in Int
  BY PointTypes
<1>2. Same(y1 * y1, y2 * y2)  BY <1>1 DEF OnCurve, Same
<1> SUFFICES ASSUME y1 # y2 PROVE FALSE  OBVIOUS
<1>3. Same(y1 + y2, 0)  BY <1>1, <1>2, RootsOpposite
<1>4. y2 = (-y1) % P
  <2>1. Same((y1 + y2) - y1, 0 - y1)
    <3> DEFINE s == y1 + y2
    <3>1. s \in Int /\ Same(s, 0) /\ Same(y1, y1)  BY <1>1, <1>3 DEF Same
    <3> HIDE DEF s
    <3>2. Same(s - y1, 0 - y1)  BY ONLY <1>1, <3>1, 0 \in Int, SameSum
    <3> QED  BY <3>2 DEF s
  <2>2. (y1 + y2) - y1 = y2 /\ 0 - y1 = -y1  BY ONLY <1>1
  <2>3. y2 % P = y2  BY <1>1, SmallIs
  <2> QED  BY ONLY <2>1, <2>2, <2>3 DEF Same
<1> QED  BY <1>1, <1>4, OtherParity

\* The root of the other side that has the parity.
ParityRoot(x, odd) ==
    IF (RootOf(x) % P) % 2 = 1 <=> odd THEN RootOf(x) % P ELSE P - (RootOf(x) % P)

\* That root gives a point of the curve, and it has the parity.
LEMMA ParityRootIs ==
    ASSUME NEW x \in Elements, NEW odd \in BOOLEAN, OnCurve(x, RootOf(x))
    PROVE  /\ <<x, ParityRoot(x, odd)>> \in Points
           /\ (ParityRoot(x, odd) % 2 = 1) <=> odd
           /\ RootOf(x) % P \in Elements /\ RootOf(x) % P # 0
<1> DEFINE w == RootOf(x)
           y == w % P
<1>1. w \in Int /\ x \in Int /\ B \in Int  BY SmallIs, RootIs, GroupAssumption
<1> HIDE DEF w
<1>2. y \in Elements /\ y \in Int /\ Same(y, w)  BY <1>1, Residue, SameResidue
<1> HIDE DEF y
<1>3. Same(y * y, w * w)  BY <1>1, <1>2, SameProduct
<1>4. OnCurve(x, y)  BY <1>3 DEF OnCurve, Same, w
<1>5. <<x, y>> \in Points /\ y # 0
  <2>1. <<x, y>> \in Points  BY <1>2, <1>4, PointsAre
  <2> QED  BY <2>1, PointTypes
<1>6. /\ (-y) % P = P - y /\ P - y \in Elements /\ P - y # 0
      /\ ((P - y) % 2 = 1) <=> (y % 2 # 1)
  BY <1>2, <1>5, OtherParity
<1>7. OnCurve(x, P - y)
  <2>1. -y \in Int /\ (-y) * (-y) = y * y  BY <1>2
  <2>2. Same(P - y, -y)
    <3>1. P - y = -y + P * 1 /\ P - y \in Int  BY <1>2, OrderOfField
    <3> QED  BY ONLY <2>1, <3>1, 1 \in Int, SameBy
  <2>3. P - y \in Int  BY <1>6, SmallIs
  <2>4. Same((P - y) * (P - y), (-y) * (-y))  BY ONLY <2>1, <2>2, <2>3, SameProduct
  <2> QED  BY <1>4, <2>1, <2>4 DEF OnCurve, Same
<1>8. <<x, P - y>> \in Points  BY <1>6, <1>7, PointsAre
<1>9. /\ RootOf(x) % P = y
      /\ (y % 2 = 1 <=> odd) => ParityRoot(x, odd) = y
      /\ ~(y % 2 = 1 <=> odd) => ParityRoot(x, odd) = P - y
  <2>1. RootOf(x) % P = y  BY DEF y, w
  <2>2. ASSUME y % 2 = 1 <=> odd PROVE ParityRoot(x, odd) = y
    BY ONLY <2>1, <2>2 DEF ParityRoot
  <2>3. ASSUME ~(y % 2 = 1 <=> odd) PROVE ParityRoot(x, odd) = P - y
    BY ONLY <2>1, <2>3 DEF ParityRoot
  <2> QED  BY ONLY <2>1, <2>2, <2>3
<1>10. CASE y % 2 = 1 <=> odd  BY ONLY <1>2, <1>5, <1>9, <1>10
<1>11. CASE ~(y % 2 = 1 <=> odd)  BY ONLY <1>2, <1>5, <1>6, <1>8, <1>9, <1>11
<1> QED  BY <1>10, <1>11

\* What is lifted from an X coordinate.
LEMMA LiftStands ==
    ASSUME NEW x \in Elements, NEW odd \in BOOLEAN, OnCurve(x, RootOf(x))
    PROVE  StandsGe(LiftX(Stored(x), odd), <<x, ParityRoot(x, odd)>>)
<1> DEFINE e == Stored(x)
           w == RootOf(x)
           y == Normalize(Sqrt(AddInt(Cube(e), B)))
           f == IF IsOdd(y) # odd THEN Negate(y, 1) ELSE y
           res == GeSetXY(e, f)
           r == ParityRoot(x, odd)
<1>1. Is(e, x, 1) /\ x \in Int  BY SmallIs
<1>2. res = LiftX(Stored(x), odd)  BY DEF LiftX
<1> HIDE DEF e
<1>3. Is(Sqrt(AddInt(Cube(e), B)), w, 1) /\ w \in Int  BY <1>1, RootIs
<1>4. Is(y, w, 1) /\ y.n = TRUE /\ y.v = w % P  BY <1>3, Small, NormalizeIs DEF Is
<1> HIDE DEF y, w
<1>5. IsOdd(y) <=> (w % P) % 2 = 1  BY <1>4 DEF IsOdd
<1>6. w % P \in Elements /\ w % P # 0 /\ <<x, r>> \in Points
  BY ParityRootIs DEF w
<1>7. r \in Elements /\ r \in Int  BY <1>6, PointTypes
<1>8. Is(f, r, 3)
  <2>1. CASE (w % P) % 2 = 1 <=> odd
    <3>1. f = y /\ r = w % P  BY <1>5, <2>1 DEF ParityRoot, w, IsOdd
    <3>2. Same(w, r)  BY <1>3, <3>1, SameResidue DEF Same
    <3>3. Is(y, w, 3)  BY <1>4, Small, Widen
    <3> HIDE DEF f, r
    <3> QED  BY ONLY <1>7, <3>1, <3>2, <3>3, Small, Retarget
  <2>2. CASE ~((w % P) % 2 = 1 <=> odd)
    <3>0. r = P - (w % P)  BY <2>2 DEF ParityRoot, w
    <3>1. f = Negate(y, 1)  BY <1>5, <2>2 DEF IsOdd
    <3>2. Is(Negate(y, 1), Minus(w), 2)  BY <1>4, Small, Sums, NegateStep DEF Fits
    <3>3. Is(Negate(y, 1), Minus(w), 3)  BY <3>2, Small, Widen
    <3>4. Same(Minus(w), r)
      <4> DEFINE v == w % P
      <4>1. v \in Elements /\ v # 0 /\ Same(v, w) /\ v \in Int  BY <1>3, <1>6, Residue, SameResidue
      <4> HIDE DEF v
      <4>2. (-v) % P = P - v  BY <4>1, OtherParity
      <4>3. Same(-v, -w)  BY <1>3, <4>1, SameSum
      <4>4. (P - v) % P = P - v  BY <4>1, OtherParity, SmallIs
      <4>5. Same(-w, P - v)  BY ONLY <4>2, <4>3, <4>4 DEF Same
      <4>6. r = P - v  BY ONLY <3>0 DEF v
      <4> QED  BY ONLY <4>5, <4>6 DEF Minus
    <3> HIDE DEF f, r
    <3> QED  BY ONLY <1>7, <3>1, <3>3, <3>4, Small, Retarget
  <2> QED  BY <2>1, <2>2
<1> HIDE DEF f, r
<1>9. res = [x |-> e, y |-> f, inf |-> FALSE]  BY DEF GeSetXY
<1>10. Is(e, x, 4)  BY <1>1, Small, Widen
<1>11. e \in Records /\ f \in Records  BY <1>8, <1>10 DEF Is
<1>12. res \in Ges /\ res.x = e /\ res.y = f /\ res.inf = FALSE  BY ONLY <1>9, <1>11 DEF Ges
<1> HIDE DEF res
<1>13. FiniteGe(res, x, r)
  BY ONLY <1>7, <1>8, <1>10, <1>12, x \in Elements DEF FiniteGe, AtGe
<1> QED  BY ONLY <1>2, <1>13 DEF StandsGe, r, e

\* The multiple that a set of coordinates which holds one point of the curve
\* is taken to stand for.
LEMMA KOfIs ==
    ASSUME NEW Q, NEW pt \in Points, \A p2 \in Points : p2 \in Q <=> p2 = pt
    PROVE  KOf(Q) \in 0 .. N-1 /\ Multiple[KOf(Q)] = pt
<1> DEFINE ks == {k \in 1 .. N-1 : Multiple[k] \in Q}
           c == CHOOSE k \in ks : TRUE
<1>1. KOf(Q) = IF ks = {} THEN 0 ELSE c  BY DEF KOf
<1>2. \E k \in ks : TRUE
  <2>1. pt \in {Multiple[k] : k \in 1 .. N-1}  BY CurveIsGroup
  <2>2. PICK k \in 1 .. N-1 : Multiple[k] = pt  BY <2>1
  <2> QED  BY <2>2
<1>3. \A k \in ks : k \in 1 .. N-1 /\ Multiple[k] = pt
  <2>1. \A k \in 1 .. N-1 : Multiple[k] \in Points  BY CurveIsGroup
  <2> QED  BY <2>1
<1> HIDE DEF ks
<1>4. c \in ks /\ ks # {}  BY <1>2
<1> HIDE DEF c
<1>5. KOf(Q) = c /\ c \in 1 .. N-1 /\ Multiple[c] = pt  BY <1>1, <1>3, <1>4
<1>6. c \in 0 .. N-1  BY <1>5, Multiples
<1> QED  BY <1>5, <1>6

\* The encodings of Parse33A and Parse65A.
Forms33 == [tag : {"zero", "even", "odd", "uncompressed"}, x : 0 .. P]
Forms65 == [tag : {"even", "uncompressed", "hybrid_even", "hybrid_odd"}, x : 0 .. P, y : 0 .. P]

\* What is accepted with 33 bytes stands for the point of these coordinates.
LEMMA Parse33Stands ==
    ASSUME NEW b \in Forms33, Parses33(b)
    PROVE  LET k == KOf({<<b.x, y>> : y \in {e \in Elements : (e % 2 = 1) = (b.tag = "odd")}})
           IN  k \in 0 .. N-1 /\ StandsGe(Parse33(b), Multiple[k])
<1> DEFINE x == b.x
           odd == b.tag = "odd"
           r == ParityRoot(x, odd)
           Q == {<<x, y>> : y \in {e \in Elements : (e % 2 = 1) = odd}}
<1>1. odd \in BOOLEAN /\ x \in Elements
  <2>1. x \in 0 .. P /\ x < P  BY DEF Forms33, Parses33
  <2> QED  BY <2>1, OrderOfField DEF Elements
<1>2. OnCurve(x, RootOf(x))  BY <1>1, LiftedIs DEF Parses33
<1>3. Parse33(b) = LiftX(Stored(x), odd)  BY DEF Parse33
<1> HIDE DEF x, odd
<1>4. StandsGe(LiftX(Stored(x), odd), <<x, r>>)  BY <1>1, <1>2, LiftStands
<1>5. <<x, r>> \in Points /\ ((r % 2 = 1) <=> odd)  BY <1>1, <1>2, ParityRootIs
<1> HIDE DEF r
<1>6. r \in Elements  BY <1>5, PointTypes
<1>7. ASSUME NEW p2 \in Points PROVE p2 \in Q <=> p2 = <<x, r>>
  <2>1. CASE p2 \in Q
    <3>1. PICK y \in Elements : p2 = <<x, y>> /\ (y % 2 = 1) = odd  BY <2>1
    <3>2. (y % 2 = 1) <=> (r % 2 = 1)  BY <1>5, <3>1
    <3>3. y = r  BY <1>5, <3>1, <3>2, RootsByParity
    <3> QED  BY <2>1, <3>1, <3>3
  <2>2. CASE p2 = <<x, r>>
    <3>1. r \in {e \in Elements : (e % 2 = 1) = odd}  BY <1>1, <1>5, <1>6
    <3> QED  BY <2>2, <3>1
  <2> QED  BY <2>1, <2>2
<1> HIDE DEF Q
<1>8. KOf(Q) \in 0 .. N-1 /\ Multiple[KOf(Q)] = <<x, r>>  BY <1>5, <1>7, KOfIs
<1>9. StandsGe(Parse33(b), Multiple[KOf(Q)])  BY <1>3, <1>4, <1>8
<1> QED  BY <1>8, <1>9 DEF Q, x, odd

\* What is accepted with 65 bytes.
LEMMA Parse65Stands ==
    ASSUME NEW b \in Forms65, Parses65(b)
    PROVE  /\ b.tag = "uncompressed" \/ (b.y % 2 = 1) = (b.tag = "hybrid_odd")
           /\ KOf({<<b.x, b.y>>}) \in 0 .. N-1
           /\ StandsGe(Parse65(b), Multiple[KOf({<<b.x, b.y>>})])
<1> DEFINE x == b.x
           y == b.y
           ge == GeSetXY(Stored(x), Stored(y))
<1>1. x \in Elements /\ y \in Elements
  <2>1. x \in 0 .. P /\ x < P /\ y \in 0 .. P /\ y < P  BY DEF Forms65, Parses65
  <2> QED  BY <2>1, OrderOfField DEF Elements
<1>2. GeIsValid(ge) /\ Parse65(b) = ge  BY DEF Parses65, Parse65
<1>3. b.tag = "uncompressed" \/ (b.y % 2 = 1) = (b.tag = "hybrid_odd")
  <2>1. b.tag # "uncompressed" => IsOdd(Stored(b.y)) = (b.tag = "hybrid_odd")
    BY DEF Parses65
  <2>2. IsOdd(Stored(b.y)) = (b.y % 2 = 1)  BY DEF IsOdd, Stored
  <2> QED  BY <2>1, <2>2
<1> HIDE DEF x, y
<1>4. OnCurve(x, y)
  <2> DEFINE e == Stored(x)
             f == Stored(y)
  <2>1. Is(e, x, 1) /\ Is(f, y, 1) /\ x \in Int /\ y \in Int /\ y * y \in Int  BY <1>1, SmallIs
  <2>2. Equal(Sqr(f), AddInt(Cube(e), B))  BY <1>2 DEF GeIsValid, GeSetXY
  <2> HIDE DEF e, f
  <2>3. Is(Sqr(f), y * y, 1)  BY <2>1, Small, SqrIs
  <2>4. Is(AddInt(Cube(e), B), CubeOf(x), 2) /\ CubeOf(x) \in Int  BY <2>1, CubeIs
  <2> DEFINE c == AddInt(Cube(e), B)
  <2>5. Is(c, CubeOf(x), 2) /\ Equal(Sqr(f), c)  BY <2>2, <2>4
  <2> HIDE DEF c
  <2>6. Same(y * y, CubeOf(x))  BY ONLY <2>1, <2>3, <2>4, <2>5, Small, EqualIs
  <2> QED  BY <2>6 DEF OnCurve, CubeOf
<1>5. <<x, y>> \in Points  BY <1>1, <1>4, PointsAre
<1>6. StandsGe(ge, <<x, y>>)  BY <1>1, StoredStands
<1> DEFINE Q == {<<x, y>>}
<1>7. \A p2 \in Points : p2 \in Q <=> p2 = <<x, y>>  OBVIOUS
<1> HIDE DEF Q, ge
<1>8. KOf(Q) \in 0 .. N-1 /\ Multiple[KOf(Q)] = <<x, y>>  BY <1>5, <1>7, KOfIs
<1>9. StandsGe(Parse65(b), Multiple[KOf(Q)])  BY <1>2, <1>6, <1>8
<1> QED  BY <1>3, <1>8, <1>9 DEF Q, x, y

-----------------------------------------------------------------------------
(* The steps of the two points *)

\* The inductive invariant: each point stands for its multiple of the
\* generator.
PointsStand ==
    /\ kjac \in 0 .. N-1 /\ Stands(jac, Multiple[kjac])
    /\ kaff \in 0 .. N-1 /\ StandsGe(aff, Multiple[kaff])

\* A jacobian point, an affine point, for a multiple given by any integer.
R(p, k) == k \in Int /\ Stands(p, Multiple[k % N])
A(q, k) == k \in Int /\ StandsGe(q, Multiple[k % N])

\* What the invariant says of the two indices.
LEMMA ForMultiples ==
    ASSUME PointsStand
    PROVE  /\ R(jac, kjac) /\ A(aff, kaff)
           /\ kjac % N = kjac /\ kaff % N = kaff /\ kjac \in Int /\ kaff \in Int
           /\ OnGroup(Multiple[kjac]) /\ OnGroup(Multiple[kaff])
BY SmallIndex, Multiples DEF PointsStand, R, A

\* Every second operand stands for its multiple.
LEMMA OperandsStand ==
    ASSUME PointsStand, NEW q \in Operands
    PROVE  R(q[1], q[2])
<1>1. /\ kjac % N = kjac /\ kaff % N = kaff /\ kjac \in Int /\ kaff \in Int
      /\ OnGroup(Multiple[kjac]) /\ OnGroup(Multiple[kaff])
      /\ Stands(jac, Multiple[kjac]) /\ StandsGe(aff, Multiple[kaff])
      /\ kjac \in 0 .. N-1 /\ kaff \in 0 .. N-1
  BY ForMultiples DEF PointsStand
<1>2. CASE q = <<GejSetGe(aff), kaff>>
  <2>1. Stands(GejSetGe(aff), Multiple[kaff])  BY <1>1, GejSetGeStands
  <2> QED  BY <1>1, <1>2, <2>1 DEF R
<1>3. CASE q = <<GejInfinity, 0>>
  <2>1. Multiple[0] = None /\ 0 % N = 0  BY CurveIsGroup, Multiples
  <2> QED  BY <1>3, <2>1, InfinityStands DEF R
<1>4. CASE q = <<NegY(jac), -kjac>>
  <2>1. Stands(NegY(jac), Multiple[(-kjac) % N])
    <3>1. Stands(NegY(jac), Opposite(Multiple[kjac]))  BY <1>1, NegYStands
    <3> QED  BY <1>1, <3>1, OppositeIs
  <2>2. -kjac \in Int  BY <1>1
  <2> QED  BY <1>4, <2>1, <2>2 DEF R
<1>5. CASE q = <<DoubleVar(jac), 2 * kjac>>
  <2>1. Stands(DoubleVar(jac), RefAdd(Multiple[kjac], Multiple[kjac]))
    BY <1>1, DoubleIsSum DEF OnGroup
  <2>2. 2 * kjac = kjac + kjac /\ 2 * kjac \in Int  BY <1>1
  <2>3. RefAdd(Multiple[kjac], Multiple[kjac]) = Multiple[(kjac + kjac) % N]
    BY <1>1, CurveIsGroup
  <2> QED  BY <1>5, <2>1, <2>2, <2>3 DEF R
<1>6. CASE q = <<AddGeVar(jac, aff), kjac + kaff>>
  <2>1. Stands(AddGeVar(jac, aff), RefAdd(Multiple[kjac], Multiple[kaff]))
    BY <1>1, AddGeVarStands
  <2>2. RefAdd(Multiple[kjac], Multiple[kaff]) = Multiple[(kjac + kaff) % N]
    BY <1>1, CurveIsGroup
  <2>3. kjac + kaff \in Int  BY <1>1
  <2> QED  BY <1>6, <2>1, <2>2, <2>3 DEF R
<1> QED  BY <1>2, <1>3, <1>4, <1>5, <1>6 DEF Operands

\* What is put in the place of a point stands for the multiple given with it.
LEMMA SetRStands ==
    ASSUME PointsStand, NEW p, NEW k, SetR(p, k), R(p, k)
    PROVE  PointsStand'
<1>1. k % N \in 0 .. N-1  BY Indices DEF R
<1> QED  BY <1>1 DEF SetR, R, PointsStand

\* The same for the affine point.
LEMMA SetAStands ==
    ASSUME PointsStand, NEW q, NEW k, SetA(q, k), A(q, k)
    PROVE  PointsStand'
<1>1. k % N \in 0 .. N-1  BY Indices DEF A
<1> QED  BY <1>1 DEF SetA, A, PointsStand

\* The invariant holds at the start.
LEMMA InitialPoints ==
    ASSUME GroupInit
    PROVE  PointsStand
<1>1. Multiple[0] = None /\ Multiple[1] = <<Gx, Gy>>  BY CurveIsGroup
<1>2. 0 \in 0 .. N-1 /\ 1 \in 0 .. N-1  BY Multiples
<1>3. Gx \in Elements /\ Gy \in Elements  BY GroupAssumption
<1>4. StandsGe(GeSetXY(Stored(Gx), Stored(Gy)), <<Gx, Gy>>)  BY <1>3, StoredStands
<1> QED  BY <1>1, <1>2, <1>4, InfinityStands DEF GroupInit, PointsStand

\* Every operation keeps the two points what they stand for.
LEMMA StepPoints ==
    ASSUME PointsStand, [GroupNext]_groupVars
    PROVE  PointsStand'
<1>1. /\ R(jac, kjac) /\ A(aff, kaff)
      /\ kjac % N = kjac /\ kaff % N = kaff /\ kjac \in Int /\ kaff \in Int
      /\ OnGroup(Multiple[kjac]) /\ OnGroup(Multiple[kaff])
  BY ForMultiples
<1>2. /\ kjac \in 0 .. N-1 /\ Stands(jac, Multiple[kjac])
      /\ kaff \in 0 .. N-1 /\ StandsGe(aff, Multiple[kaff])
  BY DEF PointsStand
<1>3. \A q \in Operands : R(q[1], q[2])  BY OperandsStand
<1>4. /\ <<GejSetGe(aff), kaff>> \in Operands /\ <<NegY(jac), -kjac>> \in Operands
      /\ <<DoubleVar(jac), 2 * kjac>> \in Operands
      /\ <<AddGeVar(jac, aff), kjac + kaff>> \in Operands
  BY DEF Operands
<1>5. /\ R(GejSetGe(aff), kaff) /\ R(NegY(jac), -kjac) /\ R(DoubleVar(jac), 2 * kjac)
      /\ R(AddGeVar(jac, aff), kjac + kaff)
  <2>1. \A x, y : <<x, y>>[1] = x /\ <<x, y>>[2] = y  OBVIOUS
  <2> QED  BY ONLY <1>3, <1>4, <2>1
<1>6. /\ RefAdd(Multiple[kjac], Multiple[kaff]) = Multiple[(kjac + kaff) % N]
      /\ kjac + kaff \in Int
  BY <1>1, <1>2, CurveIsGroup
<1>7. CASE ConvertToJacobian  BY <1>5, <1>7, SetRStands DEF ConvertToJacobian
<1>8. CASE NegateR  BY <1>5, <1>8, SetRStands DEF NegateR
<1>9. CASE DoubleR
  <2>1. Stands(Double(jac), RefAdd(Multiple[kjac], Multiple[kjac]))
    BY <1>1, <1>2, DoubleIsSum DEF OnGroup
  <2>2. RefAdd(Multiple[kjac], Multiple[kjac]) = Multiple[(kjac + kjac) % N]
    BY <1>2, CurveIsGroup
  <2>3. 2 * kjac = kjac + kjac /\ 2 * kjac \in Int  BY <1>1
  <2>4. R(Double(jac), 2 * kjac)  BY <2>1, <2>2, <2>3 DEF R
  <2> QED  BY <1>9, <2>4, SetRStands DEF DoubleR
<1>10. CASE DoubleVarR  BY <1>5, <1>10, SetRStands DEF DoubleVarR
<1>11. CASE AddVarR
  <2>1. PICK q \in Operands : SetR(AddVar(jac, q[1]), kjac + q[2])  BY <1>11 DEF AddVarR
  <2> DEFINE p == q[1]
             k == q[2]
  <2>2. R(p, k)  BY <1>3
  <2>3. SetR(AddVar(jac, p), kjac + k)  BY <2>1
  <2> HIDE DEF p, k
  <2>4. k \in Int /\ kjac + k \in Int  BY <1>1, <2>2 DEF R
  <2>5. Stands(AddVar(jac, p), RefAdd(Multiple[kjac], Multiple[k % N]))
    BY <1>1, <1>2, <2>2, AddVarStands DEF R
  <2>6. RefAdd(Multiple[kjac], Multiple[k % N]) = Multiple[(kjac + k) % N]
    BY <1>1, <2>4, Indices
  <2>7. R(AddVar(jac, p), kjac + k)  BY <2>4, <2>5, <2>6 DEF R
  <2> QED  BY <2>3, <2>7, SetRStands
<1>12. CASE CmovR
  <2>1. PICK q \in Operands, f \in BOOLEAN :
            SetR(GejCmov(jac, q[1], f), IF f THEN q[2] ELSE kjac)
    BY <1>12 DEF CmovR
  <2> DEFINE p == q[1]
             k == q[2]
             j == IF f THEN k ELSE kjac
  <2>2. R(p, k)  BY <1>3
  <2>3. SetR(GejCmov(jac, p, f), j)  BY <2>1
  <2> HIDE DEF p, k
  <2>4. Stands(GejCmov(jac, p, f), IF f THEN Multiple[k % N] ELSE Multiple[kjac])
    BY <1>2, <2>2, CmovStands DEF R
  <2>5. /\ j \in Int
        /\ Multiple[j % N] = IF f THEN Multiple[k % N] ELSE Multiple[kjac]
    BY <1>1, <2>2 DEF R
  <2> HIDE DEF j
  <2>6. R(GejCmov(jac, p, f), j)  BY <2>4, <2>5 DEF R
  <2> QED  BY <2>3, <2>6, SetRStands
<1>13. CASE AddGeVarR  BY <1>5, <1>13, SetRStands DEF AddGeVarR
<1>14. CASE AddGeR
  <2>1. ~aff.inf /\ SetR(AddGe(jac, aff), kjac + kaff)  BY <1>14 DEF AddGeR
  <2>2. Multiple[kaff] # None  BY <1>2, <2>1, InfinityIsNone
  <2>3. Stands(AddGe(jac, aff), RefAdd(Multiple[kjac], Multiple[kaff]))
    BY <1>1, <1>2, <2>2, AddGeStands
  <2>4. R(AddGe(jac, aff), kjac + kaff)  BY <1>6, <2>3 DEF R
  <2> QED  BY <2>1, <2>4, SetRStands
<1>15. CASE RescaleR
  <2>1. PICK s \in 1 .. P-1 : SetR(GejRescale(jac, Stored(s)), kjac)  BY <1>15 DEF RescaleR
  <2>2. Stands(GejRescale(jac, Stored(s)), Multiple[kjac])  BY <1>2, RescaleStands
  <2>3. R(GejRescale(jac, Stored(s)), kjac)  BY <1>1, <2>2 DEF R
  <2> QED  BY <2>1, <2>3, SetRStands
<1>16. CASE AddZinvVarR
  <2>1. PICK s \in 1 .. P-1 :
            SetR(AddZinvVar(jac, Isomorphic(aff, s), Stored(s)), kjac + kaff)
    BY <1>16 DEF AddZinvVarR, Isomorphic
  <2>2. Stands(AddZinvVar(jac, Isomorphic(aff, s), Stored(s)),
               RefAdd(Multiple[kjac], Multiple[kaff]))
    BY <1>1, <1>2, AddZinvVarStands
  <2>3. R(AddZinvVar(jac, Isomorphic(aff, s), Stored(s)), kjac + kaff)
    BY <1>6, <2>2 DEF R
  <2> QED  BY <2>1, <2>3, SetRStands
<1>17. CASE ConvertToAffine
  <2>1. StandsGe(GeSetGej(jac), Multiple[kjac])  BY <1>2, GeSetGejStands
  <2>2. StandsGe(aff', Multiple[kjac]) /\ jac' = GejSetGe(aff') /\ kaff' = kjac /\ kjac' = kjac
    BY <1>17, <2>1 DEF ConvertToAffine
  <2>3. Stands(jac', Multiple[kjac])  BY <2>2, GejSetGeStands
  <2> QED  BY <1>2, <2>2, <2>3 DEF PointsStand
<1>18. CASE ConvertToAffineVar
  <2>1. StandsGe(GeSetGejVar(jac), Multiple[kjac])  BY <1>2, GeSetGejVarStands
  <2>2. /\ StandsGe(aff', Multiple[kjac]) /\ jac' = (IF jac.inf THEN jac ELSE GejSetGe(aff'))
        /\ kaff' = kjac /\ kjac' = kjac
    BY <1>18, <2>1 DEF ConvertToAffineVar
  <2>3. Stands(GejSetGe(aff'), Multiple[kjac])  BY <2>2, GejSetGeStands
  <2>4. Stands(jac', Multiple[kjac])  BY <1>2, <2>2, <2>3
  <2> QED  BY <1>2, <2>2, <2>4 DEF PointsStand
<1>19. CASE NegateA
  <2>1. StandsGe(NegY(aff), Opposite(Multiple[kaff]))  BY <1>2, NegYStandsGe
  <2>2. -kaff \in Int  BY <1>1
  <2>3. A(NegY(aff), -kaff)  BY <1>2, <2>1, <2>2, OppositeIs DEF A
  <2> QED  BY <1>19, <2>3, SetAStands DEF NegateA
<1>20. CASE MulLambdaA
  <2>1. StandsGe(MulLambda(aff), Rotated(Multiple[kaff]))  BY <1>2, MulLambdaStands
  <2>2. Lambda * kaff \in Int
    <3>1. Lambda \in Int  BY GroupAssumption
    <3> QED  BY <1>1, <3>1
  <2>3. A(MulLambda(aff), Lambda * kaff)  BY <1>2, <2>1, <2>2, RotatedIs DEF A
  <2> QED  BY <1>20, <2>3, SetAStands DEF MulLambdaA
<1>21. CASE StoreA
  <2>1. StandsGe(FromBytesExt(ToBytesExt(aff)), Multiple[kaff])  BY <1>1, <1>2, StoreStands
  <2>2. A(FromBytesExt(ToBytesExt(aff)), kaff)  BY <1>1, <2>1 DEF A
  <2> QED  BY <1>21, <2>2, SetAStands DEF StoreA
<1>22. CASE Parse33A
  <2>1. PICK b \in Forms33 :
            /\ Parses33(b)
            /\ SetA(Parse33(b),
                    KOf({<<b.x, y>> : y \in {e \in Elements : (e % 2 = 1) = (b.tag = "odd")}}))
    BY <1>22 DEF Parse33A, Forms33
  <2> DEFINE k == KOf({<<b.x, y>> : y \in {e \in Elements : (e % 2 = 1) = (b.tag = "odd")}})
  <2>2. k \in 0 .. N-1 /\ StandsGe(Parse33(b), Multiple[k])  BY <2>1, Parse33Stands
  <2>3. SetA(Parse33(b), k)  BY <2>1
  <2> HIDE DEF k
  <2>4. A(Parse33(b), k)  BY <2>2, SmallIndex DEF A
  <2> QED  BY <2>3, <2>4, SetAStands
<1>23. CASE Parse65A
  <2>1. PICK b \in Forms65 :
            /\ Parses65(b)
            /\ SetA(Parse65(b),
                    IF b.tag = "uncompressed" \/ (b.y % 2 = 1) = (b.tag = "hybrid_odd")
                    THEN KOf({<<b.x, b.y>>}) ELSE 0)
    BY <1>23 DEF Parse65A, Forms65
  <2> DEFINE k == KOf({<<b.x, b.y>>})
  <2>2. /\ b.tag = "uncompressed" \/ (b.y % 2 = 1) = (b.tag = "hybrid_odd")
        /\ k \in 0 .. N-1 /\ StandsGe(Parse65(b), Multiple[k])
    BY <2>1, Parse65Stands
  <2>3. SetA(Parse65(b), k)  BY <2>1, <2>2
  <2> HIDE DEF k
  <2>4. A(Parse65(b), k)  BY <2>2, SmallIndex DEF A
  <2> QED  BY <2>3, <2>4, SetAStands
<1>24. CASE UNCHANGED groupVars  BY <1>24 DEF PointsStand, groupVars
<1> QED
  BY <1>7, <1>8, <1>9, <1>10, <1>11, <1>12, <1>13, <1>14, <1>15, <1>16, <1>17, <1>18, <1>19,
     <1>20, <1>21, <1>22, <1>23, <1>24 DEF GroupNext

\* A point that stands for another has its coordinates, within the magnitudes.
LEMMA CoordinatesAre ==
    ASSUME NEW p, NEW pt, Stands(p, pt)
    PROVE  PointOf(p) = pt /\ IsGej(p)
<1>1. ASSUME NEW X, NEW Y, NEW Z, At(p, X, Y, Z) PROVE IsGej(p)
  <2>1. /\ X \in Int /\ Y \in Int /\ Z \in Int
        /\ Is(p.x, X, 4) /\ Is(p.y, Y, 4) /\ Is(p.z, Z, 1)
    BY <1>1 DEF At, Is
  <2>2. IsFe(p.x) /\ IsFe(p.y) /\ IsFe(p.z)  BY ONLY <2>1, Small, IsChecked
  <2> QED  BY <2>1, <2>2 DEF IsGej, Is
<1>2. CASE pt = None /\ p.inf = TRUE /\ \E X, Y, Z : At(p, X, Y, Z)
  BY <1>1, <1>2 DEF PointOf
<1>3. CASE \E x, y, z : pt = <<x, y>> /\ Finite(p, x, y, z)
  <2>1. PICK x, y, z : pt = <<x, y>> /\ Finite(p, x, y, z)  BY <1>3
  <2>2. /\ x \in Elements /\ y \in Elements /\ z \in Int /\ NonZero(z) /\ p.inf = FALSE
        /\ At(p, x * (z * z), y * (z * (z * z)), z) /\ x \in Int /\ y \in Int
        /\ x % P = x /\ y % P = y
    BY <2>1, SmallIs DEF Finite
  <2> DEFINE v == Inverses[z % P]
             X == x * (z * z)
             Y == y * (z * (z * z))
  <2>3. v \in Int /\ Same(z * v, 1)  BY <2>2, InverseOf
  <2>4. p.z.v = z % P /\ p.x.v = X % P /\ p.y.v = Y % P  BY <2>2 DEF At, Is
  <2>5. PointOf(p) = <<(p.x.v * v * v) % P, (p.y.v * v * v * v) % P>>
    BY <2>2, <2>4 DEF PointOf
  <2> HIDE DEF v
  <2>6. Same(X * (v * v), x) /\ Same(Y * (v * v * v), y)
    BY ONLY <2>2, <2>3, ScaledBack
  <2>7. X \in Int /\ Y \in Int  BY <2>2
  <2> HIDE DEF X, Y
  <2> DEFINE a == p.x.v
             b == p.y.v
  <2>8. a \in Int /\ b \in Int /\ Same(a, X) /\ Same(b, Y)
    BY <2>4, <2>7, Residue, SameResidue
  <2> HIDE DEF a, b
  <2>9. v * v \in Int /\ v * v * v \in Int /\ a * v * v = a * (v * v)
        /\ b * v * v * v = b * (v * v * v)
    BY ONLY <2>3, <2>8
  <2>10. Same(a * (v * v), X * (v * v)) /\ Same(b * (v * v * v), Y * (v * v * v))
    BY ONLY <2>7, <2>8, <2>9, SameScaled
  <2>11. (a * v * v) % P = x /\ (b * v * v * v) % P = y
    BY ONLY <2>2, <2>6, <2>9, <2>10 DEF Same
  <2>12. PointOf(p) = <<x, y>>  BY <2>5, <2>11 DEF a, b
  <2> QED  BY <1>1, <2>1, <2>2, <2>12
<1> QED  BY <1>2, <1>3 DEF Stands

\* The same for affine points.
LEMMA CoordinatesAreGe ==
    ASSUME NEW q, NEW pt, StandsGe(q, pt)
    PROVE  AffineOf(q) = pt /\ IsGe(q)
<1>1. ASSUME NEW X, NEW Y, AtGe(q, X, Y) PROVE IsGe(q)
  <2>1. X \in Int /\ Y \in Int /\ Is(q.x, X, 4) /\ Is(q.y, Y, 3)  BY <1>1 DEF AtGe, Is
  <2>2. IsFe(q.x) /\ IsFe(q.y)  BY ONLY <2>1, Small, IsChecked
  <2> QED  BY <2>1, <2>2 DEF IsGe, Is
<1>2. CASE pt = None /\ q.inf = TRUE /\ \E X, Y : AtGe(q, X, Y)
  BY <1>1, <1>2 DEF AffineOf
<1>3. CASE \E x, y : pt = <<x, y>> /\ FiniteGe(q, x, y)
  <2>1. PICK x, y : pt = <<x, y>> /\ FiniteGe(q, x, y)  BY <1>3
  <2>2. /\ x \in Elements /\ y \in Elements /\ q.inf = FALSE /\ AtGe(q, x, y)
        /\ x % P = x /\ y % P = y
    BY <2>1, SmallIs DEF FiniteGe
  <2>3. q.x.v = x /\ q.y.v = y  BY <2>2 DEF AtGe, Is
  <2> QED  BY <1>1, <2>1, <2>2, <2>3 DEF AffineOf
<1> QED  BY <1>2, <1>3 DEF StandsGe

\* Every sequence of the operations on points computes the group law, within
\* the magnitudes.
THEOREM GroupLawHolds == GroupSpec => []GroupLaw
<1>1. GroupInit => PointsStand  BY InitialPoints
<1>2. PointsStand /\ [GroupNext]_groupVars => PointsStand'  BY StepPoints
<1>3. PointsStand => GroupLaw  BY CoordinatesAre, CoordinatesAreGe DEF PointsStand, GroupLaw
<1> QED  BY <1>1, <1>2, <1>3, PTL DEF GroupSpec

-----------------------------------------------------------------------------
(* Comparisons *)

\* Different indices give different points.
LEMMA IndicesDiffer ==
    ASSUME NEW j \in 0 .. N-1, NEW k \in 0 .. N-1
    PROVE  /\ (Multiple[j] = Multiple[k]) <=> (j = k)
           /\ (k + -j) % N = 0 <=> j = k
<1>1. N \in Nat \ {0} /\ j \in Int /\ k \in Int /\ j % N = j /\ k % N = k  BY Multiples, SmallIndex
<1>2. (k + -j) % N = 0 <=> j = k
  <2>1. 0 % N = 0 /\ j + -j = 0  BY <1>1, Multiples, SmallIndex
  <2>2. ASSUME (k + -j) % N = 0 PROVE j = k
    <3> DEFINE d == k + -j
               q == d \div N
    <3>1. d \in Int /\ d > -N /\ d < N  BY <1>1
    <3>2. q \in Int /\ d = N * q + (d % N)  BY ONLY <1>1, <3>1, DivMod
    <3>3. d % N = 0  BY <2>2
    <3> HIDE DEF d, q
    <3>4. d = N * q  BY ONLY <1>1, <3>1, <3>2, <3>3
    <3>5. q = 0
      <4>1. CASE q >= 1
        <5>1. N * (q - 1) >= 0 /\ N * (q - 1) = N * q - N  BY ONLY <1>1, <3>2, <4>1
        <5> QED  BY ONLY <1>1, <3>1, <3>4, <5>1
      <4>2. CASE q <= -1
        <5>1. N * (-1 - q) >= 0 /\ N * (-1 - q) = -N - N * q  BY ONLY <1>1, <3>2, <4>2
        <5> QED  BY ONLY <1>1, <3>1, <3>4, <5>1
      <4> QED  BY <3>2, <4>1, <4>2
    <3>6. d = 0  BY ONLY <1>1, <3>4, <3>5
    <3> QED  BY ONLY <1>1, <3>6 DEF d
  <2> QED  BY <1>1, <2>1, <2>2
<1>3. ASSUME Multiple[j] = Multiple[k] PROVE j = k
  <2> DEFINE i == (-j) % N
  <2>1. RefAdd(Multiple[j % N], Multiple[i]) = Multiple[(j + -j) % N]
    BY <1>1, -j \in Int, Indices
  <2>2. RefAdd(Multiple[k % N], Multiple[i]) = Multiple[(k + -j) % N]
    BY <1>1, -j \in Int, Indices
  <2>3. (j + -j) % N = 0
    <3>1. j + -j = 0 /\ 0 % N = 0  BY <1>1, Multiples, SmallIndex
    <3> QED  BY <3>1
  <2> HIDE DEF i
  <2>4. Multiple[(k + -j) % N] = Multiple[0]  BY <1>1, <1>3, <2>1, <2>2, <2>3
  <2>5. (k + -j) % N \in 0 .. N-1
    <3>1. k + -j \in Int /\ 0 \in Int  BY <1>1
    <3> QED  BY <3>1, Indices
  <2>6. (k + -j) % N = 0  BY <2>4, <2>5, Multiples, CurveIsGroup
  <2> QED  BY <1>2, <2>6
<1> QED  BY <1>2, <1>3

\* The difference of two points is infinity exactly when they are the same.
LEMMA DifferenceIs ==
    ASSUME NEW j \in 0 .. N-1, NEW k \in 0 .. N-1, NEW r,
           Stands(r, RefAdd(Opposite(Multiple[j]), Multiple[k]))
    PROVE  r.inf = (j = k)
<1>1. j \in Int /\ k \in Int /\ k % N = k /\ -j \in Int  BY SmallIndex
<1>2. Opposite(Multiple[j]) = Multiple[(-j) % N]  BY OppositeIs
<1>3. RefAdd(Multiple[(-j) % N], Multiple[k % N]) = Multiple[(-j + k) % N]
  BY <1>1, Indices
<1>4. -j + k = k + -j /\ k + -j \in Int  BY <1>1
<1> DEFINE i == (k + -j) % N
<1>5. i \in 0 .. N-1  BY <1>4, Indices
<1>6. Stands(r, Multiple[i])  BY <1>1, <1>2, <1>3, <1>4
<1>7. i = 0 <=> j = k  BY IndicesDiffer
<1> HIDE DEF i
<1>8. r.inf \in BOOLEAN /\ (r.inf <=> Multiple[i] = None)  BY <1>6, InfinityIsNone
<1>9. Multiple[i] = None <=> i = 0  BY <1>5, Multiples
<1> QED  BY <1>7, <1>8, <1>9

\* secp256k1_gej_eq_var and secp256k1_gej_eq_ge_var.
LEMMA EqualGejs ==
    ASSUME NEW p, NEW q, NEW j \in 0 .. N-1, NEW k \in 0 .. N-1, Stands(p, Multiple[j])
    PROVE  /\ Stands(q, Multiple[k]) => GejEqVar(p, q) = (j = k)
           /\ StandsGe(q, Multiple[k]) => GejEqGeVar(p, q) = (j = k)
<1> DEFINE o == Opposite(Multiple[j])
<1>1. Stands(NegY(p), o)  BY NegYStands
<1>2. OnGroup(o)
  <2>1. o = Multiple[(-j) % N] /\ -j \in Int  BY OppositeIs, SmallIndex
  <2>2. (-j) % N \in 0 .. N-1  BY <2>1, Indices
  <2> QED  BY <2>1, <2>2, Multiples
<1> HIDE DEF o
<1>3. ASSUME Stands(q, Multiple[k]) PROVE GejEqVar(p, q) = (j = k)
  <2>1. Stands(AddVar(NegY(p), q), RefAdd(o, Multiple[k]))  BY <1>1, <1>2, <1>3, AddVarStands
  <2>2. AddVar(NegY(p), q).inf = (j = k)  BY <2>1, DifferenceIs DEF o
  <2> QED  BY <2>2 DEF GejEqVar
<1>4. ASSUME StandsGe(q, Multiple[k]) PROVE GejEqGeVar(p, q) = (j = k)
  <2>1. Stands(AddGeVar(NegY(p), q), RefAdd(o, Multiple[k]))
    BY <1>1, <1>2, <1>4, AddGeVarStands
  <2>2. AddGeVar(NegY(p), q).inf = (j = k)  BY <2>1, DifferenceIs DEF o
  <2> QED  BY <2>2 DEF GejEqGeVar
<1> QED  BY <1>3, <1>4

\* An element of magnitude 1 compared to one of any magnitude that a point has.
LEMMA EqualElements ==
    ASSUME NEW e, NEW f, NEW x \in Elements, NEW y \in Elements, Is(e, x, 1), Is(f, y, 4)
    PROVE  Equal(e, f) <=> x = y
<1>1. x \in Int /\ y \in Int /\ x % P = x /\ y % P = y  BY SmallIs
<1>2. Equal(e, f) <=> Same(x, y)  BY <1>1, Small, EqualIs
<1> QED  BY <1>1, <1>2 DEF Same

\* secp256k1_ge_eq_var.
LEMMA EqualGes ==
    ASSUME NEW p, NEW q, NEW pt, NEW qt, StandsGe(p, pt), StandsGe(q, qt)
    PROVE  GeEqVar(p, q) = (pt = qt)
<1>1. /\ p.inf \in BOOLEAN /\ (p.inf <=> pt = None)
      /\ q.inf \in BOOLEAN /\ (q.inf <=> qt = None)
  BY InfinityIsNone
<1>2. CASE p.inf \/ q.inf
  <2>1. GeEqVar(p, q) <=> pt = qt  BY <1>1, <1>2 DEF GeEqVar
  <2>2. GeEqVar(p, q) \in BOOLEAN  BY <1>1, <1>2 DEF GeEqVar
  <2> QED  BY <2>1, <2>2
<1>3. CASE ~p.inf /\ ~q.inf
  <2>1. PICK x, y : pt = <<x, y>> /\ FiniteGe(p, x, y)  BY <1>1, <1>3 DEF StandsGe
  <2>2. PICK u, v : qt = <<u, v>> /\ FiniteGe(q, u, v)  BY <1>1, <1>3 DEF StandsGe
  <2>3. /\ x \in Elements /\ y \in Elements /\ u \in Elements /\ v \in Elements
        /\ Is(p.x, x, 4) /\ Is(p.y, y, 3) /\ Is(q.x, u, 4) /\ Is(q.y, v, 3)
        /\ x \in Int /\ y \in Int /\ v \in Int
    BY <2>1, <2>2, SmallIs DEF FiniteGe, AtGe
  <2>4. Is(NormalizeWeak(p.x), x, 1) /\ Is(NormalizeWeak(p.y), y, 1)
    BY <2>3, Small, NormalizeWeakIs
  <2>5. Is(q.y, v, 4)  BY ONLY <2>3, Small, Widen
  <2>6. (Equal(NormalizeWeak(p.x), q.x) <=> x = u) /\ (Equal(NormalizeWeak(p.y), q.y) <=> y = v)
    BY ONLY <2>3, <2>4, <2>5, EqualElements
  <2>7. pt = qt <=> x = u /\ y = v  BY <2>1, <2>2
  <2>8. GeEqVar(p, q) = (x = u /\ y = v)
    <3>1. GeEqVar(p, q) = (Equal(NormalizeWeak(p.x), q.x) /\ Equal(NormalizeWeak(p.y), q.y))
      BY <1>1, <1>3 DEF GeEqVar
    <3>2. (Equal(NormalizeWeak(p.x), q.x) /\ Equal(NormalizeWeak(p.y), q.y)) = (x = u /\ y = v)
      BY ONLY <2>6
    <3> QED  BY ONLY <3>1, <3>2
  <2> QED  BY <2>7, <2>8
<1> QED  BY <1>2, <1>3

-----------------------------------------------------------------------------
(* Roots *)

\* The sum of exponents.
LEMMA PowersMultiply ==
    ASSUME NEW f, NEW y \in Int, NEW m \in Nat, ArePowers(f, y, m), NEW j \in 0 .. m
    PROVE  \A k \in 0 .. m - j : Same(f[j] * f[k], f[j + k])
<1> DEFINE Good == {k \in 0 .. m - j : Same(f[j] * f[k], f[j + k])}
<1>1. m - j \in Nat /\ f[j] \in Int /\ j \in Int  BY DEF ArePowers
<1>2. 0 \in Good
  <2>1. f[0] = 1 /\ f[j] * 1 = f[j] /\ j + 0 = j  BY <1>1 DEF ArePowers
  <2> QED  BY <1>1, <2>1 DEF Same
<1>3. ASSUME NEW k \in 0 .. (m - j) - 1, k \in Good PROVE k + 1 \in Good
  <2>1. /\ k + 1 \in 1 .. m /\ (k + 1) - 1 = k /\ k \in 0 .. m /\ k + 1 \in 0 .. m - j
        /\ (j + k) + 1 \in 1 .. m /\ j + k \in 0 .. m /\ ((j + k) + 1) - 1 = j + k
        /\ (j + k) + 1 = j + (k + 1)
    BY <1>1
  <2> DEFINE a == f[j]
             b == f[k]
             c == f[j + k]
             b1 == f[k + 1]
             c1 == f[j + (k + 1)]
  <2>2. b1 = (y * b) % P /\ c1 = (y * c) % P
    <3>1. f[k + 1] = (y * f[(k + 1) - 1]) % P /\ f[(j + k) + 1] = (y * f[((j + k) + 1) - 1]) % P
      BY ONLY <2>1, ArePowers(f, y, m) DEF ArePowers
    <3> QED  BY ONLY <2>1, <3>1
  <2>3. a \in Int /\ b \in Int /\ c \in Int  BY ONLY <2>1, <1>1, ArePowers(f, y, m) DEF ArePowers
  <2>4. Same(a * b, c)  BY <1>3
  <2> HIDE DEF a, b, c, b1, c1
  <2>5. y * b \in Int /\ y * c \in Int /\ a * b \in Int /\ a * (y * b) = (a * b) * y
        /\ y * c = c * y
    BY ONLY <2>3, y \in Int
  <2>6. Same(b1, y * b) /\ Same(c1, y * c) /\ b1 \in Int /\ c1 \in Int
    BY ONLY <2>2, <2>5, Residue, SameResidue
  <2>7. Same(a * b1, a * (y * b))
    <3>1. Same(a, a)  BY DEF Same
    <3> QED  BY ONLY <2>3, <2>5, <2>6, <3>1, SameProduct
  <2>8. Same((a * b) * y, c * y)  BY ONLY <2>3, <2>4, <2>5, y \in Int, SameScaled
  <2>9. Same(a * b1, c1)  BY ONLY <2>5, <2>6, <2>7, <2>8 DEF Same
  <2> QED  BY <2>1, <2>9 DEF a, b1, c1
<1> HIDE DEF Good
<1>4. \A k \in 0 .. m - j : k \in Good  BY ONLY <1>1, <1>2, <1>3, UpTo
<1> QED  BY <1>4 DEF Good

\* The powers of a square are the even powers.
LEMMA PowersOfSquare ==
    ASSUME NEW f, NEW g, NEW y \in Int, NEW a \in Int, NEW m \in Nat, NEW n \in Nat,
           ArePowers(f, y, m), ArePowers(g, a, n), 2 * n <= m, Same(a, y * y)
    PROVE  \A k \in 0 .. n : Same(g[k], f[2 * k])
<1> DEFINE Good == {k \in 0 .. n : Same(g[k], f[2 * k])}
<1>1. 0 \in Good  BY DEF Same, ArePowers
<1>2. ASSUME NEW k \in 0 .. n-1, k \in Good PROVE k + 1 \in Good
  <2> DEFINE i == 2 * k
  <2>1. /\ k + 1 \in 1 .. n /\ (k + 1) - 1 = k /\ k \in 0 .. n
        /\ i \in 0 .. m /\ i + 1 \in 1 .. m /\ (i + 1) - 1 = i /\ i + 2 \in 1 .. m
        /\ (i + 2) - 1 = i + 1 /\ 2 * (k + 1) = i + 2 /\ i + 1 \in 0 .. m
    OBVIOUS
  <2>2. Same(g[k], f[i])  BY <1>2
  <2> HIDE DEF i
  <2>3. g[k + 1] = (a * g[(k + 1) - 1]) % P  BY ONLY <2>1, ArePowers(g, a, n) DEF ArePowers
  <2>4. f[i + 1] = (y * f[(i + 1) - 1]) % P /\ f[i + 2] = (y * f[(i + 2) - 1]) % P
    BY ONLY <2>1, ArePowers(f, y, m) DEF ArePowers
  <2>5. g[k] \in Int /\ f[i] \in Int /\ f[i + 1] \in Int
    BY ONLY <2>1, ArePowers(f, y, m), ArePowers(g, a, n) DEF ArePowers
  <2> DEFINE b == g[k]
             c == f[i]
             c1 == f[i + 1]
             c2 == f[i + 2]
             b1 == g[k + 1]
  <2>6. b1 = (a * b) % P /\ c1 = (y * c) % P /\ c2 = (y * c1) % P /\ Same(b, c)
        /\ b \in Int /\ c \in Int /\ c1 \in Int
    BY ONLY <2>1, <2>2, <2>3, <2>4, <2>5
  <2> HIDE DEF b, c, c1, c2, b1
  <2>7. a * b \in Int /\ y * c \in Int /\ y * c1 \in Int /\ y * y \in Int
        /\ y * (y * c) = (y * y) * c /\ y * (y * c) \in Int
    BY ONLY <2>6, a \in Int, y \in Int
  <2>8. Same(b1, a * b) /\ Same(c1, y * c) /\ Same(c2, y * c1)
    BY ONLY <2>6, <2>7, SameResidue
  <2>9. Same(a * b, (y * y) * c)  BY ONLY <2>6, <2>7, a \in Int, Same(a, y * y), SameProduct
  <2>10. Same(y * c1, y * (y * c))
    <3>1. Same(y, y)  BY DEF Same
    <3> QED  BY ONLY <2>6, <2>7, <2>8, <3>1, y \in Int, SameProduct
  <2>11. Same(b1, c2)  BY ONLY <2>7, <2>8, <2>9, <2>10 DEF Same
  <2>12. Same(g[k + 1], f[2 * (k + 1)])  BY ONLY <2>1, <2>11 DEF b1, c2
  <2> QED  BY <2>1, <2>12
<1> HIDE DEF Good
<1>3. \A k \in 0 .. n : k \in Good  BY ONLY <1>1, <1>2, n \in Nat, UpTo
<1> QED  BY <1>3 DEF Good

\* What secp256k1_fe_sqrt computes of a square is a root.
LEMMA SquareHasRoot ==
    ASSUME NEW a \in Elements, NEW y \in Elements, y # 0, Same(y * y, a)
    PROVE  Powers[a] \in Int /\ Same(Powers[a] * Powers[a], a)
<1> DEFINE m == (P + 1) \div 4
           fp[k \in 0 .. P-1] == IF k = 0 THEN 1 ELSE (y * fp[k-1]) % P
           gp[k \in 0 .. m] == IF k = 0 THEN 1 ELSE (a * gp[k-1]) % P
<1>1. m \in Nat /\ 4 * m = P + 1 /\ m >= 1 /\ P - 1 \in Nat /\ 2 * m <= P - 1 /\ P \in Int
  BY FieldAssumption
<1>2. a \in Int /\ y \in Int /\ y \in 1 .. P-1
  <2>1. a \in Int /\ y \in Int  BY SmallIs
  <2> QED  BY <2>1 DEF Elements
<1>3. Powers[a] = gp[m]  BY DEF Powers
<1>4. fp[P-1] = 1  BY <1>2, FermatHolds
<1> HIDE DEF m
<1>5. ArePowers(fp, y, P-1) /\ ArePowers(gp, a, m)  BY ONLY <1>1, <1>2, PowersAre
<1> DEFINE f == fp
           g == gp
<1>6. ArePowers(f, y, P-1) /\ ArePowers(g, a, m) /\ f[P-1] = 1 /\ Powers[a] = g[m]
  BY <1>3, <1>4, <1>5
<1> HIDE DEF f, g
<1>7. Same(g[m], f[2 * m])
  <2>1. Same(a, y * y)  BY DEF Same
  <2>2. m \in 0 .. m  BY <1>1
  <2> QED  BY ONLY <1>1, <1>2, <1>6, <2>1, <2>2, PowersOfSquare
<1> DEFINE i == 2 * m
<1>8. /\ i \in 0 .. P-1 /\ i - 2 \in 0 .. P-1 /\ 2 \in 0 .. (P-1) - (i - 2) /\ (i - 2) + 2 = i
      /\ i - 2 \in 0 .. (P-1) - i /\ i + (i - 2) = P - 1 /\ 2 \in 1 .. P-1 /\ 1 \in 1 .. P-1
      /\ 2 - 1 = 1 /\ 1 - 1 = 0 /\ 0 \in 0 .. P-1 /\ 2 \in 0 .. P-1
  BY ONLY <1>1
<1> HIDE DEF i
<1> DEFINE c == f[i]
           d == f[i - 2]
           e == f[2]
           w == g[m]
<1>9. c \in Int /\ d \in Int /\ e \in Int /\ w \in Int
  <2>1. m \in 0 .. m  BY <1>1
  <2> QED  BY ONLY <1>6, <1>8, <2>1 DEF ArePowers
<1>10. Same(d * e, c)  BY ONLY <1>1, <1>2, <1>6, <1>8, PowersMultiply
<1>11. Same(c * d, 1)
  <2>1. Same(f[i] * f[i - 2], f[i + (i - 2)])  BY ONLY <1>1, <1>2, <1>6, <1>8, PowersMultiply
  <2> QED  BY ONLY <1>6, <1>8, <2>1
<1>12. Same(e, y * y)
  <2>1. f[2] = (y * f[2 - 1]) % P /\ f[1] = (y * f[1 - 1]) % P /\ f[0] = 1
    BY ONLY <1>6, <1>8 DEF ArePowers
  <2>2. f[1] = y
    <3>1. y * 1 = y /\ y % P = y  BY <1>2, SmallIs
    <3> QED  BY ONLY <1>8, <2>1, <3>1
  <2>3. e = (y * y) % P  BY ONLY <1>8, <2>1, <2>2
  <2>4. y * y \in Int  BY <1>2
  <2> QED  BY <2>3, <2>4, SameResidue
<1>13. Same(w, c)  BY <1>7 DEF i
<1> HIDE DEF c, d, e, w
<1>14. Same(w * w, c * c)  BY ONLY <1>9, <1>13, SameProduct
<1>15. Same(c * c, c * (d * e))
  <2>1. Same(c, d * e) /\ Same(c, c) /\ d * e \in Int  BY <1>9, <1>10 DEF Same
  <2> QED  BY ONLY <1>9, <2>1, SameProduct
<1>16. Same((c * d) * e, 1 * (y * y))
  <2>1. c * d \in Int /\ 1 \in Int /\ y * y \in Int  BY <1>2, <1>9
  <2> QED  BY ONLY <1>9, <1>11, <1>12, <2>1, SameProduct
<1>17. (c * d) * e = c * (d * e) /\ 1 * (y * y) = y * y  BY ONLY <1>2, <1>9
<1>18. Same(w * w, a)  BY ONLY <1>14, <1>15, <1>16, <1>17, Same(y * y, a) DEF Same
<1> QED  BY <1>6, <1>9, <1>18 DEF w

-----------------------------------------------------------------------------
(* What is read off points *)

\* secp256k1_ge_is_valid_var.
LEMMA ValidIs ==
    ASSUME NEW q, NEW pt, StandsGe(q, pt), OnGroup(pt)
    PROVE  GeIsValid(q) = ~q.inf
<1>1. q.inf \in BOOLEAN /\ (q.inf <=> pt = None)  BY InfinityIsNone
<1>2. CASE pt = None  BY <1>1, <1>2 DEF GeIsValid
<1>3. CASE pt # None
  <2>1. PICK x, y : pt = <<x, y>> /\ FiniteGe(q, x, y)  BY <1>3 DEF StandsGe
  <2>2. /\ x \in Int /\ y \in Int /\ OnCurve(x, y) /\ Is(q.x, x, 4) /\ Is(q.y, y, 3)
        /\ y * y \in Int
    BY <1>3, <2>1, PointTypes DEF OnGroup, FiniteGe, AtGe
  <2> DEFINE c == AddInt(Cube(q.x), B)
  <2>3. Is(c, CubeOf(x), 2) /\ CubeOf(x) \in Int  BY <2>2, CubeIs
  <2>4. Is(Sqr(q.y), y * y, 1)  BY <2>2, Small, SqrIs
  <2>5. GeIsValid(q) = (~q.inf /\ Equal(Sqr(q.y), c))  BY DEF GeIsValid
  <2> HIDE DEF c
  <2>6. Equal(Sqr(q.y), c) <=> Same(y * y, CubeOf(x))
    BY ONLY <2>2, <2>3, <2>4, Small, EqualIs
  <2>7. Equal(Sqr(q.y), c)  BY <2>2, <2>6 DEF OnCurve, CubeOf
  <2> QED  BY <1>1, <1>3, <2>5, <2>7
<1> QED  BY <1>2, <1>3

\* The X coordinates of points are those whose power is a root.
LEMMA RootOnCurve ==
    ASSUME NEW x, NEW y, <<x, y>> \in Points
    PROVE  OnCurve(x, RootOf(x))
<1>1. /\ x \in Elements /\ y \in Elements /\ x \in Int /\ y \in Int /\ y # 0
      /\ Same(y * y, CubeOf(x))
  BY PointTypes DEF OnCurve, CubeOf
<1> DEFINE a == CubeOf(x) % P
<1>2. CubeOf(x) \in Int
  <2>1. B \in Int  BY GroupAssumption
  <2> QED  BY <1>1, <2>1 DEF CubeOf
<1>3. a \in Elements /\ Same(a, CubeOf(x))  BY <1>2, Residue, SameResidue
<1> HIDE DEF a
<1>4. Same(y * y, a)  BY <1>1, <1>3 DEF Same
<1>5. Same(Powers[a] * Powers[a], a)  BY <1>1, <1>3, <1>4, SquareHasRoot
<1>6. RootOf(x) = Powers[a]  BY DEF RootOf, a
<1>7. Same(RootOf(x) * RootOf(x), CubeOf(x))  BY ONLY <1>3, <1>5, <1>6 DEF Same
<1> QED  BY <1>7 DEF OnCurve, CubeOf

\* Both serializations of a point are accepted, and read back as the point.
LEMMA SerializedIs ==
    ASSUME NEW q, NEW pt \in Points, StandsGe(q, pt)
    PROVE  /\ Parses33(Serialize33(q)) /\ StandsGe(Parse33(Serialize33(q)), pt)
           /\ Parses65(Serialize65(q)) /\ StandsGe(Parse65(Serialize65(q)), pt)
<1>1. q.inf = FALSE /\ pt # None
  <2>1. q.inf \in BOOLEAN /\ (q.inf <=> pt = None)  BY InfinityIsNone
  <2> QED  BY <2>1, Multiples
<1>2. PICK x, y : pt = <<x, y>> /\ FiniteGe(q, x, y)  BY <1>1 DEF StandsGe
<1>3. /\ x \in Elements /\ y \in Elements /\ x \in Int /\ y \in Int /\ OnCurve(x, y)
      /\ Is(q.x, x, 4) /\ Is(q.y, y, 3) /\ <<x, y>> \in Points /\ x < P /\ y < P
  <2>1. x \in Elements /\ y \in Elements /\ OnCurve(x, y)  BY <1>2, PointTypes
  <2>2. x < P /\ y < P  BY <2>1, OrderOfField DEF Elements
  <2> QED  BY <1>2, <2>1, <2>2, SmallIs DEF FiniteGe, AtGe
<1> DEFINE ex == Normalize(q.x)
           ey == Normalize(q.y)
           odd == y % 2 = 1
<1>4. ex.v = x /\ ey.v = y /\ ey.n = TRUE
  <2>1. Is(ex, x, 1) /\ Is(ey, y, 1) /\ ey.n = TRUE  BY <1>3, Small, NormalizeIs
  <2> QED  BY <1>3, <2>1, SmallIs DEF Is
<1>5. Serialize33(q) = [tag |-> IF IsOdd(ey) THEN "odd" ELSE "even", x |-> ex.v]
  BY <1>1 DEF Serialize33
<1>6. Serialize65(q) = [tag |-> "uncompressed", x |-> ex.v, y |-> ey.v]  BY DEF Serialize65
<1>7. IsOdd(ey) <=> odd  BY <1>4 DEF IsOdd
<1> HIDE DEF ex, ey
<1>8. Parses33(Serialize33(q)) /\ StandsGe(Parse33(Serialize33(q)), pt)
  <2> DEFINE b == Serialize33(q)
  <2>1. b.tag \in {"even", "odd"} /\ b.x = x /\ (b.tag = "odd") = odd
    <3>1. CASE odd
      <4>1. b = [tag |-> "odd", x |-> x]  BY <1>4, <1>5, <1>7, <3>1
      <4> QED  BY <3>1, <4>1
    <3>2. CASE ~odd
      <4>1. b = [tag |-> "even", x |-> x]  BY <1>4, <1>5, <1>7, <3>2
      <4> QED  BY <3>2, <4>1
    <3> QED  BY <3>1, <3>2
  <2>2. odd \in BOOLEAN  OBVIOUS
  <2> HIDE DEF b, odd
  <2>3. OnCurve(x, RootOf(x))  BY <1>3, RootOnCurve
  <2>4. XIsLifted(Stored(x))  BY <1>3, <2>3, LiftedIs
  <2>5. Parses33(b)  BY <1>3, <2>1, <2>4 DEF Parses33
  <2>6. Parse33(b) = LiftX(Stored(x), odd)  BY <2>1 DEF Parse33
  <2> DEFINE r == ParityRoot(x, odd)
  <2>7. StandsGe(LiftX(Stored(x), odd), <<x, r>>)  BY <1>3, <2>2, <2>3, LiftStands
  <2>8. <<x, r>> \in Points /\ ((r % 2 = 1) <=> odd)  BY <1>3, <2>2, <2>3, ParityRootIs
  <2> HIDE DEF r
  <2>9. (r % 2 = 1) <=> (y % 2 = 1)  BY <2>8 DEF odd
  <2>10. r = y  BY <1>3, <2>8, <2>9, RootsByParity
  <2>11. StandsGe(Parse33(b), pt)  BY <1>2, <2>6, <2>7, <2>10
  <2> QED  BY <2>5, <2>11 DEF b
<1>9. Parses65(Serialize65(q)) /\ StandsGe(Parse65(Serialize65(q)), pt)
  <2> DEFINE b == Serialize65(q)
             ge == GeSetXY(Stored(x), Stored(y))
  <2>1. b.tag = "uncompressed" /\ b.x = x /\ b.y = y  BY <1>4, <1>6
  <2>2. StandsGe(ge, pt)  BY <1>2, <1>3, StoredStands
  <2>3. OnGroup(pt) /\ ge.inf = FALSE  BY DEF OnGroup, GeSetXY
  <2> HIDE DEF b
  <2>4. GeIsValid(ge)
    <3> HIDE DEF ge
    <3>1. GeIsValid(ge) = ~ge.inf  BY <2>2, <2>3, ValidIs
    <3> QED  BY <2>3, <3>1
  <2>5. Parses65(b)  BY <1>3, <2>1, <2>4 DEF Parses65
  <2>6. Parse65(b) = ge  BY <2>1 DEF Parse65
  <2> QED  BY <2>2, <2>5, <2>6 DEF b
<1> QED  BY <1>8, <1>9

\* Two points with the same X coordinate are the same or opposite.
LEMMA SameXs ==
    ASSUME NEW x, NEW y, NEW u, NEW v, <<x, y>> \in Points, <<u, v>> \in Points
    PROVE  x = u <=> <<x, y>> \in {<<u, v>>, Opposite(<<u, v>>)}
<1>1. /\ x \in Elements /\ y \in Elements /\ x \in Int /\ y \in Int /\ y # 0 /\ OnCurve(x, y)
      /\ u \in Elements /\ v \in Elements /\ u \in Int /\ v \in Int /\ v # 0 /\ OnCurve(u, v)
  BY PointTypes
<1>2. Opposite(<<u, v>>) = <<u, (-v) % P>>
  <2>1. <<u, v>> # None /\ <<u, v>>[1] = u /\ <<u, v>>[2] = v  BY PairIsNoNone
  <2> QED  BY <2>1 DEF Opposite
<1>3. <<x, y>> \in {<<u, v>>, <<u, (-v) % P>>} => x = u  OBVIOUS
<1>4. ASSUME x = u, y # v PROVE y = (-v) % P
  <2>1. Same(v * v, y * y)  BY <1>1, <1>4 DEF OnCurve, Same
  <2>2. Same(v + y, 0)  BY <1>1, <1>4, <2>1, RootsOpposite
  <2>3. Same((v + y) - v, 0 - v)
    <3> DEFINE s == v + y
    <3>1. s \in Int /\ Same(s, 0) /\ Same(v, v)  BY <1>1, <2>2 DEF Same
    <3> HIDE DEF s
    <3>2. Same(s - v, 0 - v)  BY ONLY <1>1, <3>1, 0 \in Int, SameSum
    <3> QED  BY <3>2 DEF s
  <2>4. (v + y) - v = y /\ 0 - v = -v  BY ONLY <1>1
  <2>5. y % P = y  BY <1>1, SmallIs
  <2> QED  BY ONLY <2>3, <2>4, <2>5 DEF Same
<1> QED  BY <1>2, <1>3, <1>4

\* secp256k1_gej_eq_x_var.
LEMMA EqualXs ==
    ASSUME NEW p, NEW q, NEW j \in 0 .. N-1, NEW k \in 0 .. N-1,
           Stands(p, Multiple[j]), StandsGe(q, Multiple[k]), ~p.inf, ~q.inf
    PROVE  GejEqXVar(q.x, p) = (j \in {k, (-k) % N})
<1>1. Multiple[j] # None /\ Multiple[k] # None  BY InfinityIsNone
<1>2. PICK x, y, z : Multiple[j] = <<x, y>> /\ Finite(p, x, y, z)  BY <1>1 DEF Stands
<1>3. PICK u, v : Multiple[k] = <<u, v>> /\ FiniteGe(q, u, v)  BY <1>1 DEF StandsGe
<1>4. <<x, y>> \in Points /\ <<u, v>> \in Points  BY <1>1, <1>2, <1>3, Multiples DEF OnGroup
<1>5. /\ x \in Elements /\ z \in Int /\ NonZero(z) /\ Is(p.x, x * (z * z), 4) /\ Is(p.z, z, 1)
      /\ u \in Elements /\ Is(q.x, u, 4) /\ x \in Int /\ u \in Int
  BY <1>2, <1>3, SmallIs DEF Finite, At, FiniteGe, AtGe
<1> DEFINE m == z * z
<1>6. m \in Int /\ NonZero(m) /\ x * m \in Int /\ m * u \in Int
  <2>1. m \in Int  BY ONLY <1>5
  <2>2. NonZero(m)  BY ONLY <1>5, NoZeroDivisors
  <2> HIDE DEF m
  <2> QED  BY ONLY <1>5, <2>1, <2>2
<1>7. Is(Sqr(p.z), m, 1)  BY <1>5, Small, SqrIs
<1>8. Is(p.x, x * m, 4)  BY <1>5
<1> HIDE DEF m
<1>9. Is(Mul(Sqr(p.z), q.x), m * u, 1)  BY <1>5, <1>6, <1>7, Small, MulIs
<1>10. Equal(Mul(Sqr(p.z), q.x), p.x) <=> Same(m * u, x * m)
  BY ONLY <1>6, <1>8, <1>9, Small, EqualIs
<1>11. Same(m * u, x * m) <=> x = u
  <2>1. Same((u - x) * m, 0) <=> x = u  BY ONLY <1>5, <1>6, DifferenceZero
  <2>2. (u - x) * m = m * u - x * m /\ (u - x) * m \in Int  BY ONLY <1>5, <1>6
  <2>3. ASSUME Same((u - x) * m, 0) PROVE Same(m * u, x * m)
    BY <2>1, <2>3, <1>5, <1>6 DEF Same
  <2>4. ASSUME Same(m * u, x * m) PROVE Same((u - x) * m, 0)
    <3>1. Same(m * u - x * m, x * m - x * m)
      <4>1. Same(x * m, x * m)  BY DEF Same
      <4> QED  BY ONLY <1>6, <2>4, <4>1, SameSum
    <3>2. x * m - x * m = 0  BY <1>6
    <3> QED  BY <2>2, <3>1, <3>2
  <2> QED  BY <2>1, <2>3, <2>4
<1>12. x = u <=> Multiple[j] \in {Multiple[k], Multiple[(-k) % N]}
  <2>1. Opposite(<<u, v>>) = Multiple[(-k) % N]  BY <1>3, OppositeIs
  <2>2. x = u <=> <<x, y>> \in {<<u, v>>, Opposite(<<u, v>>)}  BY <1>4, SameXs
  <2> QED  BY <1>2, <1>3, <2>1, <2>2
<1>13. (-k) % N \in 0 .. N-1
  <2>1. -k \in Int /\ 0 \in Int  BY SmallIndex
  <2> QED  BY <2>1, Indices
<1>14. /\ Multiple[j] = Multiple[k] <=> j = k
       /\ Multiple[j] = Multiple[(-k) % N] <=> j = (-k) % N
  BY <1>13, IndicesDiffer
<1>15. GejEqXVar(q.x, p) <=> j \in {k, (-k) % N}
  BY <1>10, <1>11, <1>12, <1>14 DEF GejEqXVar
<1>16. GejEqXVar(q.x, p) \in BOOLEAN  BY DEF GejEqXVar, Equal
<1> QED  BY <1>15, <1>16

\* What secp256k1_ge_x_frac_on_curve_var takes the power of.
LEMMA FractionIs ==
    ASSUME NEW n, NEW d, NEW x \in Int, NEW m \in Int, Is(n, x * m, 1), Is(d, m, 1)
    PROVE  Is(Add(Mul(Mul(d, n), Sqr(n)), MulInt(Sqr(Sqr(d)), B)),
              ((m * m) * (m * m)) * CubeOf(x), 9)
<1> DEFINE u == x * m
           r == m * m
<1>1. u \in Int /\ r \in Int /\ m * u \in Int /\ u * u \in Int /\ r * r \in Int
  OBVIOUS
<1>2. B \in Nat /\ B \in Int /\ B \in 0 .. 8 /\ 1 * B = B /\ B \in Limits /\ B <= 8 /\ 9 \in Limits
      /\ (r * r) * B \in Int
  BY <1>1, GroupAssumption DEF Limits
<1>3. Is(n, u, 1)  OBVIOUS
<1>4. Is(Sqr(d), r, 1)  BY Small, SqrIs
<1> HIDE DEF u, r
<1>5. Is(Mul(d, n), m * u, 1)  BY <1>1, <1>3, Small, MulIs
<1>6. Is(Sqr(n), u * u, 1)  BY <1>1, <1>3, Small, SqrIs
<1>7. Is(Mul(Mul(d, n), Sqr(n)), (m * u) * (u * u), 1)
  BY ONLY <1>1, <1>5, <1>6, Small, MulIs
<1>8. Is(Sqr(Sqr(d)), r * r, 1)  BY ONLY <1>1, <1>4, Small, SqrIs
<1> DEFINE e == MulInt(Sqr(Sqr(d)), B)
           f == Mul(Mul(d, n), Sqr(n))
           s == (r * r) * B
           t == (m * u) * (u * u)
<1>9. Is(e, s, B)
  <2>1. Is(e, s, 1 * B)  BY ONLY <1>1, <1>2, <1>8, Small, MulIntIs
  <2> QED  BY <1>2, <2>1
<1>10. s \in Int /\ t \in Int /\ Is(f, t, 1)  BY <1>1, <1>2, <1>7
<1> HIDE DEF e, f, s, t
<1>11. Is(e, s, 8)  BY ONLY <1>2, <1>9, <1>10, Small, Widen
<1>12. Is(Add(f, e), t + s, 9)
  <2>1. 1 + 8 = 9 /\ 1 + 8 <= 32  OBVIOUS
  <2>2. Is(Add(f, e), t + s, 1 + 8)  BY ONLY <1>10, <1>11, <2>1, Small, AddIs
  <2> QED  BY <2>1, <2>2
<1>13. t + s = ((m * m) * (m * m)) * CubeOf(x)
  <2>1. t = ((m * m) * (m * m)) * (x * x * x)  BY DEF t, u
  <2>2. s = ((m * m) * (m * m)) * B  BY DEF s, r
  <2> DEFINE a == (m * m) * (m * m)
             b == x * x * x
  <2>3. a \in Int /\ b \in Int  OBVIOUS
  <2>4. t = a * b /\ s = a * B /\ CubeOf(x) = b + B  BY <2>1, <2>2 DEF CubeOf
  <2> HIDE DEF a, b
  <2>5. t + s = a * CubeOf(x)  BY ONLY <1>2, <2>3, <2>4
  <2> QED  BY <2>5 DEF a
<1> QED  BY <1>12, <1>13 DEF e, f

\* The power of a number is a root of it exactly when the number times a square
\* has a root.
LEMMA ScaledSquare ==
    ASSUME NEW a \in Elements, NEW r \in Int, NEW c \in Int, NonZero(r), Same(a, (r * r) * c)
    PROVE  /\ Same(Powers[a] * Powers[a], a) => \E y \in Elements : Same(y * y, c)
           /\ \A y \in Elements : y # 0 /\ Same(y * y, c) => Same(Powers[a] * Powers[a], a)
<1>1. a \in Int  BY SmallIs
<1>2. ASSUME Same(Powers[a] * Powers[a], a) PROVE \E y \in Elements : Same(y * y, c)
  <2> DEFINE w == Powers[a]
             v == Inverses[r % P]
             y == (w * v) % P
  <2>1. w \in Int /\ v \in Int /\ Same(r * v, 1)  BY PowersType, InverseOf
  <2>2. Same(w * w, a)  BY <1>2
  <2> HIDE DEF w, v
  <2>3. w * v \in Int /\ w * w \in Int /\ r * v \in Int /\ v * v \in Int /\ (r * r) * c \in Int
        /\ (r * v) * (r * v) \in Int
    BY ONLY <2>1, r \in Int, c \in Int
  <2>4. y \in Elements /\ y \in Int /\ Same(y, w * v)  BY <2>3, Residue, SameResidue
  <2> HIDE DEF y
  <2>5. Same(y * y, (w * v) * (w * v))  BY ONLY <2>3, <2>4, SameProduct
  <2>6. (w * v) * (w * v) = (w * w) * (v * v)  BY ONLY <2>1
  <2>7. Same(w * w, (r * r) * c)  BY ONLY <2>2, Same(a, (r * r) * c) DEF Same
  <2>8. Same((w * w) * (v * v), ((r * r) * c) * (v * v))
    BY ONLY <2>3, <2>7, SameScaled
  <2>9. ((r * r) * c) * (v * v) = ((r * v) * (r * v)) * c  BY ONLY <2>1, r \in Int, c \in Int
  <2>10. Same((r * v) * (r * v), 1 * 1)  BY ONLY <2>1, <2>3, 1 \in Int, SameProduct
  <2>11. Same(((r * v) * (r * v)) * c, (1 * 1) * c)
    BY ONLY <2>3, <2>10, 1 * 1 \in Int, c \in Int, SameScaled
  <2>12. (1 * 1) * c = c  OBVIOUS
  <2>13. Same(y * y, c)  BY ONLY <2>5, <2>6, <2>8, <2>9, <2>11, <2>12 DEF Same
  <2> QED  BY <2>4, <2>13
<1>3. ASSUME NEW y \in Elements, y # 0, Same(y * y, c) PROVE Same(Powers[a] * Powers[a], a)
  <2> DEFINE w == (y * r) % P
  <2>1. y \in Int /\ NonZero(y)  BY <1>3, SmallIs, ElementNonZero
  <2>2. y * r \in Int /\ NonZero(y * r)  BY <2>1, NoZeroDivisors
  <2>3. w \in Elements /\ w \in Int /\ Same(w, y * r)  BY <2>2, Residue, SameResidue
  <2> HIDE DEF w
  <2>4. w # 0
    <3>1. NonZero(w)  BY <2>2, <2>3 DEF NonZero, Same
    <3> QED  BY <2>3, <3>1, ElementNonZero
  <2>5. Same(w * w, (y * r) * (y * r))  BY ONLY <2>2, <2>3, SameProduct
  <2>6. (y * r) * (y * r) = (y * y) * (r * r) /\ (r * r) * c = c * (r * r)
        /\ y * y \in Int /\ r * r \in Int
    BY ONLY <2>1, r \in Int, c \in Int
  <2>7. Same((y * y) * (r * r), c * (r * r))
    BY ONLY <2>6, c \in Int, Same(y * y, c), SameScaled
  <2>8. Same(w * w, a)  BY ONLY <2>5, <2>6, <2>7, Same(a, (r * r) * c) DEF Same
  <2> QED  BY ONLY <2>3, <2>4, <2>8, a \in Elements, SquareHasRoot
<1> QED  BY <1>2, <1>3

\* secp256k1_ge_x_frac_on_curve_var.
LEMMA FractionsSound ==
    ASSUME NEW p, NEW pt, Stands(p, pt), ~p.inf, NEW x \in Elements
    PROVE  XFracOnCurve(Mul(Stored(x), Sqr(p.z)), Sqr(p.z)) = (\E y : <<x, y>> \in Points)
<1>1. pt # None  BY InfinityIsNone
<1>2. PICK x0, y0, z : pt = <<x0, y0>> /\ Finite(p, x0, y0, z)  BY <1>1 DEF Stands
<1>3. z \in Int /\ NonZero(z) /\ Is(p.z, z, 1) /\ x \in Int /\ Is(Stored(x), x, 1)
  BY <1>2, SmallIs DEF Finite, At
<1> DEFINE m == z * z
           r == m * m
           n == Mul(Stored(x), Sqr(p.z))
           d == Sqr(p.z)
           e == Add(Mul(Mul(d, n), Sqr(n)), MulInt(Sqr(Sqr(d)), B))
<1>4. m \in Int /\ NonZero(m) /\ r \in Int /\ NonZero(r)
  <2>1. m \in Int /\ NonZero(m)  BY <1>3, NoZeroDivisors
  <2> QED  BY <2>1, NoZeroDivisors
<1>5. Is(d, m, 1)  BY <1>3, Small, SqrIs
<1>6. XFracOnCurve(Mul(Stored(x), Sqr(p.z)), Sqr(p.z)) = IsSquare(e)  BY DEF XFracOnCurve
<1> HIDE DEF m
<1>7. Is(n, x * m, 1)
  <2> HIDE DEF d
  <2>1. Is(Mul(Stored(x), d), x * m, 1)  BY <1>3, <1>4, <1>5, Small, MulIs
  <2> QED  BY <2>1 DEF d
<1> HIDE DEF n, d
<1>8. Is(e, (r * r) * CubeOf(x), 9)  BY <1>3, <1>4, <1>5, <1>7, FractionIs
<1> HIDE DEF r, e
<1> DEFINE c == CubeOf(x)
           a == e.v
<1>9. c \in Int /\ (r * r) * c \in Int /\ 9 \in Limits
  <2>1. B \in Int  BY GroupAssumption
  <2>2. c \in Int  BY <1>3, <2>1 DEF CubeOf
  <2> HIDE DEF c
  <2> QED  BY <1>4, <2>2 DEF Limits
<1> HIDE DEF c
<1>10. Is(e, (r * r) * c, 9)  BY <1>8 DEF c
<1>11. IsFe(e)  BY ONLY <1>9, <1>10, IsChecked
<1>12. a = ((r * r) * c) % P  BY <1>10 DEF Is
<1>13. a \in Elements /\ a \in Int /\ a % P = a /\ Same(a, (r * r) * c)
  <2>1. a \in Elements /\ a \in Int /\ Same(a, (r * r) * c)
    BY ONLY <1>9, <1>12, Residue, SameResidue
  <2> QED  BY <2>1, SmallIs
<1>14. IsSquare(e) = (Same(Powers[a] * Powers[a], a))  BY <1>11, <1>13 DEF IsSquare, Same
<1> HIDE DEF a
<1>15. ASSUME Same(Powers[a] * Powers[a], a) PROVE \E y : <<x, y>> \in Points
  <2>1. PICK y \in Elements : Same(y * y, c)  BY ONLY <1>4, <1>9, <1>13, <1>15, ScaledSquare
  <2>2. OnCurve(x, y)  BY <2>1 DEF OnCurve, c, CubeOf
  <2> QED  BY <2>1, <2>2, PointsAre
<1>16. ASSUME NEW y, <<x, y>> \in Points PROVE Same(Powers[a] * Powers[a], a)
  <2>1. y \in Elements /\ y # 0 /\ OnCurve(x, y)  BY <1>16, PointTypes
  <2>2. Same(y * y, c)  BY <2>1 DEF OnCurve, c, CubeOf
  <2> QED  BY ONLY <1>4, <1>9, <1>13, <2>1, <2>2, ScaledSquare
<1>17. Same(Powers[a] * Powers[a], a) <=> \E y : <<x, y>> \in Points  BY <1>15, <1>16
<1>18. Same(Powers[a] * Powers[a], a) \in BOOLEAN  BY DEF Same
<1> QED  BY ONLY <1>6, <1>14, <1>17, <1>18

\* The invariant gives every comparison its meaning.
LEMMA ComparisonsHold ==
    ASSUME PointsStand
    PROVE  ComparisonsSound
<1>1. /\ kjac \in 0 .. N-1 /\ Stands(jac, Multiple[kjac])
      /\ kaff \in 0 .. N-1 /\ StandsGe(aff, Multiple[kaff])
      /\ OnGroup(Multiple[kjac]) /\ OnGroup(Multiple[kaff])
      /\ jac.inf \in BOOLEAN /\ aff.inf \in BOOLEAN
      /\ aff.inf <=> Multiple[kaff] = None
  BY ForMultiples, InfinityIsNone DEF PointsStand
<1>2. GejEqGeVar(jac, aff) = (kjac = kaff)
  <2>1. /\ kjac \in 0 .. N-1 /\ Stands(jac, Multiple[kjac])
        /\ kaff \in 0 .. N-1 /\ StandsGe(aff, Multiple[kaff])
    BY ONLY <1>1
  <2> QED  BY ONLY <2>1, EqualGejs
<1>3. ASSUME NEW q \in Operands PROVE GejEqVar(jac, q[1]) = (kjac = q[2] % N)
  <2> DEFINE p == q[1]
             k == q[2] % N
  <2>1. k \in 0 .. N-1 /\ Stands(p, Multiple[k])
    <3>1. R(q[1], q[2])  BY OperandsStand
    <3>2. q[2] \in Int /\ 0 \in Int  BY <3>1 DEF R
    <3> QED  BY <3>1, <3>2, Indices DEF R
  <2> HIDE DEF p, k
  <2>2. GejEqVar(jac, p) = (kjac = k)  BY ONLY <1>1, <2>1, EqualGejs
  <2> QED  BY <2>2 DEF p, k
<1>4. GeEqVar(aff, GeSetGejVar(jac)) = (kjac = kaff)
  <2>1. StandsGe(GeSetGejVar(jac), Multiple[kjac])  BY <1>1, GeSetGejVarStands
  <2>2. GeEqVar(aff, GeSetGejVar(jac)) = (Multiple[kaff] = Multiple[kjac])
    BY ONLY <1>1, <2>1, EqualGes
  <2>3. Multiple[kaff] = Multiple[kjac] <=> kaff = kjac  BY <1>1, IndicesDiffer
  <2> QED  BY <2>2, <2>3
<1>5. GeIsValid(aff) = ~aff.inf  BY ONLY <1>1, ValidIs
<1>6. ASSUME ~aff.inf
      PROVE  /\ Parses33(Serialize33(aff))
             /\ GeEqVar(Parse33(Serialize33(aff)), Parse65(Serialize65(aff)))
             /\ Parses65(Serialize65(aff)) /\ GeEqVar(aff, Parse65(Serialize65(aff)))
  <2> DEFINE pt == Multiple[kaff]
             q33 == Parse33(Serialize33(aff))
             q65 == Parse65(Serialize65(aff))
  <2>1. pt \in Points /\ StandsGe(aff, pt)  BY <1>1, <1>6 DEF OnGroup
  <2> HIDE DEF pt
  <2>2. /\ Parses33(Serialize33(aff)) /\ StandsGe(q33, pt)
        /\ Parses65(Serialize65(aff)) /\ StandsGe(q65, pt)
    BY ONLY <2>1, SerializedIs
  <2> HIDE DEF q33, q65
  <2>3. GeEqVar(q33, q65) = (pt = pt) /\ GeEqVar(aff, q65) = (pt = pt)
    BY ONLY <2>1, <2>2, EqualGes
  <2> QED  BY <2>2, <2>3 DEF q33, q65
<1>7. ASSUME ~jac.inf, ~aff.inf
      PROVE  GejEqXVar(aff.x, jac) = (kjac \in {kaff, (-kaff) % N})
  BY ONLY <1>1, <1>7, EqualXs
<1>8. ASSUME ~jac.inf, NEW x \in Elements
      PROVE  XFracOnCurve(Mul(Stored(x), Sqr(jac.z)), Sqr(jac.z))
                = (\E k \in 1 .. N-1 : Multiple[k][1] = x)
  <2>1. XFracOnCurve(Mul(Stored(x), Sqr(jac.z)), Sqr(jac.z)) = (\E y : <<x, y>> \in Points)
    BY ONLY <1>1, <1>8, FractionsSound
  <2>2. ASSUME NEW y, <<x, y>> \in Points PROVE \E k \in 1 .. N-1 : Multiple[k][1] = x
    <3>1. PICK k \in 1 .. N-1 : Multiple[k] = <<x, y>>  BY <2>2, CurveIsGroup
    <3> QED  BY <3>1
  <2>3. ASSUME NEW k \in 1 .. N-1, Multiple[k][1] = x PROVE \E y : <<x, y>> \in Points
    <3>1. Multiple[k] \in Points
      <4>1. {Multiple[i] : i \in 1 .. N-1} = Points  BY CurveIsGroup
      <4> QED  BY ONLY <4>1, k \in 1 .. N-1
    <3>2. PICK u, v : Multiple[k] = <<u, v>>  BY <3>1, Multiples
    <3>3. u = x  BY ONLY <2>3, <3>2, PairIsNoNone
    <3> QED  BY ONLY <3>1, <3>2, <3>3
  <2>4. (\E y : <<x, y>> \in Points) <=> (\E k \in 1 .. N-1 : Multiple[k][1] = x)
    BY <2>2, <2>3
  <2> QED  BY <2>1, <2>4
<1> QED  BY <1>2, <1>3, <1>4, <1>5, <1>6, <1>7, <1>8 DEF ComparisonsSound

-----------------------------------------------------------------------------
(* The shared inversion *)

\* Elements of magnitude 1 at most.
Units == {e \in Records : e.m <= 1}

\* They are closed under products.
LEMMA UnitsAre ==
    /\ \A e \in Units : Is(e, e.v, 1) /\ e.v \in Int
    /\ \A e, p : Is(e, p, 1) => e \in Units
    /\ \A d, e \in Units : Mul(d, e) \in Units /\ Same(Mul(d, e).v, d.v * e.v)
<1>1. ASSUME NEW e \in Units PROVE Is(e, e.v, 1) /\ e.v \in Int
  <2>1. e \in Records /\ e.m <= 1 /\ e.v \in Elements  BY DEF Units, Records
  <2>2. e.v % P = e.v /\ e.v \in Int  BY <2>1, SmallIs
  <2> QED  BY ONLY <2>1, <2>2 DEF Is
<1>2. ASSUME NEW e, NEW p, Is(e, p, 1) PROVE e \in Units
  BY ONLY <1>2 DEF Is, Units
<1>3. ASSUME NEW d \in Units, NEW e \in Units
      PROVE  Mul(d, e) \in Units /\ Same(Mul(d, e).v, d.v * e.v)
  <2> DEFINE x == d.v
             y == e.v
             f == Mul(d, e)
  <2>1. x \in Int /\ y \in Int /\ Is(d, x, 1) /\ Is(e, y, 1)  BY <1>1
  <2> HIDE DEF x, y
  <2>2. Is(f, x * y, 1)  BY <2>1, Small, MulIs
  <2>3. x * y \in Int  BY <2>1
  <2> HIDE DEF f
  <2>4. f \in Units /\ f.v = (x * y) % P  BY <1>2, <2>2 DEF Is
  <2>5. Same(f.v, x * y)  BY ONLY <2>3, <2>4, SameResidue
  <2> QED  BY <2>4, <2>5 DEF x, y, f
<1> QED  BY <1>1, <1>2, <1>3

\* The points whose Z coordinates are inverted together: those that are finite
\* have Z coordinates that are not 0.
Invertible(ps, n) ==
    \A i \in 1 .. n :
       ps[i].inf \in BOOLEAN /\ (~ps[i].inf => ps[i].z \in Units /\ NonZero(ps[i].z.v))

\* The products of the Z coordinates from the first, and of the inverses from
\* the last.
AreProducts(f, ps, n) ==
    /\ f \in [0 .. n -> Units] /\ f[0] = One
    /\ \A i \in 1 .. n : f[i] = IF ps[i].inf THEN f[i-1] ELSE Mul(f[i-1], ps[i].z)
AreInverses(u, f, ps, n) ==
    /\ u \in [1 .. n -> Units] /\ u[n] = Inv(f[n])
    /\ \A i \in 1 .. n-1 : u[i] = IF ps[i+1].inf THEN u[i+1] ELSE Mul(u[i+1], ps[i+1].z)

\* The recursive function that computes the products exists.
LEMMA ProductsExist ==
    ASSUME NEW ps, NEW n \in Nat, Invertible(ps, n)
    PROVE  LET prod[i \in 0 .. n] == IF i = 0 THEN One
                                     ELSE IF ps[i].inf THEN prod[i-1] ELSE Mul(prod[i-1], ps[i].z)
           IN  AreProducts(prod, ps, n)
<1> DEFINE H0 == [c \in Units \X (1 .. n) |-> IF ps[c[2]].inf THEN c[1] ELSE Mul(c[1], ps[c[2]].z)]
           E(g, i) == IF i = 0 THEN One ELSE IF ps[i].inf THEN g[i-1] ELSE Mul(g[i-1], ps[i].z)
           IsProd(g) == g = [i \in 0 .. n |-> E(g, i)]
           prod == CHOOSE g : IsProd(g)
<1>1. One \in Units  BY SmallIs, UnitsAre
<1>2. H0 \in [Units \X (1 .. n) -> Units]
  <2> SUFFICES ASSUME NEW c \in Units \X (1 .. n)
               PROVE  (IF ps[c[2]].inf THEN c[1] ELSE Mul(c[1], ps[c[2]].z)) \in Units
    OBVIOUS
  <2> QED  BY UnitsAre DEF Invertible
<1>3. \A x \in Units, i \in 1 .. n : H0[<<x, i>>] = IF ps[i].inf THEN x ELSE Mul(x, ps[i].z)
  OBVIOUS
<1> HIDE DEF H0
<1>4. PICK f : IsRecursion(f, Units, One, n, H0)  BY ONLY <1>1, <1>2, n \in Nat, RecursionDefined
<1>5. ASSUME NEW i \in 0 .. n PROVE f[i] = E(f, i)
  <2>1. CASE i = 0  BY <1>4, <2>1 DEF IsRecursion
  <2>2. CASE i # 0
    <3>1. i \in 1 .. n /\ i - 1 \in 0 .. n  BY <2>2
    <3>2. f[i] = H0[<<f[i-1], i>>] /\ f[i-1] \in Units  BY ONLY <1>4, <3>1 DEF IsRecursion
    <3> QED  BY <1>3, <2>2, <3>1, <3>2
  <2> QED  BY <2>1, <2>2
<1> HIDE DEF E
<1>6. IsProd(f)  BY <1>4, <1>5 DEF IsRecursion
<1>7. IsProd(prod)  BY <1>6
<1> HIDE DEF prod
<1>8. \A i \in 0 .. n : prod[i] = E(prod, i)  BY <1>7
<1>9. DOMAIN prod = 0 .. n /\ prod = [i \in 0 .. n |-> prod[i]]  BY <1>7
<1>10. /\ prod[0] = One
       /\ \A i \in 1 .. n :
             prod[i] = IF ps[i].inf THEN prod[i-1] ELSE Mul(prod[i-1], ps[i].z)
  <2>1. 0 \in 0 .. n /\ \A i \in 1 .. n : i \in 0 .. n /\ i # 0  OBVIOUS
  <2> QED  BY ONLY <1>8, <2>1 DEF E
<1>11. \A i \in 0 .. n : prod[i] \in Units
  <2> DEFINE Good == {i \in 0 .. n : prod[i] \in Units}
  <2>1. 0 \in Good  BY <1>1, <1>10
  <2>2. ASSUME NEW i \in 0 .. n-1, i \in Good PROVE i + 1 \in Good
    <3>1. i + 1 \in 1 .. n /\ (i + 1) - 1 = i /\ prod[i] \in Units /\ i + 1 \in 0 .. n  BY <2>2
    <3>2. prod[i + 1] = IF ps[i + 1].inf THEN prod[i] ELSE Mul(prod[i], ps[i + 1].z)
      BY <1>10, <3>1
    <3> QED  BY <3>1, <3>2, UnitsAre DEF Invertible
  <2> HIDE DEF Good
  <2>3. \A i \in 0 .. n : i \in Good  BY ONLY <2>1, <2>2, n \in Nat, UpTo
  <2> QED  BY <2>3 DEF Good
<1>12. AreProducts(prod, ps, n)  BY ONLY <1>9, <1>10, <1>11 DEF AreProducts
<1> QED  BY <1>12 DEF prod, IsProd, E

\* The recursive function that computes the inverses exists.
LEMMA InversesExist ==
    ASSUME NEW ps, NEW n \in Nat \ {0}, Invertible(ps, n), NEW f, NEW b \in Units, b = Inv(f[n])
    PROVE  LET u[i \in 1 .. n] == IF i = n THEN Inv(f[i])
                                  ELSE IF ps[i+1].inf THEN u[i+1] ELSE Mul(u[i+1], ps[i+1].z)
           IN  AreInverses(u, f, ps, n)
<1> DEFINE m == n - 1
           q(j) == ps[(n - j) + 1]
           H0 == [c \in Units \X (1 .. m) |-> IF q(c[2]).inf THEN c[1] ELSE Mul(c[1], q(c[2]).z)]
           E(g, i) == IF i = n THEN Inv(f[i])
                      ELSE IF ps[i+1].inf THEN g[i+1] ELSE Mul(g[i+1], ps[i+1].z)
           IsInv(g) == g = [i \in 1 .. n |-> E(g, i)]
           u == CHOOSE g : IsInv(g)
<1>1. m \in Nat /\ \A j \in 1 .. m : (n - j) + 1 \in 1 .. n  OBVIOUS
<1>2. H0 \in [Units \X (1 .. m) -> Units]
  <2> SUFFICES ASSUME NEW c \in Units \X (1 .. m)
               PROVE  (IF q(c[2]).inf THEN c[1] ELSE Mul(c[1], q(c[2]).z)) \in Units
    OBVIOUS
  <2>1. (n - c[2]) + 1 \in 1 .. n  BY <1>1
  <2> QED  BY <2>1, UnitsAre DEF Invertible
<1>3. \A x \in Units, j \in 1 .. m : H0[<<x, j>>] = IF q(j).inf THEN x ELSE Mul(x, q(j).z)
  OBVIOUS
<1> HIDE DEF H0
<1>4. PICK h : IsRecursion(h, Units, b, m, H0)  BY ONLY <1>1, <1>2, b \in Units, RecursionDefined
<1> DEFINE g == [i \in 1 .. n |-> h[n - i]]
<1>5. ASSUME NEW i \in 1 .. n PROVE g[i] = E(g, i)
  <2>1. CASE i = n
    <3>1. n - n = 0 /\ 0 \in 0 .. m  BY <1>1
    <3> QED  BY <1>4, <2>1, <3>1 DEF IsRecursion
  <2>2. CASE i # n
    <3> DEFINE j == n - i
    <3>1. /\ j \in 1 .. m /\ j \in 0 .. m /\ j # 0 /\ j - 1 \in 0 .. m /\ (n - j) + 1 = i + 1
          /\ i + 1 \in 1 .. n /\ n - (i + 1) = j - 1
      BY <2>2
    <3>2. h[j] = H0[<<h[j-1], j>>] /\ h[j-1] \in Units  BY ONLY <1>4, <3>1 DEF IsRecursion
    <3>3. g[i] = h[j] /\ g[i+1] = h[j-1]  BY <3>1
    <3> HIDE DEF j, g
    <3>4. h[j] = IF q(j).inf THEN h[j-1] ELSE Mul(h[j-1], q(j).z)  BY ONLY <1>3, <3>1, <3>2
    <3> QED  BY <2>2, <3>1, <3>3, <3>4
  <2> QED  BY <2>1, <2>2
<1> HIDE DEF E
<1>6. IsInv(g)  BY <1>5
<1>7. IsInv(u)  BY <1>6
<1> HIDE DEF u
<1>8. \A i \in 1 .. n : u[i] = E(u, i)  BY <1>7
<1>9. DOMAIN u = 1 .. n /\ u = [i \in 1 .. n |-> u[i]]  BY <1>7
<1>10. /\ u[n] = Inv(f[n])
       /\ \A i \in 1 .. n-1 : u[i] = IF ps[i+1].inf THEN u[i+1] ELSE Mul(u[i+1], ps[i+1].z)
  <2>1. n \in 1 .. n /\ \A i \in 1 .. n-1 : i \in 1 .. n /\ i # n  OBVIOUS
  <2> QED  BY ONLY <1>8, <2>1 DEF E
<1>11. \A i \in 1 .. n : u[i] \in Units
  <2> DEFINE Good == {j \in 0 .. m : u[n - j] \in Units}
  <2>1. 0 \in Good
    <3>1. n - 0 = n /\ 0 \in 0 .. m  BY <1>1
    <3> QED  BY <1>10, <3>1
  <2>2. ASSUME NEW j \in 0 .. m-1, j \in Good PROVE j + 1 \in Good
    <3> DEFINE i == n - (j + 1)
    <3>1. i \in 1 .. n-1 /\ i + 1 = n - j /\ i + 1 \in 1 .. n /\ j + 1 \in 0 .. m  BY <1>1
    <3>2. u[i + 1] \in Units  BY <2>2, <3>1
    <3> HIDE DEF i
    <3>3. u[i] = IF ps[i+1].inf THEN u[i+1] ELSE Mul(u[i+1], ps[i+1].z)  BY <1>10, <3>1
    <3>4. u[i] \in Units  BY <3>1, <3>2, <3>3, UnitsAre DEF Invertible
    <3> QED  BY <3>1, <3>4 DEF i
  <2> HIDE DEF Good
  <2>3. \A j \in 0 .. m : j \in Good  BY ONLY <1>1, <2>1, <2>2, UpTo
  <2>4. ASSUME NEW i \in 1 .. n PROVE u[i] \in Units
    <3>1. n - i \in 0 .. m /\ n - (n - i) = i  OBVIOUS
    <3> QED  BY <2>3, <3>1 DEF Good
  <2> QED  BY <2>4
<1>12. AreInverses(u, f, ps, n)  BY ONLY <1>9, <1>10, <1>11 DEF AreInverses
<1> QED  BY <1>12 DEF u, IsInv, E

\* Each product and its inverse.
LEMMA ProductsInvertible ==
    ASSUME NEW ps, NEW n \in Nat \ {0}, Invertible(ps, n), NEW f, NEW u,
           AreProducts(f, ps, n), AreInverses(u, f, ps, n)
    PROVE  \A i \in 1 .. n : Same(f[i].v * u[i].v, 1)
<1> DEFINE Good1 == {i \in 0 .. n : NonZero(f[i].v)}
           Good2 == {j \in 0 .. n-1 : Same(f[n - j].v * u[n - j].v, 1)}
<1>1. ASSUME NEW i \in 1 .. n
      PROVE  /\ f[i] \in Units /\ f[i-1] \in Units /\ u[i] \in Units
             /\ f[i].v \in Int /\ f[i-1].v \in Int /\ u[i].v \in Int
             /\ ps[i].inf \in BOOLEAN /\ (~ps[i].inf => ps[i].z.v \in Int)
             /\ Same(f[i].v, IF ps[i].inf THEN f[i-1].v ELSE f[i-1].v * ps[i].z.v)
  <2>1. i \in 0 .. n /\ i - 1 \in 0 .. n  OBVIOUS
  <2>2. f[i] \in Units /\ f[i-1] \in Units /\ u[i] \in Units
    BY <2>1 DEF AreProducts, AreInverses
  <2>3. f[i] = IF ps[i].inf THEN f[i-1] ELSE Mul(f[i-1], ps[i].z)  BY DEF AreProducts
  <2>4. ps[i].inf \in BOOLEAN /\ (~ps[i].inf => ps[i].z \in Units)  BY DEF Invertible
  <2>5. f[i].v \in Int /\ f[i-1].v \in Int /\ u[i].v \in Int /\ (~ps[i].inf => ps[i].z.v \in Int)
    BY <2>2, <2>4, UnitsAre
  <2>6. Same(f[i].v, IF ps[i].inf THEN f[i-1].v ELSE f[i-1].v * ps[i].z.v)
    <3>1. CASE ps[i].inf  BY <2>3, <3>1 DEF Same
    <3>2. CASE ~ps[i].inf  BY <2>2, <2>3, <2>4, <3>2, UnitsAre
    <3> QED  BY <2>4, <3>1, <3>2
  <2> QED  BY <2>2, <2>4, <2>5, <2>6
<1>2. \A i \in 0 .. n : i \in Good1
  <2>1. 0 \in Good1
    <3>1. f[0].v = 1 % P  BY SmallIs DEF AreProducts, Is
    <3>2. 1 % P = 1 /\ 1 \in Elements /\ 1 # 0  BY SmallIs
    <3> QED  BY <3>1, <3>2, ElementNonZero
  <2>2. ASSUME NEW i \in 0 .. n-1, i \in Good1 PROVE i + 1 \in Good1
    <3> DEFINE k == i + 1
    <3>1. k \in 1 .. n /\ k \in 0 .. n /\ k - 1 = i /\ NonZero(f[k-1].v)  BY <2>2
    <3> HIDE DEF k
    <3>2. CASE ps[k].inf
      <4>1. Same(f[k].v, f[k-1].v)  BY <1>1, <3>1, <3>2
      <4> QED  BY <3>1, <4>1 DEF k, NonZero, Same
    <3>3. CASE ~ps[k].inf
      <4>1. Same(f[k].v, f[k-1].v * ps[k].z.v) /\ f[k-1].v \in Int /\ ps[k].z.v \in Int
        BY <1>1, <3>1, <3>3
      <4>2. NonZero(ps[k].z.v)  BY <3>1, <3>3 DEF Invertible
      <4>3. NonZero(f[k-1].v * ps[k].z.v)  BY ONLY <3>1, <4>1, <4>2, NoZeroDivisors
      <4> QED  BY <3>1, <4>1, <4>3 DEF k, NonZero, Same
    <3> QED  BY <1>1, <3>1, <3>2, <3>3
  <2> HIDE DEF Good1
  <2>3. n \in Nat  OBVIOUS
  <2> QED  BY ONLY <2>1, <2>2, <2>3, UpTo
<1>3. \A j \in 0 .. n-1 : j \in Good2
  <2>1. 0 \in Good2
    <3>1. n - 0 = n /\ n \in 1 .. n /\ n \in 0 .. n /\ 0 \in 0 .. n-1  OBVIOUS
    <3> DEFINE a == f[n]
               v == a.v
               w == Inverses[v % P]
    <3>2. a \in Units /\ v \in Int /\ NonZero(v)  BY <1>1, <1>2, <3>1
    <3>3. Is(a, v, 1)  BY <3>2, UnitsAre
    <3>4. u[n] = Inv(a)  BY DEF AreInverses
    <3> HIDE DEF a, v
    <3>5. Is(Inv(a), w, 1) /\ w \in Int /\ Same(v * w, 1)
      BY ONLY <3>2, <3>3, Small, InvIs, InverseOf
    <3> HIDE DEF w
    <3> DEFINE x == u[n].v
    <3>6. x = w % P  BY <3>4, <3>5 DEF Is
    <3>7. x \in Int /\ Same(x, w)  BY ONLY <3>5, <3>6, Residue, SameResidue
    <3> HIDE DEF x
    <3>8. Same(v, v)  BY DEF Same
    <3>9. Same(v * x, v * w)  BY ONLY <3>2, <3>5, <3>7, <3>8, SameProduct
    <3>10. Same(v * x, 1)  BY ONLY <3>5, <3>9 DEF Same
    <3> QED  BY <3>1, <3>10 DEF x, v, a
  <2>2. ASSUME NEW j \in 0 .. (n - 1) - 1, j \in Good2 PROVE j + 1 \in Good2
    <3> DEFINE i == n - (j + 1)
               k == i + 1
    <3>1. /\ i \in 1 .. n-1 /\ i \in 1 .. n /\ k \in 1 .. n /\ k - 1 = i /\ k = n - j
          /\ j + 1 \in 0 .. n-1
      OBVIOUS
    <3>2. Same(f[k].v * u[k].v, 1)  BY <2>2, <3>1
    <3>3. u[i] = IF ps[k].inf THEN u[k] ELSE Mul(u[k], ps[k].z)  BY <3>1 DEF AreInverses
    <3>4. i + 1 = k /\ n - (j + 1) = i  OBVIOUS
    <3> HIDE DEF i, k
    <3>5. CASE ps[k].inf
      <4>1. Same(f[k].v, f[i].v) /\ u[i] = u[k]  BY <1>1, <3>1, <3>3, <3>5
      <4>2. f[k].v \in Int /\ f[i].v \in Int /\ u[k].v \in Int  BY <1>1, <3>1
      <4>3. Same(f[k].v * u[k].v, f[i].v * u[k].v)  BY ONLY <4>1, <4>2, SameScaled
      <4>4. Same(f[i].v * u[i].v, 1)  BY <3>2, <4>1, <4>3 DEF Same
      <4> QED  BY <3>1, <3>4, <4>4
    <3>6. CASE ~ps[k].inf
      <4> DEFINE a == f[k].v
                 b == f[i].v
                 c == u[k].v
                 d == u[i].v
                 z == ps[k].z.v
      <4>1. Same(a, b * z) /\ a \in Int /\ b \in Int /\ c \in Int /\ d \in Int /\ z \in Int
        BY <1>1, <3>1, <3>6
      <4>2. Same(d, c * z)
        <5>1. u[k] \in Units /\ ps[k].z \in Units  BY <1>1, <3>1, <3>6 DEF Invertible
        <5> QED  BY <3>3, <3>6, <5>1, UnitsAre
      <4>3. Same(a * c, 1)  BY <3>2
      <4> HIDE DEF a, b, c, d, z
      <4>4. Same(b * d, b * (c * z))
        <5>1. c * z \in Int /\ Same(b, b)  BY ONLY <4>1 DEF Same
        <5> QED  BY ONLY <4>1, <4>2, <5>1, SameProduct
      <4>5. Same(a * c, (b * z) * c)
        <5>1. b * z \in Int  BY ONLY <4>1
        <5> QED  BY ONLY <4>1, <5>1, SameScaled
      <4>6. b * (c * z) = (b * z) * c  BY ONLY <4>1
      <4>7. Same(b * d, 1)  BY ONLY <4>3, <4>4, <4>5, <4>6 DEF Same
      <4> QED  BY <3>1, <3>4, <4>7 DEF b, d
    <3> QED  BY <1>1, <3>1, <3>5, <3>6
  <2> HIDE DEF Good2
  <2>3. n - 1 \in Nat  OBVIOUS
  <2> QED  BY ONLY <2>1, <2>2, <2>3, UpTo
<1>4. ASSUME NEW i \in 1 .. n PROVE Same(f[i].v * u[i].v, 1)
  <2>1. n - i \in 0 .. n-1 /\ n - (n - i) = i  OBVIOUS
  <2> QED  BY <1>3, <2>1
<1> QED  BY <1>4

\* Scaling by an inverse of the Z coordinate gives the affine coordinates.
LEMMA ZinvStands ==
    ASSUME NEW p, NEW x, NEW y, NEW z, NEW zi, NEW V \in Int,
           Finite(p, x, y, z), Is(zi, V, 1), Same(z * V, 1)
    PROVE  FiniteGe(SetZinv(p, zi), x, y)
<1> DEFINE res == SetZinv(p, zi)
           X == x * (z * z)
           Y == y * (z * (z * z))
<1>1. /\ x \in Elements /\ y \in Elements /\ z \in Int /\ x \in Int /\ y \in Int
      /\ Is(p.x, X, 4) /\ Is(p.y, Y, 4)
  BY SmallIs DEF Finite, At
<1>2. Same(X * (V * V), x) /\ Same(Y * (V * V * V), y)
  BY ONLY <1>1, V \in Int, Same(z * V, 1), ScaledBack
<1>3. X * (V * V) = Times(X, Times(V, V)) /\ Y * (V * V * V) = Times(Y, Times(Times(V, V), V))
  BY DEF Times
<1> HIDE DEF X, Y
<1>4. /\ res \in Ges /\ res.inf = FALSE
      /\ Is(res.x, Times(X, Times(V, V)), 1) /\ Is(res.y, Times(Y, Times(Times(V, V), V)), 1)
  BY ONLY <1>1, Is(zi, V, 1), SetZinvAt
<1> HIDE DEF res
<1>5. Same(Times(X, Times(V, V)), x) /\ Same(Times(Y, Times(Times(V, V), V)), y)
  BY ONLY <1>2, <1>3
<1>6. Is(res.x, x, 1) /\ Is(res.y, y, 1)  BY ONLY <1>1, <1>4, <1>5, Small, Retarget
<1>7. Is(res.x, x, 4) /\ Is(res.y, y, 3)  BY ONLY <1>6, Small, Widen
<1> QED  BY ONLY <1>1, <1>4, <1>7 DEF FiniteGe, AtGe, res

\* secp256k1_ge_set_all_gej_var.
LEMMA SetAllStands ==
    ASSUME NEW ps, NEW pts, NEW n \in Nat \ {0}, Len(ps) = n,
           \A i \in 1 .. n : Stands(ps[i], pts[i])
    PROVE  \A i \in 1 .. n : StandsGe(SetAllGejVar(ps)[i], pts[i])
<1> DEFINE prod[i \in 0 .. n] == IF i = 0 THEN One
                                 ELSE IF ps[i].inf THEN prod[i-1] ELSE Mul(prod[i-1], ps[i].z)
           f == prod
           inv[i \in 1 .. n] == IF i = n THEN Inv(f[i])
                                ELSE IF ps[i+1].inf THEN inv[i+1] ELSE Mul(inv[i+1], ps[i+1].z)
           u == inv
<1>1. SetAllGejVar(ps) = [i \in 1 .. n |-> IF ps[i].inf THEN GeInfinity
                                           ELSE SetZinv(ps[i], Mul(f[i-1], u[i]))]
  BY DEF SetAllGejVar
<1>2. Invertible(ps, n)
  <2> SUFFICES ASSUME NEW i \in 1 .. n
               PROVE  /\ ps[i].inf \in BOOLEAN
                      /\ ~ps[i].inf => ps[i].z \in Units /\ NonZero(ps[i].z.v)
    BY DEF Invertible
  <2> DEFINE p == ps[i]
             pt == pts[i]
  <2>1. Stands(p, pt)  OBVIOUS
  <2> HIDE DEF p, pt
  <2>2. p.inf \in BOOLEAN /\ (p.inf <=> pt = None)  BY <2>1, InfinityIsNone
  <2>3. ASSUME ~p.inf PROVE p.z \in Units /\ NonZero(p.z.v)
    <3>1. PICK x, y, z : pt = <<x, y>> /\ Finite(p, x, y, z)  BY <2>1, <2>2, <2>3 DEF Stands
    <3>2. z \in Int /\ NonZero(z) /\ Is(p.z, z, 1)  BY <3>1 DEF Finite, At
    <3>3. p.z.v = z % P  BY <3>2 DEF Is
    <3>4. Same(p.z.v, z)  BY <3>2, <3>3, SameResidue
    <3> QED  BY <3>2, <3>4, UnitsAre DEF NonZero, Same
  <2> QED  BY <2>2, <2>3 DEF p
<1>3. AreProducts(f, ps, n)
  <2>1. n \in Nat  OBVIOUS
  <2> QED  BY ONLY <1>2, <2>1, ProductsExist
<1> HIDE DEF f
<1>4. Inv(f[n]) \in Units
  <2>1. f[n] \in Units  BY <1>3 DEF AreProducts
  <2> DEFINE a == f[n]
             p == a.v
  <2>2. Is(a, p, 1) /\ p \in Int  BY <2>1, UnitsAre
  <2> HIDE DEF a, p
  <2>3. \E q \in Int : Is(Inv(a), q, 1)  BY <2>2, Small, InvIs
  <2> QED  BY <2>3, UnitsAre DEF a
<1>5. AreInverses(u, f, ps, n)  BY ONLY <1>2, <1>4, n \in Nat \ {0}, InversesExist
<1> HIDE DEF u
<1>6. \A i \in 1 .. n : Same(f[i].v * u[i].v, 1)
  BY ONLY <1>2, <1>3, <1>5, n \in Nat \ {0}, ProductsInvertible
<1>7. ASSUME NEW i \in 1 .. n PROVE StandsGe(SetAllGejVar(ps)[i], pts[i])
  <2> DEFINE p == ps[i]
             pt == pts[i]
             g == f[i-1]
             e == u[i]
             q == SetZinv(p, Mul(g, e))
  <2>1. Stands(p, pt) /\ SetAllGejVar(ps)[i] = IF p.inf THEN GeInfinity ELSE q  BY <1>1
  <2>2. g \in Units /\ e \in Units /\ f[i] \in Units
    <3>1. i - 1 \in 0 .. n /\ i \in 0 .. n  OBVIOUS
    <3> QED  BY <3>1, <1>3, <1>5 DEF AreProducts, AreInverses
  <2>3. f[i] = IF p.inf THEN g ELSE Mul(g, p.z)  BY <1>3 DEF AreProducts
  <2>4. Same(f[i].v * e.v, 1)  BY <1>6
  <2>5. ~p.inf => p.z \in Units  BY <1>2 DEF Invertible
  <2> DEFINE h == f[i]
  <2> HIDE DEF p, pt, g, e, h
  <2>6. p.inf \in BOOLEAN /\ (p.inf <=> pt = None)  BY <2>1, InfinityIsNone
  <2>7. CASE p.inf  BY <2>1, <2>6, <2>7, GeInfinityStands DEF pt
  <2>8. CASE ~p.inf
    <3>1. PICK x, y, z : pt = <<x, y>> /\ Finite(p, x, y, z)  BY <2>1, <2>6, <2>8 DEF Stands
    <3>2. z \in Int /\ p.z.v = z % P  BY <3>1 DEF Finite, At, Is
    <3> DEFINE a == g.v
               b == e.v
               c == p.z.v
               d == h.v
               zi == Mul(g, e)
    <3>3. a \in Int /\ b \in Int /\ c \in Int /\ d \in Int /\ Same(c, z)
      <4>1. h \in Units /\ p.z \in Units  BY <2>2, <2>5, <2>8 DEF h
      <4>2. a \in Int /\ b \in Int /\ c \in Int /\ d \in Int  BY <2>2, <4>1, UnitsAre
      <4> QED  BY <3>2, <4>2, SameResidue
    <3>4. Same(d, a * c)
      <4>1. h = Mul(g, p.z) /\ p.z \in Units  BY <2>3, <2>5, <2>8 DEF h
      <4> QED  BY <2>2, <4>1, UnitsAre
    <3>5. Same(d * b, 1)  BY <2>4 DEF h
    <3>6. Is(zi, a * b, 1)  BY <2>2, <3>3, Small, UnitsAre, MulIs
    <3> HIDE DEF a, b, c, d, zi
    <3>7. a * b \in Int /\ a * c \in Int /\ (a * c) * b = c * (a * b) /\ c * (a * b) = (a * b) * c
          /\ z * (a * b) = (a * b) * z
      BY ONLY <3>2, <3>3
    <3>8. Same(d * b, (a * c) * b)  BY ONLY <3>3, <3>4, <3>7, SameScaled
    <3>9. Same((a * b) * c, (a * b) * z)
      <4>1. Same(a * b, a * b)  BY DEF Same
      <4> QED  BY ONLY <3>2, <3>3, <3>7, <4>1, SameProduct
    <3>10. Same(z * (a * b), 1)  BY ONLY <3>5, <3>7, <3>8, <3>9 DEF Same
    <3>11. FiniteGe(SetZinv(p, zi), x, y)  BY ONLY <3>1, <3>6, <3>7, <3>10, ZinvStands
    <3>12. StandsGe(q, pt)  BY <3>1, <3>11 DEF StandsGe, zi
    <3> QED  BY <2>1, <2>8, <3>12 DEF pt
  <2> QED  BY <2>6, <2>7, <2>8
<1> QED  BY <1>7

-----------------------------------------------------------------------------
(* A table of odd multiples *)

\* Sums of indices.
LEMMA IndexSum ==
    ASSUME NEW j \in Int, NEW k \in Int
    PROVE  ((j % N) + (k % N)) % N = (j + k) % N
<1> DEFINE a == j % N
           b == k % N
<1>1. N \in Nat \ {0} /\ a \in Int /\ b \in Int /\ j + b = b + j /\ j + k = k + j
  BY Multiples, DivMod
<1> HIDE DEF a, b
<1>2. (a + b) % N = (j + b) % N  BY ONLY <1>1, j \in Int, Reduces DEF ReducesLeft, a
<1>3. (b + j) % N = (k + j) % N
  BY ONLY <1>1, j \in Int, k \in Int, Reduces DEF ReducesLeft, b
<1> QED  BY ONLY <1>1, <1>2, <1>3 DEF a, b

\* Multiples whose indices are neither the same nor opposite have different X
\* coordinates.
LEMMA XsDiffer ==
    ASSUME NEW j \in Int, NEW k \in Int, NEW x, NEW y, NEW u, NEW v,
           Multiple[j % N] = <<x, y>>, Multiple[k % N] = <<u, v>>,
           (j + -k) % N # 0, (j + k) % N # 0
    PROVE  x # u
<1> DEFINE a == j % N
           b == k % N
           c == (-b) % N
<1>1. a \in 0 .. N-1 /\ b \in 0 .. N-1 /\ a \in Int /\ b \in Int
  <2>1. a \in 0 .. N-1 /\ b \in 0 .. N-1  BY Indices
  <2> QED  BY <2>1, SmallIndex
<1>2. <<x, y>> \in Points /\ <<u, v>> \in Points
  BY <1>1, Multiples, PairIsNoNone DEF OnGroup
<1>3. Opposite(<<u, v>>) = Multiple[c]  BY <1>1, OppositeIs
<1>4. c \in 0 .. N-1
  <2>1. -b \in Int /\ 0 \in Int  BY <1>1
  <2> QED  BY <2>1, Indices
<1>5. a # b
  <2>1. (a + ((-k) % N)) % N = (j + -k) % N
    <3>1. -k \in Int  OBVIOUS
    <3> QED  BY <3>1, IndexSum
  <2>2. (b + ((-k) % N)) % N = (k + -k) % N
    <3>1. -k \in Int  OBVIOUS
    <3> QED  BY <3>1, IndexSum
  <2>3. k + -k = 0 /\ 0 % N = 0  BY Multiples, SmallIndex
  <2> QED  BY <2>1, <2>2, <2>3
<1>6. a # c
  <2> DEFINE d == -b
  <2>1. d \in Int /\ d + b = 0 /\ c = d % N  BY <1>1
  <2>3. b % N = b /\ 0 % N = 0
    <3>1. 0 \in 0 .. N-1  BY Multiples
    <3> HIDE DEF b
    <3> QED  BY ONLY <1>1, <3>1, SmallIndex
  <2> HIDE DEF b, c, d
  <2>2. (c + b) % N = 0
    <3>1. ((d % N) + (b % N)) % N = (d + b) % N  BY ONLY <1>1, <2>1, IndexSum
    <3> QED  BY ONLY <2>1, <2>3, <3>1
  <2>4. (a + b) % N = (j + k) % N  BY IndexSum DEF b
  <2> QED  BY ONLY <2>2, <2>4, (j + k) % N # 0
<1>7. Multiple[a] # Multiple[b] /\ Multiple[a] # Multiple[c]
  BY ONLY <1>1, <1>4, <1>5, <1>6, IndicesDiffer
<1>8. x = u <=> <<x, y>> \in {<<u, v>>, Opposite(<<u, v>>)}  BY <1>2, SameXs
<1> QED  BY <1>3, <1>7, <1>8

\* The order of the group is a prime above 5.
LEMMA OrderOfGroup == N > 5 /\ N \in Nat
<1>1. N \in Nat /\ Lambda \in 2 .. N-1 /\ (Lambda * Lambda * Lambda) % N = 1  BY GroupAssumption
<1>2. \A j, k \in 1 .. N-1 : (j * k) % N # 0  BY CurveIsGroup
<1>3. N # 3
  <2>1. 2 * 2 * 2 = 8 /\ 8 % 3 = 2  OBVIOUS
  <2>2. N = 3 => Lambda = 2  BY <1>1
  <2> QED  BY <1>1, <2>1, <2>2
<1>4. N # 4
  <2>1. (2 * 2) % 4 = 0  OBVIOUS
  <2>2. N = 4 => 2 \in 1 .. N-1  OBVIOUS
  <2> QED  BY <1>2, <2>1, <2>2
<1>5. N # 5
  <2>1. (2 * 2 * 2) % 5 = 3 /\ (3 * 3 * 3) % 5 = 2 /\ (4 * 4 * 4) % 5 = 4  OBVIOUS
  <2>2. N = 5 => Lambda \in {2, 3, 4}  BY <1>1
  <2> QED  BY <1>1, <2>1, <2>2
<1> QED  BY <1>1, <1>3, <1>4, <1>5

\* The multiples that a table of three points needs are finite.
LEMMA TableIndices ==
    ASSUME NEW k \in 1 .. N-1
    PROVE  /\ k \in Int /\ k % N = k /\ k % N # 0
           /\ (2 * k) % N # 0 /\ (3 * k) % N # 0 /\ (5 * k) % N # 0
<1>1. 2 \in 1 .. N-1 /\ 3 \in 1 .. N-1 /\ 5 \in 1 .. N-1  BY OrderOfGroup
<1>2. k \in 0 .. N-1 /\ k # 0  BY OrderOfGroup
<1>3. (2 * k) % N # 0 /\ (3 * k) % N # 0 /\ (5 * k) % N # 0
  <2>1. \A i, j \in 1 .. N-1 : (i * j) % N # 0  BY CurveIsGroup
  <2> QED  BY ONLY <1>1, <2>1, k \in 1 .. N-1
<1> QED  BY <1>2, <1>3, SmallIndex

\* What is not 0 is cancelled.
LEMMA Cancel ==
    ASSUME NEW a \in Int, NEW b \in Int, NEW d \in Int, NonZero(d), Same(a * d, b * d)
    PROVE  Same(a, b)
<1> DEFINE e == a - b
<1>1. a * d \in Int /\ b * d \in Int /\ e \in Int /\ d * e = a * d - b * d
      /\ b * d - b * d = 0 /\ a = e + b /\ 0 + b = b
  OBVIOUS
<1> HIDE DEF e
<1>2. Same(a * d - b * d, b * d - b * d)
  <2>1. Same(b * d, b * d)  BY DEF Same
  <2> QED  BY ONLY <1>1, <2>1, Same(a * d, b * d), SameSum
<1>3. Same(d * e, 0)  BY ONLY <1>1, <1>2
<1>4. Same(e, 0)  BY ONLY <1>1, <1>3, d \in Int, NonZero(d), NoZeroDivisors
<1>5. Same(e + b, 0 + b)
  <2>1. Same(b, b)  BY DEF Same
  <2> QED  BY ONLY <1>1, <1>4, <2>1, b \in Int, 0 \in Int, SameSum
<1> QED  BY ONLY <1>1, <1>5

\* The point on the isomorphic curve whose coordinates are scaled by c.
Rescaled(pt, c) == <<(pt[1] * (c * c)) % P, (pt[2] * (c * (c * c))) % P>>

\* Its coordinates.
LEMMA RescaledIs ==
    ASSUME NEW x \in Elements, NEW y \in Elements, NEW c \in Int, NonZero(c)
    PROVE  /\ NonZero(c * c) /\ NonZero(c * (c * c)) /\ c * c \in Int /\ c * (c * c) \in Int
           /\ \E u, v \in Elements :
                 /\ Rescaled(<<x, y>>, c) = <<u, v>>
                 /\ Same(u, x * (c * c)) /\ Same(v, y * (c * (c * c)))
                 /\ u \in Int /\ v \in Int /\ (y # 0 => v # 0)
<1> DEFINE m == c * c
           n == c * (c * c)
<1>1. m \in Int /\ n \in Int  OBVIOUS
<1>2. NonZero(m)  BY NoZeroDivisors
<1>3. NonZero(n)
  <2> HIDE DEF m
  <2>1. NonZero(c * m)  BY <1>1, <1>2, NoZeroDivisors
  <2> QED  BY <2>1 DEF m
<1>4. x \in Int /\ y \in Int  BY SmallIs
<1> DEFINE u == (x * m) % P
           v == (y * n) % P
<1>5. Rescaled(<<x, y>>, c) = <<u, v>>  BY DEF Rescaled
<1> HIDE DEF m, n
<1>6. x * m \in Int /\ y * n \in Int  BY <1>1, <1>4
<1>7. /\ u \in Elements /\ v \in Elements /\ u \in Int /\ v \in Int
      /\ Same(u, x * m) /\ Same(v, y * n)
  BY ONLY <1>6, Residue, SameResidue
<1> HIDE DEF u, v
<1>8. ASSUME y # 0 PROVE v # 0
  <2>1. NonZero(y)  BY <1>8, ElementNonZero
  <2>2. NonZero(y * n)  BY ONLY <1>1, <1>3, <1>4, <2>1, NoZeroDivisors
  <2>3. NonZero(v)  BY ONLY <1>7, <2>2 DEF NonZero, Same
  <2> QED  BY ONLY <1>7, <2>3, ElementNonZero
<1>9. \E a, b \in Elements :
         /\ Rescaled(<<x, y>>, c) = <<a, b>>
         /\ Same(a, x * m) /\ Same(b, y * n) /\ a \in Int /\ b \in Int /\ (y # 0 => b # 0)
  BY <1>5, <1>7, <1>8
<1> QED  BY <1>1, <1>2, <1>3, <1>9 DEF m, n

\* One point is the sum of two; one is another on the isomorphic curve.
IsSum(x1, y1, x2, y2, x3, y3) == RefAdd(<<x1, y1>>, <<x2, y2>>) = <<x3, y3>>
Scales(x, y, c, u, v) == Rescaled(<<x, y>>, c) = <<u, v>>

\* The sum of two points on the isomorphic curve is the sum, scaled.
LEMMA RescaledSum ==
    ASSUME NEW x1 \in Elements, NEW y1 \in Elements, NEW x2 \in Elements, NEW y2 \in Elements,
           NEW c \in Int, NEW sx, NEW sy, NEW a1, NEW b1, NEW a2, NEW b2, NEW a3, NEW b3,
           NonZero(c), x1 # x2, IsSum(x1, y1, x2, y2, sx, sy),
           Scales(x1, y1, c, a1, b1), Scales(x2, y2, c, a2, b2), Scales(sx, sy, c, a3, b3)
    PROVE  IsSum(a1, b1, a2, b2, a3, b3) /\ a1 # a2
<1> DEFINE m == c * c
           n == c * (c * c)
<1>1. x1 \in Int /\ y1 \in Int /\ x2 \in Int /\ y2 \in Int  BY SmallIs
<1>2. m \in Int /\ n \in Int /\ NonZero(m)  BY RescaledIs
<1>3. PICK u1, v1 \in Elements :
         /\ Rescaled(<<x1, y1>>, c) = <<u1, v1>>
         /\ Same(u1, x1 * m) /\ Same(v1, y1 * n) /\ u1 \in Int /\ v1 \in Int
  BY RescaledIs
<1>4. PICK u2, v2 \in Elements :
         /\ Rescaled(<<x2, y2>>, c) = <<u2, v2>>
         /\ Same(u2, x2 * m) /\ Same(v2, y2 * n) /\ u2 \in Int /\ v2 \in Int
  BY RescaledIs
<1>5. u1 # u2
  <2> SUFFICES ASSUME u1 = u2 PROVE FALSE  OBVIOUS
  <2>1. Same(x1 * m, x2 * m)  BY <1>3, <1>4 DEF Same
  <2> HIDE DEF m
  <2>2. Same(x1, x2)  BY ONLY <1>1, <1>2, <2>1, Cancel
  <2>3. x1 % P = x1 /\ x2 % P = x2  BY SmallIs
  <2> QED  BY <2>2, <2>3 DEF Same
<1>6. PICK l, x3, y3 :
         /\ RefAdd(<<x1, y1>>, <<x2, y2>>) = <<x3, y3>>
         /\ Slope(x1, y1, x2, y2, l) /\ x3 \in Elements /\ y3 \in Elements
         /\ Same(x3, l * l - x1 - x2) /\ Same(y3, l * (x1 - x3) - y1)
  BY SumOf
<1>7. PICK s, u3, v3 :
         /\ RefAdd(<<u1, v1>>, <<u2, v2>>) = <<u3, v3>>
         /\ Slope(u1, v1, u2, v2, s) /\ u3 \in Elements /\ v3 \in Elements
         /\ Same(u3, s * s - u1 - u2) /\ Same(v3, s * (u1 - u3) - v1)
  BY <1>3, <1>4, <1>5, SumOf
<1>8. l \in Int /\ s \in Int /\ x3 \in Int /\ y3 \in Int /\ u3 \in Int /\ v3 \in Int
      /\ Same(l * (x2 - x1), y2 - y1) /\ Same(s * (u2 - u1), v2 - v1)
      /\ u3 % P = u3 /\ v3 % P = v3
  BY <1>5, <1>6, <1>7, SmallIs DEF Slope, Times
<1> DEFINE t == c * l
<1>9. t \in Int  BY <1>8
<1>10. Same(s, t)
  <2> DEFINE d == x2 - x1
             D == d * m
             e == y2 - y1
             du == u2 - u1
             dv == v2 - v1
  <2>1. d \in Int /\ D \in Int /\ e \in Int /\ du \in Int /\ dv \in Int  BY <1>1, <1>2, <1>3, <1>4
  <2>2. NonZero(D)
    <3>1. Same((x2 - x1) * m, 0) <=> x1 = x2
      BY ONLY <1>2, x1 \in Elements, x2 \in Elements, DifferenceZero
    <3> QED  BY <3>1 DEF NonZero
  <2>3. Same(du, D)
    <3>1. Same(u2 - u1, x2 * m - x1 * m)
      <4>1. x1 * m \in Int /\ x2 * m \in Int  BY ONLY <1>1, <1>2
      <4> QED  BY ONLY <1>3, <1>4, <4>1, SameSum
    <3>2. x2 * m - x1 * m = D  BY ONLY <1>1, <1>2
    <3> QED  BY ONLY <3>1, <3>2
  <2>4. Same(dv, e * n)
    <3>1. Same(v2 - v1, y2 * n - y1 * n)
      <4>1. y1 * n \in Int /\ y2 * n \in Int  BY ONLY <1>1, <1>2
      <4> QED  BY ONLY <1>3, <1>4, <4>1, SameSum
    <3>2. y2 * n - y1 * n = e * n  BY ONLY <1>1, <1>2
    <3> QED  BY ONLY <3>1, <3>2
  <2>5. (l * d) * n = t * D  BY ONLY <1>1, <1>8, c \in Int
  <2>6. Same(l * d, e) /\ Same(s * du, dv)  BY <1>8
  <2>7. l * d \in Int /\ s * du \in Int /\ s * D \in Int /\ t * D \in Int /\ e * n \in Int
    BY ONLY <1>2, <1>8, <1>9, <2>1
  <2> HIDE DEF d, D, e, du, dv, t, m, n
  <2>8. Same((l * d) * n, e * n)  BY ONLY <1>2, <2>1, <2>6, <2>7, SameScaled
  <2>9. Same(s * du, s * D)
    <3>1. Same(s, s)  BY DEF Same
    <3> QED  BY ONLY <1>8, <2>1, <2>3, <3>1, SameProduct
  <2>10. Same(s * D, t * D)  BY ONLY <2>4, <2>5, <2>6, <2>8, <2>9 DEF Same
  <2> QED  BY ONLY <1>8, <1>9, <2>1, <2>2, <2>10, Cancel
<1>11. Same(u3, x3 * m)
  <2>1. (t * t - x1 * m) - x2 * m = (l * l - x1 - x2) * m  BY ONLY <1>1, <1>8, c \in Int
  <2> DEFINE a == l * l - x1 - x2
  <2>2. Same(x3, a) /\ a \in Int  BY <1>1, <1>6, <1>8
  <2>3. (t * t - x1 * m) - x2 * m = a * m  BY <2>1
  <2>4. s * s \in Int /\ t * t \in Int /\ x1 * m \in Int /\ x2 * m \in Int /\ s * s - u1 \in Int
        /\ t * t - x1 * m \in Int
    BY ONLY <1>1, <1>2, <1>3, <1>8, <1>9
  <2> HIDE DEF a, t, m
  <2>5. Same(s * s, t * t)  BY ONLY <1>8, <1>9, <1>10, SameProduct
  <2>6. Same(s * s - u1, t * t - x1 * m)  BY ONLY <1>3, <2>4, <2>5, SameSum
  <2>7. Same((s * s - u1) - u2, (t * t - x1 * m) - x2 * m)  BY ONLY <1>4, <2>4, <2>6, SameSum
  <2>8. Same(x3 * m, a * m)  BY ONLY <1>2, <1>8, <2>2, SameScaled
  <2>9. Same(u3, (s * s - u1) - u2)  BY <1>7
  <2> QED  BY ONLY <2>3, <2>7, <2>8, <2>9 DEF Same
<1>12. Same(v3, y3 * n)
  <2> DEFINE a == l * (x1 - x3) - y1
             p == x1 * m - x3 * m
             q == u1 - u3
  <2>1. t * p - y1 * n = a * n  BY ONLY <1>1, <1>8, c \in Int
  <2>2. Same(y3, a) /\ a \in Int  BY <1>1, <1>6, <1>8
  <2>3. /\ p \in Int /\ q \in Int /\ s * q \in Int /\ t * p \in Int /\ y1 * n \in Int
        /\ x1 * m \in Int /\ x3 * m \in Int
    BY ONLY <1>1, <1>2, <1>3, <1>8, <1>9
  <2>4. Same(v3, s * q - v1)  BY <1>7
  <2> HIDE DEF a, t, m, n
  <2>5. Same(q, p)  BY ONLY <1>3, <1>8, <1>11, <2>3, SameSum
  <2> HIDE DEF p, q
  <2>6. Same(s * q, t * p)  BY ONLY <1>8, <1>9, <1>10, <2>3, <2>5, SameProduct
  <2>7. Same(s * q - v1, t * p - y1 * n)  BY ONLY <1>3, <2>3, <2>6, SameSum
  <2>8. Same(y3 * n, a * n)  BY ONLY <1>2, <1>8, <2>2, SameScaled
  <2> QED  BY ONLY <2>1, <2>4, <2>7, <2>8 DEF Same
<1>13. Rescaled(<<x3, y3>>, c) = <<u3, v3>>
  <2>1. Rescaled(<<x3, y3>>, c) = <<(x3 * m) % P, (y3 * n) % P>>  BY DEF Rescaled
  <2> HIDE DEF m, n
  <2>2. (x3 * m) % P = u3 /\ (y3 * n) % P = v3  BY ONLY <1>8, <1>11, <1>12 DEF Same
  <2> QED  BY <2>1, <2>2
<1>14. <<x3, y3>> = <<sx, sy>>
  BY ONLY <1>6, IsSum(x1, y1, x2, y2, sx, sy) DEF IsSum
<1>15. /\ <<u1, v1>> = <<a1, b1>> /\ <<u2, v2>> = <<a2, b2>>
  BY ONLY <1>3, <1>4, Scales(x1, y1, c, a1, b1), Scales(x2, y2, c, a2, b2) DEF Scales
<1>16. <<u3, v3>> = <<a3, b3>>
  BY ONLY <1>13, <1>14, Scales(sx, sy, c, a3, b3) DEF Scales
<1>17. IsSum(a1, b1, a2, b2, a3, b3)  BY ONLY <1>7, <1>15, <1>16 DEF IsSum
<1>18. u1 = a1 /\ u2 = a2  BY ONLY <1>15, PairIsNoNone
<1> QED  BY ONLY <1>5, <1>17, <1>18

\* Another number of the same residue for the Z coordinate.
LEMMA FiniteAtZ ==
    ASSUME NEW p, NEW x, NEW y, NEW z, NEW w \in Int, Finite(p, x, y, z), Same(z, w)
    PROVE  Finite(p, x, y, w)
<1> DEFINE X == x * (z * z)
           Y == y * (z * (z * z))
           U2 == x * (w * w)
           V2 == y * (w * (w * w))
<1>1. /\ x \in Elements /\ y \in Elements /\ z \in Int /\ NonZero(z) /\ p.inf = FALSE
      /\ p \in Gejs /\ Is(p.x, X, 4) /\ Is(p.y, Y, 4) /\ Is(p.z, z, 1)
      /\ x \in Int /\ y \in Int
  BY SmallIs DEF Finite, At
<1>2. NonZero(w)  BY <1>1 DEF NonZero, Same
<1>3. Same(z * z, w * w)  BY <1>1, SameProduct
<1>4. z * z \in Int /\ w * w \in Int /\ Same(x, x) /\ Same(y, y)  BY <1>1 DEF Same
<1>5. Same(z * (z * z), w * (w * w))  BY <1>1, <1>3, <1>4, SameProduct
<1>6. z * (z * z) \in Int /\ w * (w * w) \in Int  BY <1>1
<1>7. Same(X, U2)  BY ONLY <1>1, <1>3, <1>4, SameProduct
<1>8. Same(Y, V2)  BY ONLY <1>1, <1>4, <1>5, <1>6, SameProduct
<1>9. U2 \in Int /\ V2 \in Int  BY <1>1
<1> HIDE DEF X, Y, U2, V2
<1>10. Is(p.x, U2, 4) /\ Is(p.y, V2, 4) /\ Is(p.z, w, 1)
  BY ONLY <1>1, <1>7, <1>8, <1>9, w \in Int, Same(z, w), Small, Retarget
<1> QED  BY <1>1, <1>2, <1>10 DEF Finite, At, U2, V2

\* The doubled point has a Y coordinate of magnitude 3, so that it may be taken
\* as an affine one.
LEMMA NegatedTwo ==
    ASSUME NEW a, NEW Y, Is(Negate(a, 2), Y, 4)
    PROVE  Is(Negate(a, 2), Y, 3)
<1> DEFINE e == Negate(a, 2)
<1>1. e = Overflown \/ e = Fe(-a.v, 3)  BY DEF Negate, Checked
<1>2. Overflown.m = 33 /\ Fe(-a.v, 3).m = 3
  <2>1. Overflown.m = 33  BY DEF Overflown, MaxMagnitude
  <2>2. Fe(-a.v, 3) = [v |-> (-a.v) % P, m |-> 3, n |-> FALSE]  BY DEF Fe, Checked, MaxMagnitude
  <2> QED  BY <2>1, <2>2
<1> HIDE DEF e
<1>3. e.m <= 3  BY <1>1, <1>2 DEF Is, e
<1> QED  BY <1>3 DEF Is, e

\* A step of the table: the multiple and the ratio of the Z coordinates.
LEMMA TableStep ==
    ASSUME NEW p, NEW q, NEW x1, NEW y1, NEW z1, NEW x2, NEW y2,
           Finite(p, x1, y1, z1), y1 # 0, FiniteGe(q, x2, y2), x1 # x2
    PROVE  \E rt \in Int :
              /\ Is(AddGeRatio(p, q), rt, 6) /\ NonZero(rt)
              /\ \A x3, y3 : RefAdd(<<x1, y1>>, <<x2, y2>>) = <<x3, y3>>
                                => Finite(AddGeVar(p, q), x3, y3, z1 * rt)
<1> DEFINE h == GeH(p, q, p.z)
           i == GeI(p, q, p.z)
           X == x1 * (z1 * z1)
           Y == y1 * (z1 * (z1 * z1))
           D == (x2 - x1) * (z1 * z1)
           res == AddTail(p, p.x, p.y, h, i, Mul(p.z, h))
<1>1. /\ x1 \in Elements /\ y1 \in Elements /\ x1 \in Int /\ y1 \in Int /\ z1 \in Int
      /\ NonZero(z1) /\ p.inf = FALSE /\ Is(p.x, X, 4) /\ Is(p.y, Y, 4) /\ Is(p.z, z1, 1)
      /\ x2 \in Elements /\ y2 \in Elements /\ x2 \in Int /\ y2 \in Int /\ q.inf = FALSE
      /\ AtGe(q, x2, y2) /\ Is(q.x, x2, 4) /\ Is(q.y, y2, 3)
  BY SmallIs DEF Finite, At, FiniteGe, AtGe
<1>2. D \in Int /\ D = Plus(Minus(X), Times(x2, Times(z1, z1)))
  BY ONLY <1>1 DEF Plus, Minus, Times
<1>3. NonZero(D)
  <2>1. z1 * z1 \in Int /\ NonZero(z1 * z1)  BY <1>1, NoZeroDivisors
  <2> DEFINE m == z1 * z1
  <2> HIDE DEF m
  <2>2. Same((x2 - x1) * m, 0) <=> x1 = x2  BY ONLY <1>1, <2>1, DifferenceZero DEF m
  <2> QED  BY <2>2 DEF NonZero, m
<1> HIDE DEF D
<1>4. Is(h, D, 6)
  <2> HIDE DEF X, Y
  <2>1. Is(h, Plus(Minus(X), Times(x2, Times(z1, z1))), 6)  BY ONLY <1>1, DifferencesAre
  <2> QED  BY <1>2, <2>1
<1>5. Stands(res, RefAdd(<<x1, y1>>, <<x2, y2>>))
  <2>1. Same(x2 * (z1 * z1), x2 * (z1 * z1)) /\ Same(y2 * (z1 * (z1 * z1)), y2 * (z1 * (z1 * z1)))
    BY DEF Same
  <2> QED  BY ONLY <1>1, <2>1, Finite(p, x1, y1, z1), y1 # 0, AddScaled
<1> HIDE DEF h, i, X, Y
<1>6. ~NormalizesToZero(h)
  <2>1. NormalizesToZero(h) <=> Same(D, 0)  BY ONLY <1>2, <1>4, Small, ZeroIs
  <2> QED  BY <1>3, <2>1 DEF NonZero
<1>7. AddGeRatio(p, q) = h  BY <1>1, <1>6 DEF AddGeRatio, h
<1>8. AddGeVar(p, q) = res  BY <1>1 DEF AddGeVar, h, i
<1>9. res.z = Mul(p.z, h)  BY <1>6 DEF AddTail
<1> HIDE DEF res
<1>10. Is(res.z, z1 * D, 1)  BY ONLY <1>1, <1>2, <1>4, <1>9, Small, MulIs
<1>11. ASSUME NEW x3, NEW y3, RefAdd(<<x1, y1>>, <<x2, y2>>) = <<x3, y3>>
       PROVE  Finite(res, x3, y3, z1 * D)
  <2>1. Stands(res, <<x3, y3>>) /\ <<x3, y3>> # None  BY <1>5, <1>11, PairIsNoNone
  <2>2. PICK x, y, z : <<x3, y3>> = <<x, y>> /\ Finite(res, x, y, z)  BY <2>1 DEF Stands
  <2>3. x3 = x /\ y3 = y /\ Finite(res, x3, y3, z)  BY ONLY <2>2
  <2>4. res.z.v = z % P /\ z \in Int  BY <2>3 DEF Finite, At, Is
  <2>5. res.z.v = (z1 * D) % P  BY <1>10 DEF Is
  <2>6. Same(z, z1 * D) /\ z1 * D \in Int  BY <1>1, <1>2, <2>4, <2>5 DEF Same
  <2> QED  BY ONLY <2>3, <2>6, FiniteAtZ
<1> QED  BY <1>2, <1>3, <1>4, <1>7, <1>8, <1>11

\* An affine point with a Z coordinate.
WithZ(q, z) == [GejSetGe(q) EXCEPT !.z = z]

\* The three points of a table, and how they are brought to one Z coordinate.
LEMMA ThreeMultiples ==
    ASSUME NEW p, NEW d, NEW dg
    PROVE  LET ai == MultiplesFrom(3, p, d, dg)
           IN  /\ ai[1] = WithZ(SetZinv(p, d.z), p.z)
               /\ ai[2] = AddGeVar(ai[1], dg) /\ ai[3] = AddGeVar(ai[2], dg)
<1> DEFINE b == [GejSetGe(SetZinv(p, d.z)) EXCEPT !.z = p.z]
           E(g, i) == IF i = 1 THEN b ELSE AddGeVar(g[i-1], dg)
           IsAi(g) == g = [i \in 1 .. 3 |-> E(g, i)]
           g0 == [i \in 1 .. 3 |-> IF i = 1 THEN b ELSE IF i = 2 THEN AddGeVar(b, dg)
                                   ELSE AddGeVar(AddGeVar(b, dg), dg)]
           ai == CHOOSE g : IsAi(g)
<1> HIDE DEF b
<1>1. 1 \in 1 .. 3 /\ 2 \in 1 .. 3 /\ 3 \in 1 .. 3 /\ 2 - 1 = 1 /\ 3 - 1 = 2 /\ 2 # 1 /\ 3 # 1
      /\ 3 # 2
  OBVIOUS
<1>2. g0[1] = b /\ g0[2] = AddGeVar(b, dg) /\ g0[3] = AddGeVar(AddGeVar(b, dg), dg)
  BY ONLY <1>1
<1>3. ASSUME NEW i \in 1 .. 3 PROVE g0[i] = E(g0, i)
  <2>1. i = 1 \/ i = 2 \/ i = 3  OBVIOUS
  <2> HIDE DEF g0
  <2> QED  BY ONLY <1>1, <1>2, <2>1
<1> HIDE DEF E
<1>4. IsAi(g0)  BY <1>3
<1>5. IsAi(ai)  BY <1>4
<1>6. MultiplesFrom(3, p, d, dg) = ai  BY DEF MultiplesFrom, E, b
<1> HIDE DEF ai
<1>7. \A i \in 1 .. 3 : ai[i] = E(ai, i)  BY <1>5
<1>8. ai[1] = b /\ ai[2] = AddGeVar(ai[1], dg) /\ ai[3] = AddGeVar(ai[2], dg)
  BY ONLY <1>1, <1>7 DEF E
<1>9. b = WithZ(SetZinv(p, d.z), p.z)  BY DEF b, WithZ
<1> QED  BY ONLY <1>6, <1>8, <1>9

\* The scaling of a table of three points.
LEMMA ThreeScaled ==
    ASSUME NEW ps, NEW zr, Len(ps) = 3
    PROVE  LET pts == TableSetGlobalz(ps, zr)
           IN  /\ pts[1] = SetZinv(ps[1], Mul(zr[3], zr[2]))
               /\ pts[2] = SetZinv(ps[2], zr[3])
               /\ pts[3] = [ps[3] EXCEPT !.y = NormalizeWeak(@)]
<1> DEFINE E(g, i) == IF i = 3 THEN One
                      ELSE IF i + 1 = 3 THEN zr[i+1] ELSE Mul(g[i+1], zr[i+1])
           IsZs(g) == g = [i \in 1 .. 3 |-> E(g, i)]
           g0 == [i \in 1 .. 3 |-> IF i = 3 THEN One
                                   ELSE IF i = 2 THEN zr[3] ELSE Mul(zr[3], zr[2])]
           zs == CHOOSE g : IsZs(g)
<1>1. 1 \in 1 .. 3 /\ 2 \in 1 .. 3 /\ 3 \in 1 .. 3 /\ 2 + 1 = 3 /\ 1 + 1 = 2 /\ 2 # 1 /\ 3 # 1
      /\ 3 # 2
  OBVIOUS
<1>2. g0[1] = Mul(zr[3], zr[2]) /\ g0[2] = zr[3] /\ g0[3] = One  BY ONLY <1>1
<1>3. ASSUME NEW i \in 1 .. 3 PROVE g0[i] = E(g0, i)
  <2>1. i = 1 \/ i = 2 \/ i = 3  OBVIOUS
  <2> HIDE DEF g0
  <2> QED  BY ONLY <1>1, <1>2, <2>1
<1> HIDE DEF E
<1>4. IsZs(g0)  BY <1>3
<1>5. IsZs(zs)  BY <1>4
<1>6. TableSetGlobalz(ps, zr)
        = [i \in 1 .. 3 |-> IF i = 3 THEN [ps[i] EXCEPT !.y = NormalizeWeak(@)]
                            ELSE SetZinv(ps[i], zs[i])]
  BY DEF TableSetGlobalz, E
<1> HIDE DEF zs
<1>7. \A i \in 1 .. 3 : zs[i] = E(zs, i)  BY <1>5
<1>8. zs[2] = zr[3] /\ zs[1] = Mul(zs[2], zr[2])
  BY ONLY <1>1, <1>7 DEF E
<1> QED  BY ONLY <1>1, <1>6, <1>8

\* An affine point whose Z coordinate is given later.
LEMMA CompletedIs ==
    ASSUME NEW q, NEW x \in Elements, NEW y \in Elements, NEW t, NEW T \in Int,
           q \in Ges, q.inf = FALSE, Is(q.x, x * (T * T), 4), Is(q.y, y * (T * (T * T)), 3),
           Is(t, T, 1), NonZero(T)
    PROVE  IsGe(q) /\ PointOf([GejSetGe(q) EXCEPT !.z = t]) = <<x, y>>
<1> DEFINE g == [GejSetGe(q) EXCEPT !.z = t]
           X == x * (T * T)
           Y == y * (T * (T * T))
<1>1. x \in Int /\ y \in Int  BY SmallIs
<1>2. X \in Int /\ Y \in Int  BY <1>1
<1>3. Is(q.x, X, 4) /\ Is(q.y, Y, 3)  OBVIOUS
<1> HIDE DEF X, Y
<1>4. IsGe(q)
  <2>1. IsFe(q.x) /\ IsFe(q.y)  BY ONLY <1>2, <1>3, Small, IsChecked
  <2> QED  BY <1>3, <2>1 DEF IsGe, Is
<1>5. t \in Records  BY DEF Is
<1>6. GejSetGe(q) = [x |-> q.x, y |-> q.y, z |-> One, inf |-> q.inf]  BY DEF GejSetGe
<1>7. g = [x |-> q.x, y |-> q.y, z |-> t, inf |-> q.inf]  BY ONLY <1>6
<1> HIDE DEF g
<1>8. g \in Gejs /\ g.x = q.x /\ g.y = q.y /\ g.z = t /\ g.inf = FALSE
  BY <1>5, <1>7 DEF Gejs, Ges
<1>9. Is(g.y, Y, 4)  BY ONLY <1>3, <1>8, Small, Widen
<1>10. Finite(g, x, y, T)  BY <1>3, <1>8, <1>9 DEF Finite, At, X, Y
<1>11. Stands(g, <<x, y>>)  BY <1>10 DEF Stands
<1>12. PointOf(g) = <<x, y>>  BY <1>11, CoordinatesAre
<1> QED  BY <1>4, <1>12 DEF g

\* A point of the isomorphic curve is brought to the Z coordinate T.
LEMMA BroughtTo ==
    ASSUME NEW e, NEW x \in Elements, NEW y \in Elements, NEW c \in Int, NEW z \in Int,
           NEW u, NEW v, Rescaled(<<x, y>>, c) = <<u, v>>, Finite(e, u, v, z),
           NEW V \in Int, NEW T \in Int, Same(T, c * (z * V))
    PROVE  /\ Same((u * (z * z)) * (V * V), x * (T * T))
           /\ Same((v * (z * (z * z))) * (V * (V * V)), y * (T * (T * T)))
<1> DEFINE t == c * (z * V)
           m == c * c
           n == c * (c * c)
           r == (z * z) * (V * V)
           s == (z * (z * z)) * (V * (V * V))
<1>1. x \in Int /\ y \in Int /\ u \in Elements /\ v \in Elements /\ u \in Int /\ v \in Int
  BY SmallIs DEF Finite
<1>2. t \in Int /\ m \in Int /\ n \in Int /\ r \in Int /\ s \in Int /\ Same(T, t)
      /\ x * m \in Int /\ y * n \in Int
  BY <1>1
<1>3. Same(u, x * m) /\ Same(v, y * n)
  <2>1. u = (x * m) % P /\ v = (y * n) % P  BY PairIsNoNone DEF Rescaled
  <2> HIDE DEF m, n
  <2> QED  BY ONLY <1>2, <2>1, SameResidue
<1>4. /\ (u * (z * z)) * (V * V) = u * r /\ (x * m) * r = x * (t * t)
      /\ (v * (z * (z * z))) * (V * (V * V)) = v * s /\ (y * n) * s = y * (t * (t * t))
  <2>1. (u * (z * z)) * (V * V) = u * r  BY ONLY <1>1, z \in Int, V \in Int
  <2>2. (v * (z * (z * z))) * (V * (V * V)) = v * s  BY ONLY <1>1, z \in Int, V \in Int
  <2>3. (x * m) * r = x * (t * t)  BY ONLY <1>1, z \in Int, V \in Int, c \in Int
  <2>4. (y * n) * s = y * (t * (t * t))  BY ONLY <1>1, z \in Int, V \in Int, c \in Int
  <2> QED  BY ONLY <2>1, <2>2, <2>3, <2>4
<1> HIDE DEF t, m, n, r, s
<1>5. Same(u * r, (x * m) * r) /\ Same(v * s, (y * n) * s)
  BY ONLY <1>1, <1>2, <1>3, SameScaled
<1>6. Same(T * T, t * t)  BY ONLY <1>2, T \in Int, SameProduct
<1>7. t * t \in Int /\ T * T \in Int /\ Same(x, x) /\ Same(y, y)  BY ONLY <1>2, T \in Int DEF Same
<1>8. Same(T * (T * T), t * (t * t))  BY ONLY <1>2, <1>6, <1>7, T \in Int, SameProduct
<1>9. t * (t * t) \in Int /\ T * (T * T) \in Int  BY ONLY <1>2, T \in Int
<1>10. Same(x * (T * T), x * (t * t))  BY ONLY <1>1, <1>6, <1>7, SameProduct
<1>11. Same(y * (T * (T * T)), y * (t * (t * t)))  BY ONLY <1>1, <1>7, <1>8, <1>9, SameProduct
<1> QED  BY ONLY <1>4, <1>5, <1>10, <1>11 DEF Same

\* A point of the table, scaled by the ratios that follow it.
LEMMA ScaledPoint ==
    ASSUME NEW e, NEW x \in Elements, NEW y \in Elements, NEW c \in Int, NEW z \in Int,
           NEW u, NEW v, Rescaled(<<x, y>>, c) = <<u, v>>, Finite(e, u, v, z),
           NEW zi, NEW V \in Int, Is(zi, V, 6),
           NEW t, NEW T \in Int, Is(t, T, 1), NonZero(T), Same(T, c * (z * V))
    PROVE  LET q == SetZinv(GeSetXY(e.x, e.y), zi)
           IN  IsGe(q) /\ PointOf([GejSetGe(q) EXCEPT !.z = t]) = <<x, y>>
<1> DEFINE q == SetZinv(GeSetXY(e.x, e.y), zi)
           X == u * (z * z)
           Y == v * (z * (z * z))
           zi2 == Sqr(zi)
           qx == Mul(e.x, zi2)
           qy == Mul(e.y, Mul(zi2, zi))
           A2 == V * V
           A3 == A2 * V
           X1 == x * (T * T)
           Y1 == y * (T * (T * T))
<1>1. /\ x \in Int /\ y \in Int /\ u \in Int /\ v \in Int /\ Is(e.x, X, 4) /\ Is(e.y, Y, 4)
  BY SmallIs DEF Finite, At
<1>2. X \in Int /\ Y \in Int /\ A2 \in Int /\ A3 \in Int /\ X1 \in Int /\ Y1 \in Int
      /\ A3 = V * (V * V)
  BY <1>1
<1>3. Same(X * A2, X1) /\ Same(Y * A3, Y1)
  <2>1. Same(X * (V * V), X1) /\ Same(Y * (V * (V * V)), Y1)  BY BroughtTo
  <2> QED  BY ONLY <1>2, <2>1
<1>4. q = [x |-> qx, y |-> qy, inf |-> FALSE]
  <2> DEFINE g == GeSetXY(e.x, e.y)
  <2>1. g.x = e.x /\ g.y = e.y  BY DEF GeSetXY
  <2> HIDE DEF g
  <2>2. SetZinv(g, zi) = GeSetXY(Mul(g.x, zi2), Mul(g.y, Mul(zi2, zi)))  BY DEF SetZinv
  <2> QED  BY <2>1, <2>2 DEF GeSetXY, g
<1>5. Is(zi2, A2, 1)  BY Small, SqrIs
<1> HIDE DEF q, X, Y, zi2, A2, X1, Y1
<1>6. Is(qx, X * A2, 1)  BY ONLY <1>1, <1>2, <1>5, Small, MulIs
<1>7. Is(Mul(zi2, zi), A3, 1)  BY ONLY <1>2, <1>5, Is(zi, V, 6), V \in Int, Small, MulIs DEF A3
<1> HIDE DEF A3
<1>8. Is(qy, Y * A3, 1)  BY ONLY <1>1, <1>2, <1>7, Small, MulIs
<1> HIDE DEF qx, qy
<1>9. Is(qx, X1, 1) /\ Is(qy, Y1, 1)  BY ONLY <1>2, <1>3, <1>6, <1>8, Small, Retarget
<1>10. Is(qx, X1, 4) /\ Is(qy, Y1, 3)  BY ONLY <1>9, Small, Widen
<1>11. q \in Ges /\ q.inf = FALSE /\ q.x = qx /\ q.y = qy
  BY <1>4, <1>9 DEF Ges, Is
<1>12. Is(q.x, x * (T * T), 4) /\ Is(q.y, y * (T * (T * T)), 3)  BY <1>10, <1>11 DEF X1, Y1
<1>13. IsGe(q) /\ PointOf([GejSetGe(q) EXCEPT !.z = t]) = <<x, y>>
  BY ONLY <1>11, <1>12, CompletedIs, x \in Elements, y \in Elements, T \in Int, Is(t, T, 1),
          NonZero(T)
<1> QED  BY <1>13 DEF q

\* The last point of the table, whose coordinates stay as they are.
LEMMA LastPoint ==
    ASSUME NEW e, NEW x \in Elements, NEW y \in Elements, NEW c \in Int, NEW z \in Int,
           NEW u, NEW v, Rescaled(<<x, y>>, c) = <<u, v>>, Finite(e, u, v, z),
           NEW t, NEW T \in Int, Is(t, T, 1), NonZero(T), Same(T, c * z)
    PROVE  LET q == [GeSetXY(e.x, e.y) EXCEPT !.y = NormalizeWeak(@)]
           IN  IsGe(q) /\ PointOf([GejSetGe(q) EXCEPT !.z = t]) = <<x, y>>
<1> DEFINE q == [GeSetXY(e.x, e.y) EXCEPT !.y = NormalizeWeak(@)]
           X == u * (z * z)
           Y == v * (z * (z * z))
           X1 == x * (T * T)
           Y1 == y * (T * (T * T))
           qy == NormalizeWeak(e.y)
<1>1. /\ x \in Int /\ y \in Int /\ u \in Int /\ v \in Int /\ Is(e.x, X, 4) /\ Is(e.y, Y, 4)
  BY SmallIs DEF Finite, At
<1>2. X \in Int /\ Y \in Int /\ X1 \in Int /\ Y1 \in Int  BY <1>1
<1>3. Same(X, X1) /\ Same(Y, Y1)
  <2>1. Same(T, c * (z * 1))
    <3>1. z * 1 = z  OBVIOUS
    <3> QED  BY <3>1
  <2>2. 1 \in Int  OBVIOUS
  <2>3. Same(X * (1 * 1), X1) /\ Same(Y * (1 * (1 * 1)), Y1)  BY <2>1, <2>2, BroughtTo
  <2> HIDE DEF X, Y
  <2>4. X * (1 * 1) = X /\ Y * (1 * (1 * 1)) = Y  BY <1>2
  <2> QED  BY <2>3, <2>4
<1>4. q = [x |-> e.x, y |-> qy, inf |-> FALSE]
  <2> DEFINE g == GeSetXY(e.x, e.y)
  <2>1. g = [x |-> e.x, y |-> e.y, inf |-> FALSE] /\ q = [g EXCEPT !.y = NormalizeWeak(g.y)]
    BY DEF GeSetXY
  <2> HIDE DEF g, q
  <2>2. g.y = e.y  BY ONLY <2>1
  <2>3. q = [g EXCEPT !.y = qy]  BY <2>1, <2>2
  <2> HIDE DEF qy
  <2> QED  BY ONLY <2>1, <2>3
<1> HIDE DEF q, X, Y, X1, Y1
<1>5. Is(qy, Y, 1)  BY ONLY <1>1, <1>2, Small, NormalizeWeakIs
<1> HIDE DEF qy
<1>6. Is(e.x, X1, 4) /\ Is(qy, Y1, 1)  BY ONLY <1>1, <1>2, <1>3, <1>5, Small, Retarget
<1>7. Is(qy, Y1, 3)  BY ONLY <1>6, Small, Widen
<1>8. q \in Ges /\ q.inf = FALSE /\ q.x = e.x /\ q.y = qy
  BY <1>4, <1>6 DEF Ges, Is
<1>9. Is(q.x, x * (T * T), 4) /\ Is(q.y, y * (T * (T * T)), 3)  BY <1>6, <1>7, <1>8 DEF X1, Y1
<1>10. IsGe(q) /\ PointOf([GejSetGe(q) EXCEPT !.z = t]) = <<x, y>>
  BY ONLY <1>8, <1>9, CompletedIs, x \in Elements, y \in Elements, T \in Int, Is(t, T, 1),
          NonZero(T)
<1> QED  BY <1>10 DEF q

\* The first point of the table on the curve on which the doubled point is
\* affine, and the doubled point there.
LEMMA OnIsomorphic ==
    ASSUME NEW p, NEW x, NEW y, NEW z, Finite(p, x, y, z),
           NEW d, NEW x2, NEW y2, NEW c, Finite(d, x2, y2, c), NEW g, d.y = Negate(g, 2)
    PROVE  /\ \E u, v : /\ Rescaled(<<x, y>>, c) = <<u, v>>
                        /\ Finite(WithZ(SetZinv(p, d.z), p.z), u, v, z)
           /\ \E u, v : /\ Rescaled(<<x2, y2>>, c) = <<u, v>>
                        /\ FiniteGe(GeSetXY(d.x, d.y), u, v)
<1>1. /\ x \in Elements /\ y \in Elements /\ z \in Int /\ NonZero(z) /\ p.inf = FALSE
      /\ Is(p.x, x * (z * z), 4) /\ Is(p.y, y * (z * (z * z)), 4) /\ Is(p.z, z, 1)
      /\ x2 \in Elements /\ y2 \in Elements /\ c \in Int /\ NonZero(c) /\ d.inf = FALSE
      /\ Is(d.x, x2 * (c * c), 4) /\ Is(d.y, y2 * (c * (c * c)), 4) /\ Is(d.z, c, 1)
      /\ x \in Int /\ y \in Int
  BY SmallIs DEF Finite, At
<1>2. \E u, v : /\ Rescaled(<<x, y>>, c) = <<u, v>>
                /\ Finite(WithZ(SetZinv(p, d.z), p.z), u, v, z)
  <2> DEFINE m == c * c
             n == c * (c * c)
             X == x * (z * z)
             Y == y * (z * (z * z))
             q == SetZinv(p, d.z)
             r == [GejSetGe(q) EXCEPT !.z = p.z]
  <2>1. PICK u, v \in Elements :
           /\ Rescaled(<<x, y>>, c) = <<u, v>>
           /\ Same(u, x * m) /\ Same(v, y * n) /\ u \in Int /\ v \in Int
    BY <1>1, RescaledIs
  <2>2. X \in Int /\ Y \in Int /\ m \in Int /\ n \in Int /\ z * z \in Int /\ z * (z * z) \in Int
        /\ u * (z * z) \in Int /\ v * (z * (z * z)) \in Int /\ x * m \in Int /\ y * n \in Int
    BY <1>1, <2>1
  <2>3. Times(X, Times(c, c)) = (x * m) * (z * z)
        /\ Times(Y, Times(Times(c, c), c)) = (y * n) * (z * (z * z))
    <3>1. X * (c * c) = (x * m) * (z * z) /\ Y * ((c * c) * c) = (y * n) * (z * (z * z))
      BY ONLY <1>1
    <3> QED  BY ONLY <3>1 DEF Times
  <2>4. Is(p.x, X, 4) /\ Is(p.y, Y, 4)  BY <1>1
  <2> HIDE DEF m, n, X, Y
  <2>5. /\ q \in Ges /\ q.inf = FALSE
        /\ Is(q.x, Times(X, Times(c, c)), 1)
        /\ Is(q.y, Times(Y, Times(Times(c, c), c)), 1)
    BY ONLY <1>1, <2>4, SetZinvAt
  <2> HIDE DEF q
  <2>6. Same((x * m) * (z * z), u * (z * z)) /\ Same((y * n) * (z * (z * z)), v * (z * (z * z)))
    <3>1. Same(x * m, u) /\ Same(y * n, v)  BY <2>1 DEF Same
    <3> QED  BY ONLY <2>1, <2>2, <3>1, SameScaled
  <2>7. Is(q.x, u * (z * z), 1) /\ Is(q.y, v * (z * (z * z)), 1)
    BY ONLY <2>2, <2>3, <2>5, <2>6, Small, Retarget
  <2>8. Is(q.x, u * (z * z), 4) /\ Is(q.y, v * (z * (z * z)), 4)  BY ONLY <2>7, Small, Widen
  <2>9. p.z \in Records /\ q.x \in Records /\ q.y \in Records  BY ONLY <1>1, <2>7 DEF Is
  <2>10. GejSetGe(q) = [x |-> q.x, y |-> q.y, z |-> One, inf |-> q.inf]  BY DEF GejSetGe
  <2>11. r = [x |-> q.x, y |-> q.y, z |-> p.z, inf |-> q.inf]  BY ONLY <2>10
  <2> HIDE DEF r
  <2>12. r \in Gejs /\ r.x = q.x /\ r.y = q.y /\ r.z = p.z /\ r.inf = FALSE
    BY ONLY <2>5, <2>9, <2>11 DEF Gejs
  <2>13. Finite(r, u, v, z)  BY ONLY <1>1, <2>1, <2>8, <2>12 DEF Finite, At
  <2>14. WithZ(SetZinv(p, d.z), p.z) = r  BY DEF WithZ, r, q
  <2> QED  BY ONLY <2>1, <2>13, <2>14
<1>3. \E u, v : /\ Rescaled(<<x2, y2>>, c) = <<u, v>>
                /\ FiniteGe(GeSetXY(d.x, d.y), u, v)
  <2> DEFINE m == c * c
             n == c * (c * c)
             q == GeSetXY(d.x, d.y)
  <2>1. PICK u, v \in Elements :
           /\ Rescaled(<<x2, y2>>, c) = <<u, v>>
           /\ Same(u, x2 * m) /\ Same(v, y2 * n) /\ u \in Int /\ v \in Int
    BY <1>1, RescaledIs
  <2>2. Is(d.x, x2 * m, 4) /\ Is(d.y, y2 * n, 3)
    <3>1. Is(d.y, y2 * n, 3)  BY <1>1, NegatedTwo
    <3> QED  BY <1>1, <3>1
  <2> HIDE DEF m, n
  <2>3. Is(d.x, u, 4) /\ Is(d.y, v, 3)
    <3>1. Same(x2 * m, u) /\ Same(y2 * n, v)  BY <2>1 DEF Same
    <3> QED  BY ONLY <2>1, <2>2, <3>1, Small, Retarget
  <2>4. q = [x |-> d.x, y |-> d.y, inf |-> FALSE]  BY DEF GeSetXY
  <2> HIDE DEF q
  <2>5. q \in Ges /\ q.x = d.x /\ q.y = d.y /\ q.inf = FALSE  BY ONLY <2>3, <2>4 DEF Ges, Is
  <2>6. FiniteGe(q, u, v)  BY ONLY <2>1, <2>3, <2>5 DEF FiniteGe, AtGe
  <2> QED  BY <2>1, <2>6 DEF q
<1> QED  BY <1>2, <1>3

\* The parts of the table of three points.
LEMMA TableParts ==
    ASSUME NEW ai, NEW d, NEW dg
    PROVE  LET t == TableOf(3, ai, d, dg)
           IN  /\ Len(t.pre) = 3
               /\ \A i \in 1 .. 3 : t.pre[i] = GeSetXY(ai[i].x, ai[i].y)
               /\ t.zr[2] = AddGeRatio(ai[1], dg) /\ t.zr[3] = AddGeRatio(ai[2], dg)
               /\ t.z = Mul(ai[3].z, d.z)
<1> DEFINE t == TableOf(3, ai, d, dg)
           pre == [i \in 1 .. 3 |-> GeSetXY(ai[i].x, ai[i].y)]
           zr == [i \in 1 .. 3 |-> IF i = 1 THEN d.z ELSE AddGeRatio(ai[i-1], dg)]
<1>1. t = [pre |-> pre, zr |-> zr, z |-> Mul(ai[3].z, d.z)]  BY DEF TableOf
<1>2. zr[2] = AddGeRatio(ai[1], dg) /\ zr[3] = AddGeRatio(ai[2], dg)
  <2>1. \A i \in 1 .. 3 : zr[i] = IF i = 1 THEN d.z ELSE AddGeRatio(ai[i-1], dg)  OBVIOUS
  <2>2. 2 \in 1 .. 3 /\ 3 \in 1 .. 3 /\ 2 # 1 /\ 3 # 1 /\ 2 - 1 = 1 /\ 3 - 1 = 2  OBVIOUS
  <2> HIDE DEF zr
  <2> QED  BY ONLY <2>1, <2>2
<1>3. Len(pre) = 3
  <2> DEFINE S0 == {pre[i] : i \in 1 .. 3}
  <2>1. pre \in [1 .. 3 -> S0] /\ 3 \in Nat  OBVIOUS
  <2> HIDE DEF pre, S0
  <2>2. pre \in Seq(S0) /\ DOMAIN pre = 1 .. 3  BY ONLY <2>1, SeqDef
  <2> QED  BY ONLY <2>1, <2>2, LenProperties
<1>4. \A i \in 1 .. 3 : pre[i] = GeSetXY(ai[i].x, ai[i].y)  OBVIOUS
<1> HIDE DEF t, pre, zr
<1>5. t.pre = pre /\ t.zr = zr /\ t.z = Mul(ai[3].z, d.z)  BY ONLY <1>1
<1> QED  BY ONLY <1>2, <1>3, <1>4, <1>5 DEF t

\* secp256k1_ecmult_odd_multiples_table and secp256k1_ge_table_set_globalz.
LEMMA TableStands ==
    ASSUME NEW p, NEW k \in 1 .. N-1, Stands(p, Multiple[k])
    PROVE  LET t == OddMultiples(3, p)
               pts == TableSetGlobalz(t.pre, t.zr)
           IN  \A i \in 1 .. 3 :
                  /\ IsGe(pts[i])
                  /\ PointOf([GejSetGe(pts[i]) EXCEPT !.z = t.z]) = Multiple[((2 * i - 1) * k) % N]
<1> DEFINE M(j) == Multiple[(j * k) % N]
<1>1. /\ k \in Int /\ k % N = k /\ k % N # 0
      /\ (2 * k) % N # 0 /\ (3 * k) % N # 0 /\ (5 * k) % N # 0
  BY TableIndices
<1>2. ASSUME NEW j \in Int, (j * k) % N # 0
      PROVE  \E x, y : /\ M(j) = <<x, y>> /\ <<x, y>> \in Points
                       /\ x \in Elements /\ y \in Elements /\ y # 0
  <2>1. j * k \in Int  BY <1>1
  <2> DEFINE i == (j * k) % N
  <2>2. i \in 0 .. N-1  BY <2>1, Indices
  <2>3. i # 0  BY <1>2
  <2> HIDE DEF i
  <2>4. Multiple[i] \in Points  BY <2>2, <2>3, Multiples DEF OnGroup
  <2>5. PICK x, y : Multiple[i] = <<x, y>>  BY <2>4, Multiples
  <2>6. x \in Elements /\ y \in Elements /\ y # 0  BY <2>4, <2>5, PointTypes
  <2> QED  BY <2>4, <2>5, <2>6 DEF i
<1>3. PICK x1, y1 : /\ Multiple[k] = <<x1, y1>> /\ <<x1, y1>> \in Points
                    /\ x1 \in Elements /\ y1 \in Elements /\ y1 # 0
  <2>1. 1 * k = k /\ 1 \in Int  BY <1>1
  <2>2. M(1) = Multiple[k]  BY <1>1, <2>1
  <2>3. (1 * k) % N # 0  BY <1>1, <2>1
  <2> HIDE DEF M
  <2> QED  BY <1>2, <2>1, <2>2, <2>3
<1>4. PICK x2, y2 : /\ Multiple[(2 * k) % N] = <<x2, y2>>
                    /\ x2 \in Elements /\ y2 \in Elements
  BY ONLY <1>1, <1>2, 2 \in Int
<1>5. PICK x3, y3 : /\ Multiple[(3 * k) % N] = <<x3, y3>>
                    /\ x3 \in Elements /\ y3 \in Elements /\ y3 # 0
  BY ONLY <1>1, <1>2, 3 \in Int
<1>6. PICK x5, y5 : /\ Multiple[(5 * k) % N] = <<x5, y5>>
                    /\ x5 \in Elements /\ y5 \in Elements
  BY ONLY <1>1, <1>2, 5 \in Int
<1> HIDE DEF M
<1>7. /\ RefAdd(<<x1, y1>>, <<x1, y1>>) = <<x2, y2>>
      /\ RefAdd(<<x1, y1>>, <<x2, y2>>) = <<x3, y3>>
      /\ RefAdd(<<x3, y3>>, <<x2, y2>>) = <<x5, y5>>
  <2>1. /\ k + k = 2 * k /\ k + 2 * k = 3 * k /\ 3 * k + 2 * k = 5 * k
        /\ 2 * k \in Int /\ 3 * k \in Int
    BY <1>1
  <2>2. RefAdd(Multiple[k % N], Multiple[k % N]) = Multiple[(k + k) % N]
    BY ONLY <1>1, Indices
  <2>3. RefAdd(Multiple[k % N], Multiple[(2 * k) % N]) = Multiple[(k + 2 * k) % N]
    BY ONLY <1>1, <2>1, Indices
  <2>4. RefAdd(Multiple[(3 * k) % N], Multiple[(2 * k) % N]) = Multiple[(3 * k + 2 * k) % N]
    BY ONLY <2>1, Indices
  <2> QED  BY ONLY <1>1, <1>3, <1>4, <1>5, <1>6, <2>1, <2>2, <2>3, <2>4
<1>8. x1 # x2 /\ x3 # x2
  <2> DEFINE j2 == 2 * k
             j3 == 3 * k
  <2>1. /\ j2 \in Int /\ j3 \in Int /\ j2 + -k = k /\ j2 + k = j3 /\ j3 + -j2 = k
        /\ j3 + j2 = 5 * k
    BY <1>1
  <2>2. /\ Multiple[j2 % N] = <<x2, y2>> /\ Multiple[j3 % N] = <<x3, y3>>
        /\ Multiple[k % N] = <<x1, y1>>
        /\ j2 % N # 0 /\ j3 % N # 0
    BY <1>1, <1>3, <1>4, <1>5
  <2> HIDE DEF j2, j3
  <2>3. x2 # x1  BY ONLY <1>1, <2>1, <2>2, XsDiffer
  <2>4. x3 # x2  BY ONLY <1>1, <2>1, <2>2, XsDiffer
  <2> QED  BY <2>3, <2>4
<1> DEFINE d == DoubleVar(p)
           dg == GeSetXY(d.x, d.y)
           ai == MultiplesFrom(3, p, d, dg)
           t == OddMultiples(3, p)
           pts == TableSetGlobalz(t.pre, t.zr)
           a1 == ai[1]
           a2 == ai[2]
           a3 == ai[3]
<1>9. t = TableOf(3, ai, d, dg)  BY DEF OddMultiples
<1>10. PICK z1 : Finite(p, x1, y1, z1)
  <2>1. <<x1, y1>> # None  BY PairIsNoNone
  <2>2. PICK x, y, z : <<x1, y1>> = <<x, y>> /\ Finite(p, x, y, z)  BY <1>3, <2>1 DEF Stands
  <2> QED  BY ONLY <2>2
<1>11. PICK c : Finite(d, x2, y2, c)
  <2>1. Stands(d, <<x2, y2>>)  BY <1>3, <1>7, DoubleIsSum
  <2>2. <<x2, y2>> # None  BY PairIsNoNone
  <2>3. PICK x, y, z : <<x2, y2>> = <<x, y>> /\ Finite(d, x, y, z)  BY <2>1, <2>2 DEF Stands
  <2> QED  BY ONLY <2>3
<1>12. PICK g : d.y = Negate(g, 2)
  <2>1. p.inf = FALSE  BY <1>10 DEF Finite
  <2>2. d = Double(p)  BY <2>1 DEF DoubleVar
  <2> QED  BY <2>2 DEF Double
<1>13. /\ a1 = WithZ(SetZinv(p, d.z), p.z)
       /\ a2 = AddGeVar(a1, dg) /\ a3 = AddGeVar(a2, dg)
  <2> HIDE DEF d, dg
  <2> QED  BY ONLY ThreeMultiples
<1>14. /\ Len(t.pre) = 3
       /\ \A i \in 1 .. 3 : t.pre[i] = GeSetXY(ai[i].x, ai[i].y)
       /\ t.zr[2] = AddGeRatio(a1, dg) /\ t.zr[3] = AddGeRatio(a2, dg)
       /\ t.z = Mul(a3.z, d.z)
  BY <1>9, TableParts
<1>15. /\ pts[1] = SetZinv(t.pre[1], Mul(t.zr[3], t.zr[2]))
       /\ pts[2] = SetZinv(t.pre[2], t.zr[3])
       /\ pts[3] = [t.pre[3] EXCEPT !.y = NormalizeWeak(@)]
  BY <1>14, ThreeScaled
<1>16. /\ pts[1] = SetZinv(GeSetXY(a1.x, a1.y), Mul(t.zr[3], t.zr[2]))
       /\ pts[2] = SetZinv(GeSetXY(a2.x, a2.y), t.zr[3])
       /\ pts[3] = [GeSetXY(a3.x, a3.y) EXCEPT !.y = NormalizeWeak(@)]
  <2>1. t.pre[1] = GeSetXY(a1.x, a1.y) /\ t.pre[2] = GeSetXY(a2.x, a2.y)
        /\ t.pre[3] = GeSetXY(a3.x, a3.y)
    BY <1>14
  <2> HIDE DEF pts, t, a1, a2, a3
  <2> QED  BY ONLY <1>15, <2>1
<1>17. /\ \E u, v : Rescaled(<<x1, y1>>, c) = <<u, v>> /\ Finite(a1, u, v, z1)
       /\ \E u, v : Rescaled(<<x2, y2>>, c) = <<u, v>> /\ FiniteGe(dg, u, v)
  <2> HIDE DEF d, a1
  <2> QED  BY ONLY <1>10, <1>11, <1>12, <1>13, OnIsomorphic
<1> HIDE DEF d, dg, ai, t, pts, a1, a2, a3
<1>18. PICK u1, v1 : Rescaled(<<x1, y1>>, c) = <<u1, v1>> /\ Finite(a1, u1, v1, z1)  BY <1>17
<1>19. PICK u2, v2 : Rescaled(<<x2, y2>>, c) = <<u2, v2>> /\ FiniteGe(dg, u2, v2)  BY <1>17
<1>20. c \in Int /\ NonZero(c) /\ Is(d.z, c, 1) /\ z1 \in Int /\ NonZero(z1)
  BY <1>10, <1>11 DEF Finite, At
<1>21. PICK u3, v3 : Rescaled(<<x3, y3>>, c) = <<u3, v3>> /\ v3 # 0  BY <1>5, <1>20, RescaledIs
<1>22. PICK u5, v5 : Rescaled(<<x5, y5>>, c) = <<u5, v5>>  BY <1>6, <1>20, RescaledIs
<1>23. v1 # 0
  <2>1. PICK u, v : Rescaled(<<x1, y1>>, c) = <<u, v>> /\ v # 0  BY ONLY <1>3, <1>20, RescaledIs
  <2> QED  BY ONLY <1>18, <2>1
<1>24. RefAdd(<<u1, v1>>, <<u2, v2>>) = <<u3, v3>> /\ u1 # u2
  <2>1. /\ IsSum(x1, y1, x2, y2, x3, y3) /\ Scales(x1, y1, c, u1, v1)
        /\ Scales(x2, y2, c, u2, v2) /\ Scales(x3, y3, c, u3, v3)
    BY ONLY <1>7, <1>18, <1>19, <1>21 DEF IsSum, Scales
  <2>2. x1 \in Elements /\ y1 \in Elements /\ x2 \in Elements /\ y2 \in Elements
    BY ONLY <1>3, <1>4
  <2>3. IsSum(u1, v1, u2, v2, u3, v3) /\ u1 # u2
    BY ONLY <1>8, <1>20, <2>1, <2>2, RescaledSum
  <2> QED  BY ONLY <2>3 DEF IsSum
<1>25. RefAdd(<<u3, v3>>, <<u2, v2>>) = <<u5, v5>> /\ u3 # u2
  <2>1. /\ IsSum(x3, y3, x2, y2, x5, y5) /\ Scales(x3, y3, c, u3, v3)
        /\ Scales(x2, y2, c, u2, v2) /\ Scales(x5, y5, c, u5, v5)
    BY ONLY <1>7, <1>19, <1>21, <1>22 DEF IsSum, Scales
  <2>2. x3 \in Elements /\ y3 \in Elements /\ x2 \in Elements /\ y2 \in Elements
    BY ONLY <1>4, <1>5
  <2>3. IsSum(u3, v3, u2, v2, u5, v5) /\ u3 # u2
    BY ONLY <1>8, <1>20, <2>1, <2>2, RescaledSum
  <2> QED  BY ONLY <2>3 DEF IsSum
<1>26. PICK r2 \in Int : /\ Is(AddGeRatio(a1, dg), r2, 6) /\ NonZero(r2)
                         /\ Finite(a2, u3, v3, z1 * r2)
  <2>1. PICK r2 \in Int :
           /\ Is(AddGeRatio(a1, dg), r2, 6) /\ NonZero(r2)
           /\ \A x, y : RefAdd(<<u1, v1>>, <<u2, v2>>) = <<x, y>>
                           => Finite(AddGeVar(a1, dg), x, y, z1 * r2)
    BY ONLY <1>18, <1>19, <1>23, <1>24, TableStep
  <2> QED  BY ONLY <1>13, <1>24, <2>1
<1> DEFINE z2 == z1 * r2
<1>27. z2 \in Int /\ NonZero(z2) /\ Finite(a2, u3, v3, z2)  BY <1>20, <1>26, NoZeroDivisors
<1> HIDE DEF z2
<1>28. PICK r3 \in Int : /\ Is(AddGeRatio(a2, dg), r3, 6) /\ NonZero(r3)
                         /\ Finite(a3, u5, v5, z2 * r3)
  <2>1. PICK r3 \in Int :
           /\ Is(AddGeRatio(a2, dg), r3, 6) /\ NonZero(r3)
           /\ \A x, y : RefAdd(<<u3, v3>>, <<u2, v2>>) = <<x, y>>
                           => Finite(AddGeVar(a2, dg), x, y, z2 * r3)
    BY ONLY <1>19, <1>21, <1>25, <1>27, TableStep
  <2> QED  BY ONLY <1>13, <1>25, <2>1
<1> DEFINE z3 == z2 * r3
           T == z3 * c
           V == r3 * r2
<1>29. z3 \in Int /\ NonZero(z3) /\ Finite(a3, u5, v5, z3)  BY <1>27, <1>28, NoZeroDivisors
<1>30. T \in Int /\ V \in Int /\ T = c * (z1 * V) /\ T = c * (z2 * r3) /\ T = c * z3
  BY <1>20, <1>26, <1>27, <1>28 DEF z2
<1>31. NonZero(T)
  <2> HIDE DEF z3
  <2> QED  BY ONLY <1>20, <1>29, NoZeroDivisors
<1> HIDE DEF z3
<1>32. Is(t.z, T, 1)
  <2>1. Is(a3.z, z3, 1)  BY <1>29 DEF Finite, At
  <2>2. Is(Mul(a3.z, d.z), z3 * c, 1)  BY ONLY <1>20, <1>29, <2>1, Small, MulIs
  <2> QED  BY <1>14, <2>2
<1>33. Is(Mul(t.zr[3], t.zr[2]), V, 6)
  <2>1. Is(t.zr[3], r3, 6) /\ Is(t.zr[2], r2, 6)  BY <1>14, <1>26, <1>28
  <2>2. Is(Mul(t.zr[3], t.zr[2]), r3 * r2, 1)  BY ONLY <1>26, <1>28, <2>1, Small, MulIs
  <2> HIDE DEF V
  <2>3. Is(Mul(t.zr[3], t.zr[2]), V, 1)  BY <2>2 DEF V
  <2> QED  BY ONLY <2>3, Small, Widen
<1>34. Is(t.zr[3], r3, 6)  BY <1>14, <1>28
<1> HIDE DEF T, V
<1>35. Same(T, c * (z1 * V)) /\ Same(T, c * (z2 * r3)) /\ Same(T, c * z3)
  BY ONLY <1>30 DEF Same
<1>36. IsGe(pts[1]) /\ PointOf([GejSetGe(pts[1]) EXCEPT !.z = t.z]) = <<x1, y1>>
  BY ONLY <1>3, <1>16, <1>18, <1>20, <1>30, <1>31, <1>32, <1>33, <1>35, ScaledPoint
<1>37. IsGe(pts[2]) /\ PointOf([GejSetGe(pts[2]) EXCEPT !.z = t.z]) = <<x3, y3>>
  BY ONLY <1>5, <1>16, <1>20, <1>21, <1>27, <1>28, <1>30, <1>31, <1>32, <1>34, <1>35, ScaledPoint
<1>38. IsGe(pts[3]) /\ PointOf([GejSetGe(pts[3]) EXCEPT !.z = t.z]) = <<x5, y5>>
  <2> DEFINE q == [GeSetXY(a3.x, a3.y) EXCEPT !.y = NormalizeWeak(@)]
  <2>1. IsGe(q) /\ PointOf([GejSetGe(q) EXCEPT !.z = t.z]) = <<x5, y5>>
    BY ONLY <1>6, <1>20, <1>22, <1>29, <1>30, <1>31, <1>32, <1>35, LastPoint
  <2>2. pts[3] = q  BY ONLY <1>16
  <2> HIDE DEF q
  <2> QED  BY ONLY <2>1, <2>2
<1>39. /\ <<x1, y1>> = Multiple[((2 * 1 - 1) * k) % N]
       /\ <<x3, y3>> = Multiple[((2 * 2 - 1) * k) % N]
       /\ <<x5, y5>> = Multiple[((2 * 3 - 1) * k) % N]
  <2>1. 2 * 1 - 1 = 1 /\ 2 * 2 - 1 = 3 /\ 2 * 3 - 1 = 5 /\ 1 * k = k  BY <1>1
  <2> QED  BY ONLY <1>1, <1>3, <1>5, <1>6, <2>1
<1>40. ASSUME NEW i \in 1 .. 3
       PROVE  /\ IsGe(pts[i])
              /\ PointOf([GejSetGe(pts[i]) EXCEPT !.z = t.z]) = Multiple[((2 * i - 1) * k) % N]
  <2>1. i = 1 \/ i = 2 \/ i = 3  OBVIOUS
  <2> QED  BY ONLY <1>36, <1>37, <1>38, <1>39, <2>1
<1> QED  BY <1>40 DEF pts, t

\* The shared inversion and the table of odd multiples.
LEMMA TablesHold == ASSUME PointsStand PROVE TablesSound
<1>1. /\ R(jac, kjac) /\ kjac \in Int /\ kaff \in Int /\ kjac % N = kjac
      /\ kjac \in 0 .. N-1 /\ Stands(jac, Multiple[kjac])
  BY ForMultiples DEF PointsStand
<1>2. /\ R(GejSetGe(aff), kaff) /\ R(NegY(jac), -kjac) /\ R(GejInfinity, 0)
      /\ R(AddGeVar(jac, aff), kjac + kaff)
  <2>1. \A q \in Operands : R(q[1], q[2])  BY OperandsStand
  <2>2. /\ <<GejSetGe(aff), kaff>> \in Operands /\ <<NegY(jac), -kjac>> \in Operands
        /\ <<GejInfinity, 0>> \in Operands
        /\ <<AddGeVar(jac, aff), kjac + kaff>> \in Operands
    BY DEF Operands
  <2>3. \A x, y : <<x, y>>[1] = x /\ <<x, y>>[2] = y  OBVIOUS
  <2> QED  BY ONLY <2>1, <2>2, <2>3
<1> DEFINE ps == <<jac, GejInfinity, NegY(jac), GejSetGe(aff), AddGeVar(jac, aff)>>
           ks == <<kjac, 0, -kjac, kaff, kjac + kaff>>
           pts == [i \in 1 .. 5 |-> Multiple[ks[i] % N]]
<1>3. /\ Len(ps) = 5 /\ ps[1] = jac /\ ps[2] = GejInfinity /\ ps[3] = NegY(jac)
      /\ ps[4] = GejSetGe(aff) /\ ps[5] = AddGeVar(jac, aff)
  OBVIOUS
<1>4. ks[1] = kjac /\ ks[2] = 0 /\ ks[3] = -kjac /\ ks[4] = kaff /\ ks[5] = kjac + kaff
  OBVIOUS
<1>5. \A i \in 1 .. 5 : pts[i] = Multiple[ks[i] % N]  OBVIOUS
<1>6. ASSUME NEW i \in 1 .. 5 PROVE Stands(ps[i], pts[i])
  <2>1. i = 1 \/ i = 2 \/ i = 3 \/ i = 4 \/ i = 5  OBVIOUS
  <2> HIDE DEF ps, ks, pts
  <2>2. R(ps[i], ks[i])  BY ONLY <1>1, <1>2, <1>3, <1>4, <2>1
  <2> QED  BY ONLY <1>5, <2>2, i \in 1 .. 5 DEF R
<1> HIDE DEF ps, ks, pts
<1>7. \A i \in 1 .. 5 : StandsGe(SetAllGejVar(ps)[i], pts[i])
  <2>1. 5 \in Nat \ {0}  OBVIOUS
  <2> QED  BY ONLY <1>3, <1>6, <2>1, SetAllStands
<1>8. \A i \in 1 .. 5 : AffineOf(SetAllGejVar(ps)[i]) = Multiple[ks[i] % N]
  <2> SUFFICES ASSUME NEW i \in 1 .. 5
               PROVE  AffineOf(SetAllGejVar(ps)[i]) = Multiple[ks[i] % N]
    OBVIOUS
  <2> QED  BY ONLY <1>5, <1>7, i \in 1 .. 5, CoordinatesAreGe
<1> DEFINE t == OddMultiples(3, jac)
           tab == TableSetGlobalz(t.pre, t.zr)
<1>9. ASSUME ~jac.inf
      PROVE  \A i \in 1 .. 3 :
                /\ IsGe(tab[i])
                /\ PointOf([GejSetGe(tab[i]) EXCEPT !.z = t.z]) = Multiple[((2 * i - 1) * kjac) % N]
  <2>1. Multiple[kjac] # None  BY <1>1, <1>9, InfinityIsNone
  <2>2. Multiple[0] = None  BY Multiples
  <2>3. kjac # 0  BY ONLY <2>1, <2>2
  <2>4. kjac \in 1 .. N-1  BY ONLY <1>1, <2>3, GroupAssumption
  <2> QED  BY ONLY <1>1, <2>4, TableStands
<1> HIDE DEF t, tab
<1> QED  BY ONLY <1>8, <1>9 DEF TablesSound, ps, ks, t, tab

\* What is computed from points without changing them, comparisons, serialized
\* forms, the shared inversion and tables, is true of them.
THEOREM PointsReadHolds == GroupSpec => []PointsReadSound
<1>1. GroupInit => PointsStand  BY InitialPoints
<1>2. PointsStand /\ [GroupNext]_groupVars => PointsStand'  BY StepPoints
<1>3. PointsStand => PointsReadSound  BY ComparisonsHold, TablesHold DEF PointsReadSound
<1> QED  BY <1>1, <1>2, <1>3, PTL DEF GroupSpec
=============================================================================
