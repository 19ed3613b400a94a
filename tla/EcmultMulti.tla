---------------------------- MODULE EcmultMulti ----------------------------
(***************************************************************************)
(* Multiplication of many points (secp256k1_ecmult_multi_var and its two   *)
(* batch functions in src/src/ecmult_impl.h) on a caller's scratch space.  *)
(* The batch sizes are computed from the free space; each batch allocates  *)
(* its objects, asks the callback for its points, and releases the         *)
(* objects.  What is summed up is a bag of terms: point i times its        *)
(* scalar, or the generator times inp_g_sc.                                *)
(***************************************************************************)
EXTENDS Integers, Sequences, FiniteSetsExt

CONSTANTS
    SizeMax, Alignment, HeaderSize,
    SpaceSizes,  \* of the scratch spaces the caller creates
    FrameSizes,  \* of what he allocates there himself
    MaxFrames,   \* bound: how often
    MaxPoints,   \* bound
    Sz,          \* sizeof of the structs the batches allocate
    TableSize,   \* ECMULT_TABLE_SIZE(WINDOW_A)
    WnafBits,    \* WNAF_BITS
    WindowInv,   \* secp256k1_pippenger_bucket_window_inv
    Threshold,   \* ECMULT_PIPPENGER_THRESHOLD
    MaxPerBatch  \* ECMULT_MAX_POINTS_PER_BATCH

Windows == DOMAIN WindowInv

ASSUME MultiAssumption ==
    /\ SizeMax \in Nat /\ Alignment \in Nat \ {0}
    /\ SpaceSizes \cup FrameSizes \subseteq 0 .. SizeMax
    /\ MaxFrames \in Nat /\ MaxPoints \in 0 .. SizeMax
    /\ Sz \in [{"gej", "ge", "scalar", "fe", "strauss_ps", "pip_state", "pip_ps", "int"}
                   -> Nat \ {0}]
    /\ TableSize \in Nat \ {0} /\ WnafBits \in Nat \ {0}
    /\ WindowInv \in Seq(0 .. SizeMax) /\ WindowInv # <<>>
    /\ WindowInv[Len(WindowInv)] = SizeMax
    /\ \A w \in 1 .. Len(WindowInv) - 1 : WindowInv[w] <= WindowInv[w + 1]
    /\ \A w \in 1 .. Len(WindowInv) : 2^w \in Nat \ {0}
    /\ Threshold \in Nat \ {0} /\ MaxPerBatch \in Nat \ {0}

VARIABLES
    scratch, frames, marks, err,  \* see Scratch
    pc,              \* what multi_var is doing
    total, with_g,   \* its arguments: the number of points, inp_g_sc # NULL
    f,               \* the batch function it chose
    n_batches, n_batch_points,
    i,               \* batch
    n,               \* points that are left
    alloc,           \* objects the batch has allocated
    point_idx,       \* points the batch, or the simple loop, has asked for
    checkpoint,
    r, tmp,          \* the sum, and the sum of the batch
    entry,           \* history: the scratch space when multi_var was called
    cb_failed        \* history: the callback returned 0

space == <<scratch, frames, marks, err>>
args  == <<total, with_g, entry>>
plan  == <<f, n_batches, n_batch_points>>
loop  == <<i, n, alloc, point_idx, checkpoint>>
vars  == <<space, pc, args, plan, loop, r, tmp, cb_failed>>

S == INSTANCE Scratch WITH Sizes <- SpaceSizes \cup FrameSizes, MaxMarks <- MaxFrames + 1

G       == -1
Terms   == {G} \cup 0 .. MaxPoints-1
Nothing == [t \in Terms |-> 0]
Add(a, b) == [t \in Terms |-> a[t] + b[t]]
Term(t)   == [Nothing EXCEPT ![t] = 1]
GTerm     == IF with_g THEN Term(G) ELSE Nothing

CeilDiv(a, b) == (a + b - 1) \div b

Init ==
    /\ S!Init
    /\ pc = "idle"
    /\ total = 0 /\ with_g = FALSE /\ entry = <<scratch, frames>>
    /\ f = "none" /\ n_batches = 0 /\ n_batch_points = 0
    /\ i = 0 /\ n = 0 /\ alloc = 0 /\ point_idx = 0 /\ checkpoint = 0
    /\ r = Nothing /\ tmp = Nothing
    /\ cb_failed = FALSE

-----------------------------------------------------------------------------
(* Sizes *)

WnafSize(w) == CeilDiv(WnafBits, w)

\* secp256k1_pippenger_bucket_window
BucketWindow(points) == Min({w \in Windows : points <= WindowInv[w]})

StraussObjects(points) ==
    << points * Sz.gej, points * Sz.scalar, points * TableSize * Sz.fe,
       points * TableSize * Sz.ge, points * Sz.strauss_ps >>

PippengerObjects(points) ==
    LET entries == 2 * points + 2
        window  == BucketWindow(points)
    IN  << entries * Sz.ge, entries * Sz.scalar, Sz.pip_state, entries * Sz.pip_ps,
           entries * WnafSize(window + 1) * Sz.int, 2^window * Sz.gej >>

\* secp256k1_strauss_max_points
StraussMaxPoints ==
    S!MaxAllocation(5) \div
        ((Sz.ge + Sz.fe) * TableSize + Sz.strauss_ps + Sz.gej + Sz.scalar)

EntrySize(w) == Sz.ge + Sz.scalar + Sz.pip_ps + (WnafSize(w + 1) + 1) * Sz.int

\* Mutant: the entries of G are forgotten.
Overhead_WithoutG(w) == 2^w * Sz.gej + Sz.pip_state

Overhead(w) == 2^w * Sz.gej + 2 * EntrySize(w) + Sz.pip_state

\* secp256k1_pippenger_max_points: the loop ends with the first window that
\* has no room for its overhead or for all its points.
PippengerMaxPoints ==
    LET max_alloc == S!MaxAllocation(6)
        Fits(w)   == IF Overhead(w) > max_alloc THEN 0
                     ELSE Min({WindowInv[w], (max_alloc - Overhead(w)) \div (2 * EntrySize(w))})
        last      == Min({w \in Windows : Fits(w) < WindowInv[w]} \cup {Len(WindowInv)})
    IN  Max({0} \cup {Fits(w) : w \in 1 .. last})

\* secp256k1_ecmult_multi_batch_size_helper, for points > 0 and max > 0
NBatches(max, points)     == CeilDiv(points, Min({max, MaxPerBatch}))
NBatchPoints(max, points) == CeilDiv(points, NBatches(max, points))

-----------------------------------------------------------------------------
(* The caller *)

CallerCreate(size) ==
    /\ pc = "idle"
    /\ S!Create(size)
    /\ UNCHANGED <<pc, args, plan, loop, r, tmp, cb_failed>>

CallerAlloc(size) ==
    /\ pc = "idle" /\ Cardinality(frames) < MaxFrames
    /\ S!Alloc(size)
    /\ UNCHANGED <<pc, args, plan, loop, r, tmp, cb_failed>>

-----------------------------------------------------------------------------
(* secp256k1_ecmult_multi_var *)

Simple(g) ==
    /\ pc' = "simple"
    /\ r' = IF g THEN Term(G) ELSE Nothing
    /\ point_idx' = 0
    /\ UNCHANGED <<plan, n>>

Batches(name, max, points) ==
    /\ pc' = "batch"
    /\ f' = name
    /\ n_batches' = NBatches(max, points)
    /\ n_batch_points' = NBatchPoints(max, points)
    /\ n' = points
    /\ r' = Nothing
    /\ UNCHANGED point_idx

Call(points, g) ==
    /\ pc = "idle"
    /\ total' = points /\ with_g' = g /\ entry' = <<scratch, frames>>
    /\ IF points = 0
       THEN /\ pc' = "returned 1"
            /\ r' = IF g THEN Term(G) ELSE Nothing
            /\ UNCHANGED <<plan, n, point_idx>>
       ELSE IF ~S!IsPtr \/ PippengerMaxPoints = 0
       THEN Simple(g)
       ELSE IF NBatchPoints(PippengerMaxPoints, points) >= Threshold
       THEN Batches("pippenger", PippengerMaxPoints, points)
       ELSE IF StraussMaxPoints = 0
       THEN Simple(g)
       ELSE Batches("strauss", StraussMaxPoints, points)
    /\ UNCHANGED <<space, i, alloc, checkpoint, tmp, cb_failed>>

\* The callback returns a point and its scalar, or fails.
Callback(index, ok) == cb_failed' = ~ok

\* secp256k1_ecmult_multi_simple_var
SimplePoint ==
    /\ pc = "simple" /\ point_idx < total
    /\ \E ok \in BOOLEAN :
          /\ Callback(point_idx, ok)
          /\ IF ok THEN r' = Add(r, Term(point_idx)) /\ point_idx' = point_idx + 1 /\ UNCHANGED pc
                   ELSE pc' = "returned 0" /\ UNCHANGED <<r, point_idx>>
    /\ UNCHANGED <<space, args, plan, i, n, alloc, checkpoint, tmp>>

SimpleDone ==
    /\ pc = "simple" /\ point_idx = total
    /\ pc' = "returned 1"
    /\ UNCHANGED <<space, args, plan, loop, r, tmp, cb_failed>>

-----------------------------------------------------------------------------
(* secp256k1_ecmult_strauss_batch, secp256k1_ecmult_pippenger_batch *)

nbp     == IF n < n_batch_points THEN n ELSE n_batch_points
TakesG  == i = 0 /\ with_g
Objects == IF f = "strauss" THEN StraussObjects(nbp) ELSE PippengerObjects(nbp)

\* Mutant: computed from the size of this batch.
Offset_ShortBatch == nbp * i

Offset == n_batch_points * i

\* A batch returns v: the checkpoint has been applied if it was taken.
BatchReturns(v) ==
    IF v THEN /\ r' = Add(r, tmp)
              /\ n' = n - nbp
              /\ i' = i + 1
              /\ pc' = "batch"
         ELSE /\ pc' = "returned 0"
              /\ UNCHANGED <<r, n, i>>

BatchStart ==
    /\ pc = "batch" /\ i < n_batches
    /\ S!Checkpoint
    /\ checkpoint' = scratch.alloc_size
    /\ tmp' = Nothing
    /\ alloc' = 0 /\ point_idx' = 0
    /\ pc' = IF ~TakesG /\ nbp = 0 THEN "batch done" ELSE "alloc"
    /\ UNCHANGED <<args, plan, i, n, r, cb_failed>>

\* One object.  If NULL is returned others may still be tried, but the
\* checkpoint takes them all back.
BatchAlloc ==
    /\ pc = "alloc" /\ alloc < Len(Objects)
    /\ IF S!AllocFits(Objects[alloc + 1])
       THEN S!Alloc(Objects[alloc + 1]) /\ alloc' = alloc + 1 /\ UNCHANGED <<pc, r, n, i>>
       ELSE S!ApplyCheckpoint(checkpoint) /\ BatchReturns(FALSE) /\ UNCHANGED alloc
    /\ UNCHANGED <<args, plan, point_idx, checkpoint, tmp, cb_failed>>

BatchAllocated ==
    /\ pc = "alloc" /\ alloc = Len(Objects)
    /\ pc' = "points"
    /\ UNCHANGED <<space, args, plan, loop, r, tmp, cb_failed>>

BatchPoint ==
    /\ pc = "points" /\ point_idx < nbp
    /\ Callback(point_idx + Offset, TRUE)
    /\ tmp' = Add(tmp, Term(point_idx + Offset))
    /\ point_idx' = point_idx + 1
    /\ UNCHANGED <<space, pc, args, plan, i, n, alloc, checkpoint, r>>

\* Mutant: the objects are not released.
BatchPointFails_NoRelease ==
    /\ pc = "points" /\ point_idx < nbp
    /\ Callback(point_idx + Offset, FALSE)
    /\ BatchReturns(FALSE)
    /\ UNCHANGED <<space, args, plan, alloc, point_idx, checkpoint, tmp>>

BatchPointFails ==
    /\ pc = "points" /\ point_idx < nbp
    /\ Callback(point_idx + Offset, FALSE)
    /\ S!ApplyCheckpoint(checkpoint)
    /\ BatchReturns(FALSE)
    /\ UNCHANGED <<args, plan, alloc, point_idx, checkpoint, tmp>>

\* The sum of the batch is computed and its objects are released.
BatchSum ==
    /\ pc = "points" /\ point_idx = nbp
    /\ tmp' = IF TakesG THEN Add(tmp, Term(G)) ELSE tmp
    /\ S!ApplyCheckpoint(checkpoint)
    /\ pc' = "batch done"
    /\ UNCHANGED <<args, plan, loop, r, cb_failed>>

BatchDone ==
    /\ pc = "batch done"
    /\ BatchReturns(TRUE)
    /\ UNCHANGED <<space, args, plan, alloc, point_idx, checkpoint, tmp, cb_failed>>

AllDone ==
    /\ pc = "batch" /\ i = n_batches
    /\ pc' = "returned 1"
    /\ UNCHANGED <<space, args, plan, loop, r, tmp, cb_failed>>

-----------------------------------------------------------------------------
Returned ==
    /\ pc \in {"returned 0", "returned 1"}
    /\ UNCHANGED vars

Next ==
    \/ \E size \in SpaceSizes : CallerCreate(size)
    \/ \E size \in FrameSizes : CallerAlloc(size)
    \/ \E points \in 0 .. MaxPoints, g \in BOOLEAN : Call(points, g)
    \/ SimplePoint \/ SimpleDone
    \/ BatchStart \/ BatchAlloc \/ BatchAllocated
    \/ BatchPoint \/ BatchPointFails \/ BatchSum \/ BatchDone \/ AllDone
    \/ Returned

Spec == Init /\ [][Next]_vars

-----------------------------------------------------------------------------
(***************************************************************************)
(* The sum holds every term exactly once: the batches cover the points     *)
(* without gap or overlap, whatever their number and the size of the last  *)
(* one, and the generator is in one of them.                               *)
(***************************************************************************)
EveryTermOnce ==
    pc = "returned 1" =>
        r = [t \in Terms |-> IF t = G THEN (IF with_g THEN 1 ELSE 0)
                             ELSE IF t < total THEN 1 ELSE 0]

(***************************************************************************)
(* The call fails only if the callback does: however little of the scratch *)
(* space is free, the batches are made so small that their allocations     *)
(* succeed, with the padding the alignment needs.                          *)
(***************************************************************************)
FailsOnlyByCallback == pc = "returned 0" => cb_failed

(***************************************************************************)
(* On every way out the scratch space is as the caller left it.            *)
(***************************************************************************)
SpaceReturned == pc \in {"returned 0", "returned 1"} => <<scratch, frames>> = entry
=============================================================================
