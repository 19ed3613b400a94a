------------------------------ MODULE Scratch ------------------------------
(***************************************************************************)
(* The scratch space of libsecp256k1 (src/src/scratch_impl.h): one heap    *)
(* block handed out as a stack of aligned frames.  Callers take a          *)
(* checkpoint, allocate, and undo their allocations by applying the        *)
(* checkpoint.  size_t is modelled with its wrap-around: its values are    *)
(* 0 .. SizeMax and every operation that can leave that range is reduced   *)
(* modulo SizeMax + 1.                                                     *)
(*                                                                         *)
(* frames and marks are what callers hold: the non-empty frames whose      *)
(* allocation has not been undone, and the checkpoints they received.      *)
(***************************************************************************)
EXTENDS Naturals, FiniteSets

CONSTANTS
    SizeMax,     \* SIZE_MAX
    Alignment,   \* ALIGNMENT
    HeaderSize,  \* sizeof(secp256k1_scratch)
    Sizes,       \* the sizes callers ask for (a subset of size_t)
    MaxMarks     \* bound: checkpoints callers hold at a time

ASSUME ScratchAssumption ==
    /\ SizeMax \in Nat
    /\ Alignment \in Nat \ {0}
    /\ (SizeMax + 1) % Alignment = 0
    /\ HeaderSize \in 1 .. SizeMax
    /\ Sizes \subseteq 0 .. SizeMax
    /\ MaxMarks \in Nat

SizeT == 0 .. SizeMax

\* CEIL_DIV(size, ALIGNMENT) * ALIGNMENT in size_t arithmetic: size - 1 wraps
\* for size = 0 and the product wraps for the sizes next to SIZE_MAX.
RoundToAlign(size) ==
    LET pred == IF size = 0 THEN SizeMax ELSE size - 1
    IN  ((1 + pred \div Alignment) * Alignment) % (SizeMax + 1)

BaseAlloc == RoundToAlign(HeaderSize)

VARIABLES
    scratch,  \* the object behind the pointer: NULL, a created or a zeroed struct
    frames,   \* frames callers own
    marks,    \* checkpoints callers hold
    err       \* the last call invoked the error callback

vars == <<scratch, frames, marks, err>>

Null == [magic |-> "NULL", alloc_size |-> 0, max_size |-> 0]
\* A struct that was never created (all bytes zero): its magic is wrong.
Zeroed == [magic |-> "zero", alloc_size |-> 0, max_size |-> 0]

Struct == [magic : {"NULL", "zero", "scratch"}, alloc_size : SizeT, max_size : SizeT]
Frame  == [at : SizeT, len : SizeT]
Mark   == [at : SizeT, live : SUBSET Frame, stale : BOOLEAN]

IsPtr     == scratch.magic # "NULL"
IsScratch == scratch.magic = "scratch"
FreeSize  == scratch.max_size - scratch.alloc_size

Init ==
    /\ scratch \in {Null, Zeroed}
    /\ frames = {}
    /\ marks = {}
    /\ err = FALSE

(***************************************************************************)
(* secp256k1_scratch_create.  malloc may fail, which checked_malloc        *)
(* reports to the error callback.                                          *)
(***************************************************************************)
Create(size) ==
    /\ ~IsPtr
    /\ \/ /\ size > SizeMax - BaseAlloc
          /\ err' = FALSE
          /\ UNCHANGED scratch
       \/ /\ size <= SizeMax - BaseAlloc
          /\ err' = TRUE
          /\ UNCHANGED scratch
       \/ /\ size <= SizeMax - BaseAlloc
          /\ scratch' = [magic |-> "scratch", alloc_size |-> 0, max_size |-> size]
          /\ err' = FALSE
    /\ UNCHANGED <<frames, marks>>

(***************************************************************************)
(* secp256k1_scratch_destroy.  All frames and checkpoints die with it.     *)
(***************************************************************************)
Destroy ==
    \/ /\ ~IsPtr
       /\ err' = FALSE
       /\ UNCHANGED <<scratch, frames, marks>>
    \/ /\ IsPtr /\ ~IsScratch
       /\ err' = TRUE
       /\ UNCHANGED <<scratch, frames, marks>>
    \/ /\ IsScratch
       /\ scratch' = Null
       /\ frames' = {}
       /\ marks' = {}
       /\ err' = FALSE

\* secp256k1_scratch_checkpoint: the caller keeps the returned alloc_size.
Checkpoint ==
    /\ IsPtr
    /\ err' = ~IsScratch
    /\ IF IsScratch
       THEN /\ Cardinality(marks) < MaxMarks
            /\ marks' = marks \cup {[at    |-> scratch.alloc_size,
                                     live  |-> frames,
                                     stale |-> FALSE]}
       ELSE UNCHANGED marks
    /\ UNCHANGED <<scratch, frames>>

\* Mutant: the whole scratch space is released.
ApplyCheckpoint_ReleasesAll(checkpoint) ==
    /\ IsScratch /\ checkpoint <= scratch.alloc_size
    /\ scratch' = [scratch EXCEPT !.alloc_size = 0]
    /\ frames' = {}
    /\ marks' = {[m EXCEPT !.stale = m.stale \/ m.at > checkpoint] : m \in marks}
    /\ err' = FALSE

(***************************************************************************)
(* secp256k1_scratch_apply_checkpoint with any value a caller may pass: a  *)
(* checkpoint it holds, or a wild one.  Rolling back below a checkpoint    *)
(* makes that checkpoint stale: the code cannot tell, and accepts it again *)
(* once alloc_size has grown past it.                                      *)
(***************************************************************************)
ApplyCheckpoint(checkpoint) ==
    /\ IsPtr
    /\ IF ~IsScratch \/ checkpoint > scratch.alloc_size
       THEN /\ err' = TRUE
            /\ UNCHANGED <<scratch, frames, marks>>
       ELSE /\ scratch' = [scratch EXCEPT !.alloc_size = checkpoint]
            /\ frames' = {f \in frames : f.at + f.len <= checkpoint}
            /\ marks' = {[m EXCEPT !.stale = m.stale \/ m.at > checkpoint] : m \in marks}
            /\ err' = FALSE

\* Mutant: no room is kept for the padding of each object.
MaxAllocation_NoPadding(objects) == IF IsScratch THEN FreeSize ELSE 0

\* secp256k1_scratch_max_allocation
MaxAllocation(objects) ==
    IF \/ ~IsScratch
       \/ Alignment > 1 /\ objects > SizeMax \div (Alignment - 1)
       \/ FreeSize <= objects * (Alignment - 1)
    THEN 0
    ELSE FreeSize - objects * (Alignment - 1)

\* Mutant: a rounding that wrapped is not noticed.
AllocFits_WrapIgnored(size) == IsScratch /\ RoundToAlign(size) <= FreeSize

\* secp256k1_scratch_alloc: TRUE when the call returns a pointer.
AllocFits(size) ==
    /\ RoundToAlign(size) >= size
    /\ IsScratch
    /\ RoundToAlign(size) <= FreeSize

Alloc(size) ==
    /\ IsPtr
    /\ IF AllocFits(size)
       THEN /\ scratch' = [scratch EXCEPT !.alloc_size = @ + RoundToAlign(size)]
            /\ frames' = IF size = 0 THEN frames
                         ELSE frames \cup {[at |-> scratch.alloc_size, len |-> size]}
            /\ err' = FALSE
       ELSE /\ err' = (RoundToAlign(size) >= size /\ ~IsScratch)
            /\ UNCHANGED <<scratch, frames>>
    /\ UNCHANGED marks

Next ==
    \/ \E size \in Sizes : Create(size)
    \/ Destroy
    \/ Checkpoint
    \/ \E checkpoint \in {m.at : m \in marks} \cup {SizeMax} : ApplyCheckpoint(checkpoint)
    \/ \E size \in Sizes : Alloc(size)

Spec == Init /\ [][Next]_vars

-----------------------------------------------------------------------------
TypeOK ==
    /\ scratch \in Struct
    /\ frames \subseteq Frame
    /\ marks \subseteq Mark
    /\ err \in BOOLEAN

(***************************************************************************)
(* Two frames that callers own never share a byte, every frame starts on   *)
(* an aligned offset and ends inside the block, whatever the order of      *)
(* allocations, failed allocations, wrapped sizes and (stale) checkpoints. *)
(* ecmult stores field elements and points in these frames at the same     *)
(* time (scratch_alloc and its callers in ecmult_impl.h).                  *)
(***************************************************************************)
FramesSound ==
    /\ \A f \in frames :
          /\ f.at % Alignment = 0
          /\ f.at + f.len <= scratch.alloc_size
          /\ f.at + f.len <= scratch.max_size
    /\ \A f, g \in frames :
          f # g => f.at + f.len <= g.at \/ g.at + g.len <= f.at

(***************************************************************************)
(* A checkpoint that nobody rolled back past still stands for exactly the  *)
(* frames that were live when it was taken: they are all still live, and   *)
(* what was allocated since lies above it.                                 *)
(***************************************************************************)
MarksSound ==
    \A m \in marks : ~m.stale =>
        /\ m.at <= scratch.alloc_size
        /\ m.live = {f \in frames : f.at + f.len <= m.at}

(***************************************************************************)
(* Applying such a checkpoint undoes exactly the allocations made since:   *)
(* "Applies a check point received from secp256k1_scratch_checkpoint,      *)
(* undoing all allocations since that point" (src/src/scratch.h:34).       *)
(***************************************************************************)
CheckpointUndoes ==
    [][\A m \in marks :
          (~m.stale /\ IsScratch /\ ApplyCheckpoint(m.at)) => frames' = m.live]_vars

(***************************************************************************)
(* secp256k1_scratch_max_allocation promises what ecmult's batch sizes     *)
(* rest on: n allocations, of whatever sizes, that ask together for no     *)
(* more than max_allocation(n) all succeed one after the other.  Checked   *)
(* for n up to 2.                                                          *)
(***************************************************************************)
MaxAllocationHonest ==
    IsScratch =>
        /\ \A a \in Sizes : a <= MaxAllocation(1) => AllocFits(a)
        /\ \A a, b \in Sizes : a + b <= MaxAllocation(2) =>
              /\ AllocFits(a) /\ AllocFits(b)
              /\ RoundToAlign(a) + RoundToAlign(b) <= FreeSize
=============================================================================
