------------------------------- MODULE HSort -------------------------------
(***************************************************************************)
(* The in-place heap sort of src/src/hsort_impl.h, which ec_pubkey_sort    *)
(* and the silent payments sender use to sort arrays of pointers: one      *)
(* step per iteration of heap_down's loop.  The names of the specification *)
(* leave room for a module of a caller beside it.                          *)
(***************************************************************************)
EXTENDS Integers, Sequences, FiniteSets, Functions

CONSTANTS
    SortKeys,  \* what cmp tells apart; cmp(a, b) has the sign of a.key - b.key
    MaxCount

ASSUME HSortAssumption == SortKeys \subseteq Int /\ MaxCount \in Nat

VARIABLES
    arr,       \* the elements, from index 0: a key and the original position
    given,     \* history: the array as it was passed
    phase,     \* "idle", which of the two loops, "done"
    i,         \* its variable
    down,      \* i of heap_down, or NotDown
    heap_size

sortVars == <<arr, given, phase, i, down, heap_size>>

NotDown == -1

Count == Cardinality(DOMAIN arr)

child1(n) == 2 * n + 1
child2(n) == child1(n) + 1

Cmp(a, b) == a.key - b.key

Swap(a, m, n) == [a EXCEPT ![m] = a[n], ![n] = a[m]]

Array(keys) == [p \in DOMAIN keys |-> [key |-> keys[p], pos |-> p]]

SortInit ==
    /\ arr = Array(<<>>) /\ given = arr
    /\ phase = "idle" /\ i = 0
    /\ down = NotDown /\ heap_size = 0

-----------------------------------------------------------------------------
(* hsort *)

\* A call with n elements.
SortStart ==
    /\ phase = "idle"
    /\ \E n \in 0 .. MaxCount : \E keys \in [0 .. n-1 -> SortKeys] :
           /\ arr' = Array(keys)
           /\ i' = n \div 2 /\ heap_size' = n
    /\ given' = arr'
    /\ phase' = "build"
    /\ UNCHANGED down

\* First loop: the call heap_down(ptr, i-1, count).
Heapify ==
    /\ phase = "build" /\ down = NotDown /\ i > 0
    /\ down' = i - 1
    /\ i' = i - 1
    /\ UNCHANGED <<arr, given, phase, heap_size>>

Built ==
    /\ phase = "build" /\ down = NotDown /\ i = 0
    /\ phase' = "extract"
    /\ i' = Count
    /\ UNCHANGED <<arr, given, down, heap_size>>

\* Mutant: the repaired heap still includes the extracted element.
Extract_HeapNotShrunk ==
    /\ phase = "extract" /\ down = NotDown /\ i > 1
    /\ arr' = Swap(arr, 0, i - 1)
    /\ down' = 0 /\ heap_size' = i
    /\ i' = i - 1
    /\ UNCHANGED <<given, phase>>

\* Mutant: the loop does not count.
Extract_IndexKept ==
    /\ phase = "extract" /\ down = NotDown /\ i > 1
    /\ arr' = Swap(arr, 0, i - 1)
    /\ down' = 0 /\ heap_size' = i - 1
    /\ UNCHANGED <<given, phase, i>>

\* Second loop: the largest element goes behind the heap, then the call
\* heap_down(ptr, 0, i-1).
Extract ==
    /\ phase = "extract" /\ down = NotDown /\ i > 1
    /\ arr' = Swap(arr, 0, i - 1)
    /\ down' = 0 /\ heap_size' = i - 1
    /\ i' = i - 1
    /\ UNCHANGED <<given, phase>>

Finish ==
    /\ phase = "extract" /\ down = NotDown /\ i <= 1
    /\ phase' = "done"
    /\ UNCHANGED <<arr, given, i, down, heap_size>>

-----------------------------------------------------------------------------
(* heap_down *)

\* Mutant: the second child is never looked at.
Larger_FirstChild == child1(down)

\* The child to compare with, the second one when they are equal.
Larger ==
    IF child2(down) < heap_size /\ Cmp(arr[child2(down)], arr[child1(down)]) >= 0
        THEN child2(down)
        ELSE child1(down)

SiftDown ==
    /\ down # NotDown /\ down < heap_size \div 2
    /\ Cmp(arr[Larger], arr[down]) > 0
    /\ arr' = Swap(arr, down, Larger)
    /\ down' = Larger
    /\ UNCHANGED <<given, phase, i, heap_size>>

\* Either return of heap_down, or the end of its loop.
SiftDone ==
    /\ down # NotDown
    /\ down < heap_size \div 2 => Cmp(arr[Larger], arr[down]) <= 0
    /\ down' = NotDown
    /\ UNCHANGED <<arr, given, phase, i, heap_size>>

Sorting == Heapify \/ Built \/ Extract \/ Finish \/ SiftDown \/ SiftDone

\* The caller goes on.
SortReturn ==
    /\ phase = "done"
    /\ phase' = "idle"
    /\ arr' = Array(<<>>) /\ given' = Array(<<>>)
    /\ i' = 0 /\ heap_size' = 0
    /\ UNCHANGED down

SortNext == SortStart \/ Sorting \/ SortReturn

\* A call is a loop that nothing interrupts.
SortFairness == WF_sortVars(Sorting)

-----------------------------------------------------------------------------
(***************************************************************************)
(* The comment of heap_down: the elements behind the index it works on     *)
(* (the caller's i while it is not yet called) satisfy the max-heap        *)
(* property, except for the one that is being moved down.                  *)
(***************************************************************************)
HeapGrows ==
    phase \in {"build", "extract"} =>
        \A n \in 0 .. heap_size-1 : \A c \in {child1(n), child2(n)} :
            c < heap_size /\ n # down /\ (phase = "build" => n >= i)
                => Cmp(arr[c], arr[n]) <= 0

(***************************************************************************)
(* What has left the heap is in its final place, and in the end that is    *)
(* the whole array, with no element lost or repeated.                      *)
(***************************************************************************)
TailSorted ==
    /\ Range(arr) = Range(given)
    /\ phase # "build" =>
          \A n \in 0 .. Count-1 : n >= i \/ phase = "done" =>
              \A m \in 0 .. n : Cmp(arr[m], arr[n]) <= 0

(***************************************************************************)
(* An invariant of both phases: the part of the heap that is not being     *)
(* repaired is a heap, and the tail is sorted.                             *)
(***************************************************************************)
HeapSound == HeapGrows /\ TailSorted

\* A call ends.
Terminates == phase = "build" ~> phase = "done"
=============================================================================
