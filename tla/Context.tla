------------------------------ MODULE Context ------------------------------
(***************************************************************************)
(* Contexts (src/src/secp256k1.c) and the blinding of secp256k1_ecmult_gen *)
(* (src/src/ecmult_gen_impl.h), used by several threads.  Creation,        *)
(* cloning, destruction and the setters are one step each; a multiplication*)
(* and a randomization read and write the context in several steps.        *)
(*                                                                         *)
(* What callers must see to is modelled as guards (Shared, Exclusive): "A  *)
(* constructed context can safely be used from multiple threads            *)
(* simultaneously, but API calls that take a non-const pointer to a        *)
(* context need exclusive access to it" (include/secp256k1.h:42-46).       *)
(***************************************************************************)
EXTENDS Curve

CONSTANTS
    Threads,
    Blocks,      \* memory for contexts that callers own
    Static,      \* secp256k1_context_static
    Seeds,       \* seeds given to secp256k1_context_randomize
    Functions,   \* functions that callers install; "default" is the library's
    Inputs,      \* scalars that are multiplied
    CombBits,    \* COMB_BITS
    Field,       \* field elements, 0 among them
    HProj(_, _), \* first and second output of the generator keyed with the
    HBlind(_, _) \* prior scalar_offset and the seed

ASSUME ContextAssumption ==
    /\ Static \notin Blocks
    /\ CombBits \in Nat \ {0}
    /\ 2^(CombBits - 1) \in Nat
    /\ Inputs \subseteq Scalars
    /\ "default" \in Functions
    /\ {0, 1} \subseteq Field
    /\ \A o \in Scalars, seed \in Seeds : HProj(o, seed) \in Field /\ HBlind(o, seed) \in Scalars

Contexts == Blocks \cup {Static}

VARIABLES
    ctx,   \* the contents of each context
    call   \* what each thread is doing

vars == <<ctx, call>>

-----------------------------------------------------------------------------
(* secp256k1_ecmult_gen *)

\* secp256k1_ecmult_gen_scalar_diff: 2^(COMB_BITS - 1) - 1/2
Diff == Plus(2^(CombBits - 1) % N, Neg(Half(1)))

\* comb(d, G/2) = (2*d - (2^COMB_BITS - 1))*(G/2); module Comb checks that the
\* loops over the comb tables compute this.
Comb(d) == Plus(d, Neg(Diff))

\* secp256k1_gej_add_ge "cannot handle" infinity as its second argument, and a
\* Z coordinate multiplied by 0 is no point.
NotAPoint == -1
Unblinded(acc, c) == IF c.ge_offset \notin 1 .. N-1 THEN NotAPoint ELSE Plus(acc, c.ge_offset)
Rescaled(acc, c)  == IF c.proj_blind = 0 THEN NotAPoint ELSE acc

\* secp256k1_ecmult_gen_blind with no seed
Reset(c) == [c EXCEPT !.ge_offset = Neg(G), !.scalar_offset = Plus(1, Diff), !.proj_blind = 1]

\* secp256k1_ecmult_gen_context_clear
Cleared(c) == [c EXCEPT !.built = FALSE, !.scalar_offset = 0, !.ge_offset = 0, !.proj_blind = 0]

-----------------------------------------------------------------------------
(* Calls of the threads, and the access callers grant them *)

Idle == [op |-> "idle"]
IsIdle(t) == call[t] = Idle
Uses(t, c)   == ~IsIdle(t) /\ call[t].on = c
Writes(t, c) == Uses(t, c) /\ call[t].op = "blind"

Shared(c)    == ctx[c].kind # "free" /\ \A t \in Threads : ~Writes(t, c)
Exclusive(c) == \A t \in Threads : ~Uses(t, c)

\* secp256k1_context_static_: never built, default callbacks
StaticContext ==
    [kind |-> "static", built |-> FALSE, scalar_offset |-> 0, ge_offset |-> 0, proj_blind |-> 0,
     illegal_callback |-> "default", error_callback |-> "default", hash_ctx |-> "default"]

\* Memory that is not allocated, or was freed.
Free == [StaticContext EXCEPT !.kind = "free"]

Init ==
    /\ ctx = [c \in Contexts |-> IF c = Static THEN StaticContext ELSE Free]
    /\ call = [t \in Threads |-> Idle]

-----------------------------------------------------------------------------
(* Contexts *)

\* secp256k1_context_create (kind "heap") and _preallocated_create (kind
\* "block"), which may be given memory that held another context.
Create(c, kind) ==
    /\ c \in Blocks
    /\ Exclusive(c)
    /\ ctx[c].kind \in {"free"} \cup ({kind} \cap {"block"})
    /\ ctx' = [ctx EXCEPT ![c] = Reset([StaticContext EXCEPT !.kind = kind, !.built = TRUE])]
    /\ UNCHANGED call

\* secp256k1_context_clone and _preallocated_clone
Clone(c, to, kind) ==
    /\ Shared(c)
    /\ to \in Blocks \ {c}
    /\ Exclusive(to)
    /\ ctx[to].kind \in {"free"} \cup ({kind} \cap {"block"})
    /\ ctx[c].built
    /\ ctx' = [ctx EXCEPT ![to] = [ctx[c] EXCEPT !.kind = kind]]
    /\ UNCHANGED call

\* A caller copies the struct of the static context (tests.c does).
CopyStatic(to) ==
    /\ to \in Blocks
    /\ Exclusive(to)
    /\ ctx[to].kind \in {"free", "block"}
    /\ ctx' = [ctx EXCEPT ![to] = [ctx[Static] EXCEPT !.kind = "block"]]
    /\ UNCHANGED call

\* free() is for contexts from malloc only.
Released(kind) == IF kind = "heap" THEN "free" ELSE kind

\* Mutant: the point of the blinding value survives.
Destroy_PointKept(c) ==
    /\ ctx[c].kind # "free" /\ Exclusive(c) /\ ctx[c].built
    /\ ctx' = [ctx EXCEPT ![c] = [Cleared(ctx[c]) EXCEPT !.kind = Released(ctx[c].kind),
                                                        !.ge_offset = ctx[c].ge_offset]]
    /\ UNCHANGED call

\* secp256k1_context_destroy (heap) and _preallocated_destroy, refused by
\* contexts that are not proper
Destroy(c) ==
    /\ ctx[c].kind # "free"
    /\ Exclusive(c)
    /\ ctx[c].built
    /\ ctx' = [ctx EXCEPT ![c] = [Cleared(ctx[c]) EXCEPT !.kind = Released(ctx[c].kind)]]
    /\ UNCHANGED call

\* secp256k1_context_set_illegal_callback and _set_error_callback; no
\* function resets to the default one.
SetCallback(c, which, fun) ==
    /\ ctx[c].kind # "free"
    /\ Exclusive(c)
    /\ c # Static
    /\ ctx' = [ctx EXCEPT ![c] = IF which = "illegal" THEN [@ EXCEPT !.illegal_callback = fun]
                                 ELSE [@ EXCEPT !.error_callback = fun]]
    /\ UNCHANGED call

\* secp256k1_context_set_sha256_compression with a function that passes the
\* self test, or none
SetCompression(c, fun) ==
    /\ ctx[c].kind # "free"
    /\ Exclusive(c)
    /\ ctx[c].built
    /\ ctx' = [ctx EXCEPT ![c].hash_ctx = fun]
    /\ UNCHANGED call

-----------------------------------------------------------------------------
(* secp256k1_context_randomize *)

RandomizeReset(c) ==
    /\ ctx[c].kind # "free"
    /\ Exclusive(c)
    /\ ctx[c].built
    /\ ctx' = [ctx EXCEPT ![c] = Reset(@)]
    /\ UNCHANGED call

NonZero(x) == IF x = 0 THEN 1 ELSE x

\* Mutant: a blinding value of zero is kept.
BlindProjection_ZeroKept(t, c, seed) ==
    /\ IsIdle(t) /\ ctx[c].kind # "free" /\ Exclusive(c) /\ ctx[c].built
    /\ ctx' = [ctx EXCEPT ![c].proj_blind = NonZero(HProj(ctx[c].scalar_offset, seed))]
    /\ call' = [call EXCEPT ![t] = [op |-> "blind", on |-> c, at |-> "point",
                                    b  |-> HBlind(ctx[c].scalar_offset, seed)]]

\* The generator is keyed, and the new projective factor stored.
BlindProjection(t, c, seed) ==
    /\ IsIdle(t)
    /\ ctx[c].kind # "free"
    /\ Exclusive(c)
    /\ ctx[c].built
    /\ ctx' = [ctx EXCEPT ![c].proj_blind = NonZero(HProj(ctx[c].scalar_offset, seed))]
    /\ call' = [call EXCEPT ![t] = [op |-> "blind", on |-> c, at |-> "point",
                                    b  |-> NonZero(HBlind(ctx[c].scalar_offset, seed))]]

\* Mutant: the scalar is stored before the point is computed with it.
BlindPoint_ScalarFirst(t) ==
    LET c      == call[t].on
        offset == Plus(Neg(call[t].b), Diff)
    IN  /\ ~IsIdle(t) /\ call[t].op = "blind" /\ call[t].at = "point"
        /\ ctx' = [ctx EXCEPT ![c].scalar_offset = offset,
             ![c].ge_offset = Unblinded(Rescaled(Comb(Plus(offset, call[t].b)), ctx[c]), ctx[c])]
        /\ call' = [call EXCEPT ![t].at = "scalar"]

\* ge_offset = b*G, multiplied under the old blinding.
BlindPoint(t) ==
    LET c == ctx[call[t].on]
    IN  /\ ~IsIdle(t)
        /\ call[t].op = "blind" /\ call[t].at = "point"
        /\ ctx' = [ctx EXCEPT ![call[t].on].ge_offset =
                       Unblinded(Rescaled(Comb(Plus(c.scalar_offset, call[t].b)), c), c)]
        /\ call' = [call EXCEPT ![t].at = "scalar"]

BlindScalar(t) ==
    /\ ~IsIdle(t)
    /\ call[t].op = "blind" /\ call[t].at = "scalar"
    /\ ctx' = [ctx EXCEPT ![call[t].on].scalar_offset = Plus(Neg(call[t].b), Diff)]
    /\ call' = [call EXCEPT ![t] = Idle]

-----------------------------------------------------------------------------
(* secp256k1_ecmult_gen_gej, behind ARG_CHECK(ecmult_gen_context_is_built) *)

MultScalar(t, c, gn) ==
    /\ IsIdle(t)
    /\ Shared(c)
    /\ ctx[c].built
    /\ call' = [call EXCEPT ![t] = [op |-> "mult", on |-> c, at |-> "comb", gn |-> gn,
                                    acc |-> Plus(ctx[c].scalar_offset, gn)]]
    /\ UNCHANGED ctx

\* The comb; its first entry is rescaled by proj_blind.
MultComb(t) ==
    /\ ~IsIdle(t)
    /\ call[t].op = "mult" /\ call[t].at = "comb"
    /\ call' = [call EXCEPT ![t].at  = "add",
                            ![t].acc = Rescaled(Comb(call[t].acc), ctx[call[t].on])]
    /\ UNCHANGED ctx

MultAdd(t) ==
    /\ ~IsIdle(t)
    /\ call[t].op = "mult" /\ call[t].at = "add"
    /\ call' = [call EXCEPT ![t].at  = "done",
                            ![t].acc = IF call[t].acc = NotAPoint THEN NotAPoint
                                       ELSE Unblinded(call[t].acc, ctx[call[t].on])]
    /\ UNCHANGED ctx

Return(t) ==
    /\ ~IsIdle(t)
    /\ call[t].at = "done"
    /\ call' = [call EXCEPT ![t] = Idle]
    /\ UNCHANGED ctx

Next ==
    \/ \E c \in Contexts :
          \/ \E kind \in {"heap", "block"} :
                \/ Create(c, kind)
                \/ \E to \in Blocks : Clone(c, to, kind)
          \/ CopyStatic(c)
          \/ Destroy(c)
          \/ RandomizeReset(c)
          \/ \E fun \in Functions :
                \/ \E which \in {"illegal", "error"} : SetCallback(c, which, fun)
                \/ SetCompression(c, fun)
    \/ \E t \in Threads :
          \/ \E c \in Contexts :
                \/ \E seed \in Seeds : BlindProjection(t, c, seed)
                \/ \E gn \in Inputs : MultScalar(t, c, gn)
          \/ BlindPoint(t)
          \/ BlindScalar(t)
          \/ MultComb(t)
          \/ MultAdd(t)
          \/ Return(t)

Spec == Init /\ [][Next]_vars

-----------------------------------------------------------------------------
ContextType ==
    [kind : {"static", "free", "heap", "block"}, built : BOOLEAN,
     scalar_offset : Scalars, ge_offset : Points, proj_blind : Field,
     illegal_callback : Functions, error_callback : Functions, hash_ctx : Functions]

CallType ==
    {Idle}
    \cup [op : {"blind"}, on : Contexts, at : {"point", "scalar"}, b : 1 .. N-1]
    \cup [op : {"mult"}, on : Contexts, at : {"comb", "add", "done"}, gn : Scalars, acc : Points]

TypeOK ==
    /\ ctx \in [Contexts -> ContextType]
    /\ call \in [Threads -> CallType]

(***************************************************************************)
(* Every multiplication returns gn*G, whichever context it uses, however   *)
(* often and in which order contexts are randomized, reset, cloned and     *)
(* destroyed, and whatever other threads do meanwhile.                     *)
(***************************************************************************)
GenCorrect ==
    \A t \in Threads :
        (call[t].op = "mult" /\ call[t].at = "done") => call[t].acc = call[t].gn

(***************************************************************************)
(* The scalar and the point of a built context cancel (scalar_offset =     *)
(* diff - b, ge_offset = b*G), the point is never infinity, which          *)
(* gej_add_ge cannot handle, and the projective factor never zero; while a *)
(* thread replaces b, the scalar still belongs to the old value.           *)
(***************************************************************************)
BlindingSound ==
    \A c \in Contexts : ctx[c].built =>
        /\ ctx[c].ge_offset \in 1 .. N-1
        /\ ctx[c].proj_blind # 0
        /\ (~ \E t \in Threads : Writes(t, c) /\ call[t].at = "scalar") =>
              Plus(ctx[c].scalar_offset, ctx[c].ge_offset) = Diff

(***************************************************************************)
(* A context that is not proper (destroyed, static, or a copy of either)   *)
(* holds no blinding value.                                                *)
(***************************************************************************)
SecretsCleared ==
    \A c \in Contexts : ~ctx[c].built =>
        ctx[c].scalar_offset = 0 /\ ctx[c].ge_offset = 0 /\ ctx[c].proj_blind = 0

(***************************************************************************)
(* No call changes the static context, and no call makes a copy of it      *)
(* proper: a context becomes proper only by being created or cloned.       *)
(***************************************************************************)
StaticUntouched ==
    /\ ctx[Static] = StaticContext
    /\ \A t \in Threads : ~Uses(t, Static)
=============================================================================
