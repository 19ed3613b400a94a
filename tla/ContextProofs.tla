--------------------------- MODULE ContextProofs ---------------------------
(***************************************************************************)
(* For every group, every number of threads and contexts, every generator  *)
(* and every interleaving that the documented locking allows: a            *)
(* multiplication by a blinded context is the multiplication.              *)
(***************************************************************************)
EXTENDS Context, CurveLemmas

-----------------------------------------------------------------------------
(* The algebra of blinding *)

LEMMA DiffType == Diff \in Scalars
<1> DEFINE p == 2^(CombBits - 1)
<1>1. N \in Nat \ {0} /\ N > 1 /\ p \in Int  BY CurveAssumption, ContextAssumption
<1> HIDE DEF p
<1>2. p % N \in Nat /\ p % N < N  BY ONLY <1>1, DivMod
<1>3. Half(1) \in Scalars
  <2>1. 1 % 2 = 1  OBVIOUS
  <2>2. Half(1) = (1 + N) \div 2  BY <2>1 DEF Half
  <2> QED  BY <1>1, <2>2 DEF Scalars
<1>4. Neg(Half(1)) \in Scalars  BY <1>3, NegType
<1>5. p % N \in Int /\ Neg(Half(1)) \in Int  BY <1>2, <1>4 DEF Scalars
<1> QED  BY <1>5, PlusType DEF Diff, p

LEMMA ScalarsAreInts == \A x \in Scalars : x \in Int
BY DEF Scalars

LEMMA CombType == \A d \in Scalars : Comb(d) \in Scalars
BY DiffType, NegType, PlusType, ScalarsAreInts DEF Comb

\* Adding x before the comb and the point b*G after it gives x*G.
LEMMA BlindingCancels ==
    ASSUME NEW offset \in Scalars, NEW b \in Scalars, NEW x \in Scalars,
           Plus(offset, b) = Diff
    PROVE  Plus(Comb(Plus(offset, x)), b) = x
<1> DEFINE m == Neg(Diff)
<1>1. Diff \in Scalars /\ m \in Scalars  BY DiffType, NegType
<1>2. offset \in Int /\ b \in Int /\ x \in Int /\ m \in Int /\ Diff \in Int
  BY <1>1, ScalarsAreInts
<1>3. Plus(Diff, m) = 0  BY <1>1, PlusNeg
<1> HIDE DEF m
<1>4. Plus(m, b) \in Scalars /\ Plus(offset, x) \in Scalars /\ Plus(x, m) \in Scalars
      /\ Plus(offset, b) \in Scalars
  BY <1>2, PlusType
<1>5. Plus(m, b) \in Int /\ Plus(offset, x) \in Int  BY <1>4, ScalarsAreInts
<1>6. Plus(Plus(Plus(offset, x), m), b) = Plus(Plus(offset, x), Plus(m, b))
  BY <1>2, <1>4, <1>5, PlusAssoc
<1>7. Plus(Plus(offset, x), Plus(m, b)) = Plus(Plus(x, offset), Plus(b, m))
  BY <1>2, PlusComm
<1>8. Plus(Plus(x, offset), Plus(b, m)) = Plus(x, Plus(offset, Plus(b, m)))
  BY <1>2, <1>5, PlusAssoc, PlusComm
<1>9. Plus(offset, Plus(b, m)) = Plus(Plus(offset, b), m)
  BY <1>2, PlusAssoc
<1>10. Plus(x, 0) = x  BY PlusZero
<1> QED  BY <1>3, <1>6, <1>7, <1>8, <1>9, <1>10 DEF Comb, m

-----------------------------------------------------------------------------
(* The inductive invariant *)

\* What is left to do to a context that a call works on.
ContextOK(c) ==
    ctx[c].built =>
        /\ ctx[c].ge_offset \in 1 .. N-1
        /\ ctx[c].proj_blind # 0
        /\ (~ \E t \in Threads : Writes(t, c) /\ call[t].at = "scalar") =>
              Plus(ctx[c].scalar_offset, ctx[c].ge_offset) = Diff

CallOK(t) ==
    call[t] # Idle =>
        LET c == ctx[call[t].on]
        IN  /\ c.built
            /\ (call[t].op = "blind" /\ call[t].at = "scalar") => c.ge_offset = call[t].b
            /\ (call[t].op = "mult" /\ call[t].at = "comb") =>
                  call[t].acc = Plus(c.scalar_offset, call[t].gn)
            /\ (call[t].op = "mult" /\ call[t].at = "add") =>
                  call[t].acc = Comb(Plus(c.scalar_offset, call[t].gn))
            /\ (call[t].op = "mult" /\ call[t].at = "done") => call[t].acc = call[t].gn

\* A thread that writes a context is alone on it.
WriterAlone ==
    \A t, u \in Threads : \A c \in Contexts : (t # u /\ Writes(t, c)) => ~Uses(u, c)

ContextInv ==
    /\ TypeOK
    /\ \A c \in Contexts : ContextOK(c)
    /\ \A t \in Threads : CallOK(t)
    /\ WriterAlone
    /\ SecretsCleared
    /\ StaticUntouched

LEMMA BlocksAreContexts == Blocks \subseteq Contexts /\ Static \in Contexts /\ Static \notin Blocks
BY ContextAssumption DEF Contexts

LEMMA ConstantTypes == 0 \in Scalars /\ 0 \in Points /\ 0 \in Field /\ 1 \in Field
                       /\ "default" \in Functions
BY CurveAssumption, ContextAssumption DEF Scalars, Points

LEMMA StaticType == StaticContext \in ContextType /\ Free \in ContextType
                    /\ StaticContext.built = FALSE /\ Free.built = FALSE
<1>1. StaticContext \in ContextType  BY ConstantTypes DEF StaticContext, ContextType
<1>2. Free \in ContextType  BY ConstantTypes DEF StaticContext, Free, ContextType
<1> QED  BY <1>1, <1>2 DEF StaticContext, Free

\* The invariant holds initially,
THEOREM InvInit == Init => ContextInv
<1> SUFFICES ASSUME Init PROVE ContextInv  OBVIOUS
<1>1. \A c \in Contexts : ctx[c] \in {StaticContext, Free} /\ ctx[Static] = StaticContext
  BY BlocksAreContexts DEF Init
<1>2. \A t \in Threads : call[t] = Idle  BY DEF Init
<1>3. TypeOK  BY StaticType DEF Init, TypeOK, CallType
<1>4. \A c \in Contexts : ctx[c].built = FALSE  BY <1>1, StaticType
<1>5. SecretsCleared  BY <1>1 DEF SecretsCleared, StaticContext, Free
<1>6. StaticUntouched  BY <1>1, <1>2, BlocksAreContexts DEF StaticUntouched, Uses, IsIdle
<1> QED  BY <1>2, <1>3, <1>4, <1>5, <1>6
         DEF ContextInv, ContextOK, CallOK, WriterAlone, Writes, Uses, IsIdle

-----------------------------------------------------------------------------
(* Steps that replace one context nobody uses *)

LEMMA ReplaceUnused ==
    ASSUME ContextInv, NEW c \in Contexts \ {Static}, Exclusive(c), NEW new \in ContextType,
           ctx' = [ctx EXCEPT ![c] = new], UNCHANGED call,
           ~new.built => new.scalar_offset = 0 /\ new.ge_offset = 0 /\ new.proj_blind = 0,
           new.built => /\ new.ge_offset \in 1 .. N-1
                        /\ new.proj_blind # 0
                        /\ Plus(new.scalar_offset, new.ge_offset) = Diff
    PROVE  ContextInv'
<1>1. TypeOK'  BY DEF ContextInv, TypeOK
<1>2. ctx'[c] = new /\ \A d \in Contexts : d # c => ctx'[d] = ctx[d]
  BY DEF ContextInv, TypeOK
<1>3. \A d \in Contexts : ContextOK(d)'
  BY <1>2 DEF ContextInv, ContextOK, Writes, Uses, IsIdle
<1>4. \A t \in Threads : CallOK(t)'
  <2> TAKE t \in Threads
  <2>1. call[t] # Idle => call[t].on # c /\ call[t].on \in Contexts
    BY DEF Exclusive, Uses, IsIdle, ContextInv, TypeOK, CallType, Idle
  <2> QED  BY <1>2, <2>1 DEF ContextInv, CallOK
<1>5. WriterAlone'  BY DEF ContextInv, WriterAlone, Writes, Uses, IsIdle
<1>6. SecretsCleared'  BY <1>2 DEF ContextInv, SecretsCleared
<1>7. StaticUntouched'
  BY <1>2, BlocksAreContexts DEF ContextInv, StaticUntouched, Uses, IsIdle
<1> QED  BY <1>1, <1>3, <1>4, <1>5, <1>6, <1>7 DEF ContextInv

\* A context nobody uses is at rest.
LEMMA UnusedSound ==
    ASSUME ContextInv, NEW c \in Contexts, Shared(c) \/ Exclusive(c), ctx[c].built
    PROVE  /\ ctx[c].ge_offset \in 1 .. N-1
           /\ ctx[c].proj_blind # 0
           /\ Plus(ctx[c].scalar_offset, ctx[c].ge_offset) = Diff
BY DEF ContextInv, ContextOK, Shared, Exclusive, Writes

LEMMA ResetSound ==
    ASSUME NEW c \in ContextType
    PROVE  /\ Reset(c) \in ContextType
           /\ Reset(c).ge_offset \in 1 .. N-1
           /\ Reset(c).proj_blind # 0
           /\ Plus(Reset(c).scalar_offset, Reset(c).ge_offset) = Diff
<1>1. 1 \in Scalars /\ 1 \in Int /\ Diff \in Scalars /\ Diff \in Int /\ Neg(1) \in Scalars
      /\ Neg(1) \in Int /\ Neg(1) \in 1 .. N-1
  BY CurveAssumption, DiffType, NegType, ScalarsAreInts DEF Scalars, Neg
<1>2. Plus(1, Diff) \in Scalars  BY <1>1, PlusType
<1>3. Plus(Plus(1, Diff), Neg(1)) = Diff
  <2>1. Plus(Plus(1, Diff), Neg(1)) = Plus(Diff, Plus(1, Neg(1)))
    BY <1>1, PlusComm, PlusAssoc
  <2>2. Plus(1, Neg(1)) = 0 /\ Plus(Diff, 0) = Diff  BY <1>1, PlusNeg, PlusZero
  <2> QED  BY <2>1, <2>2
<1>4. /\ Reset(c).scalar_offset = Plus(1, Diff) /\ Reset(c).ge_offset = Neg(1)
      /\ Reset(c).proj_blind = 1
  BY DEF Reset, ContextType, G
<1>5. Reset(c) \in ContextType
  BY <1>1, <1>2, ContextAssumption DEF Reset, ContextType, Points, Scalars, G
<1> QED  BY <1>1, <1>3, <1>4, <1>5

LEMMA CreateInv ==
    ASSUME ContextInv, NEW c, NEW kind \in {"heap", "block"}, Create(c, kind)
    PROVE  ContextInv'
<1> DEFINE blank == [StaticContext EXCEPT !.kind = kind, !.built = TRUE]
<1>1. blank \in ContextType /\ blank.built
  BY StaticType DEF ContextType
<1> HIDE DEF blank
<1>2. c \in Contexts \ {Static} /\ Exclusive(c) /\ ctx' = [ctx EXCEPT ![c] = Reset(blank)]
      /\ UNCHANGED call
  BY BlocksAreContexts DEF Create, blank
<1>3. Reset(blank).built  BY <1>1 DEF Reset, ContextType
<1> QED  BY <1>1, <1>2, <1>3, ResetSound, ReplaceUnused

LEMMA CloneInv ==
    ASSUME ContextInv, NEW c \in Contexts, NEW to, NEW kind \in {"heap", "block"}, Clone(c, to, kind)
    PROVE  ContextInv'
<1> DEFINE new == [ctx[c] EXCEPT !.kind = kind]
<1>1. ctx[c] \in ContextType  BY DEF ContextInv, TypeOK
<1>2. new \in ContextType  BY <1>1 DEF ContextType
<1>3. /\ new.ge_offset = ctx[c].ge_offset /\ new.proj_blind = ctx[c].proj_blind
      /\ new.scalar_offset = ctx[c].scalar_offset /\ new.built = ctx[c].built
  BY <1>1 DEF ContextType
<1>4. /\ to \in Contexts \ {Static} /\ Exclusive(to) /\ Shared(c) /\ ctx[c].built
      /\ ctx' = [ctx EXCEPT ![to] = new] /\ UNCHANGED call
  BY BlocksAreContexts DEF Clone
<1> HIDE DEF new
<1> QED  BY <1>2, <1>3, <1>4, UnusedSound, ReplaceUnused

LEMMA CopyStaticInv ==
    ASSUME ContextInv, NEW to, CopyStatic(to)
    PROVE  ContextInv'
<1> DEFINE new == [ctx[Static] EXCEPT !.kind = "block"]
<1>1. ctx[Static] = StaticContext  BY DEF ContextInv, StaticUntouched
<1>2. new \in ContextType /\ new.built = FALSE  BY <1>1, StaticType DEF ContextType
<1>3. new.scalar_offset = 0 /\ new.ge_offset = 0 /\ new.proj_blind = 0
  BY <1>1 DEF StaticContext
<1>4. /\ to \in Contexts \ {Static} /\ Exclusive(to)
      /\ ctx' = [ctx EXCEPT ![to] = new] /\ UNCHANGED call
  BY BlocksAreContexts DEF CopyStatic
<1> HIDE DEF new
<1> QED  BY <1>2, <1>3, <1>4, ReplaceUnused

\* The static context is not built.
LEMMA BuiltNotStatic == ASSUME ContextInv, NEW c \in Contexts, ctx[c].built PROVE c # Static
BY StaticType DEF ContextInv, StaticUntouched

LEMMA DestroyInv ==
    ASSUME ContextInv, NEW c \in Contexts, Destroy(c)
    PROVE  ContextInv'
<1> DEFINE new == [Cleared(ctx[c]) EXCEPT !.kind = Released(ctx[c].kind)]
<1>1. ctx[c] \in ContextType  BY DEF ContextInv, TypeOK
<1>2. /\ new \in ContextType /\ new.built = FALSE
      /\ new.scalar_offset = 0 /\ new.ge_offset = 0 /\ new.proj_blind = 0
  BY <1>1, ConstantTypes DEF ContextType, Cleared, Released
<1>3. c # Static  BY BuiltNotStatic DEF Destroy
<1>4. Exclusive(c) /\ ctx' = [ctx EXCEPT ![c] = new] /\ UNCHANGED call  BY DEF Destroy
<1> HIDE DEF new
<1> QED  BY <1>2, <1>3, <1>4, ReplaceUnused

\* A change of the callbacks or the hash function alone.
LEMMA FunctionsInv ==
    ASSUME ContextInv, NEW c \in Contexts \ {Static}, Exclusive(c), NEW new \in ContextType,
           ctx' = [ctx EXCEPT ![c] = new], UNCHANGED call,
           new.built = ctx[c].built, new.scalar_offset = ctx[c].scalar_offset,
           new.ge_offset = ctx[c].ge_offset, new.proj_blind = ctx[c].proj_blind
    PROVE  ContextInv'
<1>1. new.built => /\ new.ge_offset \in 1 .. N-1 /\ new.proj_blind # 0
                   /\ Plus(new.scalar_offset, new.ge_offset) = Diff
  BY UnusedSound
<1>2. ~new.built => new.scalar_offset = 0 /\ new.ge_offset = 0 /\ new.proj_blind = 0
  BY DEF ContextInv, SecretsCleared
<1> QED  BY <1>1, <1>2, ReplaceUnused

LEMMA SetCallbackInv ==
    ASSUME ContextInv, NEW c \in Contexts, NEW which, NEW fun \in Functions, SetCallback(c, which, fun)
    PROVE  ContextInv'
<1>0. ctx[c] \in ContextType  BY DEF ContextInv, TypeOK
<1>1. CASE which = "illegal"
  <2> DEFINE new == [ctx[c] EXCEPT !.illegal_callback = fun]
  <2>1. new \in ContextType /\ new.built = ctx[c].built /\ new.scalar_offset = ctx[c].scalar_offset
        /\ new.ge_offset = ctx[c].ge_offset /\ new.proj_blind = ctx[c].proj_blind
    BY <1>0 DEF ContextType
  <2>2. c # Static /\ Exclusive(c) /\ ctx' = [ctx EXCEPT ![c] = new] /\ UNCHANGED call
    BY <1>1 DEF SetCallback
  <2> HIDE DEF new
  <2> QED  BY <2>1, <2>2, FunctionsInv
<1>2. CASE which # "illegal"
  <2> DEFINE new == [ctx[c] EXCEPT !.error_callback = fun]
  <2>1. new \in ContextType /\ new.built = ctx[c].built /\ new.scalar_offset = ctx[c].scalar_offset
        /\ new.ge_offset = ctx[c].ge_offset /\ new.proj_blind = ctx[c].proj_blind
    BY <1>0 DEF ContextType
  <2>2. c # Static /\ Exclusive(c) /\ ctx' = [ctx EXCEPT ![c] = new] /\ UNCHANGED call
    BY <1>2 DEF SetCallback
  <2> HIDE DEF new
  <2> QED  BY <2>1, <2>2, FunctionsInv
<1> QED  BY <1>1, <1>2

LEMMA SetCompressionInv ==
    ASSUME ContextInv, NEW c \in Contexts, NEW fun \in Functions, SetCompression(c, fun)
    PROVE  ContextInv'
<1> DEFINE new == [ctx[c] EXCEPT !.hash_ctx = fun]
<1>0. ctx[c] \in ContextType  BY DEF ContextInv, TypeOK
<1>1. new \in ContextType /\ new.built = ctx[c].built /\ new.scalar_offset = ctx[c].scalar_offset
      /\ new.ge_offset = ctx[c].ge_offset /\ new.proj_blind = ctx[c].proj_blind
  BY <1>0 DEF ContextType
<1>2. c # Static /\ Exclusive(c) /\ ctx' = [ctx EXCEPT ![c] = new] /\ UNCHANGED call
  BY BuiltNotStatic DEF SetCompression
<1> HIDE DEF new
<1> QED  BY <1>1, <1>2, FunctionsInv

LEMMA RandomizeResetInv ==
    ASSUME ContextInv, NEW c \in Contexts, RandomizeReset(c)
    PROVE  ContextInv'
<1>1. ctx[c] \in ContextType  BY DEF ContextInv, TypeOK
<1>2. Reset(ctx[c]).built = ctx[c].built  BY <1>1 DEF ContextType, Reset
<1>3. c # Static /\ Exclusive(c) /\ ctx' = [ctx EXCEPT ![c] = Reset(ctx[c])] /\ UNCHANGED call
      /\ ctx[c].built
  BY BuiltNotStatic DEF RandomizeReset
<1> QED  BY <1>1, <1>2, <1>3, ResetSound, ReplaceUnused

-----------------------------------------------------------------------------
(* Steps of a randomization.  bl is the context and t the writing thread. *)

LEMMA NonZeroType == \A x \in Scalars : NonZero(x) \in 1 .. N-1
BY CurveAssumption DEF NonZero, Scalars

LEMMA BlindProjectionInv ==
    ASSUME ContextInv, NEW t \in Threads, NEW c \in Contexts, NEW seed \in Seeds,
           BlindProjection(t, c, seed)
    PROVE  ContextInv'
<1> DEFINE p == NonZero(HProj(ctx[c].scalar_offset, seed))
           b == NonZero(HBlind(ctx[c].scalar_offset, seed))
           mine == [op |-> "blind", on |-> c, at |-> "point", b |-> b]
<1>1. ctx[c] \in ContextType /\ ctx[c].scalar_offset \in Scalars
  BY DEF ContextInv, TypeOK, ContextType
<1>2. p \in Field /\ p # 0  BY <1>1, ContextAssumption DEF NonZero
<1>3. b \in 1 .. N-1  BY <1>1, ContextAssumption, NonZeroType
<1>4. /\ IsIdle(t) /\ Exclusive(c) /\ ctx[c].built /\ c # Static
      /\ ctx' = [ctx EXCEPT ![c].proj_blind = p] /\ call' = [call EXCEPT ![t] = mine]
  BY BuiltNotStatic DEF BlindProjection
<1>5. mine \in CallType /\ mine.op = "blind" /\ mine.at = "point" /\ mine.on = c
      /\ mine # Idle
  BY <1>3 DEF CallType, Idle
<1> HIDE DEF p, b, mine
<1>6. TypeOK'
  <2>1. [ctx[c] EXCEPT !.proj_blind = p] \in ContextType  BY <1>1, <1>2 DEF ContextType
  <2> QED  BY <1>4, <1>5, <2>1 DEF ContextInv, TypeOK
<1>7. /\ \A d \in Contexts : d # c => ctx'[d] = ctx[d]
      /\ ctx'[c].proj_blind = p /\ ctx'[c].scalar_offset = ctx[c].scalar_offset
      /\ ctx'[c].ge_offset = ctx[c].ge_offset /\ ctx'[c].built = ctx[c].built
  BY <1>1, <1>4 DEF ContextInv, TypeOK, ContextType
<1>8. call'[t] = mine /\ \A u \in Threads : u # t => call'[u] = call[u]
  BY <1>4 DEF ContextInv, TypeOK
<1>9. \A u \in Threads : u # t => ~Uses(u, c)  BY <1>4 DEF Exclusive
<1>10. \A d \in Contexts : ContextOK(d)'
  <2> TAKE d \in Contexts
  <2>1. CASE d = c
    <3>1. ctx[c].ge_offset \in 1 .. N-1 /\ Plus(ctx[c].scalar_offset, ctx[c].ge_offset) = Diff
      BY <1>4, UnusedSound
    <3> QED  BY <1>2, <1>7, <2>1, <3>1 DEF ContextOK
  <2>2. CASE d # c
    <3>1. \A u \in Threads : Writes(u, d)' /\ call'[u].at = "scalar"
                                <=> Writes(u, d) /\ call[u].at = "scalar"
      BY <1>4, <1>5, <1>8, <2>2 DEF Writes, Uses, IsIdle
    <3> QED  BY <1>7, <2>2, <3>1 DEF ContextInv, ContextOK
  <2> QED  BY <2>1, <2>2
<1>11. \A u \in Threads : CallOK(u)'
  <2> TAKE u \in Threads
  <2>1. CASE u = t  BY <1>4, <1>5, <1>7, <1>8, <2>1 DEF CallOK
  <2>2. CASE u # t /\ call[u] # Idle
    <3>1. call[u].on # c /\ call[u].on \in Contexts
      BY <1>9, <2>2 DEF Uses, IsIdle, ContextInv, TypeOK, CallType
    <3> QED  BY <1>7, <1>8, <2>2, <3>1 DEF ContextInv, CallOK
  <2>3. CASE u # t /\ call[u] = Idle  BY <1>8, <2>3 DEF CallOK
  <2> QED  BY <2>1, <2>2, <2>3
<1>12. WriterAlone'
  BY <1>4, <1>5, <1>8, <1>9 DEF ContextInv, WriterAlone, Writes, Uses, IsIdle
<1>13. SecretsCleared'  BY <1>4, <1>7 DEF ContextInv, SecretsCleared
<1>14. StaticUntouched'
  BY <1>4, <1>5, <1>7, <1>8, BlocksAreContexts DEF ContextInv, StaticUntouched, Uses, IsIdle
<1> QED  BY <1>6, <1>10, <1>11, <1>12, <1>13, <1>14 DEF ContextInv

\* A writing thread works on a built context that no other thread uses.
LEMMA WriterFacts ==
    ASSUME ContextInv, NEW t \in Threads, ~IsIdle(t), call[t].op = "blind"
    PROVE  LET c == call[t].on
           IN  /\ c \in Contexts \ {Static} /\ ctx[c] \in ContextType /\ ctx[c].built
               /\ call[t].b \in 1 .. N-1 /\ call[t].at \in {"point", "scalar"}
               /\ Writes(t, c) /\ \A u \in Threads : u # t => ~Uses(u, c)
               /\ \A u \in Threads : u # t /\ ~IsIdle(u) => call[u].on # c /\ call[u].on \in Contexts
               /\ call[t] = [op |-> "blind", on |-> c, at |-> call[t].at, b |-> call[t].b]
<1> DEFINE c == call[t].on
<1>1. call[t] \in [op : {"blind"}, on : Contexts, at : {"point", "scalar"}, b : 1 .. N-1]
  BY DEF ContextInv, TypeOK, CallType, IsIdle
<1>2. Uses(t, c) /\ Writes(t, c)  BY DEF Uses, Writes
<1>3. c \in Contexts  BY <1>1
<1>4. c # Static  BY <1>2 DEF ContextInv, StaticUntouched
<1>5. ctx[c] \in ContextType  BY <1>3 DEF ContextInv, TypeOK
<1>6. ctx[c].built  BY DEF ContextInv, CallOK, IsIdle
<1>7. \A u \in Threads : u # t => ~Uses(u, c)  BY <1>2, <1>3 DEF ContextInv, WriterAlone
<1>8. \A u \in Threads : ~IsIdle(u) => call[u].on \in Contexts
  BY DEF ContextInv, TypeOK, CallType, IsIdle
<1> QED  BY <1>1, <1>2, <1>3, <1>4, <1>5, <1>6, <1>7, <1>8 DEF Uses

\* What BlindPoint and BlindScalar have in common: the context of one writer
\* changes to new, and its call to next.
LEMMA WriterStep ==
    ASSUME ContextInv, NEW t \in Threads, ~IsIdle(t), call[t].op = "blind",
           NEW new \in ContextType, NEW next \in CallType,
           ctx' = [ctx EXCEPT ![call[t].on] = new], call' = [call EXCEPT ![t] = next],
           new.built, new.ge_offset \in 1 .. N-1, new.proj_blind # 0,
           \/ /\ next = Idle
              /\ Plus(new.scalar_offset, new.ge_offset) = Diff
           \/ /\ next # Idle /\ next.op = "blind" /\ next.on = call[t].on /\ next.at = "scalar"
              /\ new.ge_offset = next.b
    PROVE  ContextInv'
<1>0. PICK c \in Contexts : c = call[t].on  BY WriterFacts
<1>1. /\ c \in Contexts \ {Static} /\ Writes(t, c)
      /\ \A u \in Threads : u # t => ~Uses(u, c)
      /\ \A u \in Threads : u # t /\ ~IsIdle(u) => call[u].on # c /\ call[u].on \in Contexts
  BY <1>0, WriterFacts
<1>2. ctx' = [ctx EXCEPT ![c] = new]  BY <1>0
<1>3. TypeOK'
  <2>1. ctx' \in [Contexts -> ContextType]  BY <1>2 DEF ContextInv, TypeOK
  <2>2. call' \in [Threads -> CallType]  BY DEF ContextInv, TypeOK
  <2> QED  BY <2>1, <2>2 DEF TypeOK
<1>4. ctx'[c] = new /\ \A d \in Contexts : d # c => ctx'[d] = ctx[d]
  BY <1>1, <1>2 DEF ContextInv, TypeOK
<1>5. call'[t] = next /\ \A u \in Threads : u # t => call'[u] = call[u]
  BY DEF ContextInv, TypeOK
<1>6. next = Idle \/ next.on = c  BY <1>0
<1>6a. \A d \in Contexts : Uses(t, d) <=> d = c  BY <1>0 DEF Uses
<1>7. \A d \in Contexts : ContextOK(d)'
  <2> TAKE d \in Contexts
  <2>1. CASE d = c
    <3>1. CASE next = Idle  BY <1>4, <2>1, <3>1 DEF ContextOK
    <3>2. CASE next # Idle
      <4>1. Writes(t, c)' /\ call'[t].at = "scalar"
        BY <1>5, <1>6, <3>2 DEF Writes, Uses, IsIdle
      <4> QED  BY <1>4, <2>1, <4>1 DEF ContextOK
    <3> QED  BY <3>1, <3>2
  <2>2. CASE d # c
    <3>1. \A u \in Threads : Writes(u, d)' /\ call'[u].at = "scalar"
                                <=> Writes(u, d) /\ call[u].at = "scalar"
      BY <1>5, <1>6, <1>6a, <2>2 DEF Writes, Uses, IsIdle
    <3> QED  BY <1>4, <2>2, <3>1 DEF ContextInv, ContextOK
  <2> QED  BY <2>1, <2>2
<1>8. \A u \in Threads : CallOK(u)'
  <2> TAKE u \in Threads
  <2>1. CASE u = t  BY <1>4, <1>5, <1>6, <2>1 DEF CallOK
  <2>2. CASE u # t  BY <1>1, <1>4, <1>5, <2>2 DEF ContextInv, CallOK, IsIdle
  <2> QED  BY <2>1, <2>2
<1>9. WriterAlone'
  BY <1>1, <1>5, <1>6 DEF ContextInv, WriterAlone, Writes, Uses, IsIdle
<1>10. SecretsCleared'  BY <1>4 DEF ContextInv, SecretsCleared
<1>11. StaticUntouched'
  BY <1>1, <1>4, <1>5, <1>6, BlocksAreContexts DEF ContextInv, StaticUntouched, Uses, IsIdle
<1> QED  BY <1>3, <1>7, <1>8, <1>9, <1>10, <1>11 DEF ContextInv

LEMMA BlindPointInv ==
    ASSUME ContextInv, NEW t \in Threads, BlindPoint(t)
    PROVE  ContextInv'
<1> DEFINE c == ctx[call[t].on]
           pt == Unblinded(Rescaled(Comb(Plus(c.scalar_offset, call[t].b)), c), c)
           new == [c EXCEPT !.ge_offset = pt]
           next == [op |-> "blind", on |-> call[t].on, at |-> "scalar", b |-> call[t].b]
<1>1. ~IsIdle(t) /\ call[t].op = "blind" /\ call[t].at = "point"  BY DEF BlindPoint
<1>2. /\ call[t].on \in Contexts /\ c \in ContextType /\ c.built /\ call[t].b \in 1 .. N-1
      /\ Writes(t, call[t].on) /\ \A u \in Threads : u # t => ~Uses(u, call[t].on)
      /\ call[t] = [op |-> "blind", on |-> call[t].on, at |-> "point", b |-> call[t].b]
  BY <1>1, WriterFacts
<1>3. /\ c.ge_offset \in 1 .. N-1 /\ c.proj_blind # 0
      /\ Plus(c.scalar_offset, c.ge_offset) = Diff
  BY <1>1, <1>2 DEF ContextInv, ContextOK, Writes
<1>4. pt = call[t].b
  <2>1. pt = Plus(Comb(Plus(c.scalar_offset, call[t].b)), c.ge_offset)
    BY <1>3 DEF Unblinded, Rescaled
  <2>2. c.scalar_offset \in Scalars /\ c.ge_offset \in Scalars /\ call[t].b \in Scalars
    BY <1>2 DEF ContextType, Points, Scalars
  <2> QED  BY <1>3, <2>1, <2>2, BlindingCancels
<1>5. /\ new \in ContextType /\ new.built /\ new.ge_offset = call[t].b /\ new.proj_blind # 0
  <2>1. call[t].b \in Points  BY <1>2, CurveAssumption DEF Points
  <2> QED  BY <1>2, <1>3, <1>4, <2>1 DEF ContextType
<1>6. next \in CallType /\ next # Idle  BY <1>2 DEF CallType, Idle
<1>7. ctx' = [ctx EXCEPT ![call[t].on] = new] /\ call' = [call EXCEPT ![t] = next]
  <2>1. [call[t] EXCEPT !.at = "scalar"] = next  BY <1>2
  <2>2. call' = [call EXCEPT ![t] = [call[t] EXCEPT !.at = "scalar"]]  BY DEF BlindPoint
  <2>3. ctx' = [ctx EXCEPT ![call[t].on] = [ctx[call[t].on] EXCEPT !.ge_offset = pt]]
    BY DEF BlindPoint
  <2> QED  BY <2>1, <2>2, <2>3
<1>8. next.op = "blind" /\ next.on = call[t].on /\ next.at = "scalar" /\ next.b = call[t].b
  OBVIOUS
<1> HIDE DEF new, next, pt, c
<1> QED  BY <1>1, <1>2, <1>5, <1>6, <1>7, <1>8, WriterStep

LEMMA BlindScalarInv ==
    ASSUME ContextInv, NEW t \in Threads, BlindScalar(t)
    PROVE  ContextInv'
<1> DEFINE c == ctx[call[t].on]
           offset == Plus(Neg(call[t].b), Diff)
           new == [c EXCEPT !.scalar_offset = offset]
<1>1. ~IsIdle(t) /\ call[t].op = "blind" /\ call[t].at = "scalar"  BY DEF BlindScalar
<1>2. call[t].on \in Contexts /\ c \in ContextType /\ c.built /\ call[t].b \in 1 .. N-1
  BY <1>1, WriterFacts
<1>3. c.ge_offset = call[t].b  BY <1>1 DEF ContextInv, CallOK, IsIdle
<1>4. c.proj_blind # 0  BY <1>2 DEF ContextInv, ContextOK
<1>5. /\ call[t].b \in Scalars /\ call[t].b \in Int /\ Neg(call[t].b) \in Scalars
      /\ Neg(call[t].b) \in Int /\ Diff \in Scalars /\ Diff \in Int
  BY <1>2, NegType, DiffType, ScalarsAreInts DEF Scalars
<1>6. offset \in Scalars  BY <1>5, PlusType
<1>7. Plus(offset, call[t].b) = Diff
  <2>1. Plus(offset, call[t].b) = Plus(Diff, Plus(Neg(call[t].b), call[t].b))
    BY <1>5, PlusComm, PlusAssoc
  <2>2. Plus(Neg(call[t].b), call[t].b) = 0  BY <1>5, PlusComm, PlusNeg
  <2> QED  BY <1>5, <2>1, <2>2, PlusZero
<1> HIDE DEF offset
<1>8. /\ new \in ContextType /\ new.built /\ new.ge_offset \in 1 .. N-1 /\ new.proj_blind # 0
      /\ Plus(new.scalar_offset, new.ge_offset) = Diff
  BY <1>2, <1>3, <1>4, <1>6, <1>7 DEF ContextType
<1>9. Idle \in CallType  BY DEF CallType
<1>10. ctx' = [ctx EXCEPT ![call[t].on] = new] /\ call' = [call EXCEPT ![t] = Idle]
  BY DEF BlindScalar, offset
<1> HIDE DEF new, c
<1> QED  BY <1>1, <1>8, <1>9, <1>10, WriterStep

-----------------------------------------------------------------------------
(* Steps of a multiplication: the contexts do not change. *)

LEMMA ReaderStep ==
    ASSUME ContextInv, NEW t \in Threads, UNCHANGED ctx,
           NEW next \in CallType, call' = [call EXCEPT ![t] = next],
           ~IsIdle(t) => call[t].op = "mult",
           next # Idle =>
              /\ next.op = "mult" /\ next.on \in Contexts \ {Static}
              /\ ctx[next.on].built
              /\ next.at = "comb" => next.acc = Plus(ctx[next.on].scalar_offset, next.gn)
              /\ next.at = "add" => next.acc = Comb(Plus(ctx[next.on].scalar_offset, next.gn))
              /\ next.at = "done" => next.acc = next.gn
              /\ \A u \in Threads : ~Writes(u, next.on)
    PROVE  ContextInv'
<1>1. TypeOK'  BY DEF ContextInv, TypeOK
<1>2. call'[t] = next /\ \A u \in Threads : u # t => call'[u] = call[u]
  BY DEF ContextInv, TypeOK
<1>3. \A u \in Threads, d \in Contexts : Writes(u, d)' <=> Writes(u, d)
  BY <1>2 DEF Writes, Uses, IsIdle
<1>4. \A u \in Threads, d \in Contexts : Writes(u, d) => call'[u] = call[u]
  BY <1>2 DEF Writes, Uses
<1>5. \A d \in Contexts : ContextOK(d)'
  BY <1>3, <1>4 DEF ContextInv, ContextOK
<1>6. \A u \in Threads : CallOK(u)'
  <2> TAKE u \in Threads
  <2>1. CASE u = t  BY <1>2, <2>1 DEF CallOK
  <2>2. CASE u # t  BY <1>2, <2>2 DEF ContextInv, CallOK
  <2> QED  BY <2>1, <2>2
<1>7. WriterAlone'
  BY <1>2, <1>3 DEF ContextInv, WriterAlone, Uses, IsIdle
<1>8. SecretsCleared'  BY DEF ContextInv, SecretsCleared
<1>9. StaticUntouched'  BY <1>2 DEF ContextInv, StaticUntouched, Uses, IsIdle
<1> QED  BY <1>1, <1>5, <1>6, <1>7, <1>8, <1>9 DEF ContextInv

LEMMA MultScalarInv ==
    ASSUME ContextInv, NEW t \in Threads, NEW c \in Contexts, NEW gn \in Inputs,
           MultScalar(t, c, gn)
    PROVE  ContextInv'
<1> DEFINE next == [op |-> "mult", on |-> c, at |-> "comb", gn |-> gn,
                    acc |-> Plus(ctx[c].scalar_offset, gn)]
<1>1. gn \in Scalars /\ ctx[c].scalar_offset \in Scalars
  BY ContextAssumption DEF ContextInv, TypeOK, ContextType
<1>2. Plus(ctx[c].scalar_offset, gn) \in Points
  BY <1>1, PlusType, ScalarsAreInts DEF Points, Scalars
<1>3. next \in CallType /\ next # Idle  BY <1>1, <1>2 DEF CallType, Idle
<1>4. /\ IsIdle(t) /\ Shared(c) /\ ctx[c].built /\ c # Static
      /\ call' = [call EXCEPT ![t] = next] /\ UNCHANGED ctx
  BY BuiltNotStatic DEF MultScalar
<1>5. /\ next.op = "mult" /\ next.on = c /\ next.at = "comb" /\ next.gn = gn
      /\ next.acc = Plus(ctx[c].scalar_offset, gn)
  OBVIOUS
<1>6. \A u \in Threads : ~Writes(u, c)  BY <1>4 DEF Shared
<1> HIDE DEF next
<1> QED  BY <1>3, <1>4, <1>5, <1>6, ReaderStep

\* What a multiplying thread may rely on.
LEMMA ReaderFacts ==
    ASSUME ContextInv, NEW t \in Threads, ~IsIdle(t), call[t].op = "mult"
    PROVE  LET c == ctx[call[t].on]
           IN  /\ call[t].on \in Contexts \ {Static}
               /\ c.built /\ c.scalar_offset \in Scalars /\ c.ge_offset \in 1 .. N-1
               /\ c.proj_blind # 0 /\ Plus(c.scalar_offset, c.ge_offset) = Diff
               /\ call[t].gn \in Scalars /\ call[t].acc \in Points
               /\ \A u \in Threads : ~Writes(u, call[t].on)
               /\ call[t] = [op |-> "mult", on |-> call[t].on, at |-> call[t].at,
                             gn |-> call[t].gn, acc |-> call[t].acc]
<1> DEFINE o == call[t].on
<1>1. call[t] \in [op : {"mult"}, on : Contexts, at : {"comb", "add", "done"}, gn : Scalars,
                   acc : Points]
  BY DEF ContextInv, TypeOK, CallType, IsIdle
<1>2. o \in Contexts  BY <1>1
<1>3. Uses(t, o)  BY DEF Uses
<1>4. o # Static  BY <1>3 DEF ContextInv, StaticUntouched
<1>5. ctx[o] \in ContextType /\ ctx[o].built
  BY <1>2 DEF ContextInv, TypeOK, CallOK, IsIdle
<1>6. \A u \in Threads : ~Writes(u, o)
  <2> TAKE u \in Threads
  <2>1. CASE u = t  BY <2>1 DEF Writes
  <2>2. CASE u # t  BY <1>2, <1>3, <2>2 DEF ContextInv, WriterAlone
  <2> QED  BY <2>1, <2>2
<1>7. ctx[o].ge_offset \in 1 .. N-1 /\ ctx[o].proj_blind # 0
      /\ Plus(ctx[o].scalar_offset, ctx[o].ge_offset) = Diff
  BY <1>2, <1>5, <1>6 DEF ContextInv, ContextOK
<1> QED  BY <1>1, <1>2, <1>4, <1>5, <1>6, <1>7 DEF ContextType

LEMMA MultCombInv ==
    ASSUME ContextInv, NEW t \in Threads, MultComb(t)
    PROVE  ContextInv'
<1> DEFINE c == ctx[call[t].on]
           next == [op |-> "mult", on |-> call[t].on, at |-> "add", gn |-> call[t].gn,
                    acc |-> Comb(Plus(c.scalar_offset, call[t].gn))]
<1>1. ~IsIdle(t) /\ call[t].op = "mult" /\ call[t].at = "comb" /\ UNCHANGED ctx
  BY DEF MultComb
<1>2. /\ call[t].on \in Contexts \ {Static} /\ c.built /\ c.scalar_offset \in Scalars
      /\ c.proj_blind # 0 /\ call[t].gn \in Scalars
      /\ \A u \in Threads : ~Writes(u, call[t].on)
      /\ call[t] = [op |-> "mult", on |-> call[t].on, at |-> "comb",
                    gn |-> call[t].gn, acc |-> call[t].acc]
  BY <1>1, ReaderFacts
<1>3. call[t].acc = Plus(c.scalar_offset, call[t].gn)
  BY <1>1 DEF ContextInv, CallOK, IsIdle
<1>4. Comb(Plus(c.scalar_offset, call[t].gn)) \in Points
  BY <1>2, PlusType, CombType, ScalarsAreInts DEF Points, Scalars
<1>5. next \in CallType /\ next # Idle  BY <1>2, <1>4 DEF CallType, Idle
<1>6. call' = [call EXCEPT ![t] = next]
  <2>1. Rescaled(Comb(call[t].acc), c) = Comb(Plus(c.scalar_offset, call[t].gn))
    BY <1>2, <1>3 DEF Rescaled
  <2>2. call' = [call EXCEPT ![t] = [call[t] EXCEPT !.at = "add",
                                     !.acc = Rescaled(Comb(call[t].acc), c)]]
    BY DEF MultComb
  <2>3. [call[t] EXCEPT !.at = "add", !.acc = Comb(Plus(c.scalar_offset, call[t].gn))] = next
    <3> DEFINE s == [call[t] EXCEPT !.at = "add"]
               x == next.acc
    <3>1. call[t] = [op |-> "mult", on |-> call[t].on, at |-> "comb", gn |-> call[t].gn,
                     acc |-> call[t].acc]
      BY <1>2
    <3>2. s = [op |-> "mult", on |-> call[t].on, at |-> "add", gn |-> call[t].gn,
               acc |-> call[t].acc]
      BY <3>1
    <3>3. [s EXCEPT !.acc = x] = [call[t] EXCEPT !.at = "add", !.acc = x]  OBVIOUS
    <3>4. [[op |-> "mult", on |-> call[t].on, at |-> "add", gn |-> call[t].gn,
            acc |-> call[t].acc] EXCEPT !.acc = x] = next
      OBVIOUS
    <3> HIDE DEF s
    <3> QED  BY <3>2, <3>3, <3>4
  <2> QED  BY <2>1, <2>2, <2>3
<1>7. /\ next.op = "mult" /\ next.on = call[t].on /\ next.at = "add" /\ next.gn = call[t].gn
      /\ next.acc = Comb(Plus(c.scalar_offset, call[t].gn))
  OBVIOUS
<1> HIDE DEF next
<1> QED  BY <1>1, <1>2, <1>5, <1>6, <1>7, ReaderStep

LEMMA MultAddInv ==
    ASSUME ContextInv, NEW t \in Threads, MultAdd(t)
    PROVE  ContextInv'
<1> DEFINE c == ctx[call[t].on]
           next == [op |-> "mult", on |-> call[t].on, at |-> "done", gn |-> call[t].gn,
                    acc |-> call[t].gn]
<1>1. ~IsIdle(t) /\ call[t].op = "mult" /\ call[t].at = "add" /\ UNCHANGED ctx
  BY DEF MultAdd
<1>2. /\ call[t].on \in Contexts \ {Static} /\ c.built /\ c.scalar_offset \in Scalars
      /\ c.ge_offset \in 1 .. N-1 /\ Plus(c.scalar_offset, c.ge_offset) = Diff
      /\ call[t].gn \in Scalars /\ call[t].acc \in Points
      /\ \A u \in Threads : ~Writes(u, call[t].on)
      /\ call[t] = [op |-> "mult", on |-> call[t].on, at |-> "add",
                    gn |-> call[t].gn, acc |-> call[t].acc]
  BY <1>1, ReaderFacts
<1>3. call[t].acc = Comb(Plus(c.scalar_offset, call[t].gn))
  BY <1>1 DEF ContextInv, CallOK, IsIdle
<1>4. call[t].acc # NotAPoint  BY <1>2 DEF Points, NotAPoint
<1>5. Unblinded(call[t].acc, c) = call[t].gn
  <2>1. c.ge_offset \in Scalars  BY <1>2 DEF Scalars
  <2>2. Unblinded(call[t].acc, c) = Plus(call[t].acc, c.ge_offset)
    BY <1>2 DEF Unblinded
  <2> QED  BY <1>2, <1>3, <2>1, <2>2, BlindingCancels
<1>6. next \in CallType /\ next # Idle
  BY <1>2 DEF CallType, Idle, Points, Scalars
<1>7. call' = [call EXCEPT ![t] = next]
  <2>1. call' = [call EXCEPT ![t] = [call[t] EXCEPT !.at = "done", !.acc = call[t].gn]]
    BY <1>4, <1>5 DEF MultAdd
  <2>2. [call[t] EXCEPT !.at = "done", !.acc = call[t].gn] = next
    <3> DEFINE s == [call[t] EXCEPT !.at = "done"]
               x == next.acc
    <3>1. call[t] = [op |-> "mult", on |-> call[t].on, at |-> "add", gn |-> call[t].gn,
                     acc |-> call[t].acc]
      BY <1>2
    <3>2. s = [op |-> "mult", on |-> call[t].on, at |-> "done", gn |-> call[t].gn,
               acc |-> call[t].acc]
      BY <3>1
    <3>3. [s EXCEPT !.acc = x] = [call[t] EXCEPT !.at = "done", !.acc = x]  OBVIOUS
    <3>4. [[op |-> "mult", on |-> call[t].on, at |-> "done", gn |-> call[t].gn,
            acc |-> call[t].acc] EXCEPT !.acc = x] = next
      OBVIOUS
    <3> HIDE DEF s
    <3> QED  BY <3>2, <3>3, <3>4
  <2> QED  BY <2>1, <2>2
<1>8. /\ next.op = "mult" /\ next.on = call[t].on /\ next.at = "done"
      /\ next.gn = call[t].gn /\ next.acc = call[t].gn
  OBVIOUS
<1> HIDE DEF next
<1> QED  BY <1>1, <1>2, <1>6, <1>7, <1>8, ReaderStep

LEMMA ReturnInv ==
    ASSUME ContextInv, NEW t \in Threads, Return(t)
    PROVE  ContextInv'
<1>1. ~IsIdle(t) /\ call[t].at = "done" /\ UNCHANGED ctx /\ call' = [call EXCEPT ![t] = Idle]
  BY DEF Return
<1>2. call[t].op = "mult"
  BY <1>1 DEF ContextInv, TypeOK, CallType, IsIdle
<1>3. Idle \in CallType  BY DEF CallType
<1> QED  BY <1>1, <1>2, <1>3, ReaderStep

-----------------------------------------------------------------------------
LEMMA InvNext == ContextInv /\ [Next]_vars => ContextInv'
<1> SUFFICES ASSUME ContextInv, [Next]_vars PROVE ContextInv'  OBVIOUS
<1>1. CASE UNCHANGED vars
  BY <1>1 DEF vars, ContextInv, TypeOK, ContextOK, CallOK, WriterAlone, SecretsCleared,
              StaticUntouched, Writes, Uses, IsIdle
<1>2. ASSUME NEW c \in Contexts, NEW kind \in {"heap", "block"}, Create(c, kind)
      PROVE  ContextInv'
  BY <1>2, CreateInv
<1>3. ASSUME NEW c \in Contexts, NEW kind \in {"heap", "block"}, NEW to \in Blocks,
             Clone(c, to, kind)
      PROVE  ContextInv'
  BY <1>3, CloneInv
<1>4. ASSUME NEW c \in Contexts, CopyStatic(c) PROVE ContextInv'  BY <1>4, CopyStaticInv
<1>5. ASSUME NEW c \in Contexts, Destroy(c) PROVE ContextInv'  BY <1>5, DestroyInv
<1>6. ASSUME NEW c \in Contexts, RandomizeReset(c) PROVE ContextInv'
  BY <1>6, RandomizeResetInv
<1>7. ASSUME NEW c \in Contexts, NEW fun \in Functions, NEW which, SetCallback(c, which, fun)
      PROVE  ContextInv'
  BY <1>7, SetCallbackInv
<1>8. ASSUME NEW c \in Contexts, NEW fun \in Functions, SetCompression(c, fun)
      PROVE  ContextInv'
  BY <1>8, SetCompressionInv
<1>9. ASSUME NEW t \in Threads, NEW c \in Contexts, NEW seed \in Seeds,
             BlindProjection(t, c, seed)
      PROVE  ContextInv'
  BY <1>9, BlindProjectionInv
<1>10. ASSUME NEW t \in Threads, NEW c \in Contexts, NEW gn \in Inputs, MultScalar(t, c, gn)
       PROVE  ContextInv'
  BY <1>10, MultScalarInv
<1>11. ASSUME NEW t \in Threads,
              BlindPoint(t) \/ BlindScalar(t) \/ MultComb(t) \/ MultAdd(t) \/ Return(t)
       PROVE  ContextInv'
  BY <1>11, BlindPointInv, BlindScalarInv, MultCombInv, MultAddInv, ReturnInv
<1> QED  BY <1>1, <1>2, <1>3, <1>4, <1>5, <1>6, <1>7, <1>8, <1>9, <1>10, <1>11 DEF Next

\* and always: types, stored blinding values and each call in progress
\* (ContextInv).
THEOREM ContextInvariant == Spec => []ContextInv
<1> QED  BY InvInit, InvNext, PTL DEF Spec

\* Every multiplication by a blinded context returns gn*G (GenCorrect), for
\* every group, generator, number of contexts and threads.
THEOREM ContextGenCorrect == Spec => []GenCorrect
<1>1. ContextInv => GenCorrect
  BY DEF ContextInv, CallOK, GenCorrect, Idle
<1> QED  BY <1>1, ContextInvariant, PTL

\* The blinding scalar and point of a built context cancel, and its point is
\* never infinity (BlindingSound).
THEOREM ContextBlindingSound == Spec => []BlindingSound
<1>1. ContextInv => BlindingSound  BY DEF ContextInv, ContextOK, BlindingSound
<1> QED  BY <1>1, ContextInvariant, PTL

\* The static context is never changed or used to multiply (StaticUntouched),
\* and a context that is not proper holds no blinding value (SecretsCleared).
THEOREM ContextStaticUntouched == Spec => []StaticUntouched
<1>1. ContextInv => StaticUntouched  BY DEF ContextInv
<1> QED  BY <1>1, ContextInvariant, PTL

\* A context that is not proper holds no blinding value (SecretsCleared).
THEOREM ContextSecretsCleared == Spec => []SecretsCleared
<1>1. ContextInv => SecretsCleared  BY DEF ContextInv
<1> QED  BY <1>1, ContextInvariant, PTL
=============================================================================
