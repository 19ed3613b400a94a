---------------------------- MODULE MuSigProofs ----------------------------
(***************************************************************************)
(* MuSig for every group, every number of signers, every nonce and hash    *)
(* function and every sequence of calls: the cache of a tweaked key, the   *)
(* one-time use of nonces, and the refinement of OneTimeNonce.             *)
(***************************************************************************)
EXTENDS MuSig, CurveLemmas

-----------------------------------------------------------------------------
(* The key aggregation cache *)

\* TweakSound together with what makes it inductive: the untweaked aggregate
\* key is a finite point.
KeyInv ==
    /\ KeysTypeOK
    /\ TweakSound
    /\ cache # Zero => AggregateKey(cache.pks) \in 1 .. N-1

LEMMA FinitePoints == Points \ {Infinity} = 1 .. N-1 /\ 1 .. N-1 \subseteq Scalars
BY CurveAssumption DEF Points, Infinity, Scalars

\* The x-only negation keeps the meaning of the cache.
LEMMA NegationSound ==
    ASSUME NEW c \in CacheType, NEW xonly \in BOOLEAN, NEW Q \in Scalars,
           c.pk = Plus(IF c.parity_acc = 1 THEN Neg(Q) ELSE Q, c.tweak)
    PROVE  LET d == XonlyNegated(c, xonly)
           IN  /\ d \in CacheType
               /\ d.pks = c.pks
               /\ d.pk = Plus(IF d.parity_acc = 1 THEN Neg(Q) ELSE Q, d.tweak)
<1> DEFINE d == XonlyNegated(c, xonly)
           A == IF c.parity_acc = 1 THEN Neg(Q) ELSE Q
<1>1. CASE d = c  BY <1>1
<1>2. CASE d = [c EXCEPT !.pk = Neg(@), !.parity_acc = 1 - @, !.tweak = Neg(@)]
  <2>1. /\ c.pk \in 1 .. N-1 /\ c.parity_acc \in {0, 1} /\ c.tweak \in Scalars
        /\ c.pk \in Scalars /\ c.pk # 0
    BY CurveAssumption DEF CacheType, Scalars
  <2>2. /\ d.pk = Neg(c.pk) /\ d.parity_acc = 1 - c.parity_acc
        /\ d.tweak = Neg(c.tweak) /\ d.pks = c.pks
    BY <1>2 DEF CacheType
  <2>3. Neg(c.pk) \in 1 .. N-1 /\ Neg(c.tweak) \in Scalars  BY <2>1, NegType
  <2>4. 1 - c.parity_acc \in {0, 1}  BY <2>1
  <2>5. d \in CacheType  BY <1>2, <2>3, <2>4 DEF CacheType
  <2>6. A \in Scalars  BY NegType
  <2>7. Neg(A) = IF d.parity_acc = 1 THEN Neg(Q) ELSE Q
    BY <2>1, <2>2, NegNeg
  <2>8. Neg(c.pk) = Plus(Neg(A), Neg(c.tweak))
    BY <2>1, <2>6, NegPlus
  <2> QED  BY <2>2, <2>5, <2>7, <2>8
<1> QED  BY <1>1, <1>2 DEF XonlyNegated

\* So does adding a tweak that does not lead to infinity.
LEMMA TweakedSound ==
    ASSUME NEW c \in CacheType, NEW xonly \in BOOLEAN, NEW Q \in Scalars,
           NEW tweak \in Scalars,
           c.pk = Plus(IF c.parity_acc = 1 THEN Neg(Q) ELSE Q, c.tweak),
           Tweaked(c, tweak, xonly).pk # Infinity
    PROVE  LET t == Tweaked(c, tweak, xonly)
           IN  /\ t \in CacheType
               /\ t.pks = c.pks
               /\ t.pk = Plus(IF t.parity_acc = 1 THEN Neg(Q) ELSE Q, t.tweak)
<1> DEFINE d == XonlyNegated(c, xonly)
           t == Tweaked(c, tweak, xonly)
           A == IF d.parity_acc = 1 THEN Neg(Q) ELSE Q
<1>1. d \in CacheType /\ d.pks = c.pks /\ d.pk = Plus(A, d.tweak)
  BY NegationSound
<1>2. t = [d EXCEPT !.tweak = Plus(@, tweak), !.pk = Plus(@, tweak)]
  BY DEF Tweaked
<1> HIDE DEF d, t
<1>3. /\ t.tweak = Plus(d.tweak, tweak) /\ t.pk = Plus(d.pk, tweak)
      /\ t.parity_acc = d.parity_acc /\ t.pks = d.pks
  BY <1>1, <1>2 DEF CacheType
<1>4. \A x \in Scalars : x \in Int  BY DEF Scalars
<1>5. d.tweak \in Scalars /\ d.pk \in Scalars /\ A \in Scalars
  BY <1>1, NegType, FinitePoints DEF CacheType
<1>6. Plus(d.tweak, tweak) \in Scalars /\ Plus(d.pk, tweak) \in Scalars
  BY <1>4, <1>5, PlusType
<1>7. t.pk \in 1 .. N-1
  <2>1. t.pk # 0  BY DEF t, Infinity
  <2> QED  BY <1>3, <1>6, <2>1 DEF Scalars
<1>8. t \in CacheType  BY <1>1, <1>2, <1>3, <1>6, <1>7 DEF CacheType
<1>9. Plus(Plus(A, d.tweak), tweak) = Plus(A, Plus(d.tweak, tweak))
  BY <1>4, <1>5, PlusAssoc
<1> QED  BY <1>1, <1>3, <1>8, <1>9 DEF t

LEMMA InitKeyInv == Init => KeyInv
BY MuSigAssumption DEF Init, KeyInv, KeysTypeOK, TweakSound

LEMMA NextKeyInv == KeyInv /\ [Next]_vars => KeyInv'
<1> SUFFICES ASSUME KeyInv, [Next]_vars PROVE KeyInv'  OBVIOUS
<1> USE DEF KeyInv
<1>1. CASE PubkeyAgg
  <2>1. /\ AggregateKey(sk) \in 1 .. N-1
        /\ cache' = [magic |-> TRUE, pk |-> AggregateKey(sk), second_pk |-> SecondPk(sk),
                     pks |-> sk, parity_acc |-> 0, tweak |-> 0]
        /\ ntweaks' = 0 /\ sk' = sk
    BY <1>1, FinitePoints DEF PubkeyAgg
  <2>2. AggregateKey(sk) \in Scalars  BY <2>1, FinitePoints
  <2>3. SecondPk(sk) \in Points
    <3> SUFFICES ASSUME {i \in Signers : sk[i] # sk[1]} # {}
                 PROVE  sk[Min({i \in Signers : sk[i] # sk[1]})] \in Points
      BY CurveAssumption DEF SecondPk, Infinity, Points
    <3> DEFINE others == {i \in Signers : sk[i] # sk[1]}
    <3>1. \E i \in others : \A j \in others : i <= j
      <4>1. others \subseteq Nat  BY DEF Signers
      <4> QED  BY <4>1, LeastElement
    <3>2. Min(others) \in others  BY <3>1 DEF Min
    <3>3. sk \in [Signers -> 1 .. N-1]  BY MuSigAssumption DEF KeysTypeOK
    <3>4. sk[Min(others)] \in 1 .. N-1  BY <3>2, <3>3
    <3> QED  BY <3>4, CurveAssumption DEF Points
  <2>4. cache' \in CacheType
    BY <2>1, <2>3, CurveAssumption DEF CacheType, KeysTypeOK, Scalars
  <2>5. KeysTypeOK'  BY <2>1, <2>4, MuSigAssumption DEF KeysTypeOK
  <2>6. cache'.pk = AggregateKey(sk) /\ cache'.pks = sk
        /\ cache'.parity_acc = 0 /\ cache'.tweak = 0
    BY <2>1
  <2>7. TweakSound'
    <3>1. AggregateKey(sk) = Plus(AggregateKey(sk), 0)  BY <2>2, PlusZero
    <3> QED  BY <2>6, <3>1 DEF TweakSound
  <2> QED  BY <2>1, <2>5, <2>6, <2>7
<1>2. ASSUME NEW tweak \in Tweaks, NEW xonly \in BOOLEAN, PubkeyTweakAdd(tweak, xonly)
      PROVE  KeyInv'
  <2>1. CASE TweakAddFails(cache, tweak, xonly)
    <3>1. cache' = cache /\ ntweaks' = ntweaks /\ sk' = sk
      BY <1>2, <2>1 DEF PubkeyTweakAdd
    <3> QED  BY <3>1 DEF KeysTypeOK, TweakSound
  <2>2. CASE ~TweakAddFails(cache, tweak, xonly)
    <3>1. /\ cache' = Tweaked(cache, tweak, xonly)
          /\ ntweaks < MaxTweaks /\ ntweaks' = ntweaks + 1 /\ sk' = sk
      BY <1>2, <2>2 DEF PubkeyTweakAdd
    <3>2. /\ cache \in CacheType /\ cache # Zero
          /\ tweak \in Scalars /\ Tweaked(cache, tweak, xonly).pk # Infinity
      BY <2>2, MuSigAssumption, CurveAssumption
      DEF TweakAddFails, KeysTypeOK, Scalars
    <3> DEFINE Q == AggregateKey(cache.pks)
    <3>3. Q \in Scalars /\ Q \in 1 .. N-1
          /\ cache.pk = Plus(IF cache.parity_acc = 1 THEN Neg(Q) ELSE Q, cache.tweak)
      BY <3>2, FinitePoints DEF TweakSound
    <3> HIDE DEF Q
    <3>4. /\ cache' \in CacheType /\ cache'.pks = cache.pks
          /\ cache'.pk = Plus(IF cache'.parity_acc = 1 THEN Neg(Q) ELSE Q, cache'.tweak)
      BY <3>1, <3>2, <3>3, TweakedSound
    <3>5. KeysTypeOK'
      BY <3>1, <3>4, MuSigAssumption DEF KeysTypeOK
    <3>6. TweakSound'  BY <3>4 DEF TweakSound, Q
    <3> QED  BY <3>3, <3>4, <3>5, <3>6 DEF Q
  <2> QED  BY <2>1, <2>2
<1>3. CASE UNCHANGED keys
  BY <1>3 DEF keys, KeysTypeOK, TweakSound
<1> QED
  BY <1>1, <1>2, <1>3 DEF Next, vars, NonceAgg, NonceProcess, FillSecrand, NonceGen,
     NonceGenCounter, PartialSign, PartialSigParse

\* The cache is well formed after any sequence of calls.
THEOREM MuSigKeysTypeOK == Spec => []KeysTypeOK
<1>1. KeyInv => KeysTypeOK  BY DEF KeyInv
<1> QED  BY InitKeyInv, NextKeyInv, <1>1, PTL DEF Spec

\* The cache stands for the (negated) aggregate key plus the tweak.
THEOREM MuSigTweakSound == Spec => []TweakSound
<1>1. KeyInv => TweakSound  BY DEF KeyInv
<1> QED  BY InitKeyInv, NextKeyInv, <1>1, PTL DEF Spec

-----------------------------------------------------------------------------
(* One-time use of nonces *)

\* The nonces in the signers' secnonces.
Holds(i, id) == secnonce[i] # Zero /\ secnonce[i].id = id

(***************************************************************************)
(* A nonce that is held has computed no signature and is held only once;   *)
(* one that computed a signature was born; one that was born is nobody's   *)
(* randomness any more, and randomness is never in two buffers.            *)
(***************************************************************************)
NonceInv ==
    /\ NoncesTypeOK
    /\ \A i \in Signers : secnonce[i] # Zero =>
          /\ secnonce[i].id \in born
          /\ uses[secnonce[i].id] = 0
    /\ \A i, j \in Signers : \A id \in Ids : Holds(i, id) /\ Holds(j, id) => i = j
    /\ \A id \in Ids : uses[id] > 0 => id \in born
    /\ \A id \in Ids : uses[id] <= 1
    /\ \A id \in born : id <= supply
    /\ \A i \in Signers : secrand[i] <= supply
    /\ \A i \in Signers : secrand[i] # 0 => secrand[i] \notin born
    /\ \A i, j \in Signers : secrand[i] # 0 /\ secrand[i] = secrand[j] => i = j

LEMMA IdFacts ==
    /\ 1 .. MaxNonces \subseteq Ids
    /\ \A r \in 1 .. MaxNonces : FailedId(r) \in Ids /\ FailedId(r) \notin 1 .. MaxNonces
BY MuSigAssumption DEF Ids, FailedId

LEMMA SecNonceNotZero == \A x \in SecNonceType : x # Zero
BY DEF SecNonceType, Zero

LEMMA InitNonceInv == Init => NonceInv
<1> SUFFICES ASSUME Init PROVE NonceInv  OBVIOUS
<1>1. MaxNonces \in Nat  BY MuSigAssumption
<1>2. NoncesTypeOK  BY <1>1 DEF Init, NoncesTypeOK
<1> QED  BY <1>1, <1>2 DEF Init, NonceInv, Holds

\* A fresh nonce r goes into the secnonce of signer i, or Zero does.
LEMMA StoreNonceInv ==
    ASSUME NonceInv, NEW i \in Signers, NEW r \in 1 .. MaxNonces,
           NEW validSec \in BOOLEAN, NEW withCache \in BOOLEAN,
           r \notin born, r <= supply', supply <= supply',
           supply' \in 0 .. MaxNonces,
           secrand' \in [Signers -> 0 .. MaxNonces],
           \A j \in Signers : secrand'[j] = secrand[j] \/ secrand'[j] = 0,
           \A j \in Signers : secrand'[j] = r => j = i /\ ~GenInternal(i, r, validSec, withCache).ret,
           StoreNonce(i, GenInternal(i, r, validSec, withCache)),
           sk[i] \in 1 .. N-1, uses' = uses
    PROVE  NonceInv'
<1> DEFINE gen == GenInternal(i, r, validSec, withCache)
<1> USE MuSigAssumption
<1>1. /\ secnonce' = [secnonce EXCEPT ![i] = gen.sec]
      /\ pubnonce' = [pubnonce EXCEPT ![i] = gen.pub]
      /\ born' = IF gen.sec = Zero THEN born ELSE born \cup {gen.sec.id}
  BY DEF StoreNonce
<1>2. \/ gen.sec = Zero
      \/ gen.ret /\ gen.sec \in SecNonceType /\ gen.sec.id = r
  BY DEF GenInternal, SecNonceType
<1>3. gen.pub \in 0 .. 2 * MaxNonces
  BY DEF GenInternal, FailedId
<1> HIDE DEF gen
<1>4. NoncesTypeOK'
  BY <1>1, <1>2, <1>3, SecNonceNotZero DEF NonceInv, NoncesTypeOK
<1>5. born' = born \/ (born' = born \cup {r} /\ gen.ret /\ gen.sec # Zero /\ gen.sec.id = r)
  BY <1>1, <1>2, SecNonceNotZero
<1>6. \A j \in Signers :
         \/ secnonce'[j] = secnonce[j] /\ j # i
         \/ j = i /\ secnonce'[j] = Zero
         \/ j = i /\ secnonce'[j] # Zero /\ secnonce'[j].id = r /\ r \in born'
  BY <1>1, <1>2, SecNonceNotZero DEF NonceInv, NoncesTypeOK
<1>7. r \in Ids /\ uses[r] = 0
  BY IdFacts DEF NonceInv, NoncesTypeOK
<1>8. \A j \in Signers : secnonce'[j] # Zero =>
          secnonce'[j].id \in born' /\ uses'[secnonce'[j].id] = 0
  BY <1>5, <1>6, <1>7 DEF NonceInv
<1>9. \A j, k \in Signers : \A id \in Ids : Holds(j, id)' /\ Holds(k, id)' => j = k
  <2> SUFFICES ASSUME NEW j \in Signers, NEW k \in Signers, NEW id \in Ids,
                      secnonce'[j] # Zero, secnonce'[j].id = id,
                      secnonce'[k] # Zero, secnonce'[k].id = id
               PROVE  j = k
    BY DEF Holds
  <2>1. CASE j # i /\ k # i  BY <1>6, <2>1 DEF NonceInv, Holds
  <2>2. CASE j = i /\ k # i
    <3>1. id = r /\ secnonce[k] # Zero /\ secnonce[k].id = r  BY <1>6, <2>2
    <3> QED  BY <3>1 DEF NonceInv
  <2>3. CASE j # i /\ k = i
    <3>1. id = r /\ secnonce[j] # Zero /\ secnonce[j].id = r  BY <1>6, <2>3
    <3> QED  BY <3>1 DEF NonceInv
  <2> QED  BY <2>1, <2>2, <2>3
<1>10. \A id \in born' : id <= supply'
  <2>1. supply \in Nat /\ supply' \in Nat /\ \A id \in born : id \in Nat /\ id <= supply
    BY DEF NonceInv, NoncesTypeOK
  <2>2. \A id \in born : id <= supply'  BY <2>1
  <2> QED  BY <1>5, <2>2
<1>11. \A j \in Signers : secrand'[j] <= supply'
  BY DEF NonceInv, NoncesTypeOK
<1>12. \A j \in Signers : secrand'[j] # 0 => secrand'[j] \notin born'
  BY <1>5 DEF NonceInv, gen
<1>13. \A j, k \in Signers : secrand'[j] # 0 /\ secrand'[j] = secrand'[k] => j = k
  BY DEF NonceInv
<1>14. (\A id \in Ids : uses[id] > 0 => id \in born)' /\ (\A id \in Ids : uses[id] <= 1)'
  BY <1>5 DEF NonceInv
<1> QED  BY <1>4, <1>8, <1>9, <1>10, <1>11, <1>12, <1>13, <1>14 DEF NonceInv

\* Zeroing the secnonce of signer i without signing.
LEMMA EraseInv ==
    ASSUME NonceInv, NEW i \in Signers,
           secnonce' = [secnonce EXCEPT ![i] = Zero],
           UNCHANGED <<secrand, pubnonce, supply, born, uses>>
    PROVE  NonceInv'
<1>1. \A j \in Signers : secnonce'[j] = Zero \/ secnonce'[j] = secnonce[j]
  BY DEF NonceInv, NoncesTypeOK
<1>2. NoncesTypeOK'  BY DEF NonceInv, NoncesTypeOK
<1>3. \A j, k \in Signers : \A id \in Ids : Holds(j, id)' /\ Holds(k, id)' => j = k
  BY <1>1 DEF NonceInv, Holds
<1> QED  BY <1>1, <1>2, <1>3 DEF NonceInv

LEMMA FillSecrandInv ==
    ASSUME NonceInv, NEW i \in Signers, FillSecrand(i) PROVE NonceInv'
<1> USE MuSigAssumption
<1>1. /\ supply < MaxNonces /\ supply' = supply + 1 /\ supply \in Nat
      /\ secrand' = [secrand EXCEPT ![i] = supply + 1]
      /\ UNCHANGED <<secnonce, pubnonce, born, uses>>
  BY DEF FillSecrand, NonceInv, NoncesTypeOK
<1>2. NoncesTypeOK'  BY <1>1 DEF NonceInv, NoncesTypeOK
<1>3. \A j \in Signers : secrand'[j] = IF j = i THEN supply + 1 ELSE secrand[j]
  BY <1>1 DEF NonceInv, NoncesTypeOK
<1>4. \A j \in Signers : secrand[j] <= supply /\ secrand[j] \in Nat
  BY DEF NonceInv, NoncesTypeOK
<1>5. supply + 1 \notin born /\ \A id \in born : id \in Nat
  BY <1>1 DEF NonceInv, NoncesTypeOK
<1>6. \A j, k \in Signers : secrand'[j] # 0 /\ secrand'[j] = secrand'[k] => j = k
  BY <1>1, <1>3, <1>4 DEF NonceInv
<1>7. \A j \in Signers : secrand'[j] # 0 => secrand'[j] \notin born'
  BY <1>1, <1>3, <1>5 DEF NonceInv
<1>8. \A j \in Signers : secrand'[j] <= supply'  BY <1>1, <1>3, <1>4
<1>9. \A id \in born' : id <= supply'  BY <1>1, <1>5 DEF NonceInv
<1>10. \A j, k \in Signers : \A id \in Ids : Holds(j, id)' /\ Holds(k, id)' => j = k
  BY <1>1 DEF NonceInv, Holds
<1> QED  BY <1>1, <1>2, <1>6, <1>7, <1>8, <1>9, <1>10 DEF NonceInv

LEMMA NonceGenInv ==
    ASSUME NonceInv, sk \in [Signers -> 1 .. N-1], NEW i \in Signers,
           NEW validSec \in BOOLEAN, NEW withCache \in BOOLEAN,
           NonceGen(i, validSec, withCache)
    PROVE  NonceInv'
<1> DEFINE r == secrand[i]
           gen == GenInternal(i, r, validSec, withCache)
<1>1. CASE r = 0
  BY <1>1, EraseInv DEF NonceGen
<1>2. CASE r # 0
  <2>1. /\ StoreNonce(i, gen)
        /\ secrand' = IF gen.ret THEN [secrand EXCEPT ![i] = 0] ELSE secrand
        /\ supply' = supply /\ uses' = uses
    BY <1>2 DEF NonceGen
  <2>2. r \in 1 .. MaxNonces /\ r \notin born /\ r <= supply
        /\ supply \in 0 .. MaxNonces /\ supply <= supply
    BY <1>2, MuSigAssumption DEF NonceInv, NoncesTypeOK
  <2>3. secrand' \in [Signers -> 0 .. MaxNonces]
    BY <2>1, MuSigAssumption DEF NonceInv, NoncesTypeOK
  <2>4. \A j \in Signers : secrand'[j] = secrand[j] \/ secrand'[j] = 0
    BY <2>1 DEF NonceInv, NoncesTypeOK
  <2>5. \A j \in Signers : secrand'[j] = r => j = i /\ ~gen.ret
    BY <1>2, <2>1, <2>4 DEF NonceInv, NoncesTypeOK
  <2> QED  BY <2>1, <2>2, <2>3, <2>4, <2>5, StoreNonceInv
<1> QED  BY <1>1, <1>2

LEMMA NonceGenCounterInv ==
    ASSUME NonceInv, sk \in [Signers -> 1 .. N-1], NEW i \in Signers,
           NEW withCache \in BOOLEAN, NonceGenCounter(i, withCache)
    PROVE  NonceInv'
<1> DEFINE r == supply + 1
<1>1. /\ StoreNonce(i, GenInternal(i, r, TRUE, withCache))
      /\ supply < MaxNonces /\ supply' = r /\ secrand' = secrand /\ uses' = uses
  BY DEF NonceGenCounter
<1>2. /\ r \in 1 .. MaxNonces /\ r \notin born /\ supply <= r /\ r \in 0 .. MaxNonces /\ r <= r
      /\ \A j \in Signers : secrand[j] # r
      /\ secrand \in [Signers -> 0 .. MaxNonces]
  BY <1>1, MuSigAssumption DEF NonceInv, NoncesTypeOK
<1> HIDE DEF r
<1> QED  BY <1>1, <1>2, StoreNonceInv

LEMMA PartialSignInv ==
    ASSUME NonceInv, NEW i \in Signers, NEW j \in Signers, PartialSign(i, j)
    PROVE  NonceInv'
<1>1. CASE uses' = uses
  BY <1>1, EraseInv DEF PartialSign
<1>2. CASE /\ secnonce[i] # Zero
           /\ uses' = [uses EXCEPT ![secnonce[i].id] = IF @ < 2 THEN @ + 1 ELSE @]
  <2> DEFINE id == secnonce[i].id
  <2>1. /\ secnonce' = [secnonce EXCEPT ![i] = Zero]
        /\ UNCHANGED <<secrand, pubnonce, supply, born>>
    BY DEF PartialSign
  <2>2. id \in Ids /\ id \in born /\ uses[id] = 0 /\ uses \in [Ids -> 0 .. 2]
    BY <1>2, IdFacts DEF NonceInv, NoncesTypeOK
  <2>3. uses' = [uses EXCEPT ![id] = 1]  BY <1>2, <2>2
  <2>4. \A x \in Ids : uses'[x] = IF x = id THEN 1 ELSE uses[x]
    BY <2>2, <2>3
  <2>5. \A k \in Signers : secnonce'[k] # Zero =>
           secnonce'[k] = secnonce[k] /\ k # i
    BY <2>1 DEF NonceInv, NoncesTypeOK
  <2>6. \A k \in Signers : secnonce'[k] # Zero => secnonce'[k].id \in Ids /\ secnonce'[k].id # id
    <3> SUFFICES ASSUME NEW k \in Signers, secnonce'[k] # Zero
                 PROVE  secnonce'[k].id \in Ids /\ secnonce'[k].id # id
      OBVIOUS
    <3>1. secnonce'[k] = secnonce[k] /\ k # i  BY <2>5
    <3>2. secnonce[k].id \in Ids  BY <3>1, IdFacts DEF NonceInv, NoncesTypeOK
    <3> QED  BY <1>2, <2>2, <3>1, <3>2 DEF NonceInv, Holds
  <2>7. NoncesTypeOK'
    BY <2>1, <2>2, <2>3 DEF NonceInv, NoncesTypeOK
  <2>8. \A k, l \in Signers : \A x \in Ids : Holds(k, x)' /\ Holds(l, x)' => k = l
    BY <2>5 DEF NonceInv, Holds
  <2>9. \A k \in Signers : secnonce'[k] # Zero =>
           secnonce'[k].id \in born' /\ uses'[secnonce'[k].id] = 0
    BY <2>1, <2>4, <2>5, <2>6 DEF NonceInv
  <2>10. \A x \in Ids : (uses'[x] > 0 => x \in born') /\ uses'[x] <= 1
    BY <2>1, <2>2, <2>4 DEF NonceInv
  <2> QED  BY <2>1, <2>7, <2>8, <2>9, <2>10 DEF NonceInv
<1> QED  BY <1>1, <1>2 DEF PartialSign

LEMMA NextNonceInv == NonceInv /\ KeysTypeOK /\ [Next]_vars => NonceInv'
<1> SUFFICES ASSUME NonceInv, KeysTypeOK, [Next]_vars PROVE NonceInv'  OBVIOUS
<1>0. sk \in [Signers -> 1 .. N-1]  BY MuSigAssumption DEF KeysTypeOK
<1>1. ASSUME NEW i \in Signers, FillSecrand(i) PROVE NonceInv'
  BY <1>1, FillSecrandInv
<1>2. ASSUME NEW i \in Signers, NEW validSec \in BOOLEAN, NEW withCache \in BOOLEAN,
             NonceGen(i, validSec, withCache)
      PROVE  NonceInv'
  BY <1>0, <1>2, NonceGenInv
<1>3. ASSUME NEW i \in Signers, NEW withCache \in BOOLEAN, NonceGenCounter(i, withCache)
      PROVE  NonceInv'
  BY <1>0, <1>3, NonceGenCounterInv
<1>4. ASSUME NEW i \in Signers, NEW j \in Signers, PartialSign(i, j) PROVE NonceInv'
  BY <1>4, PartialSignInv
<1>5. CASE UNCHANGED nonces
  BY <1>5 DEF nonces, NonceInv, NoncesTypeOK, Holds
<1> QED
  BY <1>1, <1>2, <1>3, <1>4, <1>5 DEF Next, vars, PubkeyAgg, PubkeyTweakAdd, NonceAgg,
     NonceProcess, PartialSigParse

LEMMA SpecNonceInv == Spec => []NonceInv
BY MuSigKeysTypeOK, InitNonceInv, NextNonceInv, PTL DEF Spec

\* The structures that hold nonces are well formed.
THEOREM MuSigNoncesTypeOK == Spec => []NoncesTypeOK
<1>1. NonceInv => NoncesTypeOK  BY DEF NonceInv
<1> QED  BY SpecNonceInv, <1>1, PTL

\* No nonce computes two partial signatures, and one whose generation failed
\* computes none, for every sequence of API calls.
THEOREM MuSigNonceSignsOnce == Spec => []NonceSignsOnce
<1>1. NonceInv => NonceSignsOnce
  <2> SUFFICES ASSUME NonceInv, NEW r \in 1 .. MaxNonces
               PROVE  uses[FailedId(r)] = 0
    BY DEF NonceInv, NonceSignsOnce
  <2>1. FailedId(r) \in Ids /\ FailedId(r) \notin born
    BY IdFacts DEF NonceInv, NoncesTypeOK
  <2> QED  BY <2>1 DEF NonceInv, NoncesTypeOK
<1> QED  BY SpecNonceInv, <1>1, PTL

-----------------------------------------------------------------------------
(* MuSig implements OneTimeNonce *)

SignedIds == {id \in Ids : uses[id] > 0}

LEMMA StatusOf ==
    ASSUME NEW id \in Ids
    PROVE  NonceStatus[id] = IF \E i \in Signers : Holds(i, id) THEN "held"
                             ELSE IF id \in born THEN "gone" ELSE "unborn"
BY DEF NonceStatus, Holds

LEMMA StatusOfNext ==
    ASSUME NEW id \in Ids
    PROVE  NonceStatus'[id] = IF \E i \in Signers : Holds(i, id)' THEN "held"
                              ELSE IF id \in born' THEN "gone" ELSE "unborn"
BY DEF NonceStatus, Holds

\* Two status functions are equal when they agree on every nonce.
LEMMA StatusEqual ==
    ASSUME NEW f, f = [id \in Ids |-> f[id]],
           \A id \in Ids : NonceStatus'[id] = f[id]
    PROVE  NonceStatus' = f
BY DEF NonceStatus

LEMMA HeldFacts ==
    ASSUME NonceInv, NEW i \in Signers, secnonce[i] # Zero
    PROVE  /\ secnonce[i].id \in Ids
           /\ secnonce[i].id \in Abstract!Held
           /\ secnonce[i].id \in born
           /\ \A j \in Signers : Holds(j, secnonce[i].id) => j = i
<1>1. secnonce[i].id \in Ids /\ secnonce[i].id \in born
  BY IdFacts DEF NonceInv, NoncesTypeOK
<1>2. Holds(i, secnonce[i].id)  BY DEF Holds
<1>3. NonceStatus[secnonce[i].id] = "held"  BY <1>1, <1>2, StatusOf
<1>4. \A j \in Signers : Holds(j, secnonce[i].id) => j = i
  BY <1>1, <1>2 DEF NonceInv
<1> QED  BY <1>1, <1>3, <1>4 DEF Abstract!Held

\* Zeroing a secnonce moves its nonce, if it holds one, from held to gone.
LEMMA EraseStatus ==
    ASSUME NonceInv, NEW i \in Signers,
           secnonce' = [secnonce EXCEPT ![i] = Zero], born' = born
    PROVE  NonceStatus' = IF secnonce[i] = Zero THEN NonceStatus
                          ELSE [NonceStatus EXCEPT ![secnonce[i].id] = "gone"]
<1>0. secnonce \in [Signers -> SecNonceType \cup {Zero}]  BY DEF NonceInv, NoncesTypeOK
<1>1. CASE secnonce[i] = Zero
  <2>1. secnonce' = secnonce  BY <1>0, <1>1
  <2> QED  BY <1>1, <2>1 DEF NonceStatus
<1>2. CASE secnonce[i] # Zero
  <2> DEFINE old == secnonce[i].id
             f   == [NonceStatus EXCEPT ![old] = "gone"]
  <2>1. /\ old \in Ids /\ old \in born
        /\ \A j \in Signers : Holds(j, old) => j = i
    BY <1>2, HeldFacts
  <2>2. \A j \in Signers : \A id \in Ids :
           Holds(j, id)' <=> Holds(j, id) /\ j # i
    BY <1>0 DEF Holds
  <2>3. \A id \in Ids : Holds(i, id) => id = old  BY DEF Holds
  <2>4. ASSUME NEW id \in Ids PROVE NonceStatus'[id] = f[id]
    <3>1. f[id] = IF id = old THEN "gone" ELSE NonceStatus[id]
      BY <2>1 DEF NonceStatus
    <3>2. CASE id = old
      <4>1. ~ \E j \in Signers : Holds(j, id)'  BY <2>1, <2>2, <3>2
      <4> QED  BY <2>1, <3>1, <3>2, <4>1, StatusOfNext
    <3>3. CASE id # old
      <4>1. (\E j \in Signers : Holds(j, id)') <=> (\E j \in Signers : Holds(j, id))
        BY <2>2, <2>3, <3>3
      <4> QED  BY <3>1, <3>3, <4>1, StatusOf, StatusOfNext
    <3> QED  BY <3>2, <3>3
  <2>5. f = [id \in Ids |-> f[id]]  BY DEF NonceStatus
  <2> HIDE DEF f
  <2>6. NonceStatus' = f  BY <2>4, <2>5, StatusEqual
  <2> QED  BY <1>2, <2>6 DEF f
<1> QED  BY <1>1, <1>2

\* Writing a nonce that was never born makes it held and the old one gone.
LEMMA WriteStatus ==
    ASSUME NonceInv, NEW i \in Signers, NEW sec \in SecNonceType,
           sec.id \notin born,
           secnonce' = [secnonce EXCEPT ![i] = sec], born' = born \cup {sec.id},
           uses' = uses
    PROVE  Abstract!Next
<1> DEFINE new == sec.id
           old == IF secnonce[i] = Zero THEN {} ELSE {secnonce[i].id}
           f   == [id \in Ids |-> IF id = new THEN "held"
                                  ELSE IF id \in old THEN "gone" ELSE NonceStatus[id]]
<1>0. /\ secnonce \in [Signers -> SecNonceType \cup {Zero}]
      /\ new \in Ids /\ sec # Zero
  BY IdFacts, SecNonceNotZero DEF NonceInv, NoncesTypeOK, SecNonceType
<1>1. \A j \in Signers : ~Holds(j, new)
  BY DEF NonceInv, Holds
<1>2. NonceStatus[new] = "unborn"  BY <1>0, <1>1, StatusOf
<1>3. old \in {{}} \cup {{id} : id \in Abstract!Held} /\ old \subseteq Abstract!Held
  BY HeldFacts
<1>4. \A j \in Signers : \A id \in Ids :
         Holds(j, id)' <=> IF j = i THEN id = new ELSE Holds(j, id)
  BY <1>0 DEF Holds
<1>5. ASSUME NEW id \in Ids PROVE NonceStatus'[id] = f[id]
  <2>1. CASE id = new
    <3>1. Holds(i, id)'  BY <1>4, <2>1
    <3>2. NonceStatus'[id] = "held"  BY <3>1, StatusOfNext
    <3> QED  BY <2>1, <3>2
  <2>2. CASE id # new /\ id \in old
    <3>1. secnonce[i] # Zero /\ id = secnonce[i].id  BY <2>2
    <3>2. id \in born /\ \A j \in Signers : Holds(j, id) => j = i  BY <3>1, HeldFacts
    <3>3. ~ \E j \in Signers : Holds(j, id)'  BY <1>4, <2>2, <3>2
    <3>4. NonceStatus'[id] = "gone"  BY <3>2, <3>3, StatusOfNext
    <3> QED  BY <2>2, <3>4
  <2>3. CASE id # new /\ id \notin old
    <3>1. ~Holds(i, id)  BY <2>3 DEF Holds
    <3>2. (\E j \in Signers : Holds(j, id)') <=> (\E j \in Signers : Holds(j, id))
      BY <1>4, <2>3, <3>1
    <3>3. NonceStatus'[id] = NonceStatus[id]
      BY <2>3, <3>2, StatusOf, StatusOfNext
    <3> QED  BY <2>3, <3>3
  <2> QED  BY <2>1, <2>2, <2>3
<1>6. NonceStatus' = f
  <2>1. f = [id \in Ids |-> f[id]]  OBVIOUS
  <2> HIDE DEF f
  <2> QED  BY <1>5, <2>1, StatusEqual
<1>7. SignedIds' = SignedIds  BY DEF SignedIds
<1>8. Abstract!Generate(new, old)
  BY <1>2, <1>3, <1>6, <1>7 DEF Abstract!Generate, SignedIds
<1> QED  BY <1>0, <1>3, <1>8 DEF Abstract!Next

\* Zeroing without signing is Discard, or nothing.
LEMMA EraseStep ==
    ASSUME NonceInv, NEW i \in Signers,
           secnonce' = [secnonce EXCEPT ![i] = Zero], born' = born, uses' = uses
    PROVE  [Abstract!Next]_(Abstract!vars)
<1>1. SignedIds' = SignedIds  BY DEF SignedIds
<1>2. CASE secnonce[i] = Zero
  <2>1. NonceStatus' = NonceStatus  BY <1>2, EraseStatus
  <2> QED  BY <1>1, <2>1 DEF Abstract!vars, SignedIds
<1>3. CASE secnonce[i] # Zero
  <2>1. NonceStatus' = [NonceStatus EXCEPT ![secnonce[i].id] = "gone"]
    BY <1>3, EraseStatus
  <2>2. secnonce[i].id \in Ids /\ secnonce[i].id \in Abstract!Held
    BY <1>3, HeldFacts
  <2>3. Abstract!Discard(secnonce[i].id)
    BY <1>1, <2>1, <2>2 DEF Abstract!Discard, SignedIds
  <2> QED  BY <2>2, <2>3 DEF Abstract!Next
<1> QED  BY <1>2, <1>3

LEMMA StoreStep ==
    ASSUME NonceInv, NEW i \in Signers, NEW r \in 1 .. MaxNonces,
           NEW validSec \in BOOLEAN, NEW withCache \in BOOLEAN,
           r \notin born, sk[i] \in 1 .. N-1,
           StoreNonce(i, GenInternal(i, r, validSec, withCache)), uses' = uses
    PROVE  [Abstract!Next]_(Abstract!vars)
<1> DEFINE gen == GenInternal(i, r, validSec, withCache)
<1>1. /\ secnonce' = [secnonce EXCEPT ![i] = gen.sec]
      /\ born' = IF gen.sec = Zero THEN born ELSE born \cup {gen.sec.id}
  BY DEF StoreNonce
<1>2. gen.sec = Zero \/ (gen.sec \in SecNonceType /\ gen.sec.id = r)
  BY DEF GenInternal, SecNonceType
<1> HIDE DEF gen
<1>3. CASE gen.sec = Zero  BY <1>1, <1>3, EraseStep
<1>4. CASE gen.sec \in SecNonceType /\ gen.sec.id = r
  <2>1. gen.sec # Zero  BY <1>4, SecNonceNotZero
  <2> QED  BY <1>1, <1>4, <2>1, WriteStatus
<1> QED  BY <1>2, <1>3, <1>4

LEMMA SignNext ==
    ASSUME NEW id \in Ids, Abstract!Sign(id) PROVE Abstract!Next
<1>1. Abstract!Discard(id) \/ Abstract!Sign(id)  OBVIOUS
<1> QED  BY <1>1 DEF Abstract!Next

LEMMA SignStep ==
    ASSUME NonceInv, NEW i \in Signers, NEW j \in Signers, PartialSign(i, j)
    PROVE  [Abstract!Next]_(Abstract!vars)
<1>0. secnonce' = [secnonce EXCEPT ![i] = Zero] /\ born' = born
  BY DEF PartialSign
<1>1. CASE uses' = uses  BY <1>0, <1>1, EraseStep
<1>2. CASE /\ secnonce[i] # Zero
           /\ uses' = [uses EXCEPT ![secnonce[i].id] = IF @ < 2 THEN @ + 1 ELSE @]
  <2>1. PICK used \in Ids : used = secnonce[i].id /\ used \in Abstract!Held
    BY <1>2, HeldFacts
  <2>2. uses[used] = 0 /\ uses \in [Ids -> 0 .. 2]  BY <1>2, <2>1 DEF NonceInv, NoncesTypeOK
  <2>3. NonceStatus' = [NonceStatus EXCEPT ![used] = "gone"]  BY <1>0, <1>2, <2>1, EraseStatus
  <2>4. \A x \in Ids : uses'[x] = IF x = used THEN 1 ELSE uses[x]
    BY <1>2, <2>1, <2>2
  <2>5. SignedIds' = SignedIds \cup {used}
    BY <2>1, <2>4 DEF SignedIds
  <2>6. Abstract!Sign(used)
    BY <2>1, <2>3, <2>5 DEF Abstract!Sign, SignedIds
  <2> QED  BY <2>6, SignNext
<1> QED  BY <1>1, <1>2 DEF PartialSign

LEMMA InitRefines == Init => Abstract!Init
<1> SUFFICES ASSUME Init PROVE Abstract!Init  OBVIOUS
<1>1. \A id \in Ids : NonceStatus[id] = "unborn"
  BY StatusOf DEF Init, Holds
<1>2. NonceStatus = [id \in Ids |-> "unborn"]
  BY <1>1 DEF NonceStatus
<1>3. SignedIds = {}  BY DEF Init, SignedIds
<1> QED  BY <1>2, <1>3 DEF Abstract!Init, SignedIds

LEMMA NextRefines ==
    NonceInv /\ KeysTypeOK /\ [Next]_vars => [Abstract!Next]_(Abstract!vars)
<1> SUFFICES ASSUME NonceInv, KeysTypeOK, [Next]_vars
             PROVE  [Abstract!Next]_(Abstract!vars)
  OBVIOUS
<1>0. sk \in [Signers -> 1 .. N-1]  BY MuSigAssumption DEF KeysTypeOK
<1>1. CASE UNCHANGED <<secnonce, born, uses>>
  <2>1. NonceStatus' = NonceStatus /\ SignedIds' = SignedIds
    BY <1>1 DEF NonceStatus, SignedIds
  <2> QED  BY <2>1 DEF Abstract!vars, SignedIds
<1>2. ASSUME NEW i \in Signers, NEW validSec \in BOOLEAN, NEW withCache \in BOOLEAN,
             NonceGen(i, validSec, withCache)
      PROVE  [Abstract!Next]_(Abstract!vars)
  <2>1. CASE secrand[i] = 0
    <3>1. /\ secnonce' = [secnonce EXCEPT ![i] = Zero]
          /\ born' = born /\ uses' = uses
      BY <1>2, <2>1 DEF NonceGen
    <3> QED  BY <3>1, EraseStep
  <2>2. CASE secrand[i] # 0
    <3>1. secrand[i] \in 1 .. MaxNonces /\ secrand[i] \notin born
      BY <2>2, MuSigAssumption DEF NonceInv, NoncesTypeOK
    <3> QED  BY <1>0, <1>2, <2>2, <3>1, StoreStep DEF NonceGen
  <2> QED  BY <2>1, <2>2
<1>3. ASSUME NEW i \in Signers, NEW withCache \in BOOLEAN, NonceGenCounter(i, withCache)
      PROVE  [Abstract!Next]_(Abstract!vars)
  <2> DEFINE r == supply + 1
  <2>1. r \in 1 .. MaxNonces /\ r \notin born
    BY <1>3, MuSigAssumption DEF NonceGenCounter, NonceInv, NoncesTypeOK
  <2>2. StoreNonce(i, GenInternal(i, r, TRUE, withCache)) /\ uses' = uses
    BY <1>3 DEF NonceGenCounter
  <2> HIDE DEF r
  <2> QED  BY <1>0, <2>1, <2>2, StoreStep
<1>4. ASSUME NEW i \in Signers, NEW j \in Signers, PartialSign(i, j)
      PROVE  [Abstract!Next]_(Abstract!vars)
  BY <1>4, SignStep
<1> QED
  BY <1>1, <1>2, <1>3, <1>4 DEF Next, vars, keys, nonces, PubkeyAgg, PubkeyTweakAdd,
     NonceAgg, NonceProcess, FillSecrand, PartialSigParse

\* Every behaviour of the API is one of the abstract one-time nonces.
THEOREM MuSigImplementsOneTimeNonce == Spec => ImplementsOneTimeNonce
BY SpecNonceInv, MuSigKeysTypeOK, InitRefines, NextRefines, PTL
   DEF Spec, ImplementsOneTimeNonce, Abstract!Spec

-----------------------------------------------------------------------------
(* Partial signatures and their aggregate *)

\* Negation under a condition, as the code does it throughout.
Signed(neg, a) == IF neg THEN Neg(a) ELSE a

\* Scalars and points are integers, closed under the operations.
LEMMA ScalarFacts ==
    /\ \A a \in Scalars : a \in Int
    /\ Points = Scalars /\ Infinity = 0 /\ 0 \in Scalars /\ 1 \in Scalars
    /\ \A a, b \in Scalars : Plus(a, b) \in Scalars /\ Times(a, b) \in Scalars
    /\ \A a \in Scalars : Neg(a) \in Scalars
<1>1. \A a \in Scalars : a \in Int  BY DEF Scalars
<1>2. \A a, b \in Scalars : Plus(a, b) \in Scalars /\ Times(a, b) \in Scalars
  BY <1>1, PlusType, TimesType
<1>3. \A a \in Scalars : Neg(a) \in Scalars  BY NegType
<1> QED  BY <1>1, <1>2, <1>3, CurveAssumption DEF Points, Scalars, Infinity

LEMMA SignedType ==
    ASSUME NEW neg \in BOOLEAN, NEW a \in Scalars
    PROVE  Signed(neg, a) \in Scalars
BY NegType DEF Signed

\* A sign may be moved out of sums and products, and two signs combine.
LEMMA SignedPlus ==
    ASSUME NEW neg \in BOOLEAN, NEW a \in Scalars, NEW b \in Scalars
    PROVE  Signed(neg, Plus(a, b)) = Plus(Signed(neg, a), Signed(neg, b))
BY NegPlus DEF Signed

LEMMA SignedTimes ==
    ASSUME NEW neg \in BOOLEAN, NEW a \in Scalars, NEW b \in Scalars
    PROVE  /\ Times(Signed(neg, a), b) = Signed(neg, Times(a, b))
           /\ Times(a, Signed(neg, b)) = Signed(neg, Times(a, b))
BY TimesNeg DEF Signed

LEMMA SignedTwice ==
    ASSUME NEW n1 \in BOOLEAN, NEW n2 \in BOOLEAN, NEW a \in Scalars
    PROVE  Signed(n1, Signed(n2, a)) = Signed(n1 # n2, a)
BY NegNeg DEF Signed

\* secp256k1_extrakeys_ge_even_y returns the point or its negative, never odd
\* unless at infinity.
LEMMA EvenYSound ==
    ASSUME NEW P \in Scalars
    PROVE  /\ IsOdd(P) \in BOOLEAN /\ EvenY(P) = Signed(IsOdd(P), P)
           /\ EvenY(P) \in Scalars /\ (P # 0 => EvenY(P) # 0 /\ ~IsOdd(EvenY(P)))
<1>1. EvenY(P) = Signed(IsOdd(P), P)  BY DEF EvenY, Signed
<1>2. IsOdd(P) \in BOOLEAN  BY DEF IsOdd
<1>3. P # 0 => P \in 1 .. N-1  BY CurveAssumption DEF Scalars
<1>4. P # 0 => EvenY(P) # 0 /\ ~IsOdd(EvenY(P))
  BY <1>3, CurveAssumption DEF EvenY, IsOdd, Neg
<1> QED  BY <1>1, <1>2, <1>4, SignedType

-----------------------------------------------------------------------------
(* The sums over the signers *)

\* A sum over a set of signers takes one of them at a time.
LEMMA SignersFinite ==
    /\ IsFiniteSet(Signers)
    /\ \A s \in SUBSET Signers : s # {} => (CHOOSE x \in s : TRUE) \in Signers
<1>1. IsFiniteSet(Signers)  BY MuSigAssumption, FS_Interval DEF Signers
<1>2. ASSUME NEW s \in SUBSET Signers, s # {} PROVE (CHOOSE x \in s : TRUE) \in Signers
  <2>1. (CHOOSE x \in s : TRUE) \in s  BY <1>2
  <2> QED  BY <2>1
<1> QED  BY <1>1, <1>2

\* The summands of the aggregate key.
KeyParts == [i \in Signers |-> Times(KeyAggCoef(sk, SecondPk(sk), sk[i]), sk[i])]

\* The loop of pubkey_agg computes the sum of those summands,
LEMMA KeySumSound ==
    ASSUME KeyParts \in [Signers -> Int]
    PROVE  \E g : IsSum(KeyParts, Signers, g) /\ AggregateKey(sk) = g[Signers] % N
<1> DEFINE E(i) == Times(KeyAggCoef(sk, SecondPk(sk), sk[i]), sk[i])
           Q(g) == [s \in SUBSET Signers |->
                       IF s = {} THEN 0
                       ELSE E(CHOOSE x \in s : TRUE) + g[s \ {CHOOSE x \in s : TRUE}]]
           it == CHOOSE g : g = Q(g)
<1>1. \A i \in Signers : KeyParts[i] = E(i)  BY DEF KeyParts
<1> HIDE DEF E
<1>2. \A g : IsSum(KeyParts, Signers, g) <=> g = Q(g)
  <2> DEFINE A(g, s) == IF s = {} THEN 0
                         ELSE KeyParts[CHOOSE x \in s : TRUE] + g[s \ {CHOOSE x \in s : TRUE}]
             B(g, s) == IF s = {} THEN 0
                         ELSE E(CHOOSE x \in s : TRUE)
                              + g[s \ {CHOOSE x \in s : TRUE}]
  <2>1. \A g : \A s \in SUBSET Signers : A(g, s) = B(g, s)
    BY <1>1, SignersFinite
  <2> HIDE DEF A, B
  <2>2. \A g : [s \in SUBSET Signers |-> A(g, s)] = [s \in SUBSET Signers |-> B(g, s)]
    BY <2>1
  <2>3. \A g : IsSum(KeyParts, Signers, g) <=> g = [s \in SUBSET Signers |-> A(g, s)]
    BY DEF IsSum, A
  <2>4. \A g : Q(g) = [s \in SUBSET Signers |-> B(g, s)]  BY DEF B
  <2> HIDE DEF Q
  <2> QED  BY <2>2, <2>3, <2>4
<1>3. PICK g0 : IsSum(KeyParts, Signers, g0)  BY SignersFinite, SumDefined
<1>4. it = Q(it)
  <2>1. g0 = Q(g0)  BY <1>2, <1>3
  <2> HIDE DEF Q
  <2> QED  BY <2>1
<1>5. IsSum(KeyParts, Signers, it)  BY <1>2, <1>4
<1>6. AggregateKey(sk) = it[Signers] % N
  BY DEF AggregateKey, SumOver, MapThenSumSet, MapThenFoldSet, E
<1> QED  BY <1>5, <1>6

\* and that of nonce_agg the sums of the first and of the second nonces.
LEMMA NonceSumSound ==
    ASSUME NEW from \in [Signers -> Ids]
    PROVE  /\ \E g : IsSum([i \in Signers |-> Nonce[from[i]][1]], Signers, g)
                     /\ SumOver(LAMBDA i : Nonce[from[i]][1]) = g[Signers] % N
           /\ \E g : IsSum([i \in Signers |-> Nonce[from[i]][2]], Signers, g)
                     /\ SumOver(LAMBDA i : Nonce[from[i]][2]) = g[Signers] % N
<1>1. \A i \in Signers : Nonce[from[i]][1] \in Int /\ Nonce[from[i]][2] \in Int
  BY MuSigAssumption, CurveAssumption
<1>2. \E g : IsSum([i \in Signers |-> Nonce[from[i]][1]], Signers, g)
             /\ SumOver(LAMBDA i : Nonce[from[i]][1]) = g[Signers] % N
  <2> DEFINE F == [i \in Signers |-> Nonce[from[i]][1]]
             Q(g) == [s \in SUBSET Signers |->
                         IF s = {} THEN 0
                         ELSE Nonce[from[CHOOSE x \in s : TRUE]][1]
                              + g[s \ {CHOOSE x \in s : TRUE}]]
             it == CHOOSE g : g = Q(g)
  <2>1. F \in [Signers -> Int]  BY <1>1
  <2>2. \A g : IsSum(F, Signers, g) <=> g = Q(g)
    <3> DEFINE A(g, s) == IF s = {} THEN 0
                           ELSE F[CHOOSE x \in s : TRUE] + g[s \ {CHOOSE x \in s : TRUE}]
               B(g, s) == IF s = {} THEN 0
                           ELSE Nonce[from[CHOOSE x \in s : TRUE]][1]
                                + g[s \ {CHOOSE x \in s : TRUE}]
    <3>1. \A g : \A s \in SUBSET Signers : A(g, s) = B(g, s)
      BY SignersFinite
    <3> HIDE DEF A, B
    <3>2. \A g : [s \in SUBSET Signers |-> A(g, s)] = [s \in SUBSET Signers |-> B(g, s)]
      BY <3>1
    <3>3. \A g : IsSum(F, Signers, g) <=> g = [s \in SUBSET Signers |-> A(g, s)]
      BY DEF IsSum, A
    <3>4. \A g : Q(g) = [s \in SUBSET Signers |-> B(g, s)]  BY DEF B
    <3> HIDE DEF Q
    <3> QED  BY <3>2, <3>3, <3>4
  <2> HIDE DEF F
  <2>3. PICK g0 : IsSum(F, Signers, g0)  BY <2>1, SignersFinite, SumDefined
  <2>4. it = Q(it)
    <3>1. g0 = Q(g0)  BY <2>2, <2>3
    <3> HIDE DEF Q
    <3> QED  BY <3>1
  <2>5. IsSum(F, Signers, it)  BY <2>2, <2>4
  <2>6. SumOver(LAMBDA i : Nonce[from[i]][1]) = it[Signers] % N
    BY DEF SumOver, MapThenSumSet, MapThenFoldSet
  <2> QED  BY <2>5, <2>6 DEF F
<1>3. \E g : IsSum([i \in Signers |-> Nonce[from[i]][2]], Signers, g)
             /\ SumOver(LAMBDA i : Nonce[from[i]][2]) = g[Signers] % N
  <2> DEFINE F == [i \in Signers |-> Nonce[from[i]][2]]
             Q(g) == [s \in SUBSET Signers |->
                         IF s = {} THEN 0
                         ELSE Nonce[from[CHOOSE x \in s : TRUE]][2]
                              + g[s \ {CHOOSE x \in s : TRUE}]]
             it == CHOOSE g : g = Q(g)
  <2>1. F \in [Signers -> Int]  BY <1>1
  <2>2. \A g : IsSum(F, Signers, g) <=> g = Q(g)
    <3> DEFINE A(g, s) == IF s = {} THEN 0
                           ELSE F[CHOOSE x \in s : TRUE] + g[s \ {CHOOSE x \in s : TRUE}]
               B(g, s) == IF s = {} THEN 0
                           ELSE Nonce[from[CHOOSE x \in s : TRUE]][2]
                                + g[s \ {CHOOSE x \in s : TRUE}]
    <3>1. \A g : \A s \in SUBSET Signers : A(g, s) = B(g, s)
      BY SignersFinite
    <3> HIDE DEF A, B
    <3>2. \A g : [s \in SUBSET Signers |-> A(g, s)] = [s \in SUBSET Signers |-> B(g, s)]
      BY <3>1
    <3>3. \A g : IsSum(F, Signers, g) <=> g = [s \in SUBSET Signers |-> A(g, s)]
      BY DEF IsSum, A
    <3>4. \A g : Q(g) = [s \in SUBSET Signers |-> B(g, s)]  BY DEF B
    <3> HIDE DEF Q
    <3> QED  BY <3>2, <3>3, <3>4
  <2> HIDE DEF F
  <2>3. PICK g0 : IsSum(F, Signers, g0)  BY <2>1, SignersFinite, SumDefined
  <2>4. it = Q(it)
    <3>1. g0 = Q(g0)  BY <2>2, <2>3
    <3> HIDE DEF Q
    <3> QED  BY <3>1
  <2>5. IsSum(F, Signers, it)  BY <2>2, <2>4
  <2>6. SumOver(LAMBDA i : Nonce[from[i]][2]) = it[Signers] % N
    BY DEF SumOver, MapThenSumSet, MapThenFoldSet
  <2> QED  BY <2>5, <2>6 DEF F
<1> QED  BY <1>2, <1>3

\* The sum in partial_sig_agg, and its summands.
SigSum(sigs) == SumOver(LAMBDA i : sigs[i].s)

SigParts(sigs) == [i \in Signers |-> sigs[i].s]

\* partial_sig_agg computes the sum of the scalars it is given.
LEMMA SigSumSound ==
    ASSUME NEW sigs, \A i \in Signers : sigs[i].s \in Int
    PROVE  \E g : IsSum(SigParts(sigs), Signers, g) /\ SigSum(sigs) = g[Signers] % N
<1> DEFINE F == [i \in Signers |-> sigs[i].s]
           Q(g) == [s \in SUBSET Signers |->
                       IF s = {} THEN 0
                       ELSE sigs[CHOOSE x \in s : TRUE].s + g[s \ {CHOOSE x \in s : TRUE}]]
           it == CHOOSE g : g = Q(g)
<1>1. F \in [Signers -> Int]  OBVIOUS
<1>2. \A g : IsSum(F, Signers, g) <=> g = Q(g)
  <2> DEFINE A(g, s) == IF s = {} THEN 0
                         ELSE F[CHOOSE x \in s : TRUE] + g[s \ {CHOOSE x \in s : TRUE}]
             B(g, s) == IF s = {} THEN 0
                         ELSE sigs[CHOOSE x \in s : TRUE].s
                              + g[s \ {CHOOSE x \in s : TRUE}]
  <2>1. \A g : \A s \in SUBSET Signers : A(g, s) = B(g, s)
    BY SignersFinite
  <2> HIDE DEF A, B
  <2>2. \A g : [s \in SUBSET Signers |-> A(g, s)] = [s \in SUBSET Signers |-> B(g, s)]
    BY <2>1
  <2>3. \A g : IsSum(F, Signers, g) <=> g = [s \in SUBSET Signers |-> A(g, s)]
    BY DEF IsSum, A
  <2>4. \A g : Q(g) = [s \in SUBSET Signers |-> B(g, s)]  BY DEF B
  <2> HIDE DEF Q
  <2> QED  BY <2>2, <2>3, <2>4
<1> HIDE DEF F
<1>3. PICK g0 : IsSum(F, Signers, g0)  BY <1>1, SignersFinite, SumDefined
<1>4. it = Q(it)
  <2>1. g0 = Q(g0)  BY <1>2, <1>3
  <2> HIDE DEF Q
  <2> QED  BY <2>1
<1>5. IsSum(F, Signers, it)  BY <1>2, <1>4
<1>6. SigSum(sigs) = it[Signers] % N
  BY DEF SigSum, SumOver, MapThenSumSet, MapThenFoldSet
<1> QED  BY <1>5, <1>6 DEF F, SigParts

-----------------------------------------------------------------------------
(* What the structures stand for *)

NonceSums(from) == <<SumOver(LAMBDA i : Nonce[from[i]][1]), SumOver(LAMBDA i : Nonce[from[i]][2])>>

\* A cache of the signers' keys and tweaks.
CacheSound(c) ==
    /\ c \in CacheType /\ c.pks = sk /\ c.second_pk = SecondPk(sk)
    /\ c.pk = Plus(Signed(c.parity_acc = 1, AggregateKey(sk)), c.tweak)

\* A session of such a cache, made with the sums of the nonces from.
SessionSound(ses) ==
    /\ CacheSound(ses.by) /\ ses.from \in [Signers -> Ids] /\ ses.msg \in Msgs
    /\ ses = SessionOf([pts |-> NonceSums(ses.from), from |-> ses.from], ses.msg, ses.by)

\* A partial signature that signer i returned.
MadeSound(i, sig) ==
    /\ sig.id \in Ids /\ CacheSound(sig.by) /\ SessionSound(sig.ses)
    /\ sig.s = PartialSigValue(sig.id, sk[i], sig.by, sig.ses)

\* Whoever holds a secnonce made it with its own key.
SecNoncesSound ==
    \A i \in Signers : secnonce[i] # Zero => secnonce[i].pk = sk[i]

AggNonceSound ==
    aggnonce # Zero =>
       aggnonce.from \in [Signers -> Ids] /\ aggnonce.pts = NonceSums(aggnonce.from)

PartialSigsSound ==
    /\ psig = [i \in Signers |-> psig[i]]
    /\ \A i \in Signers : psig[i] # Zero =>
          psig[i].s \in Scalars /\ (psig[i].made => MadeSound(i, psig[i]))

SigInv ==
    /\ SecNoncesSound
    /\ cache # Zero => CacheSound(cache)
    /\ AggNonceSound
    /\ session # Zero => SessionSound(session)
    /\ PartialSigsSound

\* The types of the keys, of the coefficients and of their products.
LEMMA KeysTyped ==
    ASSUME KeysTypeOK
    PROVE  /\ sk \in [Signers -> 1 .. N-1] /\ sk \in [Signers -> Scalars]
           /\ \A i \in Signers : KeyAggCoef(sk, SecondPk(sk), sk[i]) \in Scalars
           /\ KeyParts \in [Signers -> Scalars] /\ KeyParts \in [Signers -> Int]
           /\ AggregateKey(sk) \in Scalars
<1>1. sk \in KeyLists /\ sk \in [Signers -> 1 .. N-1]  BY MuSigAssumption DEF KeysTypeOK
<1>2. sk \in [Signers -> Scalars]  BY <1>1, FinitePoints
<1>3. ASSUME NEW i \in Signers PROVE KeyAggCoef(sk, SecondPk(sk), sk[i]) \in Scalars
  <2>1. sk[i] \in Points  BY <1>2, ScalarFacts
  <2> QED  BY <1>1, <2>1, MuSigAssumption, ScalarFacts DEF KeyAggCoef
<1>4. KeyParts \in [Signers -> Scalars]  BY <1>2, <1>3, ScalarFacts DEF KeyParts
<1>5. KeyParts \in [Signers -> Int]  BY <1>4, ScalarFacts
<1>6. PICK g : IsSum(KeyParts, Signers, g) /\ AggregateKey(sk) = g[Signers] % N
  BY <1>5, KeySumSound
<1>7. g[Signers] \in Int  BY <1>5, <1>6, SignersFinite, SumType
<1>8. AggregateKey(sk) \in Scalars
  <2> DEFINE a == g[Signers]
  <2>1. a \in Int /\ N \in Nat \ {0}  BY <1>7, CurveAssumption
  <2> HIDE DEF a
  <2>2. a % N \in Nat /\ a % N < N  BY ONLY <2>1, DivMod
  <2>3. a % N \in Scalars  BY <2>1, <2>2 DEF Scalars
  <2> QED  BY <1>6, <2>3 DEF a
<1> QED  BY <1>1, <1>2, <1>3, <1>4, <1>5, <1>8

\* The types of the secret nonces and of their sums.
LEMMA NoncesTyped ==
    ASSUME NEW id \in Ids
    PROVE  Nonce[id][1] \in Scalars /\ Nonce[id][2] \in Scalars
BY MuSigAssumption, FinitePoints

LEMMA NonceSumsTyped ==
    ASSUME NEW from \in [Signers -> Ids]
    PROVE  NonceSums(from) \in Points \X Points
<1> DEFINE F == [i \in Signers |-> Nonce[from[i]][1]]
           H == [i \in Signers |-> Nonce[from[i]][2]]
<1>1. PICK f : IsSum(F, Signers, f) /\ SumOver(LAMBDA i : Nonce[from[i]][1]) = f[Signers] % N
  BY NonceSumSound
<1>2. PICK h : IsSum(H, Signers, h) /\ SumOver(LAMBDA i : Nonce[from[i]][2]) = h[Signers] % N
  BY NonceSumSound
<1>3. F \in [Signers -> Int] /\ H \in [Signers -> Int]  BY NoncesTyped, ScalarFacts
<1> HIDE DEF F, H
<1> DEFINE a == f[Signers]
           b == h[Signers]
<1>4. a \in Int /\ b \in Int  BY <1>1, <1>2, <1>3, SignersFinite, SumType
<1> HIDE DEF a, b
<1>5. N \in Nat \ {0}  BY CurveAssumption
<1>6. a % N \in Nat /\ a % N < N /\ b % N \in Nat /\ b % N < N  BY ONLY <1>4, <1>5, DivMod
<1>7. a % N \in Scalars /\ b % N \in Scalars  BY <1>5, <1>6 DEF Scalars
<1> QED  BY <1>1, <1>2, <1>7, ScalarFacts DEF NonceSums, a, b

\* The fields of a session that is sound.
LEMMA SessionFields ==
    ASSUME KeysTypeOK, NEW ses, SessionSound(ses)
    PROVE  LET Q  == AggregateKey(sk)
               c  == ses.by
               b  == ses.noncecoef
               e  == ses.challenge
               R  == EffectiveNonce(NonceSums(ses.from), b)
               fin == IF R = Infinity THEN G ELSE R
           IN  /\ ses # Zero
               /\ b \in Scalars /\ e \in Scalars /\ R \in Scalars
               /\ ses.parity = IsOdd(fin) /\ ses.fin_nonce = EvenY(fin)
               /\ ses.infinite = (R = Infinity)
               /\ ses.s_part = Signed(IsOdd(c.pk), Times(e, c.tweak))
<1> DEFINE pts == NonceSums(ses.from)
           c   == ses.by
           x   == EvenY(c.pk)
           b   == HNonce(pts, x, ses.msg)
           R   == EffectiveNonce(pts, b)
           fin == IF R = Infinity THEN G ELSE R
           e   == HChallenge(EvenY(fin), ses.msg, x)
           et  == Times(e, c.tweak)
<1>1. ses = [magic |-> TRUE, parity |-> IsOdd(fin), fin_nonce |-> EvenY(fin),
             noncecoef |-> b, challenge |-> e,
             s_part |-> IF IsOdd(c.pk) THEN Neg(et) ELSE et,
             by |-> c, msg |-> ses.msg, from |-> ses.from, infinite |-> (R = Infinity)]
  BY DEF SessionSound, SessionOf
<1>2. c.pk \in Scalars  BY FinitePoints DEF SessionSound, CacheSound, CacheType
<1>3. x \in Points  BY <1>2, EvenYSound, ScalarFacts
<1>4. pts \in Points \X Points  BY NonceSumsTyped DEF SessionSound
<1>5. ses.msg \in Msgs  BY DEF SessionSound
<1> HIDE DEF pts, c, x
<1>6. b \in Scalars  BY <1>3, <1>4, <1>5, MuSigAssumption
<1> HIDE DEF b
<1>7. R \in Scalars  BY <1>4, <1>6, ScalarFacts DEF EffectiveNonce
<1> HIDE DEF R
<1>8. fin \in Scalars  BY <1>7, ScalarFacts DEF G
<1> HIDE DEF fin
<1>9. EvenY(fin) \in Points  BY <1>8, EvenYSound, ScalarFacts
<1>10. e \in Scalars  BY <1>3, <1>5, <1>9, MuSigAssumption
<1> HIDE DEF e, et
<1>11. /\ ses.noncecoef = b /\ ses.challenge = e /\ ses.parity = IsOdd(fin)
       /\ ses.fin_nonce = EvenY(fin) /\ ses.infinite = (R = Infinity)
       /\ ses.s_part = (IF IsOdd(c.pk) THEN Neg(et) ELSE et)
       /\ ses # Zero
  BY <1>1 DEF Zero
<1> QED  BY <1>6, <1>7, <1>10, <1>11 DEF R, fin, et, pts, c, Signed

\* The two parts of a partial signature.
LEMMA SignatureParts ==
    ASSUME KeysTypeOK, NEW i \in Signers, NEW id \in Ids, NEW c, CacheSound(c),
           NEW ses, SessionSound(ses)
    PROVE  /\ PartialSigValue(id, sk[i], c, ses) =
                 Plus(Times(Signed(NegatesKey(c), ses.challenge), KeyParts[i]),
                      Plus(Signed(ses.parity, Nonce[id][1]),
                           Times(ses.noncecoef, Signed(ses.parity, Nonce[id][2]))))
           /\ PartialSigValue(id, sk[i], c, ses) \in Scalars
<1> DEFINE n == NegatesKey(c)
           p == ses.parity
           e == ses.challenge
           b == ses.noncecoef
           d == sk[i]
           a == KeyAggCoef(sk, SecondPk(sk), sk[i])
           k1 == Nonce[id][1]
           k2 == Nonce[id][2]
<1>1. n \in BOOLEAN /\ p \in BOOLEAN
  <2>1. p = IsOdd(IF EffectiveNonce(NonceSums(ses.from), b) = Infinity THEN G
                  ELSE EffectiveNonce(NonceSums(ses.from), b))
    BY SessionFields
  <2> QED  BY <2>1 DEF NegatesKey, IsOdd
<1>2. e \in Scalars /\ b \in Scalars  BY SessionFields
<1>3. d \in Scalars /\ a \in Scalars /\ k1 \in Scalars /\ k2 \in Scalars
  BY KeysTyped, NoncesTyped
<1>4. KeyParts[i] = Times(a, d) /\ c.pks = sk /\ c.second_pk = SecondPk(sk)
  BY DEF KeyParts, CacheSound
<1>5. PartialSigValue(id, d, c, ses) =
         Plus(Times(e, Times(Signed(n, d), a)), Plus(Signed(p, k1), Times(b, Signed(p, k2))))
  BY <1>4 DEF PartialSigValue, Signed
<1> HIDE DEF n, p, e, b, d, a, k1, k2
<1>6. Times(e, Times(Signed(n, d), a)) = Times(Signed(n, e), Times(a, d))
  <2>1. Times(Signed(n, d), a) = Signed(n, Times(d, a))  BY <1>1, <1>3, SignedTimes
  <2>2. Times(d, a) = Times(a, d) /\ Times(a, d) \in Scalars  BY <1>3, ScalarFacts, TimesComm
  <2>3. Times(e, Signed(n, Times(a, d))) = Signed(n, Times(e, Times(a, d)))
    BY <1>1, <1>2, <2>2, SignedTimes
  <2>4. Times(Signed(n, e), Times(a, d)) = Signed(n, Times(e, Times(a, d)))
    BY <1>1, <1>2, <2>2, SignedTimes
  <2> QED  BY <2>1, <2>2, <2>3, <2>4
<1>7. Times(a, d) \in Scalars /\ Signed(n, e) \in Scalars /\ Signed(p, k1) \in Scalars
      /\ Signed(p, k2) \in Scalars
  BY <1>1, <1>2, <1>3, SignedType, ScalarFacts
<1>8. Plus(Times(Signed(n, e), Times(a, d)), Plus(Signed(p, k1), Times(b, Signed(p, k2))))
         \in Scalars
  BY <1>2, <1>7, ScalarFacts
<1> QED  BY <1>4, <1>5, <1>6, <1>8 DEF n, p, e, b, d, a, k1, k2

\* A partial signature that a signer made passes partial_sig_verify.
LEMMA MadeVerifies ==
    ASSUME KeysTypeOK, NEW i \in Signers, NEW id \in Ids, NEW c, CacheSound(c),
           NEW ses, SessionSound(ses)
    PROVE  PartialSigVerify(PartialSigValue(id, sk[i], c, ses), id, sk[i], c, ses)
<1> DEFINE n == NegatesKey(c)
           p == ses.parity
           e == ses.challenge
           b == ses.noncecoef
           d == sk[i]
           a == KeyAggCoef(sk, SecondPk(sk), sk[i])
           k1 == Nonce[id][1]
           k2 == Nonce[id][2]
           s == PartialSigValue(id, sk[i], c, ses)
           X == Times(Signed(n, Times(e, a)), d)
           R == Signed(p, Plus(k1, Times(b, k2)))
<1>1. n \in BOOLEAN /\ p \in BOOLEAN
  <2>1. p = IsOdd(IF EffectiveNonce(NonceSums(ses.from), b) = Infinity THEN G
                  ELSE EffectiveNonce(NonceSums(ses.from), b))
    BY SessionFields
  <2> QED  BY <2>1 DEF NegatesKey, IsOdd
<1>2. e \in Scalars /\ b \in Scalars  BY SessionFields
<1>3. d \in Scalars /\ a \in Scalars /\ k1 \in Scalars /\ k2 \in Scalars
  BY KeysTyped, NoncesTyped
<1>4. KeyParts[i] = Times(a, d) /\ c.pks = sk /\ c.second_pk = SecondPk(sk)
  BY DEF KeyParts, CacheSound
<1>5. s = Plus(Times(Signed(n, e), Times(a, d)), Plus(Signed(p, k1), Times(b, Signed(p, k2))))
      /\ s \in Scalars
  BY <1>4, SignatureParts
<1>6. PartialSigVerify(s, id, d, c, ses) <=> Plus(Plus(Neg(s), X), R) = 0
  BY <1>4, ScalarFacts DEF PartialSigVerify, EffectiveNonce, Signed
<1> HIDE DEF n, p, e, b, d, a, k1, k2, s
<1>7. Times(Signed(n, e), Times(a, d)) = X
  <2>1. Times(Signed(n, e), a) = Signed(n, Times(e, a)) /\ Signed(n, e) \in Scalars
    BY <1>1, <1>2, <1>3, SignedTimes, SignedType
  <2>2. Times(Times(Signed(n, e), a), d) = Times(Signed(n, e), Times(a, d))
    BY <1>3, <2>1, ScalarFacts, TimesAssoc
  <2> QED  BY <2>1, <2>2
<1>8. Plus(Signed(p, k1), Times(b, Signed(p, k2))) = R
  <2>1. Times(b, Signed(p, k2)) = Signed(p, Times(b, k2)) /\ Times(b, k2) \in Scalars
    BY <1>1, <1>2, <1>3, SignedTimes, ScalarFacts
  <2> QED  BY <1>1, <1>3, <2>1, SignedPlus
<1>9. X \in Scalars /\ R \in Scalars
  BY <1>1, <1>2, <1>3, SignedType, ScalarFacts
<1> HIDE DEF X, R
<1>10. s = Plus(X, R)  BY <1>5, <1>7, <1>8
<1>11. Plus(Plus(Neg(s), X), R) = Plus(Neg(s), Plus(X, R)) /\ Plus(Neg(s), s) = 0
  <2>1. Neg(s) \in Scalars /\ Neg(s) \in Int /\ s \in Int /\ X \in Int /\ R \in Int
    BY <1>5, <1>9, ScalarFacts
  <2>2. Plus(Neg(s), s) = Plus(s, Neg(s))  BY <2>1, PlusComm
  <2> QED  BY <1>5, <2>1, <2>2, PlusAssoc, PlusNeg
<1> QED  BY <1>6, <1>10, <1>11 DEF s, d

\* v is the sum of F over the signers, modulo N.
HasSum(F, v) ==
    F \in [Signers -> Int] /\ \E g : IsSum(F, Signers, g) /\ v = g[Signers] % N

\* Sums exist, and
LEMMA HasSumExists ==
    ASSUME NEW F \in [Signers -> Int]
    PROVE  \E v : HasSum(F, v)
<1>1. PICK g : IsSum(F, Signers, g)  BY SignersFinite, SumDefined
<1> QED  BY <1>1 DEF HasSum

\* the sum of sums is the sum of the values, and
LEMMA HasSumPlus ==
    ASSUME NEW F, NEW H, NEW K, NEW a, NEW b, NEW c,
           HasSum(F, a), HasSum(H, b), HasSum(K, c),
           \A i \in Signers : K[i] = Plus(F[i], H[i])
    PROVE  c = Plus(a, b)
<1>1. F \in [Signers -> Int] /\ H \in [Signers -> Int] /\ K \in [Signers -> Int]
  BY DEF HasSum
<1>2. PICK f : IsSum(F, Signers, f) /\ a = f[Signers] % N  BY DEF HasSum
<1>3. PICK h : IsSum(H, Signers, h) /\ b = h[Signers] % N  BY DEF HasSum
<1>4. PICK k : IsSum(K, Signers, k) /\ c = k[Signers] % N  BY DEF HasSum
<1>5. IsFiniteSet(Signers)  BY SignersFinite
<1> HIDE DEF HasSum
<1>6. k[Signers] % N = Plus(f[Signers] % N, h[Signers] % N)
  BY <1>1, <1>2, <1>3, <1>4, <1>5, SumOfPlus
<1> QED  BY <1>2, <1>3, <1>4, <1>6

\* the sum of multiples is the multiple of the value.
LEMMA HasSumTimes ==
    ASSUME NEW F, NEW K, NEW m \in Int, NEW a, NEW c, HasSum(F, a), HasSum(K, c),
           \A i \in Signers : K[i] = Times(m, F[i])
    PROVE  c = Times(m, a)
<1>1. F \in [Signers -> Int] /\ K \in [Signers -> Int]  BY DEF HasSum
<1>2. PICK f : IsSum(F, Signers, f) /\ a = f[Signers] % N  BY DEF HasSum
<1>3. PICK k : IsSum(K, Signers, k) /\ c = k[Signers] % N  BY DEF HasSum
<1>4. IsFiniteSet(Signers)  BY SignersFinite
<1>5. k[Signers] % N = Times(m, f[Signers] % N)
  BY <1>1, <1>2, <1>3, <1>4, SumOfTimes
<1> QED  BY <1>2, <1>3, <1>5

\* The sum of a combination of three functions.
IsCombination(S, x, K, y, K1, z, K2) ==
    \A i \in Signers :
       S[i] = Plus(Times(x, K[i]), Plus(Times(y, K1[i]), Times(z, K2[i])))

\* Three sums combined with coefficients, as the partial signatures are.
LEMMA CombinedSum ==
    ASSUME NEW K, NEW K1, NEW K2, NEW S, NEW q, NEW p1, NEW p2, NEW v,
           NEW x \in Scalars, NEW y \in Scalars, NEW z \in Scalars,
           HasSum(K, q), HasSum(K1, p1), HasSum(K2, p2), HasSum(S, v),
           K \in [Signers -> Scalars], K1 \in [Signers -> Scalars],
           K2 \in [Signers -> Scalars], IsCombination(S, x, K, y, K1, z, K2)
    PROVE  v = Plus(Times(x, q), Plus(Times(y, p1), Times(z, p2)))
<1> DEFINE X  == [i \in Signers |-> Times(x, K[i])]
           Y1 == [i \in Signers |-> Times(y, K1[i])]
           Y2 == [i \in Signers |-> Times(z, K2[i])]
           Y  == [i \in Signers |-> Plus(Y1[i], Y2[i])]
<1>1. x \in Int /\ y \in Int /\ z \in Int  BY ScalarFacts
<1>2. X \in [Signers -> Int] /\ Y1 \in [Signers -> Scalars] /\ Y2 \in [Signers -> Scalars]
  BY ScalarFacts
<1>3. Y1 \in [Signers -> Int] /\ Y2 \in [Signers -> Int] /\ Y \in [Signers -> Int]
  BY <1>2, ScalarFacts
<1>4. \A i \in Signers : /\ X[i] = Times(x, K[i]) /\ Y1[i] = Times(y, K1[i])
                         /\ Y2[i] = Times(z, K2[i]) /\ Y[i] = Plus(Y1[i], Y2[i])
                         /\ S[i] = Plus(X[i], Y[i])
  BY DEF IsCombination
<1> HIDE DEF X, Y1, Y2, Y
<1>5. PICK a : HasSum(X, a)  BY <1>2, HasSumExists
<1>6. PICK b : HasSum(Y, b)  BY <1>3, HasSumExists
<1>7. PICK c : HasSum(Y1, c)  BY <1>3, HasSumExists
<1>8. PICK d : HasSum(Y2, d)  BY <1>3, HasSumExists
<1>9. v = Plus(a, b)  BY <1>4, <1>5, <1>6, HasSumPlus
<1>10. b = Plus(c, d)  BY <1>4, <1>6, <1>7, <1>8, HasSumPlus
<1>11. a = Times(x, q)  BY <1>1, <1>4, <1>5, HasSumTimes
<1>12. c = Times(y, p1)  BY <1>1, <1>4, <1>7, HasSumTimes
<1>13. d = Times(z, p2)  BY <1>1, <1>4, <1>8, HasSumTimes
<1> QED  BY <1>9, <1>10, <1>11, <1>12, <1>13

\* The sum of the partial signatures of a session: the (negated) aggregate
\* key times the challenge, plus the (negated) effective nonce.
LEMMA SignaturesSum ==
    ASSUME KeysTypeOK, NEW ses, SessionSound(ses), NEW sigs,
           \A i \in Signers : sigs[i].s = PartialSigValue(ses.from[i], sk[i], ses.by, ses)
    PROVE  SigSum(sigs) =
              Plus(Signed(NegatesKey(ses.by), Times(ses.challenge, AggregateKey(sk))),
                   Signed(ses.parity, EffectiveNonce(NonceSums(ses.from), ses.noncecoef)))
<1> DEFINE n  == NegatesKey(ses.by)
           p  == ses.parity
           e  == ses.challenge
           b  == ses.noncecoef
           from == ses.from
           K1 == [i \in Signers |-> Nonce[from[i]][1]]
           K2 == [i \in Signers |-> Nonce[from[i]][2]]
           S  == SigParts(sigs)
           cx == Signed(n, e)
           c1 == Signed(p, 1)
           c2 == Signed(p, b)
           Q  == AggregateKey(sk)
           P1 == SumOver(LAMBDA i : Nonce[from[i]][1])
           P2 == SumOver(LAMBDA i : Nonce[from[i]][2])
           v  == SigSum(sigs)
<1>1. n \in BOOLEAN /\ p \in BOOLEAN /\ e \in Scalars /\ b \in Scalars
      /\ from \in [Signers -> Ids] /\ CacheSound(ses.by)
  <2>1. p = IsOdd(IF EffectiveNonce(NonceSums(from), b) = Infinity THEN G
                  ELSE EffectiveNonce(NonceSums(from), b))
        /\ e \in Scalars /\ b \in Scalars
    BY SessionFields
  <2> QED  BY <2>1 DEF NegatesKey, IsOdd, SessionSound
<1>2. cx \in Scalars /\ c1 \in Scalars /\ c2 \in Scalars
  BY <1>1, SignedType, ScalarFacts
<1>3. KeyParts \in [Signers -> Scalars] /\ KeyParts \in [Signers -> Int] /\ Q \in Scalars
  BY KeysTyped
<1>4. K1 \in [Signers -> Scalars] /\ K2 \in [Signers -> Scalars]
  BY <1>1, NoncesTyped
<1>5. ASSUME NEW i \in Signers
      PROVE  S[i] = Plus(Times(cx, KeyParts[i]), Plus(Times(c1, K1[i]), Times(c2, K2[i])))
             /\ sigs[i].s \in Scalars
  <2> DEFINE k1 == Nonce[from[i]][1]
             k2 == Nonce[from[i]][2]
  <2>1. from[i] \in Ids  BY <1>1
  <2>2. sigs[i].s = Plus(Times(cx, KeyParts[i]),
                         Plus(Signed(p, k1), Times(b, Signed(p, k2))))
        /\ sigs[i].s \in Scalars
    BY <1>1, <2>1, SignatureParts
  <2>3. k1 \in Scalars /\ k2 \in Scalars  BY <2>1, NoncesTyped
  <2>4. K1[i] = k1 /\ K2[i] = k2 /\ S[i] = sigs[i].s  BY DEF SigParts
  <2> HIDE DEF k1, k2, K1, K2, S, n, p, e, b, from
  <2>5. Signed(p, k1) = Times(c1, k1)
    BY <1>1, <2>3, SignedTimes, TimesOne, ScalarFacts
  <2>6. Times(b, Signed(p, k2)) = Times(c2, k2)
    BY <1>1, <2>3, SignedTimes
  <2> QED  BY <2>2, <2>4, <2>5, <2>6
<1>6. S \in [Signers -> Int] /\ K1 \in [Signers -> Int] /\ K2 \in [Signers -> Int]
      /\ \A i \in Signers : sigs[i].s \in Int
  BY <1>4, <1>5, ScalarFacts DEF SigParts
<1>7. HasSum(KeyParts, Q)
  <2>1. PICK g : IsSum(KeyParts, Signers, g) /\ Q = g[Signers] % N
    BY <1>3, KeySumSound
  <2> QED  BY <1>3, <2>1 DEF HasSum
<1>8. HasSum(K1, P1) /\ HasSum(K2, P2)
  <2>1. \E g : IsSum(K1, Signers, g) /\ P1 = g[Signers] % N  BY <1>1, NonceSumSound
  <2>2. \E g : IsSum(K2, Signers, g) /\ P2 = g[Signers] % N  BY <1>1, NonceSumSound
  <2> HIDE DEF K1, K2, P1, P2
  <2> QED  BY <1>6, <2>1, <2>2 DEF HasSum
<1>9. HasSum(S, v)
  <2>1. \E g : IsSum(S, Signers, g) /\ v = g[Signers] % N  BY <1>6, SigSumSound
  <2> HIDE DEF S, v
  <2> QED  BY <1>6, <2>1 DEF HasSum
<1>10. NonceSums(from) = <<P1, P2>>  BY DEF NonceSums
<1>11. P1 \in Scalars /\ P2 \in Scalars
  <2>1. <<P1, P2>> \in Points \X Points  BY <1>1, <1>10, NonceSumsTyped
  <2> HIDE DEF P1, P2
  <2> QED  BY <2>1, ScalarFacts
<1> HIDE DEF n, p, e, b, from, K1, K2, S, cx, c1, c2, Q, P1, P2, v
<1>12. v = Plus(Times(cx, Q), Plus(Times(c1, P1), Times(c2, P2)))
  <2>1. IsCombination(S, cx, KeyParts, c1, K1, c2, K2)  BY <1>5 DEF IsCombination
  <2> QED  BY <2>1, <1>2, <1>3, <1>4, <1>7, <1>8, <1>9, CombinedSum
<1>13. Times(cx, Q) = Signed(n, Times(e, Q))  BY <1>1, <1>3, SignedTimes DEF cx
<1>14. Times(c1, P1) = Signed(p, P1)
  BY <1>1, <1>11, SignedTimes, TimesOne, ScalarFacts DEF c1
<1>15. Times(c2, P2) = Signed(p, Times(b, P2))  BY <1>1, <1>11, SignedTimes DEF c2
<1>16. Plus(Signed(p, P1), Signed(p, Times(b, P2))) = Signed(p, Plus(P1, Times(b, P2)))
  BY <1>1, <1>11, SignedPlus, ScalarFacts
<1>17. EffectiveNonce(NonceSums(from), b) = Plus(P1, Times(b, P2))
  BY <1>10 DEF EffectiveNonce
<1>18. v = Plus(Signed(n, Times(e, Q)), Signed(p, EffectiveNonce(NonceSums(from), b)))
  BY <1>12, <1>13, <1>14, <1>15, <1>16, <1>17
<1> QED  BY <1>18 DEF v, Q, n, p, e, b, from

\* The aggregate of the partial signatures of all signers is a signature
\* under the tweaked aggregate key.
LEMMA AggregateVerifies ==
    ASSUME KeysTypeOK, NEW ses, SessionSound(ses), ~ses.infinite, NEW sigs,
           \A i \in Signers : sigs[i].s = PartialSigValue(ses.from[i], sk[i], ses.by, ses)
    PROVE  FinalVerifies(ses, sigs)
<1> DEFINE c   == ses.by
           e   == ses.challenge
           t   == c.tweak
           o   == IsOdd(c.pk)
           acc == (c.parity_acc = 1)
           n   == NegatesKey(c)
           p   == ses.parity
           Q   == AggregateKey(sk)
           R   == EffectiveNonce(NonceSums(ses.from), ses.noncecoef)
           eQ  == Times(e, Q)
           et  == Times(e, t)
           F   == Signed(p, R)
           tot == SigSum(sigs)
<1>1. /\ e \in Scalars /\ R \in Scalars /\ R # 0 /\ p = IsOdd(R) /\ ses.fin_nonce = EvenY(R)
      /\ ses.s_part = Signed(o, et)
  BY SessionFields, ScalarFacts
<1>2. /\ t \in Scalars /\ Q \in Scalars /\ c.pk = Plus(Signed(acc, Q), t) /\ c.pk \in Scalars
  BY KeysTyped, FinitePoints DEF SessionSound, CacheSound, CacheType
<1>3. o \in BOOLEAN /\ acc \in BOOLEAN /\ n \in BOOLEAN /\ p \in BOOLEAN /\ n = (o # acc)
  BY <1>1 DEF NegatesKey, IsOdd
<1>4. tot = Plus(Signed(n, eQ), F)  BY SignaturesSum
<1>5. PartialSigAgg(ses, sigs) = Plus(ses.s_part, tot)  BY DEF PartialSigAgg, SigSum
<1>6. EvenY(c.pk) = Signed(o, c.pk)  BY <1>2, EvenYSound
<1>7. EvenY(R) = F /\ F # 0 /\ ~IsOdd(F) /\ F \in Scalars  BY <1>1, EvenYSound
<1>8. FinalVerifies(ses, sigs) <=>
         LET V == Plus(Plus(ses.s_part, tot), Neg(Times(e, EvenY(c.pk))))
         IN  V # Infinity /\ ~IsOdd(V) /\ V = ses.fin_nonce
  BY <1>5 DEF FinalVerifies, SchnorrVerify
<1> HIDE DEF e, t, o, acc, n, p, Q, R, F, tot, c
<1>9. eQ \in Scalars /\ et \in Scalars  BY <1>1, <1>2, ScalarFacts
<1>10. Times(e, EvenY(c.pk)) = Plus(Signed(o, et), Signed(n, eQ))
  <2>1. Signed(acc, Q) \in Scalars  BY <1>2, <1>3, SignedType
  <2>2. Times(e, Signed(o, c.pk)) = Signed(o, Times(e, c.pk))
    BY <1>1, <1>2, <1>3, SignedTimes
  <2>3. Times(e, c.pk) = Plus(Times(e, Signed(acc, Q)), et)
    BY <1>1, <1>2, <2>1, ScalarFacts, TimesPlus
  <2>4. Times(e, Signed(acc, Q)) = Signed(acc, eQ)  BY <1>1, <1>2, <1>3, SignedTimes
  <2>5. Signed(acc, eQ) \in Scalars  BY <1>3, <1>9, SignedType
  <2>6. Signed(o, Plus(Signed(acc, eQ), et)) = Plus(Signed(o, Signed(acc, eQ)), Signed(o, et))
    BY <1>3, <1>9, <2>5, SignedPlus
  <2>7. Signed(o, Signed(acc, eQ)) = Signed(n, eQ)  BY <1>3, <1>9, SignedTwice
  <2>8. Signed(n, eQ) \in Int /\ Signed(o, et) \in Int
    BY <1>3, <1>9, SignedType, ScalarFacts
  <2> QED  BY <1>6, <2>2, <2>3, <2>4, <2>6, <2>7, <2>8, PlusComm
<1> DEFINE A == Signed(o, et)
           B == Signed(n, eQ)
           Z == Plus(A, B)
<1>11. A \in Scalars /\ B \in Scalars  BY <1>3, <1>9, SignedType
<1>12. A \in Int /\ B \in Int /\ F \in Int /\ Z \in Scalars /\ Z \in Int /\ Neg(Z) \in Int
  BY <1>7, <1>11, ScalarFacts
<1> HIDE DEF A, B
<1>13. Plus(A, Plus(B, F)) = Plus(Z, F)  BY <1>12, PlusAssoc
<1> HIDE DEF Z
<1>14. Plus(Plus(Z, F), Neg(Z)) = F
  <2>1. Plus(Plus(Z, F), Neg(Z)) = Plus(Plus(F, Z), Neg(Z))  BY <1>12, PlusComm
  <2>2. Plus(Plus(F, Z), Neg(Z)) = Plus(F, Plus(Z, Neg(Z)))  BY <1>12, PlusAssoc
  <2> QED  BY <1>7, <1>12, <2>1, <2>2, PlusNeg, PlusZero
<1>15. Plus(Plus(ses.s_part, tot), Neg(Times(e, EvenY(c.pk)))) = F
  BY <1>1, <1>4, <1>10, <1>13, <1>14 DEF A, B, Z
<1> QED  BY <1>1, <1>7, <1>8, <1>15, ScalarFacts DEF R

-----------------------------------------------------------------------------
(* The invariant *)

\* No step changes the keys, so what is sound stays sound.
LEMMA SoundNext ==
    ASSUME SigInv, sk' = sk
    PROVE  /\ UNCHANGED secnonce => SecNoncesSound'
           /\ UNCHANGED cache => (cache # Zero => CacheSound(cache))'
           /\ UNCHANGED aggnonce => AggNonceSound'
           /\ UNCHANGED session => (session # Zero => SessionSound(session))'
           /\ UNCHANGED psig => PartialSigsSound'
<1>1. UNCHANGED secnonce => SecNoncesSound'  BY DEF SigInv, SecNoncesSound
<1>2. UNCHANGED cache => (cache # Zero => CacheSound(cache))'  BY DEF SigInv, CacheSound
<1>3. UNCHANGED aggnonce => AggNonceSound'  BY DEF SigInv, AggNonceSound
<1>4. UNCHANGED session => (session # Zero => SessionSound(session))'
  BY DEF SigInv, SessionSound, CacheSound
<1>5. UNCHANGED psig => PartialSigsSound'
  BY DEF SigInv, PartialSigsSound, MadeSound, SessionSound, CacheSound
<1> QED  BY <1>1, <1>2, <1>3, <1>4, <1>5

\* Each action preserves SigInv.
LEMMA InitSigInv == Init => SigInv
BY DEF Init, SigInv, SecNoncesSound, AggNonceSound, PartialSigsSound

LEMMA PubkeyAggSig ==
    ASSUME KeyInv, SigInv, PubkeyAgg, KeyInv' PROVE SigInv'
<1>1. /\ AggregateKey(sk) \in 1 .. N-1
      /\ cache' = [magic |-> TRUE, pk |-> AggregateKey(sk), second_pk |-> SecondPk(sk),
                   pks |-> sk, parity_acc |-> 0, tweak |-> 0]
      /\ sk' = sk
  BY FinitePoints DEF PubkeyAgg
<1>2. cache' # Zero /\ cache' \in CacheType  BY <1>1 DEF Zero, KeyInv, KeysTypeOK
<1>3. AggregateKey(sk) = Plus(AggregateKey(sk), 0)  BY <1>1, FinitePoints, PlusZero
<1>4. /\ cache'.pk = AggregateKey(sk) /\ cache'.pks = sk /\ cache'.second_pk = SecondPk(sk)
      /\ cache'.parity_acc = 0 /\ cache'.tweak = 0
  BY <1>1
<1>5. CacheSound(cache)'  BY <1>1, <1>2, <1>3, <1>4 DEF CacheSound, Signed
<1>6. UNCHANGED <<secnonce, aggnonce, session, psig>>  BY DEF PubkeyAgg, nonces
<1> QED  BY <1>1, <1>5, <1>6, SoundNext DEF SigInv

LEMMA PubkeyTweakAddSig ==
    ASSUME KeyInv, SigInv, NEW tweak \in Tweaks, NEW xonly \in BOOLEAN,
           PubkeyTweakAdd(tweak, xonly)
    PROVE  SigInv'
<1>1. sk' = sk /\ UNCHANGED <<secnonce, aggnonce, session, psig>>
  BY DEF PubkeyTweakAdd, nonces
<1>2. CASE TweakAddFails(cache, tweak, xonly)
  <2>1. cache' = cache  BY <1>2 DEF PubkeyTweakAdd
  <2> QED  BY <1>1, <2>1, SoundNext DEF SigInv
<1>3. CASE ~TweakAddFails(cache, tweak, xonly)
  <2>1. cache' = Tweaked(cache, tweak, xonly)  BY <1>3 DEF PubkeyTweakAdd
  <2>2. /\ cache \in CacheType /\ cache # Zero
        /\ tweak \in Scalars /\ Tweaked(cache, tweak, xonly).pk # Infinity
    BY <1>3, MuSigAssumption, CurveAssumption
    DEF TweakAddFails, KeyInv, KeysTypeOK, Scalars
  <2>3. CacheSound(cache)  BY <2>2 DEF SigInv
  <2> DEFINE Q == AggregateKey(sk)
  <2>4. Q \in Scalars
        /\ cache.pk = Plus(IF cache.parity_acc = 1 THEN Neg(Q) ELSE Q, cache.tweak)
        /\ cache.pks = sk /\ cache.second_pk = SecondPk(sk)
    BY <2>3, KeysTyped DEF CacheSound, Signed, KeyInv
  <2> HIDE DEF Q
  <2>5. /\ cache' \in CacheType /\ cache'.pks = cache.pks
        /\ cache'.pk = Plus(IF cache'.parity_acc = 1 THEN Neg(Q) ELSE Q, cache'.tweak)
    BY <2>1, <2>2, <2>4, TweakedSound
  <2>6. cache'.second_pk = cache.second_pk
    <3> DEFINE d == XonlyNegated(cache, xonly)
    <3>1. d \in CacheType /\ d.second_pk = cache.second_pk
      <4>1. d \in CacheType  BY <2>2, <2>4, NegationSound
      <4>2. d = cache \/ d = [cache EXCEPT !.pk = Neg(@), !.parity_acc = 1 - @, !.tweak = Neg(@)]
        BY DEF XonlyNegated
      <4> QED  BY <2>2, <4>1, <4>2 DEF CacheType
    <3>2. cache' = [d EXCEPT !.tweak = Plus(@, tweak), !.pk = Plus(@, tweak)]
      BY <2>1 DEF Tweaked
    <3> HIDE DEF d
    <3> QED  BY <3>1, <3>2 DEF CacheType
  <2>7. CacheSound(cache)'
    BY <1>1, <2>4, <2>5, <2>6 DEF CacheSound, Signed, Q
  <2> QED  BY <1>1, <2>7, SoundNext DEF SigInv
<1> QED  BY <1>2, <1>3

\* The nonce that nonce_gen writes names the signer's own key.
LEMMA StoreNonceSig ==
    ASSUME SigInv, NoncesTypeOK, sk' = sk, NEW i \in Signers, NEW r,
           NEW validSec \in BOOLEAN, NEW withCache \in BOOLEAN,
           StoreNonce(i, GenInternal(i, r, validSec, withCache)),
           UNCHANGED <<cache, aggnonce, session, psig>>
    PROVE  SigInv'
<1> DEFINE gen == GenInternal(i, r, validSec, withCache)
<1>1. gen.sec = Zero \/ gen.sec.pk = sk[i]  BY DEF GenInternal
<1> HIDE DEF gen
<1>2. secnonce' = [secnonce EXCEPT ![i] = gen.sec]  BY DEF StoreNonce, gen
<1>3. \A k \in Signers : secnonce'[k] = IF k = i THEN gen.sec ELSE secnonce[k]
  BY <1>2 DEF NoncesTypeOK
<1>4. SecNoncesSound'  BY <1>1, <1>3 DEF SigInv, SecNoncesSound
<1> QED  BY <1>4, SoundNext DEF SigInv

LEMMA EraseSig ==
    ASSUME SigInv, NoncesTypeOK, sk' = sk, NEW i \in Signers,
           secnonce' = [secnonce EXCEPT ![i] = Zero]
    PROVE  SecNoncesSound'
<1>1. \A k \in Signers : secnonce'[k] = IF k = i THEN Zero ELSE secnonce[k]
  BY DEF NoncesTypeOK
<1> QED  BY <1>1 DEF SigInv, SecNoncesSound

LEMMA NonceGenSig ==
    ASSUME SigInv, NoncesTypeOK, NEW i \in Signers, NEW validSec \in BOOLEAN,
           NEW withCache \in BOOLEAN, NonceGen(i, validSec, withCache)
    PROVE  SigInv'
<1>1. sk' = sk /\ UNCHANGED <<cache, aggnonce, session, psig>>  BY DEF NonceGen, keys
<1>2. CASE secrand[i] = 0
  <2>1. secnonce' = [secnonce EXCEPT ![i] = Zero]  BY <1>2 DEF NonceGen
  <2>2. SecNoncesSound'  BY <1>1, <2>1, EraseSig
  <2> QED  BY <1>1, <2>2, SoundNext DEF SigInv
<1>3. CASE secrand[i] # 0
  <2>1. StoreNonce(i, GenInternal(i, secrand[i], validSec, withCache))
    BY <1>3 DEF NonceGen
  <2> QED  BY <1>1, <2>1, StoreNonceSig
<1> QED  BY <1>2, <1>3

LEMMA NonceAggSig ==
    ASSUME SigInv, NoncesTypeOK, NonceAgg PROVE SigInv'
<1>1. sk' = sk /\ UNCHANGED <<cache, secnonce, session, psig>>  BY DEF NonceAgg, keys, nonces
<1>2. CASE \E i \in Signers : pubnonce[i] = 0
  <2>1. aggnonce' = aggnonce  BY <1>2 DEF NonceAgg
  <2> QED  BY <1>1, <2>1, SoundNext DEF SigInv
<1>3. CASE ~ \E i \in Signers : pubnonce[i] = 0
  <2>1. aggnonce' = [magic |-> TRUE, pts |-> NonceSums(pubnonce), from |-> pubnonce]
    BY <1>3 DEF NonceAgg, NonceSums
  <2>2. pubnonce \in [Signers -> Ids]
    BY <1>3, MuSigAssumption DEF NoncesTypeOK, Ids
  <2>3. aggnonce'.from = pubnonce /\ aggnonce'.pts = NonceSums(pubnonce)  BY <2>1
  <2>4. AggNonceSound'  BY <2>2, <2>3 DEF AggNonceSound
  <2> QED  BY <1>1, <2>4, SoundNext DEF SigInv
<1> QED  BY <1>2, <1>3

LEMMA NonceProcessSig ==
    ASSUME SigInv, NEW msg \in Msgs, NonceProcess(msg) PROVE SigInv'
<1>1. sk' = sk /\ UNCHANGED <<cache, secnonce, aggnonce, psig>>
  BY DEF NonceProcess, keys, nonces
<1>2. CASE cache = Zero \/ aggnonce = Zero
  <2>1. session' = session  BY <1>2 DEF NonceProcess
  <2> QED  BY <1>1, <2>1, SoundNext DEF SigInv
<1>3. CASE ~(cache = Zero \/ aggnonce = Zero)
  <2> DEFINE agg == [pts |-> NonceSums(aggnonce.from), from |-> aggnonce.from]
  <2>1. session' = SessionOf(aggnonce, msg, cache)  BY <1>3 DEF NonceProcess
  <2>2. CacheSound(cache) /\ aggnonce.from \in [Signers -> Ids]
        /\ aggnonce.pts = NonceSums(aggnonce.from)
    BY <1>3 DEF SigInv, AggNonceSound
  <2>3. SessionOf(aggnonce, msg, cache) = SessionOf(agg, msg, cache)
    BY <2>2 DEF SessionOf
  <2>4. /\ session'.by = cache /\ session'.msg = msg /\ session'.from = aggnonce.from
    BY <2>1 DEF SessionOf
  <2>5. SessionSound(session)'
    <3>1. CacheSound(session'.by)  BY <2>2, <2>4
    <3>2. session' = SessionOf([pts |-> NonceSums(session'.from), from |-> session'.from],
                               session'.msg, session'.by)
      BY <2>1, <2>3, <2>4
    <3> QED  BY <1>1, <2>2, <2>4, <3>1, <3>2 DEF SessionSound, CacheSound
  <2> QED  BY <1>1, <2>5, SoundNext DEF SigInv
<1> QED  BY <1>2, <1>3

\* A signature that replaces signer i's.
LEMMA PartialSigSet ==
    ASSUME SigInv, sk' = sk, NEW i \in Signers, NEW sig,
           psig' = [psig EXCEPT ![i] = sig],
           sig # Zero => sig.s \in Scalars /\ (sig.made => MadeSound(i, sig))
    PROVE  PartialSigsSound'
<1>1. /\ \A k \in Signers : psig'[k] = IF k = i THEN sig ELSE psig[k]
      /\ psig' = [k \in Signers |-> psig'[k]]
  BY DEF SigInv, PartialSigsSound
<1>2. ASSUME NEW k \in Signers, psig'[k] # Zero
      PROVE  psig'[k].s \in Scalars /\ (psig'[k].made => MadeSound(k, psig'[k]))
  BY <1>1, <1>2 DEF SigInv, PartialSigsSound
<1> QED  BY <1>1, <1>2 DEF PartialSigsSound, MadeSound, SessionSound, CacheSound

LEMMA PartialSignSig ==
    ASSUME SigInv, KeyInv, NoncesTypeOK, NEW i \in Signers, NEW j \in Signers,
           PartialSign(i, j)
    PROVE  SigInv'
<1> DEFINE nonce == secnonce[i]
<1>1. sk' = sk /\ UNCHANGED <<cache, aggnonce, session>>  BY DEF PartialSign, keys
<1>2. secnonce' = [secnonce EXCEPT ![i] = Zero]  BY DEF PartialSign
<1>3. SecNoncesSound'  BY <1>1, <1>2, EraseSig
<1>4. CASE nonce = Zero \/ nonce.pk # sk[j] \/ cache = Zero \/ session = Zero
  <2>1. psig' = psig  BY <1>4 DEF PartialSign
  <2> QED  BY <1>1, <1>3, <2>1, SoundNext DEF SigInv
<1>5. CASE ~(nonce = Zero \/ nonce.pk # sk[j] \/ cache = Zero \/ session = Zero)
  <2> DEFINE s == PartialSigValue(nonce.id, sk[j], cache, session)
             sig == [magic |-> TRUE, s |-> s, made |-> TRUE, id |-> nonce.id,
                     by |-> cache, ses |-> session]
  <2>1. psig' = [psig EXCEPT ![i] = sig]  BY <1>5 DEF PartialSign
  <2>2. sk[j] = sk[i] /\ nonce \in SecNonceType
    BY <1>5 DEF SigInv, SecNoncesSound, NoncesTypeOK
  <2>3. nonce.id \in Ids
    <3>1. nonce.id \in 1 .. MaxNonces  BY <2>2 DEF SecNonceType
    <3> QED  BY <3>1, IdFacts
  <2>4. CacheSound(cache) /\ SessionSound(session)  BY <1>5 DEF SigInv
  <2>5. s = PartialSigValue(nonce.id, sk[i], cache, session)  BY <2>2
  <2> HIDE DEF s
  <2>6. s \in Scalars  BY <2>3, <2>4, <2>5, SignatureParts DEF KeyInv
  <2>7. sig.s \in Scalars /\ MadeSound(i, sig)
    BY <2>3, <2>4, <2>5, <2>6 DEF MadeSound
  <2> HIDE DEF sig
  <2>8. PartialSigsSound'  BY <1>1, <2>1, <2>7, PartialSigSet
  <2> QED  BY <1>1, <1>3, <2>8, SoundNext DEF SigInv
<1> QED  BY <1>4, <1>5

LEMMA PartialSigParseSig ==
    ASSUME SigInv, NEW i \in Signers, NEW s \in Received, PartialSigParse(i, s)
    PROVE  SigInv'
<1> DEFINE sig == IF s = N THEN Zero ELSE [magic |-> TRUE, s |-> s, made |-> FALSE]
<1>1. sk' = sk /\ UNCHANGED <<cache, secnonce, aggnonce, session>>
      /\ psig' = [psig EXCEPT ![i] = sig]
  BY DEF PartialSigParse, keys, nonces
<1>2. sig # Zero => sig.s \in Scalars /\ (sig.made => MadeSound(i, sig))
  <2>1. s \in 0 .. N /\ N \in Nat  BY MuSigAssumption, CurveAssumption
  <2> QED  BY <2>1 DEF Scalars
<1> HIDE DEF sig
<1>3. PartialSigsSound'  BY <1>1, <1>2, PartialSigSet
<1> QED  BY <1>1, <1>3, SoundNext DEF SigInv

LEMMA NextSigInv ==
    KeyInv /\ KeyInv' /\ NoncesTypeOK /\ SigInv /\ [Next]_vars => SigInv'
<1> SUFFICES ASSUME KeyInv, KeyInv', NoncesTypeOK, SigInv, [Next]_vars PROVE SigInv'
  OBVIOUS
<1>1. ASSUME NEW tweak \in Tweaks, NEW xonly \in BOOLEAN, PubkeyTweakAdd(tweak, xonly)
      PROVE  SigInv'
  BY <1>1, PubkeyTweakAddSig
<1>2. ASSUME NEW msg \in Msgs, NonceProcess(msg) PROVE SigInv'
  BY <1>2, NonceProcessSig
<1>3. ASSUME NEW i \in Signers, FillSecrand(i) PROVE SigInv'
  <2>1. sk' = sk /\ UNCHANGED <<cache, secnonce, aggnonce, session, psig>>
    BY <1>3 DEF FillSecrand, keys
  <2> QED  BY <2>1, SoundNext DEF SigInv
<1>4. ASSUME NEW i \in Signers, NEW validSec \in BOOLEAN, NEW withCache \in BOOLEAN,
             NonceGen(i, validSec, withCache)
      PROVE  SigInv'
  BY <1>4, NonceGenSig
<1>5. ASSUME NEW i \in Signers, NEW withCache \in BOOLEAN, NonceGenCounter(i, withCache)
      PROVE  SigInv'
  <2>1. /\ sk' = sk /\ UNCHANGED <<cache, aggnonce, session, psig>>
        /\ StoreNonce(i, GenInternal(i, supply + 1, TRUE, withCache))
    BY <1>5 DEF NonceGenCounter, keys
  <2> QED  BY <2>1, StoreNonceSig
<1>6. ASSUME NEW i \in Signers, NEW j \in Signers, PartialSign(i, j) PROVE SigInv'
  BY <1>6, PartialSignSig
<1>7. ASSUME NEW i \in Signers, NEW s \in Received, PartialSigParse(i, s) PROVE SigInv'
  BY <1>7, PartialSigParseSig
<1>8. CASE UNCHANGED vars
  <2>1. sk' = sk /\ UNCHANGED <<cache, secnonce, aggnonce, session, psig>>
    BY <1>8 DEF vars, keys, nonces
  <2> QED  BY <2>1, SoundNext DEF SigInv
<1> QED
  BY <1>1, <1>2, <1>3, <1>4, <1>5, <1>6, <1>7, <1>8, PubkeyAggSig, NonceAggSig DEF Next

\* SigInv, with the invariant of the keys that it rests on, always holds.
LEMMA SpecSigInv == Spec => [](KeyInv /\ SigInv)
<1>1. Spec => []KeyInv  BY InitKeyInv, NextKeyInv, PTL DEF Spec
<1> QED  BY <1>1, MuSigNoncesTypeOK, InitSigInv, NextSigInv, PTL DEF Spec

\* The challenge, the final nonce and the common part of a session, and every
\* partial signature, are scalars and even points (SignaturesTypeOK).
THEOREM MuSigSignaturesTypeOK == Spec => []SignaturesTypeOK
<1>1. KeyInv /\ SigInv => SignaturesTypeOK
  <2> SUFFICES ASSUME KeysTypeOK, SigInv PROVE SignaturesTypeOK  BY DEF KeyInv
  <2>1. ASSUME session # Zero
        PROVE  /\ session.parity \in BOOLEAN /\ session.fin_nonce \in (1 .. N-1) \ OddY
               /\ session.s_part \in Scalars
    <3> DEFINE R == EffectiveNonce(NonceSums(session.from), session.noncecoef)
               fin == IF R = Infinity THEN G ELSE R
               c == session.by
    <3>1. SessionSound(session)  BY <2>1 DEF SigInv
    <3>2. /\ session.challenge \in Scalars /\ R \in Scalars /\ session.parity = IsOdd(fin)
          /\ session.fin_nonce = EvenY(fin)
          /\ session.s_part = Signed(IsOdd(c.pk), Times(session.challenge, c.tweak))
      BY <3>1, SessionFields
    <3>3. c.tweak \in Scalars /\ IsOdd(c.pk) \in BOOLEAN
      <4>1. CacheSound(c)  BY <3>1 DEF SessionSound
      <4> HIDE DEF c
      <4> QED  BY <4>1 DEF CacheSound, CacheType, IsOdd
    <3>4. session.s_part \in Scalars  BY <3>2, <3>3, ScalarFacts, SignedType
    <3>5. fin \in Scalars /\ fin # 0  BY <3>2, ScalarFacts DEF G
    <3> HIDE DEF fin
    <3>6. EvenY(fin) \in Scalars /\ EvenY(fin) # 0 /\ EvenY(fin) \notin OddY
          /\ IsOdd(fin) \in BOOLEAN
      BY <3>5, EvenYSound DEF IsOdd
    <3>7. EvenY(fin) \in (1 .. N-1) \ OddY  BY <3>6, CurveAssumption DEF Scalars
    <3> QED  BY <3>2, <3>4, <3>6, <3>7
  <2> QED  BY <2>1 DEF SigInv, PartialSigsSound, SignaturesTypeOK
<1> QED  BY <1>1, SpecSigInv, PTL

\* All types, those of keys, nonces and signatures (TypeOK).
THEOREM MuSigTypeOK == Spec => []TypeOK
<1>1. KeysTypeOK /\ NoncesTypeOK /\ SignaturesTypeOK => TypeOK  BY DEF TypeOK
<1> QED  BY <1>1, MuSigKeysTypeOK, MuSigNoncesTypeOK, MuSigSignaturesTypeOK, PTL

\* For every number of signers: a partial signature made by partial_sign
\* verifies against its signer's nonce and key, and the aggregate of those of
\* one session verifies under the tweaked aggregate key (SignaturesSound).
THEOREM MuSigSignaturesSound == Spec => []SignaturesSound
<1>1. KeyInv /\ SigInv => PartialSigsVerify
  <2> SUFFICES ASSUME KeysTypeOK, SigInv, NEW i \in Signers, psig[i] # Zero, psig[i].made
               PROVE  PartialSigVerify(psig[i].s, psig[i].id, sk[i], psig[i].by, psig[i].ses)
    BY DEF KeyInv, PartialSigsVerify
  <2>1. MadeSound(i, psig[i])  BY DEF SigInv, PartialSigsSound
  <2> QED  BY <2>1, MadeVerifies DEF MadeSound
<1>2. KeyInv /\ SigInv => AggSigVerifies
  <2> SUFFICES ASSUME KeysTypeOK, SigInv, Complete(psig), ~psig[1].ses.infinite
               PROVE  FinalVerifies(psig[1].ses, psig)
    BY DEF KeyInv, AggSigVerifies
  <2> DEFINE ses == psig[1].ses
  <2>1. 1 \in Signers  BY MuSigAssumption DEF Signers
  <2>2. ASSUME NEW i \in Signers
        PROVE  /\ psig[i] # Zero /\ psig[i].made /\ psig[i].ses = ses
               /\ psig[i].by = ses.by /\ psig[i].id = ses.from[i]
    BY DEF Complete
  <2>3. ASSUME NEW i \in Signers PROVE MadeSound(i, psig[i])
    BY <2>2 DEF SigInv, PartialSigsSound
  <2>4. SessionSound(ses)  BY <2>1, <2>3 DEF MadeSound
  <2>5. ASSUME NEW i \in Signers
        PROVE  psig[i].s = PartialSigValue(ses.from[i], sk[i], ses.by, ses)
    BY <2>2, <2>3 DEF MadeSound
  <2> HIDE DEF ses
  <2>6. ~ses.infinite  BY DEF ses
  <2>7. FinalVerifies(ses, psig)  BY <2>4, <2>5, <2>6, AggregateVerifies
  <2> QED  BY <2>7 DEF ses
<1>3. KeyInv /\ SigInv => SignaturesSound  BY <1>1, <1>2 DEF SignaturesSound
<1> QED  BY <1>3, SpecSigInv, PTL
=============================================================================
