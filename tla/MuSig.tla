------------------------------- MODULE MuSig -------------------------------
(***************************************************************************)
(* The MuSig2 module (src/src/modules/musig): key aggregation, tweaking,   *)
(* nonce generation, sessions and partial signatures, as calls of the      *)
(* signers, of whoever aggregates, and of the caller between them, in any  *)
(* order.  A structure of the API is its logical content, or Zero when its *)
(* magic is missing (never initialized, or overwritten with zeros).        *)
(*                                                                         *)
(* Fields that the code does not store but the properties need, named      *)
(* apart at each structure, record where a value came from.  The hashes    *)
(* are constant operators; a nonce is named by the randomness it was       *)
(* derived from.                                                           *)
(***************************************************************************)
EXTENDS Curve, FiniteSetsExt

CONSTANTS
    NumSigners,         \* signer i has the key at position i of the key list
    KeyLists,           \* the lists of secret keys the signers may have
    Msgs,               \* messages
    Tweaks,             \* tweaks given to tweak_add; N stands for an overflow
    MaxTweaks,          \* bound: tweaks applied to a key
    MaxNonces,          \* bound: 32-byte randomness or counter values supplied
    Nonce,              \* Nonce[id] = <<k1, k2>>, what the nonce function returns
    Received,           \* what secp256k1_musig_partial_sig_parse reads; N for an overflow
    HKeyAgg(_, _),      \* tagged hash of pks_hash and pk
    HNonce(_, _, _),    \* tagged hash of aggnonce, agg_pk and msg
    HChallenge(_, _, _) \* BIP-340 challenge of nonce, msg and agg_pk

Signers == 1 .. NumSigners

\* Randomness r used with a secret key that does not verify gives another
\* nonce than r used with a valid one.
Ids       == 1 .. 2 * MaxNonces
FailedId(r) == r + MaxNonces

ASSUME MuSigAssumption ==
    /\ NumSigners \in Nat \ {0}
    /\ KeyLists \subseteq [Signers -> 1 .. N-1]
    /\ Tweaks \subseteq 0 .. N
    /\ MaxTweaks \in Nat
    /\ MaxNonces \in Nat
    /\ Nonce \in [Ids -> (1 .. N-1) \X (1 .. N-1)]
    /\ Received \subseteq 0 .. N
    /\ \A L \in KeyLists : \A P \in Points : HKeyAgg(L, P) \in Scalars
    /\ \A x \in Points, msg \in Msgs :
          /\ \A pts \in Points \X Points : HNonce(pts, x, msg) \in Scalars
          /\ \A R \in Points : HChallenge(R, msg, x) \in Scalars

VARIABLES
    sk,        \* secret keys; signer i's public key is sk[i]*G
    cache,     \* secp256k1_musig_keyagg_cache, the same for everyone
    ntweaks,   \* tweaks applied to the cache
    secrand,   \* each signer's session_secrand32 buffer (0: all zero bytes)
    secnonce,  \* each signer's secp256k1_musig_secnonce
    pubnonce,  \* each signer's secp256k1_musig_pubnonce
    aggnonce,  \* secp256k1_musig_aggnonce
    session,   \* secp256k1_musig_session, the same for everyone until the next one
    psig,      \* each signer's secp256k1_musig_partial_sig, as others hold it
    supply,    \* randomness handed out so far
    born,      \* nonces that were written to a secnonce
    uses       \* how many partial signatures each nonce computed

keys   == <<sk, cache, ntweaks>>
nonces == <<secrand, secnonce, pubnonce, supply, born, uses>>
vars   == <<keys, nonces, aggnonce, session, psig>>

Zero == [magic |-> FALSE]

-----------------------------------------------------------------------------
(* Key aggregation *)

\* The first key that differs from the first one, or infinity.
SecondPk(pks) ==
    LET others == {i \in Signers : pks[i] # pks[1]}
    IN  IF others = {} THEN Infinity ELSE pks[Min(others)]

\* secp256k1_musig_keyaggcoef_internal; pks_hash is injective in the list.
KeyAggCoef(pks, second, pk) ==
    IF second # Infinity /\ pk = second THEN 1 ELSE HKeyAgg(pks, pk)

SumOver(f(_)) == MapThenSumSet(f, Signers) % N

AggregateKey(pks) ==
    SumOver(LAMBDA i : Times(KeyAggCoef(pks, SecondPk(pks), pks[i]), pks[i]))

\* secp256k1_musig_pubkey_agg.  "The resulting public key is infinity with
\* negligible probability": such key lists are left out.
PubkeyAgg ==
    /\ AggregateKey(sk) \in Points \ {Infinity}
    /\ cache' = [magic |-> TRUE, pk |-> AggregateKey(sk), second_pk |-> SecondPk(sk),
                 pks |-> sk, parity_acc |-> 0, tweak |-> 0]
    /\ ntweaks' = 0
    /\ UNCHANGED <<sk, nonces, aggnonce, session, psig>>

\* Mutant: the accumulated tweak keeps its sign when the key is negated.
XonlyNegated_TweakKept(c, xonly) ==
    IF xonly /\ IsOdd(c.pk)
    THEN [c EXCEPT !.pk = Neg(@), !.parity_acc = 1 - @]
    ELSE c

\* secp256k1_musig_pubkey_tweak_add_internal on a local copy of the cache:
\* the copy after the x-only negation, before the tweak is added.
XonlyNegated(c, xonly) ==
    IF xonly /\ IsOdd(c.pk)
    THEN [c EXCEPT !.pk = Neg(@), !.parity_acc = 1 - @, !.tweak = Neg(@)]
    ELSE c

Tweaked(c, tweak, xonly) ==
    LET d == XonlyNegated(c, xonly)
    IN  [d EXCEPT !.tweak = Plus(@, tweak), !.pk = Plus(@, tweak)]

TweakAddFails(c, tweak, xonly) ==
    c = Zero \/ tweak = N \/ Tweaked(c, tweak, xonly).pk = Infinity

\* secp256k1_musig_pubkey_ec_tweak_add and _xonly_tweak_add
PubkeyTweakAdd(tweak, xonly) ==
    /\ ntweaks < MaxTweaks
    /\ IF TweakAddFails(cache, tweak, xonly)
       THEN UNCHANGED <<cache, ntweaks>>
       ELSE /\ cache' = Tweaked(cache, tweak, xonly)
            /\ ntweaks' = ntweaks + 1
    /\ UNCHANGED <<sk, nonces, aggnonce, session, psig>>

-----------------------------------------------------------------------------
(* Nonces *)

\* The caller fills its buffer with randomness never used before.
FillSecrand(i) ==
    /\ supply < MaxNonces
    /\ supply' = supply + 1
    /\ secrand' = [secrand EXCEPT ![i] = supply + 1]
    /\ UNCHANGED <<keys, secnonce, pubnonce, born, uses, aggnonce, session, psig>>

\* secp256k1_musig_nonce_gen_internal: the secnonce written, the pubnonce
\* written, and the return value, for randomness r.  withCache: the optional
\* keyagg_cache argument is given; validSec: no seckey argument or a valid one.
GenInternal(i, r, validSec, withCache) ==
    IF withCache /\ cache = Zero
    THEN [sec |-> Zero, pub |-> 0, ret |-> FALSE]
    ELSE [sec |-> IF validSec THEN [magic |-> TRUE, id |-> r, pk |-> sk[i]] ELSE Zero,
          pub |-> IF validSec THEN r ELSE FailedId(r),
          ret |-> validSec]

StoreNonce(i, gen) ==
    /\ secnonce' = [secnonce EXCEPT ![i] = gen.sec]
    /\ pubnonce' = [pubnonce EXCEPT ![i] = gen.pub]
    /\ born' = IF gen.sec = Zero THEN born ELSE born \cup {gen.sec.id}

\* Mutant: the caller's buffer is left as it is.
NonceGen_BufferKept(i, validSec, withCache) ==
    /\ secrand[i] # 0
    /\ StoreNonce(i, GenInternal(i, secrand[i], validSec, withCache))
    /\ UNCHANGED <<keys, secrand, supply, uses, aggnonce, session, psig>>

\* secp256k1_musig_nonce_gen
NonceGen(i, validSec, withCache) ==
    LET r   == secrand[i]
        gen == GenInternal(i, r, validSec, withCache)
    IN  /\ IF r = 0
           THEN /\ secnonce' = [secnonce EXCEPT ![i] = Zero]
                /\ UNCHANGED <<secrand, pubnonce, born>>
           ELSE /\ StoreNonce(i, gen)
                /\ secrand' = IF gen.ret THEN [secrand EXCEPT ![i] = 0] ELSE secrand
        /\ UNCHANGED <<keys, supply, uses, aggnonce, session, psig>>

\* secp256k1_musig_nonce_gen_counter with a counter value never used before.
NonceGenCounter(i, withCache) ==
    /\ supply < MaxNonces
    /\ supply' = supply + 1
    /\ StoreNonce(i, GenInternal(i, supply + 1, TRUE, withCache))
    /\ UNCHANGED <<keys, secrand, uses, aggnonce, session, psig>>

\* secp256k1_musig_nonce_agg of every signer's public nonce.  from: whose.
NonceAgg ==
    /\ IF \E i \in Signers : pubnonce[i] = 0
       THEN UNCHANGED aggnonce
       ELSE aggnonce' = [magic |-> TRUE,
                         pts   |-> <<SumOver(LAMBDA i : Nonce[pubnonce[i]][1]),
                                     SumOver(LAMBDA i : Nonce[pubnonce[i]][2])>>,
                         from  |-> pubnonce]
    /\ UNCHANGED <<keys, nonces, session, psig>>

-----------------------------------------------------------------------------
(* Sessions and partial signatures *)

\* secp256k1_effective_nonce
EffectiveNonce(pts, b) == Plus(pts[1], Times(b, pts[2]))

\* Mutant: the tweak's part of the signature keeps its sign for an odd
\* aggregate key.
SessionOf_TweakSign(agg, msg, c) ==
    LET x   == EvenY(c.pk)
        b   == HNonce(agg.pts, x, msg)
        R   == EffectiveNonce(agg.pts, b)
        fin == IF R = Infinity THEN G ELSE R
        e   == HChallenge(EvenY(fin), msg, x)
    IN  [magic |-> TRUE, parity |-> IsOdd(fin), fin_nonce |-> EvenY(fin),
         noncecoef |-> b, challenge |-> e, s_part |-> Times(e, c.tweak),
         by |-> c, msg |-> msg, from |-> agg.from, infinite |-> R = Infinity]

\* secp256k1_musig_nonce_process and its _internal; by, msg and from record
\* the cache, the message and the public nonces the session was made from.
SessionOf(agg, msg, c) ==
    LET x   == EvenY(c.pk)
        b   == HNonce(agg.pts, x, msg)
        R   == EffectiveNonce(agg.pts, b)
        fin == IF R = Infinity THEN G ELSE R
        e   == HChallenge(EvenY(fin), msg, x)
        et  == Times(e, c.tweak)
    IN  [magic |-> TRUE, parity |-> IsOdd(fin), fin_nonce |-> EvenY(fin),
         noncecoef |-> b, challenge |-> e,
         s_part |-> IF IsOdd(c.pk) THEN Neg(et) ELSE et,
         by |-> c, msg |-> msg, from |-> agg.from, infinite |-> R = Infinity]

NonceProcess(msg) ==
    /\ session' = IF cache = Zero \/ aggnonce = Zero THEN session
                  ELSE SessionOf(aggnonce, msg, cache)
    /\ UNCHANGED <<keys, nonces, aggnonce, psig>>

\* The sign of the secret key: Y parity of the aggregate key, and parity_acc.
NegatesKey(c) == IsOdd(c.pk) # (c.parity_acc = 1)

\* Mutant: the secret nonces are not negated for an odd final nonce.
PartialSigValue_ParityIgnored(id, d, c, ses) ==
    LET signed == IF NegatesKey(c) THEN Neg(d) ELSE d
        dmu    == Times(signed, KeyAggCoef(c.pks, c.second_pk, d))
    IN  Plus(Times(ses.challenge, dmu),
             Plus(Nonce[id][1], Times(ses.noncecoef, Nonce[id][2])))

\* The scalar secp256k1_musig_partial_sign computes.
PartialSigValue(id, d, c, ses) ==
    LET signed == IF NegatesKey(c) THEN Neg(d) ELSE d
        dmu    == Times(signed, KeyAggCoef(c.pks, c.second_pk, d))
        k(j)   == IF ses.parity THEN Neg(Nonce[id][j]) ELSE Nonce[id][j]
    IN  Plus(Times(ses.challenge, dmu), Plus(k(1), Times(ses.noncecoef, k(2))))

(***************************************************************************)
(* secp256k1_musig_partial_sign by signer i with the keypair of signer j.  *)
(* The secnonce is loaded and zeroed before any other argument is looked   *)
(* at.  id, key, by and ses record what the signature was computed from.   *)
(***************************************************************************)
PartialSign(i, j) ==
    LET nonce == secnonce[i]
    IN  /\ secnonce' = [secnonce EXCEPT ![i] = Zero]
        /\ IF \/ nonce = Zero
              \/ nonce.pk # sk[j]
              \/ cache = Zero
              \/ session = Zero
           THEN UNCHANGED <<psig, uses>>
           ELSE /\ psig' = [psig EXCEPT ![i] =
                              [magic |-> TRUE, s |-> PartialSigValue(nonce.id, sk[j], cache, session),
                               made |-> TRUE, id |-> nonce.id, by |-> cache, ses |-> session]]
                /\ uses' = [uses EXCEPT ![nonce.id] = IF @ < 2 THEN @ + 1 ELSE @]
        /\ UNCHANGED <<keys, secrand, pubnonce, supply, born, aggnonce, session>>

\* secp256k1_musig_partial_sig_parse: a partial signature of signer i arrives.
\* The parser accepts every scalar; an overflow leaves the structure zeroed.
PartialSigParse(i, s) ==
    /\ psig' = [psig EXCEPT ![i] = IF s = N THEN Zero
                                            ELSE [magic |-> TRUE, s |-> s, made |-> FALSE]]
    /\ UNCHANGED <<keys, nonces, aggnonce, session>>

\* secp256k1_musig_partial_sig_verify
PartialSigVerify(sig, id, pk, c, ses) ==
    LET e0 == Times(ses.challenge, KeyAggCoef(c.pks, c.second_pk, pk))
        e  == IF NegatesKey(c) THEN Neg(e0) ELSE e0
        r0 == EffectiveNonce(Nonce[id], ses.noncecoef)
        r  == IF ses.parity THEN Neg(r0) ELSE r0
    IN  Plus(Plus(Neg(sig), Times(e, pk)), r) = Infinity

\* secp256k1_musig_partial_sig_agg: the scalar s of the signature.
PartialSigAgg(ses, sigs) == Plus(ses.s_part, SumOver(LAMBDA i : sigs[i].s))

-----------------------------------------------------------------------------
Init ==
    /\ sk \in KeyLists
    /\ cache = Zero /\ ntweaks = 0
    /\ secrand = [i \in Signers |-> 0]
    /\ secnonce = [i \in Signers |-> Zero]
    /\ pubnonce = [i \in Signers |-> 0]
    /\ aggnonce = Zero
    /\ session = Zero
    /\ psig = [i \in Signers |-> Zero]
    /\ supply = 0 /\ born = {}
    /\ uses = [id \in Ids |-> 0]

Next ==
    \/ PubkeyAgg
    \/ \E tweak \in Tweaks, xonly \in BOOLEAN : PubkeyTweakAdd(tweak, xonly)
    \/ NonceAgg
    \/ \E msg \in Msgs : NonceProcess(msg)
    \/ \E i \in Signers :
          \/ FillSecrand(i)
          \/ \E validSec, withCache \in BOOLEAN : NonceGen(i, validSec, withCache)
          \/ \E withCache \in BOOLEAN : NonceGenCounter(i, withCache)
          \/ \E j \in Signers : PartialSign(i, j)
          \/ \E s \in Received : PartialSigParse(i, s)

Spec == Init /\ [][Next]_vars

-----------------------------------------------------------------------------
CacheType ==
    [magic : {TRUE}, pk : 1 .. N-1, second_pk : Points, pks : KeyLists,
     parity_acc : {0, 1}, tweak : Scalars]

KeysTypeOK ==
    /\ sk \in KeyLists
    /\ cache = Zero \/ cache \in CacheType
    /\ ntweaks \in 0 .. MaxTweaks

SecNonceType == [magic : {TRUE}, id : 1 .. MaxNonces, pk : 1 .. N-1]

NoncesTypeOK ==
    /\ secrand \in [Signers -> 0 .. MaxNonces]
    /\ secnonce \in [Signers -> SecNonceType \cup {Zero}]
    /\ pubnonce \in [Signers -> 0 .. 2 * MaxNonces]
    /\ supply \in 0 .. MaxNonces
    /\ born \subseteq 1 .. MaxNonces
    /\ uses \in [Ids -> 0 .. 2]

SignaturesTypeOK ==
    /\ session # Zero =>
          /\ session.parity \in BOOLEAN
          /\ session.fin_nonce \in (1 .. N-1) \ OddY
          /\ session.s_part \in Scalars
    /\ \A i \in Signers : psig[i] # Zero => psig[i].s \in Scalars

TypeOK == KeysTypeOK /\ NoncesTypeOK /\ SignaturesTypeOK

(***************************************************************************)
(* A nonce computes at most one partial signature, and a nonce whose       *)
(* generation returned 0 computes none, whatever the calls: repeated       *)
(* partial_sign, repeated nonce_gen with one buffer, a sign that fails     *)
(* after the nonce was loaded (session_impl.h:605-673).                    *)
(***************************************************************************)
NonceSignsOnce ==
    /\ \A id \in Ids : uses[id] <= 1
    /\ \A r \in 1 .. MaxNonces : uses[FailedId(r)] = 0

(***************************************************************************)
(* The cache of a tweaked key stands for g*Q + tweak*G, Q the aggregate of *)
(* the keys and g = -1 when parity_acc is 1, after any sequence of plain   *)
(* and x-only tweaks, failed ones included ("tweak is identical to value   *)
(* tacc[v]", "parity_acc corresponds to (1 - gacc[v])/2", keyagg.h:21-24). *)
(***************************************************************************)
TweakSound ==
    cache # Zero =>
        LET Q == AggregateKey(cache.pks)
        IN  cache.pk = Plus(IF cache.parity_acc = 1 THEN Neg(Q) ELSE Q, cache.tweak)

(***************************************************************************)
(* Every partial signature that partial_sign returns passes                *)
(* partial_sig_verify for its signer's public nonce and key, the cache and *)
(* the session it was made with.                                           *)
(***************************************************************************)
PartialSigsVerify ==
    \A i \in Signers : (psig[i] # Zero /\ psig[i].made) =>
        PartialSigVerify(psig[i].s, psig[i].id, sk[i], psig[i].by, psig[i].ses)

(***************************************************************************)
(* When every signer signed in the same session, with the nonce it         *)
(* contributed and the cache the session was made with, the aggregate is a *)
(* valid BIP-340 signature of the message under the (tweaked) aggregate    *)
(* key, unless the aggregate nonce is infinity (which nonce_process        *)
(* replaces by G).                                                         *)
(***************************************************************************)
Complete(sigs) ==
    \A i \in Signers :
        /\ sigs[i] # Zero
        /\ sigs[i].made
        /\ sigs[i].ses = sigs[1].ses
        /\ sigs[i].by = sigs[i].ses.by
        /\ sigs[i].id = sigs[i].ses.from[i]

FinalVerifies(ses, sigs) ==
    SchnorrVerify(ses.fin_nonce, PartialSigAgg(ses, sigs), ses.challenge, EvenY(ses.by.pk))

AggSigVerifies ==
    (Complete(psig) /\ ~psig[1].ses.infinite) => FinalVerifies(psig[1].ses, psig)

(***************************************************************************)
(* What signers make is accepted, by each other and by everybody: both of  *)
(* the above.                                                              *)
(***************************************************************************)
SignaturesSound == PartialSigsVerify /\ AggSigVerifies

(***************************************************************************)
(* MuSig implements the one-time use of nonces.                            *)
(***************************************************************************)
NonceStatus == [id \in Ids |->
    IF \E i \in Signers : secnonce[i] # Zero /\ secnonce[i].id = id THEN "held"
    ELSE IF id \in born THEN "gone" ELSE "unborn"]

Abstract == INSTANCE OneTimeNonce WITH
    status <- NonceStatus, signed <- {id \in Ids : uses[id] > 0}

ImplementsOneTimeNonce == Abstract!Spec

(***************************************************************************)
(* "It is not required to call this function in regular MuSig sessions,    *)
(* because if any partial signature does not verify, the final signature   *)
(* will not verify either" (include/secp256k1_musig.h:537-539), for the    *)
(* partial signatures an aggregator holds.                                 *)
(***************************************************************************)
BadPartialSigIsCaught ==
    (/\ session # Zero
     /\ \A i \in Signers : psig[i] # Zero
     /\ FinalVerifies(session, psig)) =>
        \A i \in Signers :
            PartialSigVerify(psig[i].s, session.from[i], sk[i], session.by, session)
=============================================================================
