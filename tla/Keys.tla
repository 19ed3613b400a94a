-------------------------------- MODULE Keys --------------------------------
(***************************************************************************)
(* Keys and what is made of them: the key functions of src/src/secp256k1.c *)
(* with eckey_impl.h, the extrakeys module, BIP-340 signing                *)
(* (modules/schnorrsig) and ECDH (modules/ecdh).  An owner derives secret  *)
(* keys from secret keys, as a seckey or as a keypair; a watcher, who only *)
(* has the public key, follows each derivation with the function for       *)
(* public keys.  A function that fails overwrites its result with zeros,   *)
(* and callers may go on with that: the illegal callback returns.          *)
(***************************************************************************)
EXTENDS Curve

CONSTANT Bytes  \* what 32 bytes can encode, which may be too large for a scalar

\* N is prime: a product of scalars is 0 only if one of them is.
ASSUME KeysAssumption ==
    /\ Bytes \subseteq Nat
    /\ \A a, b \in 1 .. N-1 : Times(a, b) # 0

VARIABLES
    form,      \* whether the owner has the key as a "seckey" or a "keypair"
    seckey, keypair,
    internal,  \* the x-only key the owner has published, or None
    tweak,     \* what he has tweaked the keypair with since, or None
    sig,       \* his last signature, with its challenge, or NoSig
    pubkey,    \* of the watcher
    xonly,
    op,        \* what the owner has done and the watcher has not followed yet
    agreed     \* history: both functions have returned the same

owner   == <<form, seckey, keypair, internal, tweak, sig>>
watcher == <<pubkey, xonly>>
vars    == <<owner, watcher, op, agreed>>

None  == -1
NoSig == [r |-> None, s |-> None, e |-> None, ret |-> FALSE]
NoOp  == [kind |-> "none", tweak |-> 0, ret |-> TRUE]

\* secp256k1_scalar_set_b32 and its overflow; secp256k1_scalar_set_b32_seckey
SetB32(b)   == b % N
Overflow(b) == b >= N
IsSeckey(b) == b # 0 /\ ~Overflow(b)

Parity(P) == IF IsOdd(P) THEN 1 ELSE 0

\* secp256k1_ec_pubkey_create (zeros, 0, for an invalid secret key)
Created(b) == IF IsSeckey(b) THEN Times(b, G) ELSE 0

\* secp256k1_ec_seckey_tweak_add_helper and _pubkey_tweak_add_helper: what
\* they return, and the result
SecTweaks(sec, t) == ~Overflow(t) /\ Plus(sec, SetB32(t)) # 0
SecTweaked(sec, t) == Plus(sec, SetB32(t))
PubTweaks(P, t) == ~Overflow(t) /\ Plus(P, Times(SetB32(t), G)) # Infinity
PubTweaked(P, t) == Plus(P, Times(SetB32(t), G))

Init ==
    /\ form = "seckey" /\ seckey \in Bytes
    /\ keypair = [sec |-> 0, pub |-> 0]
    /\ internal = None /\ tweak = None /\ sig = NoSig
    /\ pubkey = 0 /\ xonly = 0
    /\ op = [kind |-> "create", tweak |-> 0, ret |-> IsSeckey(seckey)]
    /\ agreed = TRUE

-----------------------------------------------------------------------------
(* The owner, with a seckey *)

\* The function for secret keys has returned ret and left key.
Derive(kind, t, ret, key) ==
    /\ form = "seckey" /\ op = NoOp
    /\ seckey' = IF ret THEN key ELSE 0
    /\ op' = [kind |-> kind, tweak |-> t, ret |-> ret]
    /\ UNCHANGED <<form, keypair, internal, tweak, sig, watcher, agreed>>

SeckeyNegate == Derive("negate", 0, IsSeckey(seckey), Neg(SetB32(seckey)))

SeckeyTweakAdd(t) ==
    Derive("add", t, IsSeckey(seckey) /\ SecTweaks(SetB32(seckey), t),
           SecTweaked(SetB32(seckey), t))

SeckeyTweakMul(t) ==
    Derive("mul", t, IsSeckey(seckey) /\ ~Overflow(t) /\ SetB32(t) # 0,
           Times(SetB32(seckey), SetB32(t)))

KeypairCreate ==
    /\ form = "seckey" /\ op = NoOp
    /\ form' = "keypair"
    /\ keypair' = [sec |-> IF IsSeckey(seckey) THEN seckey ELSE 0, pub |-> Created(seckey)]
    /\ internal' = None /\ tweak' = None /\ sig' = NoSig
    /\ UNCHANGED <<seckey, watcher, op, agreed>>

-----------------------------------------------------------------------------
(* The owner, with a keypair *)

\* secp256k1_keypair_load: whether it succeeds and, with the dummies it
\* leaves otherwise, what.
Loads    == keypair.pub # 0 /\ IsSeckey(keypair.sec)
LoadedSk == IF Loads THEN keypair.sec ELSE 1
LoadedPk == IF Loads THEN keypair.pub ELSE G

\* The secret key of the point with even Y.
EvenSk == IF IsOdd(LoadedPk) THEN Neg(LoadedSk) ELSE LoadedSk

KeypairSec ==
    /\ form = "keypair" /\ op = NoOp
    /\ form' = "seckey"
    /\ seckey' = keypair.sec
    /\ UNCHANGED <<keypair, internal, tweak, sig, watcher, op, agreed>>

\* Without the secret key, which is not loaded.
KeypairXonlyPub ==
    /\ form = "keypair" /\ op = NoOp
    /\ internal' = IF keypair.pub # 0 THEN EvenY(keypair.pub) ELSE 0
    /\ tweak' = None
    /\ UNCHANGED <<form, seckey, keypair, sig, watcher, op, agreed>>

\* Mutant: the secret key is not negated with the point.
KeypairXonlyTweakAdd_ParityIgnored(t) ==
    LET ret == /\ Loads
               /\ SecTweaks(LoadedSk, t)
               /\ PubTweaks(EvenY(LoadedPk), t)
    IN  /\ form = "keypair" /\ op = NoOp
        /\ keypair' = IF ret THEN [sec |-> SecTweaked(LoadedSk, t),
                                   pub |-> PubTweaked(EvenY(LoadedPk), t)]
                             ELSE [sec |-> 0, pub |-> 0]
        /\ op' = [kind |-> "xonly", tweak |-> t, ret |-> ret]
        /\ tweak' = IF internal # None /\ tweak = None THEN t ELSE None
        /\ internal' = IF tweak = None THEN internal ELSE None
        /\ sig' = NoSig
        /\ UNCHANGED <<form, seckey, watcher, agreed>>

\* Mutant: a keypair that cannot be tweaked is kept.
KeypairXonlyTweakAdd_KeptOnFailure(t) ==
    LET ret == /\ Loads
               /\ SecTweaks(EvenSk, t)
               /\ PubTweaks(EvenY(LoadedPk), t)
    IN  /\ form = "keypair" /\ op = NoOp
        /\ keypair' = IF ret THEN [sec |-> SecTweaked(EvenSk, t),
                                   pub |-> PubTweaked(EvenY(LoadedPk), t)]
                             ELSE keypair
        /\ op' = [kind |-> "xonly", tweak |-> t, ret |-> ret]
        /\ tweak' = IF internal # None /\ tweak = None THEN t ELSE None
        /\ internal' = IF tweak = None THEN internal ELSE None
        /\ sig' = NoSig
        /\ UNCHANGED <<form, seckey, watcher, agreed>>

KeypairXonlyTweakAdd(t) ==
    LET ret == /\ Loads
               /\ SecTweaks(EvenSk, t)
               /\ PubTweaks(EvenY(LoadedPk), t)
    IN  /\ form = "keypair" /\ op = NoOp
        /\ keypair' = IF ret THEN [sec |-> SecTweaked(EvenSk, t),
                                   pub |-> PubTweaked(EvenY(LoadedPk), t)]
                             ELSE [sec |-> 0, pub |-> 0]
        /\ op' = [kind |-> "xonly", tweak |-> t, ret |-> ret]
        /\ tweak' = IF internal # None /\ tweak = None THEN t ELSE None
        /\ internal' = IF tweak = None THEN internal ELSE None
        /\ sig' = NoSig
        /\ UNCHANGED <<form, seckey, watcher, agreed>>

\* secp256k1_schnorrsig_sign_internal: a nonce function writes b and returns
\* ok, and the challenge of the message is e.
Nonce(ok, b) == IF Loads /\ ok /\ SetB32(b) # 0 THEN SetB32(b) ELSE 1

\* Mutant: the nonce is not negated for an odd point.
SchnorrsigSign_NonceParityIgnored(ok, b, e) ==
    LET ret == Loads /\ ok /\ SetB32(b) # 0
        k   == Nonce(ok, b)
    IN  /\ form = "keypair"
        /\ sig' = IF ret THEN [r |-> EvenY(Times(k, G)), s |-> Plus(Times(e, EvenSk), k),
                               e |-> e, ret |-> ret]
                         ELSE [r |-> 0, s |-> 0, e |-> e, ret |-> ret]
        /\ UNCHANGED <<form, seckey, keypair, internal, tweak, watcher, op, agreed>>

SchnorrsigSign(ok, b, e) ==
    LET ret == Loads /\ ok /\ SetB32(b) # 0
        k   == IF IsOdd(Times(Nonce(ok, b), G)) THEN Neg(Nonce(ok, b)) ELSE Nonce(ok, b)
    IN  /\ form = "keypair"
        /\ sig' = IF ret THEN [r |-> EvenY(Times(Nonce(ok, b), G)),
                               s |-> Plus(Times(e, EvenSk), k), e |-> e, ret |-> ret]
                         ELSE [r |-> 0, s |-> 0, e |-> e, ret |-> ret]
        /\ UNCHANGED <<form, seckey, keypair, internal, tweak, watcher, op, agreed>>

-----------------------------------------------------------------------------
(* The watcher *)

\* The function for public keys has returned ret and left key.
Follow(ret, key) ==
    /\ pubkey' = IF ret THEN key ELSE 0
    /\ agreed' = (ret = op.ret)
    /\ op' = NoOp
    /\ UNCHANGED <<owner, xonly>>

PubkeyCreate == op.kind = "create" /\ Follow(IsSeckey(seckey), Created(seckey))

PubkeyNegate == op.kind = "negate" /\ Follow(pubkey # 0, Neg(pubkey))

PubkeyTweakAdd ==
    /\ op.kind = "add"
    /\ Follow(pubkey # 0 /\ PubTweaks(pubkey, op.tweak), PubTweaked(pubkey, op.tweak))

\* The same with the point of the tweak; both points are valid, as the
\* result of pubkey_load is not looked at.
PubkeyCombine ==
    /\ op.kind = "add" /\ pubkey # 0 /\ IsSeckey(op.tweak)
    /\ LET Q == Plus(pubkey, Created(op.tweak))
       IN  Follow(Q # Infinity, Q)

PubkeyTweakMul ==
    /\ op.kind = "mul"
    /\ Follow(~Overflow(op.tweak) /\ pubkey # 0 /\ SetB32(op.tweak) # 0,
              Times(pubkey, SetB32(op.tweak)))

\* Nothing is written if the key is invalid, and the watcher stops there.
XonlyFromPubkey ==
    /\ op.kind = "xonly" /\ pubkey # 0
    /\ xonly' = EvenY(pubkey)
    /\ op' = [op EXCEPT !.kind = "output"]
    /\ UNCHANGED <<owner, pubkey, agreed>>

XonlyFromInvalid == op.kind = "xonly" /\ pubkey = 0 /\ Follow(FALSE, 0)

XonlyTweakAdd ==
    /\ op.kind = "output"
    /\ Follow(xonly # 0 /\ PubTweaks(xonly, op.tweak), PubTweaked(xonly, op.tweak))

\* The owner gives the public key out.
KeypairPub ==
    /\ op.kind = "xonly"
    /\ pubkey' = keypair.pub
    /\ op' = NoOp
    /\ UNCHANGED <<owner, xonly, agreed>>

\* secp256k1_xonly_pubkey_tweak_add_check; x names a point by its X coordinate
TweakAddCheck(x, parity, P, t) ==
    /\ P # 0 /\ PubTweaks(P, t)
    /\ EvenY(PubTweaked(P, t)) = x
    /\ Parity(PubTweaked(P, t)) = parity

\* secp256k1_ecdh: what it returns, and the point that is hashed
EcdhReturns(b)  == IsSeckey(b)
EcdhPoint(P, b) == Times(IF IsSeckey(b) THEN b ELSE 1, P)

Next ==
    \/ SeckeyNegate \/ KeypairCreate \/ KeypairSec \/ KeypairXonlyPub
    \/ \E t \in Bytes : SeckeyTweakAdd(t) \/ SeckeyTweakMul(t) \/ KeypairXonlyTweakAdd(t)
    \/ \E ok \in BOOLEAN, b \in Bytes, e \in Scalars : SchnorrsigSign(ok, b, e)
    \/ PubkeyCreate \/ PubkeyNegate \/ PubkeyTweakAdd \/ PubkeyCombine \/ PubkeyTweakMul
    \/ XonlyFromPubkey \/ XonlyFromInvalid \/ XonlyTweakAdd \/ KeypairPub

Spec == Init /\ [][Next]_vars

-----------------------------------------------------------------------------
\* The public key of the owner.
Public == IF form = "seckey" THEN Created(seckey) ELSE keypair.pub

(***************************************************************************)
(* Whatever is derived, and whatever fails on the way: both functions      *)
(* return the same, the watcher's key is the owner's or both are invalid,  *)
(* a keypair consists of matching halves, and with a third party both      *)
(* arrive at the same ECDH point.                                          *)
(***************************************************************************)
WatcherFollows ==
    /\ agreed
    /\ keypair.pub = Created(keypair.sec)
    /\ op = NoOp =>
          /\ pubkey = Public
          /\ form = "seckey" /\ pubkey # 0 =>
                \A b \in Bytes : IsSeckey(b) =>
                    /\ EcdhReturns(seckey)
                    /\ EcdhPoint(Created(b), seckey) = EcdhPoint(pubkey, b)

(***************************************************************************)
(* secp256k1_xonly_pubkey_tweak_add_check accepts the key of a tweaked     *)
(* keypair, with its parity, as a commitment of the key that was published *)
(* before to the tweak, and nothing else; after a failed tweak nothing.    *)
(***************************************************************************)
CommitmentOpens ==
    form = "keypair" /\ internal # None /\ tweak # None =>
        \A P \in 1 .. N-1, parity \in {0, 1} :
            TweakAddCheck(EvenY(P), parity, internal, tweak)
                <=> /\ keypair.pub # 0
                    /\ EvenY(P) = EvenY(keypair.pub) /\ parity = Parity(keypair.pub)

(***************************************************************************)
(* A signature verifies under the x-only key of the watcher, however the   *)
(* keypair was derived; what a failed call leaves verifies under no key.   *)
(***************************************************************************)
SignaturesVerify ==
    form = "keypair" /\ sig # NoSig =>
        IF sig.ret
            THEN op = NoOp => SchnorrVerify(sig.r, sig.s, sig.e, EvenY(pubkey))
            ELSE \A e \in Scalars, P \in 1 .. N-1 :
                    ~SchnorrVerify(sig.r, sig.s, e, EvenY(P))
=============================================================================
