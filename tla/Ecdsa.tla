------------------------------- MODULE Ecdsa -------------------------------
(***************************************************************************)
(* ECDSA signing, verification, normalization and public key recovery      *)
(* (src/src/ecdsa_impl.h, src/src/secp256k1.c and the recovery module).    *)
(* The signing loop takes one attempt per step; its nonces come from the   *)
(* caller's nonce function.  A 32-byte string is the number it encodes,    *)
(* which may be too large for a scalar.                                    *)
(***************************************************************************)
EXTENDS Curve

CONSTANTS
    P,         \* the order of the field
    X,         \* the X coordinates of the points
    Bytes,     \* what 32 bytes can encode
    MaxCount   \* bound: failed attempts in a call

\* A point and its negative share their X coordinate, others do not.  Fewer
\* than N field elements, and byte strings, are too large for a scalar.  N
\* is prime.
ASSUME EcdsaAssumption ==
    /\ P \in Nat /\ N < P /\ P < 2 * N
    /\ X \in [1 .. N-1 -> 0 .. P-1]
    /\ \A a, b \in 1 .. N-1 : X[a] = X[b] <=> b \in {a, Neg(a)}
    /\ Bytes \subseteq 0 .. 2 * N - 1
    /\ \A a \in 1 .. N-1 : \E b \in 1 .. N-1 : Times(a, b) = 1
    /\ MaxCount \in Nat

VARIABLES
    seckey, msg,   \* arguments
    pc,
    count,         \* failed attempts
    r, s, recid,   \* the recoverable signature of the caller
    ret            \* what the last call returned

args == <<seckey, msg>>
sig  == <<r, s, recid>>
vars == <<args, pc, count, sig, ret>>

Fail == -1

\* secp256k1_scalar_set_b32 and its overflow; secp256k1_scalar_set_b32_seckey
SetB32(b)   == b % N
Overflow(b) == b >= N
IsSeckey(b) == b # 0 /\ ~Overflow(b)

ScalarInverse(a) == CHOOSE b \in 1 .. N-1 : Times(a, b) = 1
IsHigh(a)  == a > N \div 2

Init ==
    /\ seckey \in Bytes /\ msg \in Bytes
    /\ pc = "idle"
    /\ count = 0
    /\ r = 0 /\ s = 0 /\ recid = 0
    /\ ret = 0

-----------------------------------------------------------------------------
(* secp256k1_ecdsa_sign_recoverable; secp256k1_ecdsa_sign is the same      *)
(* without recid                                                           *)

\* The key that signs: 1 in place of an invalid one.
Sec == IF IsSeckey(seckey) THEN seckey ELSE 1

\* secp256k1_ecdsa_sig_sign with nonce k
SigR(k)   == SetB32(X[k])
SigS(k)   == Times(ScalarInverse(k), Plus(Times(SigR(k), Sec), SetB32(msg)))
LowS(k)   == IF IsHigh(SigS(k)) THEN Neg(SigS(k)) ELSE SigS(k)

\* Mutant: the parity does not follow s.
RecId_ParityKept(k) == (IF Overflow(X[k]) THEN 2 ELSE 0) + (IF IsOdd(k) THEN 1 ELSE 0)

\* Twice the overflow of X, plus the parity of the point with s and its
\* negation taken into account.
RecId(k) ==
    (IF Overflow(X[k]) THEN 2 ELSE 0) + (IF IsOdd(k) # IsHigh(SigS(k)) THEN 1 ELSE 0)

SignStart ==
    /\ pc = "idle"
    /\ pc' = "signing"
    /\ r' = 0 /\ s' = 0 /\ recid' = 0
    /\ UNCHANGED <<args, count, ret>>

\* The end of the loop: a failure returns an all-zero signature.
Return(v, k) ==
    /\ pc' = "signed"
    /\ ret' = v
    /\ IF v = 1 THEN r' = SigR(k) /\ s' = LowS(k) /\ recid' = RecId(k)
                ELSE r' = 0 /\ s' = 0 /\ recid' = 0
    /\ UNCHANGED count

\* The nonce function fails.
NonceFails ==
    /\ pc = "signing"
    /\ Return(0, Fail)
    /\ UNCHANGED args

\* It returns an invalid nonce, or one with which r or s is zero.
TryAgain(nonce32) ==
    /\ pc = "signing" /\ count < MaxCount
    /\ IF IsSeckey(nonce32)
       THEN /\ SigR(nonce32) = 0 \/ SigS(nonce32) = 0
            /\ r' = SigR(nonce32) /\ s' = LowS(nonce32) /\ recid' = RecId(nonce32)
       ELSE UNCHANGED sig
    /\ count' = count + 1
    /\ UNCHANGED <<args, pc, ret>>

\* Mutant: the range of the key is not included in the result.
Sign_KeyUnchecked(nonce32) ==
    /\ pc = "signing"
    /\ IsSeckey(nonce32) /\ SigR(nonce32) # 0 /\ SigS(nonce32) # 0
    /\ Return(1, nonce32)
    /\ UNCHANGED args

Sign(nonce32) ==
    /\ pc = "signing"
    /\ IsSeckey(nonce32) /\ SigR(nonce32) # 0 /\ SigS(nonce32) # 0
    /\ Return(IF IsSeckey(seckey) THEN 1 ELSE 0, nonce32)
    /\ UNCHANGED args

-----------------------------------------------------------------------------
(* Signatures that come from elsewhere *)

\* secp256k1_ecdsa_recoverable_signature_parse_compact
ParseCompact(r32, s32, id) ==
    /\ pc = "idle"
    /\ pc' = "parsed"
    /\ IF Overflow(r32) \/ Overflow(s32)
       THEN ret' = 0 /\ r' = 0 /\ s' = 0 /\ recid' = 0
       ELSE ret' = 1 /\ r' = SetB32(r32) /\ s' = SetB32(s32) /\ recid' = id
    /\ UNCHANGED <<args, count>>

\* secp256k1_ecdsa_signature_normalize, of the converted signature
Normalized(ss) == IF IsHigh(ss) THEN Neg(ss) ELSE ss

\* X(R) mod N = rr, without computing X(R)
XMatches(rr, R) == rr = X[R] \/ (rr < P - N /\ rr + N = X[R])

\* secp256k1_ecdsa_sig_verify
SigVerify(rr, ss, Q, m) ==
    /\ rr # 0 /\ ss # 0
    /\ LET R == Plus(Times(Times(ScalarInverse(ss), rr), Q), Times(ScalarInverse(ss), m))
       IN  R # Infinity /\ XMatches(rr, R)

\* secp256k1_ecdsa_verify
Verify(rr, ss, Q, m) == ~IsHigh(ss) /\ Q # Infinity /\ SigVerify(rr, ss, Q, m)

\* secp256k1_ge_set_xo_var: the points with this X coordinate and parity
Lifts(x, odd) == {R \in 1 .. N-1 : X[R] = x /\ IsOdd(R) = odd}

\* Mutant: r + N may leave the field.
RecoverX_Unchecked(rr, id) == IF id >= 2 THEN {(rr + N) % P} ELSE {rr}

\* The X coordinate a signature stands for, if there is one.
RecoverX(rr, id) ==
    IF id < 2 THEN {rr} ELSE IF rr < P - N THEN {rr + N} ELSE {}

\* secp256k1_ecdsa_recover: the public key, or Fail
Recover(rr, ss, id, m) ==
    LET Rs == UNION {Lifts(x, id % 2 = 1) : x \in RecoverX(rr, id)}
        Q  == Plus(Times(Times(ScalarInverse(rr), ss), CHOOSE R \in Rs : TRUE),
                   Neg(Times(ScalarInverse(rr), m)))
    IN  IF rr = 0 \/ ss = 0 \/ Rs = {} THEN Fail ELSE IF Q = Infinity THEN Fail ELSE Q

-----------------------------------------------------------------------------
Finished == pc \in {"signed", "parsed"} /\ UNCHANGED vars

Next ==
    \/ SignStart \/ NonceFails
    \/ \E nonce32 \in Bytes : TryAgain(nonce32) \/ Sign(nonce32)
    \/ \E r32, s32 \in Bytes, id \in 0 .. 3 : ParseCompact(r32, s32, id)
    \/ Finished

Spec == Init /\ [][Next]_vars

-----------------------------------------------------------------------------
M == SetB32(msg)

(***************************************************************************)
(* secp256k1.h: "Returns: 1: signature created; 0: the nonce generation    *)
(* function failed, or the secret key was invalid" and "The created        *)
(* signature is always in lower-S form": after any number of attempts a    *)
(* signature verifies under the signer's key and is in lower-S form, and a *)
(* failed call leaves one that verifies under no key.                      *)
(***************************************************************************)
SignatureVerifies ==
    pc = "signed" =>
        IF ret = 1 THEN IsSeckey(seckey) /\ ~IsHigh(s) /\ Verify(r, s, Times(seckey, G), M)
                   ELSE \A Q \in Points : ~Verify(r, s, Q, M)

(***************************************************************************)
(* The signer's key is recovered from every signature created, whatever    *)
(* the parity of the nonce, the sign of s and the overflow of r.           *)
(***************************************************************************)
SignerIsRecovered ==
    pc = "signed" /\ ret = 1 => Recover(r, s, recid, M) = Times(seckey, G)

(***************************************************************************)
(* Recovery and verification are two views of one relation, for all r and  *)
(* s anyone can pass: a recovered key verifies the normalized signature,   *)
(* and a key that verifies is what one of the four recids recovers.        *)
(***************************************************************************)
RecoveryIsVerification ==
    pc = "parsed" =>
        LET Q == Recover(r, s, recid, M)
        IN  /\ Q # Fail => Verify(r, Normalized(s), Q, M)
            /\ \A K \in 1 .. N-1 :
                  Verify(r, s, K, M) => \E id \in 0 .. 3 : Recover(r, s, id, M) = K
=============================================================================
