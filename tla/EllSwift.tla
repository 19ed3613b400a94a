------------------------------ MODULE EllSwift ------------------------------
(***************************************************************************)
(* modules/ellswift/main_impl.h: public keys that look like random bytes,  *)
(* and the exchange of BIP-324 on them.  The shared X coordinate is        *)
(* computed by the steps of ecmult_const_xonly (Ecmult).                   *)
(***************************************************************************)
EXTENDS Ecmult, SwiftEC

CONSTANTS
    Numbers,   \* what 32 bytes may hold
    SecretPairs, \* the pairs of secret keys of two parties, as numbers in 32 bytes
    Candidates \* what SHA256(hasher || cnt) gives for u

VARIABLE ell   \* the call to the module: what it is given and has computed

ellvars == <<ell, vars>>

-----------------------------------------------------------------------------
(***************************************************************************)
(* Calls: one decoding; the partial inverses of one x and u; or an         *)
(* exchange, in which both parties create or encode their keys, and then   *)
(* call secp256k1_ellswift_xdh, party 0 (who is A) first.                  *)
(***************************************************************************)
Call(fn, args)  == [fn |-> fn, args |-> args, keys |-> <<>>, out |-> <<>>]
NoCall          == Call("none", <<>>)
IsSeckey(k)     == k \in 1 .. N-1
XOf(k)          == Multiple[k][1]

EllInit ==
    \/ Init /\ ell = NoCall
    \/ /\ \/ \E u, w \in Numbers : ell = Call("decode", <<u, w>>)
          \/ \E k \in 1 .. (N-1) \div 2, u \in 1 .. P-1 : ell = Call("inverse", <<XOf(k), u>>)
          \/ \E secrets \in SecretPairs : ell = Call("exchange", secrets)
       /\ alg = "none" /\ in = <<>> /\ ng = 0 /\ pc = "idle" /\ t = <<>> /\ i = -1 /\ r = GejInfinity

Idle(fn) == ell.fn = fn /\ pc = "idle"

Decode ==
    /\ Idle("decode") /\ ell.out = <<>>
    /\ ell' = [ell EXCEPT !.out = <<ellswift_decode([u |-> ell.args[1], t |-> ell.args[2]])>>]
    /\ UNCHANGED vars

Invert ==
    /\ Idle("inverse") /\ ell.out = <<>>
    /\ ell' = [ell EXCEPT !.out = [c \in 1 .. 8 |->
                   xswiftec_inv_var(SetB32Mod(ell.args[1]), SetB32Mod(ell.args[2]), c - 1)]]
    /\ UNCHANGED vars

\* secp256k1_ec_pubkey_create_helper takes 1 for an invalid key; create fails then, and
\* its output is cleared.
KeyOf(secret)  == IF IsSeckey(secret) THEN secret ELSE 1
PubkeyOf(k)    == GeSetXY(Stored(Multiple[k][1]), Stored(Multiple[k][2]))
Found(e, clear) == [u |-> IF clear THEN 0 ELSE e.u, t |-> IF clear THEN 0 ELSE e.t]

\* The search ends at the first u and c with a t; any may come first.
SearchEnds(k, clear) == \E u \in Candidates, c \in 0 .. 7 :
    LET e == elligatorswift_var(PubkeyOf(k), u, c)
    IN  e.ret /\ ell' = [ell EXCEPT !.keys = Append(@, Found(e, clear))]

\* secp256k1_ellswift_create, for the next party; or encode, for A's public key
Create ==
    /\ Idle("exchange") /\ Len(ell.keys) < 2
    /\ SearchEnds(KeyOf(ell.args[Len(ell.keys) + 1]), ~IsSeckey(ell.args[Len(ell.keys) + 1]))
    /\ UNCHANGED vars

\* secp256k1_ellswift_xdh: party 0 is A, whose key comes first; theirs is the
\* other one's.
Theirs(party)     == ell.keys[IF party = 1 THEN 1 ELSE 2]
TheirX(party)     == xswiftec_frac_var(SetB32Mod(Theirs(party).u), SetB32Mod(Theirs(party).t))
XonlyCall(f, s)   == <<[p |-> GejInfinity, k |-> Quotient(f).v, z |-> 1, n |-> s,
                        xn |-> f.xn, xd |-> f.xd]>>

XdhCall ==
    /\ Idle("exchange") /\ Len(ell.keys) = 2 /\ Len(ell.out) < 2
    /\ alg' = "xonly" /\ pc' = "call"
    /\ in' = XonlyCall(TheirX(Len(ell.out)), KeyOf(ell.args[Len(ell.out) + 1]))
    /\ UNCHANGED <<ell, ng, t, i, r>>

\* What both hash functions hash: both keys, A's first, and the X coordinate.
\* Mutant: a party puts its own key first.
Hashed_OwnFirst(party, x) == <<ell.keys[party + 1], ell.keys[2 - party], x>>

Hashed(party, x) == <<ell.keys[1], ell.keys[2], x>>

XdhReturn ==
    /\ ell.fn = "exchange" /\ pc = "done"
    /\ ell' = [ell EXCEPT !.out =
                   Append(@, [ret |-> IsSeckey(ell.args[Len(@) + 1]),
                              out |-> Hashed(Len(@), Normalize(XonlyResult).v)])]
    /\ pc' = "idle" /\ alg' = "none" /\ in' = <<>> /\ t' = <<>> /\ r' = GejInfinity
    /\ UNCHANGED <<ng, i>>

EllNext ==
    \/ Next /\ UNCHANGED ell
    \/ Decode \/ Invert \/ Create \/ XdhCall \/ XdhReturn

EllSpec == EllInit /\ [][EllNext]_ellvars

-----------------------------------------------------------------------------
(***************************************************************************)
(* Every pair of field elements decodes to a point of the curve, with the  *)
(* parity of t.  Of the partial inverses "no two distinct c values give    *)
(* the same successful result", "every successful result maps back to x",  *)
(* and all t that map back are reached but for 0 and for roots of          *)
(* -(u^3 + B) (main_impl.h).  Every key has an encoding, and it decodes to *)
(* the key.                                                                *)
(***************************************************************************)
DecodedSound(p, odd) ==
    /\ IsGe(p) /\ (p.y.v % 2 = 1) = odd
    /\ \E k \in 1 .. N-1 : AffineOf(p) = Multiple[k]

MapsTo(u, x) ==
    {w \in 1 .. P-1 : /\ (u * u * u + w * w + B) % P # 0
                      /\ xswiftec_var(Stored(u), Stored(w)).v = x}
InvertedSound(x, u, ts) ==
    /\ \A c \in DOMAIN ts : IsFe(ts[c].t)
    /\ {ts[c].t.v : c \in {d \in DOMAIN ts : ts[d].ret}} = MapsTo(u, x)
    /\ \A c, d \in DOMAIN ts : ts[c].ret /\ ts[d].ret /\ ts[c].t.v = ts[d].t.v => c = d

EncodedSound(secret, key) ==
    IF IsSeckey(secret) THEN AffineOf(ellswift_decode(key)) = Multiple[secret]
                        ELSE key = [u |-> 0, t |-> 0]
HasEncoding(secret) == \E u \in 1 .. P-1, c \in 0 .. 7 :
    elligatorswift_var(PubkeyOf(KeyOf(secret)), u, c).ret

EncodingsSound ==
    /\ ell.fn = "decode" /\ ell.out # <<>> => DecodedSound(ell.out[1], (ell.args[2] % P) % 2 = 1)
    /\ ell.fn = "inverse" /\ ell.out # <<>> => InvertedSound(ell.args[1], ell.args[2], ell.out)
    /\ Idle("exchange") /\ ell.out = <<>> =>
           /\ \A j \in 1 .. 2 : HasEncoding(ell.args[j])
           /\ \A j \in DOMAIN ell.keys : EncodedSound(ell.args[j], ell.keys[j])

(***************************************************************************)
(* Both parties of an exchange hash the same, whichever encodings of their *)
(* keys they have sent and with whatever magnitudes the fraction comes out *)
(* of the decoding: the X coordinate of their Diffie-Hellman point.  A     *)
(* party without a valid key is told so.                                   *)
(***************************************************************************)
SharedSecretsAgree ==
    ell.fn = "exchange" =>
        /\ \A j \in DOMAIN ell.out : ell.out[j].ret = IsSeckey(ell.args[j])
        /\ Len(ell.out) = 2 /\ IsSeckey(ell.args[1]) /\ IsSeckey(ell.args[2]) =>
               /\ ell.out[1].out = ell.out[2].out
               /\ ell.out[1].out[3] = XOf((ell.args[1] * ell.args[2]) % N)
=============================================================================
