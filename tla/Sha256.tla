------------------------------- MODULE Sha256 ------------------------------
(***************************************************************************)
(* hash_impl.h: SHA-256 over a compression function that the user may      *)
(* replace (fn_sha256_compression), written to in pieces; HMAC; the        *)
(* generator of RFC 6979 and the nonce function that secp256k1.c feeds it  *)
(* with.  Sizes are those of the code: blocks of 64 bytes, digests of 32.  *)
(* Of the compression function nothing is assumed.                         *)
(***************************************************************************)
EXTENDS Words

CONSTANTS
    Compress(_, _),   \* fn_sha256_compression on one block: eight words, 64 bytes -> eight words
    InitialState,     \* the eight words of secp256k1_sha256_initialize
    Pieces,           \* lengths that are written at once
    KeyLengths,       \* lengths of HMAC keys
    Outputs,          \* lengths asked of the generator
    MaxMessage, MaxGenerated   \* bounds: bytes of a message, requests to a generator

\* Numbers are 32 bits wide here, so what is hashed is below 2^28 bytes.
MaxHashed == 268435456
ASSUME Sha256Assumption ==
    /\ MaxMessage \in Nat /\ MaxMessage + 128 < MaxHashed
    /\ KeyLengths \subseteq 0 .. MaxHashed - 1 /\ Pieces \subseteq Nat /\ Outputs \subseteq Nat

\* Byte i of what is written, and bytes that nothing was written to.
ByteOf(i) == (i * 37 + 11) % 251
Unwritten == [i \in 1 .. 64 |-> 204]
Repeat(x, n) == [i \in 1 .. n |-> x]

\* Words are shifted by 24, 16 and 8 bits and cut to bytes.
write_be32(x) == <<(x \div 16777216) % 256, (x \div 65536) % 256, (x \div 256) % 256, x % 256>>

\* The state after all whole blocks of data.
Blocks(s, data) ==
    LET after[n \in 0 .. Len(data) \div 64] ==
            IF n = 0 THEN s ELSE Compress(after[n-1], SubSeq(data, 64 * n - 63, 64 * n))
    IN  after[Len(data) \div 64]

-----------------------------------------------------------------------------
(* SHA-256 *)

initialize == [s |-> InitialState, buf |-> Unwritten, bytes |-> 0]
initialize_midstate(bytes, state) == [s |-> state, buf |-> Unwritten, bytes |-> bytes]

\* secp256k1_sha256_write: first what fills the buffer, then whole blocks of
\* the input, then the rest into the buffer.
Put(buf, at, data) == SubSeq(buf, 1, at) \o data \o SubSeq(buf, at + Len(data) + 1, 64)

Keep(s, h, at, rest) == [s |-> s, buf |-> Put(h.buf, at, rest), bytes |-> h.bytes]
Direct(s, h, at, data) ==
    Keep(Blocks(s, data), h, at, SubSeq(data, Len(data) - (Len(data) % 64) + 1, Len(data)))
FillFrom(h, buf, data, chunk) ==
    Direct(Compress(h.s, buf), [h EXCEPT !.buf = buf], 0, SubSeq(data, chunk + 1, Len(data)))

\* Mutant: input that fills the buffer exactly is left in it.
Into_NotFull(h, data, bufsize) ==
    IF bufsize > 0 /\ Len(data) > 64 - bufsize
    THEN FillFrom(h, Put(h.buf, bufsize, SubSeq(data, 1, 64 - bufsize)), data, 64 - bufsize)
    ELSE IF bufsize > 0 THEN Keep(h.s, h, bufsize, data) ELSE Direct(h.s, h, 0, data)

Into(h, data, bufsize) ==
    IF bufsize > 0 /\ Len(data) >= 64 - bufsize
    THEN FillFrom(h, Put(h.buf, bufsize, SubSeq(data, 1, 64 - bufsize)), data, 64 - bufsize)
    ELSE IF bufsize > 0 THEN Keep(h.s, h, bufsize, data) ELSE Direct(h.s, h, 0, data)
write(h, data) == Into([h EXCEPT !.bytes = @ + Len(data)], data, h.bytes % 64)

\* secp256k1_sha256_finalize: the size in bits is two words, bytes >> 29 and
\* bytes << 3.
Padding(bytes)  == <<128>> \o Zeros((119 - (bytes % 64)) % 64)
SizeDesc(bytes) == write_be32(bytes \div 536870912) \o write_be32(bytes * 8)
DigestOf(s)     == Tuple([i \in 1 .. 32 |-> write_be32(s[(i + 3) \div 4])[((i - 1) % 4) + 1]])
finalize(h)     == DigestOf(write(write(h, Padding(h.bytes)), SizeDesc(h.bytes)).s)

initialize_tagged(tag) ==
    LET buf == finalize(write(initialize, tag)) IN write(write(initialize, buf), buf)
tagged_sha256(tag, msg) == finalize(write(initialize_tagged(tag), msg))

-----------------------------------------------------------------------------
(* HMAC *)

XorBit(a, b, p)  == (((a \div p) + (b \div p)) % 2) * p
Xor(a, b) ==
    XorBit(a, b, 1) + XorBit(a, b, 2) + XorBit(a, b, 4) + XorBit(a, b, 8)
        + XorBit(a, b, 16) + XorBit(a, b, 32) + XorBit(a, b, 64) + XorBit(a, b, 128)
XorAll(bytes, x) == Tuple([i \in 1 .. Len(bytes) |-> Xor(bytes[i], x)])
RKey(key) ==
    IF Len(key) <= 64 THEN key \o Zeros(64 - Len(key)) ELSE finalize(write(initialize, key)) \o Zeros(32)

Keyed(rkey) ==
    [outer |-> write(initialize, XorAll(rkey, 92)),
     inner |-> write(initialize, XorAll(XorAll(rkey, 92), Xor(92, 54)))]
hmac_initialize(key)    == Keyed(RKey(key))
hmac_write(hmac, data)  == [hmac EXCEPT !.inner = write(@, data)]
hmac_finalize(hmac)     == finalize(write(hmac.outer, finalize(hmac.inner)))

Hmac1(k, a)       == hmac_finalize(hmac_write(hmac_initialize(k), a))
Hmac3(k, a, b, c) ==
    hmac_finalize(hmac_write(hmac_write(hmac_write(hmac_initialize(k), a), b), c))

-----------------------------------------------------------------------------
(* The generator of RFC 6979: k is replaced first, then v under the new k. *)

WithV(k, v)         == [k |-> k, v |-> Hmac1(k, v)]
Rekey(rng, x, key)  == WithV(Hmac3(rng.k, rng.v, <<x>>, key), rng.v)
Fresh               == [v |-> Repeat(1, 32), k |-> Repeat(0, 32)]
Retry(rng, retry)   == [v |-> rng.v, k |-> rng.k, retry |-> retry, out |-> <<>>]
rfc6979_initialize(key) == Retry(Rekey(Rekey(Fresh, 0, key), 1, key), FALSE)

\* One round of the loop: left bytes are still to be filled.
Emit(g, k, left) ==
    LET v == Hmac1(k, g.v)
    IN  [v |-> v, out |-> g.out \o SubSeq(v, 1, IF left > 32 THEN 32 ELSE left)]
Generated(rng, outlen) ==
    LET after[i \in 0 .. (outlen + 31) \div 32] ==
            IF i = 0 THEN [v |-> rng.v, out |-> <<>>] ELSE Emit(after[i-1], rng.k, outlen - 32 * (i-1))
        g == after[(outlen + 31) \div 32]
    IN  [v |-> g.v, k |-> rng.k, retry |-> TRUE, out |-> g.out]

\* Mutant: the generator goes on without new keys.
Ready_NoRetry(rng) == rng

Ready(rng) == IF rng.retry THEN Retry(Rekey(rng, 0, <<>>), TRUE) ELSE rng
rfc6979_generate(rng, outlen) == Generated(Ready(rng), outlen)

\* nonce_function_rfc6979_impl.  Absent arguments are empty; msg32 is already
\* reduced modulo the order.
KeyData(key32, msgmod32, data, algo16) == key32 \o msgmod32 \o data \o algo16
Counted(rng, counter) ==
    LET asked[i \in 0 .. counter] == rfc6979_generate(IF i = 0 THEN rng ELSE asked[i-1], 32)
    IN  asked[counter].out
nonce_function_rfc6979(key32, msgmod32, data, algo16, counter) ==
    Counted(rfc6979_initialize(KeyData(key32, msgmod32, data, algo16)), counter)

-----------------------------------------------------------------------------
(***************************************************************************)
(* The standards, on whole messages: FIPS 180-4 pads a message with a one  *)
(* bit, as few zeros as needed, and its length; RFC 2104 hashes twice; RFC *)
(* 6979, section 3.2, replaces K and V.                                    *)
(***************************************************************************)
PaddedMessage(m) ==
    LET zeros == CHOOSE k \in 0 .. 63 : (Len(m) + 1 + k + 8) % 64 = 0
    IN  m \o <<128>> \o Zeros(zeros + 4) \o write_be32(8 * Len(m))
StdDigest(m) == DigestOf(Blocks(InitialState, PaddedMessage(m)))
StdTagged(tag, m) == StdDigest(StdDigest(tag) \o StdDigest(tag) \o m)

StdKey(k) == IF Len(k) > 64 THEN StdDigest(k) ELSE k
Padded64(k) == k \o Zeros(64 - Len(k))
StdHmac(k, m) ==
    StdDigest(XorAll(Padded64(StdKey(k)), 92) \o StdDigest(XorAll(Padded64(StdKey(k)), 54) \o m))

StdV(K, V)          == [K |-> K, V |-> StdHmac(K, V)]
StdUpdate(kv, data) == StdV(StdHmac(kv.K, kv.V \o data), kv.V)
StdStart(seed) ==
    StdUpdate(StdUpdate([K |-> Repeat(0, 32), V |-> Repeat(1, 32)], <<0>> \o seed), <<1>> \o seed)
StdRound(kv, t) == [V |-> StdHmac(kv.K, t.V), T |-> t.T \o StdHmac(kv.K, t.V)]
StdT(kv, qlen) ==
    LET t[i \in 0 .. qlen] == IF i = 0 THEN [V |-> kv.V, T |-> <<>>] ELSE StdRound(kv, t[i-1])
        last == CHOOSE i \in 0 .. qlen :
                    Len(t[i].T) >= qlen /\ \A j \in 0 .. i - 1 : Len(t[j].T) < qlen
    IN  [kv |-> [K |-> kv.K, V |-> t[last].V], T |-> SubSeq(t[last].T, 1, qlen)]

-----------------------------------------------------------------------------
\* Registers: a hash with the message so far, an HMAC with its key and
\* message, a generator with the K and V of the standard, its requests so far, and
\* whether each of them was for a nonce.
Message(from, len) == Tuple([i \in 1 .. len |-> ByteOf(from + i)])

HashReg(h, msg, done, out) ==
    [unit |-> "sha256", h |-> h, msg |-> msg, done |-> done, out |-> out]
HmacReg(key, h, msg, done, out) ==
    [unit |-> "hmac", key |-> key, h |-> h, msg |-> msg, done |-> done, out |-> out]
RngReg(key, rng, kv, out, want, n, nonces) ==
    [unit |-> "rfc6979", key |-> key, rng |-> rng, kv |-> kv, out |-> out, want |-> want, n |-> n,
     nonces |-> nonces]

Tag == Message(1000, 13)
KeyOf(len)  == Message(2000, len)
SeedOf(len) == Message(3000, len)
TagBlock == StdDigest(Tag) \o StdDigest(Tag)

\* A midstate is what the hash of the tag block leaves.
HashInit ==
    \/ st = HashReg(initialize, <<>>, FALSE, <<>>)
    \/ st = HashReg(initialize_midstate(64, Blocks(InitialState, TagBlock)), TagBlock, FALSE, <<>>)
    \/ st = HashReg(initialize_tagged(Tag), TagBlock, FALSE, <<>>)
    \/ \E len \in KeyLengths : LET key == KeyOf(len) IN
           st = HmacReg(key, hmac_initialize(key), <<>>, FALSE, <<>>)
    \/ \E len \in {64, 80, 96, 112} : LET key == SeedOf(len) IN
           st = RngReg(key, rfc6979_initialize(key), StdStart(key), <<>>, <<>>, 0, TRUE)

HashWrite == \E len \in Pieces :
    /\ st.unit = "sha256" /\ ~st.done /\ Len(st.msg) + len <= MaxMessage
    /\ LET data == Message(Len(st.msg), len)
       IN  st' = HashReg(write(st.h, data), st.msg \o data, FALSE, <<>>)

HashFinalize ==
    /\ st.unit = "sha256" /\ ~st.done
    /\ st' = HashReg(st.h, st.msg, TRUE, finalize(st.h))

HmacWrite == \E len \in Pieces :
    /\ st.unit = "hmac" /\ ~st.done /\ Len(st.msg) + len <= MaxMessage \div 2
    /\ LET data == Message(Len(st.msg), len)
       IN  st' = HmacReg(st.key, hmac_write(st.h, data), st.msg \o data, FALSE, <<>>)

HmacFinalize ==
    /\ st.unit = "hmac" /\ ~st.done
    /\ st' = HmacReg(st.key, st.h, st.msg, TRUE, hmac_finalize(st.h))

\* The standard's loop: on a retry K and V are replaced first.
StdNext(kv, n, len) == StdT(IF n = 0 THEN kv ELSE StdUpdate(kv, <<0>>), len)
RngGenerate == \E len \in Outputs :
    /\ st.unit = "rfc6979" /\ st.n < MaxGenerated
    /\ LET rng  == rfc6979_generate(st.rng, len)
           want == StdNext(st.kv, st.n, len)
       IN  st' = RngReg(st.key, rng, want.kv, rng.out, want.T, st.n + 1, st.nonces /\ len = 32)

HashNext == HashWrite \/ HashFinalize \/ HmacWrite \/ HmacFinalize \/ RngGenerate

HashSpec == HashInit /\ [][HashNext]_st

(***************************************************************************)
(* However a message is cut into pieces, its digest is that of FIPS 180-4, *)
(* and its HMAC that of RFC 2104, whatever the length of the key; a tagged *)
(* hash (BIP-340) begins with the digest of the tag, twice.  At any        *)
(* moment the state has absorbed the whole blocks and the buffer begins    *)
(* with the rest, whatever else is still in it.                            *)
(***************************************************************************)
DigestIsOfMessage ==
    /\ st.unit = "sha256" =>
        /\ st.h.s = Blocks(InitialState, st.msg)
        /\ st.h.bytes = Len(st.msg)
        /\ LET rest == Len(st.msg) % 64
           IN  SubSeq(st.h.buf, 1, rest) = SubSeq(st.msg, Len(st.msg) - rest + 1, Len(st.msg))
        /\ st.done => st.out = StdDigest(st.msg) /\ tagged_sha256(Tag, st.msg) = StdTagged(Tag, st.msg)
    /\ st.unit = "hmac" /\ st.done => st.out = StdHmac(st.key, st.msg)

(***************************************************************************)
(* The generator gives the bytes of RFC 6979, for every length and after   *)
(* every retry; and the nonce of attempt n, for which the signer starts a  *)
(* new generator, is what request n of one generator gives, and not what   *)
(* an earlier one gave: each attempt has a nonce of its own.               *)
(***************************************************************************)
Part(i, j) == SubSeq(st.key, i, j)
NonceOf(counter) ==
    nonce_function_rfc6979(Part(1, 32), Part(33, 64), Part(65, 96), Part(97, 112), counter)
OnlyNonces == st.n > 0 /\ st.nonces /\ Len(st.key) = 112
FollowsRfc6979 == st.unit = "rfc6979" =>
    /\ st.out = st.want
    /\ st.rng.k = st.kv.K /\ st.rng.v = st.kv.V
    /\ OnlyNonces => NonceOf(st.n - 1) = st.out
NoncesDiffer == st.unit = "rfc6979" =>
    (OnlyNonces => \A counter \in 0 .. st.n - 2 : NonceOf(counter) # st.out)
NonceIsRfc6979 == FollowsRfc6979 /\ NoncesDiffer
=============================================================================
